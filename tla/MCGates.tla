------------------------------- MODULE MCGates -------------------------------
(* Two messages, of one organization or of two. *)
EXTENDS Gates, Scoring, TLC

Symmetric == Permutations(Email) \cup Permutations(Ein)

\* What tests/unit/test_phase4.py expects of the score, and the bounds that
\* GatesProofs proves, on small inputs.
ASSUME ScoresAsTested ==
  /\ compute_urgency_score({10, 25}) = 25 /\ compute_urgency_score({}) = 0
  /\ \A days \in {<<0, 0>>, <<6, 0>>, <<7, 5>>, <<14, 10>>, <<35, 25>>,
                  <<70, 25>>} : compute_queue_bonus(days[1]) = days[2]
  /\ \A points \in SUBSET SignalPoints, high_cause \in BOOLEAN,
        answer \in {<<>>, <<-3>>, <<0>>, <<25>>, <<400>>},
        days \in {-1, 0, 6, 7, 34, 35, 200} :
       Total(points, high_cause, answer, answer, days)
         = Sum(points, high_cause, answer, answer, days)
=============================================================================
