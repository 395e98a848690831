------------------------------- MODULE Scoring -------------------------------
(***************************************************************************)
(* The score of a request, prioritizer/scorer.py: four components of 0 to  *)
(* 25 points.  Signals are given by their points; what a model answers is  *)
(* a sequence of one number, or of none.                                   *)
(***************************************************************************)
EXTENDS Integers

\* The points of a signal that is in URGENCY_SCORES, and of any other.
URGENCY_SCORES == {25, 20, 15, 12, 10}
SignalPoints == URGENCY_SCORES \cup {0}

\* What a model answers: a number, or nothing with a score.
Answer == {<<>>} \cup {<<n>> : n \in Int}

Least(a, b) == IF a < b THEN a ELSE b
Clamp(n, high) == IF n < 0 THEN 0 ELSE Least(n, high)

\* points: those of the signals of the request.
compute_urgency_score(points) ==
  IF points = {} THEN 0
  ELSE Least(CHOOSE max \in points : \A p \in points : p <= max, 25)

\* Impact and reputation: the answer of the model, 10 when it fails or its
\* answer has no score.
ModelScore(answer) == IF answer = <<>> THEN 10 ELSE Clamp(answer[1], 25)

compute_impact_score(answer) == ModelScore(answer)

\* A cause of HIGH_CAUSE_KEYWORDS is not asked about.
compute_reputation_score(high_cause, answer) ==
  IF high_cause THEN 18 ELSE ModelScore(answer)

\* Five points for each seven days.
compute_queue_bonus(days_in_queue) ==
  IF days_in_queue <= 0 THEN 0 ELSE Least((days_in_queue \div 7) * 5, 25)

Sum(points, high_cause, impact, reputation, days_in_queue) ==
  compute_urgency_score(points) + compute_impact_score(impact)
    + compute_reputation_score(high_cause, reputation)
    + compute_queue_bonus(days_in_queue)

\* score_and_queue takes zero days in the queue; no code calls
\* compute_queue_bonus with any other.
Total(points, high_cause, impact, reputation, days_in_queue) ==
  Clamp(Sum(points, high_cause, impact, reputation, days_in_queue), 100)
=============================================================================
