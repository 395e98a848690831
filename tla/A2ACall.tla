------------------------------- MODULE A2ACall -------------------------------
(***************************************************************************)
(* What a handler may rely on when it awaits dispatch_task: the request    *)
(* reaches the agent at some time, or never; the call returns only after   *)
(* it did; or it fails, and then the request is in the dead letter list.   *)
(* Module Orchestrator dispatches in these steps.                          *)
(***************************************************************************)
CONSTANTS Call,    \* the dispatches
          Keyed    \* those made for a pipeline_id, which the dead letter
                   \* list needs

VARIABLES phase,    \* what the caller knows
          reached,  \* the requests the agent has received
          dlq       \* the dead letter list

Init ==
  /\ phase = [c \in Call |-> "idle"]
  /\ reached = {}
  /\ dlq = {}

Enter(c, from, to) ==
  /\ phase[c] = from
  /\ phase' = [phase EXCEPT ![c] = to]

Start(c) == Enter(c, "idle", "pending") /\ UNCHANGED <<reached, dlq>>

Reach(c) ==
  /\ phase[c] = "pending"
  /\ reached' = reached \cup {c}
  /\ UNCHANGED <<phase, dlq>>

Return(c) ==
  /\ c \in reached
  /\ Enter(c, "pending", "returned")
  /\ UNCHANGED <<reached, dlq>>

Fail(c) ==
  /\ Enter(c, "pending", "failed")
  /\ dlq' = dlq \cup ({c} \cap Keyed)
  /\ UNCHANGED reached

\* The push to the dead letter list raised, whether it took effect or not.
Lose(c) ==
  /\ Enter(c, "pending", "lost")
  /\ dlq' \in {dlq, dlq \cup ({c} \cap Keyed)}
  /\ UNCHANGED reached

Next ==
  \E c \in Call : Start(c) \/ Reach(c) \/ Return(c) \/ Fail(c) \/ Lose(c)

Spec == Init /\ [][Next]_<<phase, reached, dlq>>
=============================================================================
