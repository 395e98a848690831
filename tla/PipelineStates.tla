--------------------------- MODULE PipelineStates ---------------------------
(***************************************************************************)
(* The life cycle of one e-mail: the members of PipelineState, the table   *)
(* of legal moves the orchestrator checks every write against, and what    *)
(* entering a state does to Redis (the channel it publishes on, the timer  *)
(* keys it sets and deletes).                                              *)
(***************************************************************************)

State ==
  {"EMAIL_RECEIVED", "CLASSIFYING", "DEDUP_CHECK", "VERIFYING",
   "ELIGIBILITY_CHECK", "URGENT_ESCALATED_TO_PA", "SCORING",
   "IN_PRIORITY_QUEUE", "FINDING_SLOT", "NO_SLOTS_REQUEUE", "SLOT_HELD",
   "PA_PENDING", "PA_APPROVED", "AUTO_APPROVED", "PA_REJECTED",
   "CONFIRMATION_SENT", "RSVP_PENDING", "RSVP_CONFIRMED",
   "RSVP_TIMEOUT_CANCELLED", "NEXT_IN_QUEUE_INVITED", "BOOKED",
   "DROPPED_NOT_CHARITY", "DROPPED_MISSING_INFO", "DROPPED_DUPLICATE",
   "DROPPED_NOT_VERIFIED", "DROPPED_WITHIN_90_DAYS", "MODEL_FAILURE",
   "AGENT_UNREACHABLE"}

\* The states StateMachine.transition accepts after s.
VALID_TRANSITIONS(s) ==
  CASE s = "EMAIL_RECEIVED"    -> {"CLASSIFYING"}
    [] s = "CLASSIFYING"       -> {"DEDUP_CHECK", "DROPPED_NOT_CHARITY",
                                   "DROPPED_MISSING_INFO", "MODEL_FAILURE"}
    [] s = "DEDUP_CHECK"       -> {"VERIFYING", "DROPPED_DUPLICATE"}
    [] s = "VERIFYING"         -> {"ELIGIBILITY_CHECK", "DROPPED_NOT_VERIFIED",
                                   "MODEL_FAILURE"}
    [] s = "ELIGIBILITY_CHECK" -> {"SCORING", "DROPPED_WITHIN_90_DAYS",
                                   "URGENT_ESCALATED_TO_PA"}
    [] s = "URGENT_ESCALATED_TO_PA" -> {"SCORING", "DROPPED_WITHIN_90_DAYS"}
    [] s = "SCORING"           -> {"IN_PRIORITY_QUEUE", "MODEL_FAILURE"}
    [] s = "IN_PRIORITY_QUEUE" -> {"FINDING_SLOT"}
    [] s = "FINDING_SLOT"      -> {"SLOT_HELD", "NO_SLOTS_REQUEUE"}
    [] s = "NO_SLOTS_REQUEUE"  -> {"FINDING_SLOT"}
    [] s = "SLOT_HELD"         -> {"PA_PENDING"}
    [] s = "PA_PENDING"        -> {"PA_APPROVED", "AUTO_APPROVED",
                                   "PA_REJECTED", "URGENT_ESCALATED_TO_PA"}
    [] s \in {"PA_APPROVED", "AUTO_APPROVED"} -> {"CONFIRMATION_SENT"}
    [] s = "CONFIRMATION_SENT" -> {"RSVP_PENDING"}
    [] s = "RSVP_PENDING"      -> {"RSVP_CONFIRMED", "RSVP_TIMEOUT_CANCELLED"}
    [] s = "RSVP_CONFIRMED"    -> {"BOOKED"}
    [] s = "RSVP_TIMEOUT_CANCELLED" -> {"NEXT_IN_QUEUE_INVITED"}
    [] s = "NEXT_IN_QUEUE_INVITED"  -> {"FINDING_SLOT"}
    [] s = "MODEL_FAILURE"     -> {"CLASSIFYING", "VERIFYING", "SCORING"}
    [] OTHER -> {}

\* The states with a Redis channel to publish on.
STATE_TO_CHANNEL ==
  {"DEDUP_CHECK", "ELIGIBILITY_CHECK", "SCORING", "IN_PRIORITY_QUEUE",
   "SLOT_HELD", "PA_APPROVED", "AUTO_APPROVED", "PA_REJECTED",
   "RSVP_CONFIRMED", "RSVP_TIMEOUT_CANCELLED", "MODEL_FAILURE",
   "AGENT_UNREACHABLE"}

TimerKind == {"pa_timeout", "rsvp_timeout"}

\* The timer keys that entering s sets (SETEX) and deletes (DEL).
TimersSet(s) ==
  CASE s = "PA_PENDING"   -> {"pa_timeout"}
    [] s = "RSVP_PENDING" -> {"rsvp_timeout"}
    [] OTHER -> {}

\* Mutant: a cancelled visit leaves its timer.
CancelForgotten(s) ==
  CASE s \in {"PA_APPROVED", "AUTO_APPROVED", "PA_REJECTED"} -> {"pa_timeout"}
    [] s = "RSVP_CONFIRMED" -> {"rsvp_timeout"}
    [] OTHER -> {}

TimersCancelled(s) ==
  CASE s \in {"PA_APPROVED", "AUTO_APPROVED", "PA_REJECTED"} -> {"pa_timeout"}
    [] s \in {"RSVP_CONFIRMED", "RSVP_TIMEOUT_CANCELLED"} -> {"rsvp_timeout"}
    [] OTHER -> {}

\* The states no move leaves.
Terminal == {s \in State : VALID_TRANSITIONS(s) = {}}
=============================================================================
