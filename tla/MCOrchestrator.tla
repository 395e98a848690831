---------------------------- MODULE MCOrchestrator ----------------------------
(***************************************************************************)
(* Instances of the orchestrator for TLC: task sets the other agents send. *)
(***************************************************************************)
EXTENDS OrchestratorProps, TLC

\* The way to a booking or a cancellation, without the refusals.
BookingTasks ==
  {t \in AnyTask :
     CASE t.type = "email.dropped" -> FALSE
       [] t.type = "dedup.result" -> ~t.duplicate /\ ~t.merged
       [] t.type = "org.verified" -> t.verified
       [] t.type = "eligibility.result" -> t.eligible # t.escalate
       [] t.type = "pa.decision" -> t.decision # "AUTO_APPROVED"
       [] t.type = "email.sent" -> t.template = "confirmation_rsvp"
       [] OTHER -> TRUE}

\* Every answer that moves a pipeline, as the agents send it to a
\* pipeline that waits for it.
AnswerTasks ==
  {t \in AnyTask :
     CASE t.type = "email.dropped" -> FALSE
       [] t.type = "dedup.result" -> ~t.merged
       [] t.type = "email.sent" -> t.template = "confirmation_rsvp"
       [] OTHER -> TRUE}

\* The automatic gates only, up to the search for a slot.
GateTasks ==
  {t \in AnyTask :
     t.type \notin {"pa.decision", "email.sent", "rsvp.outcome"}}

\* The way to a booking, and the escalation that asks the PA early.
VisitTasks ==
  {t \in AnswerTasks :
     CASE t.type = "dedup.result" -> ~t.duplicate
       [] t.type = "org.verified" -> t.verified
       [] t.type = "eligibility.result" -> t.eligible # t.escalate
       [] t.type = "calendar.no_slots" -> FALSE
       [] t.type = "pa.decision" -> t.decision = "APPROVED"
       [] t.type = "rsvp.outcome" -> t.next = "FINALIZE"
       [] OTHER -> TRUE}

\* The way to the priority queue, without the refusals.
ScoreTasks ==
  {t \in VisitTasks :
     /\ t.type \notin {"calendar.slot_found", "pa.decision", "email.sent",
                       "rsvp.outcome"}
     /\ t.type = "eligibility.result" => t.eligible}

\* Coroutines are interchangeable: no constant names one.
WorkerSymmetry == Permutations(Worker)
=============================================================================
