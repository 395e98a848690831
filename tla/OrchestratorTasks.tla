-------------------------- MODULE OrchestratorTasks --------------------------
(***************************************************************************)
(* The A2A tasks the orchestrator receives and its task handlers           *)
(* (agents/orchestrator/handlers.py).  A handler is straight-line code     *)
(* between awaits, so it is translated to the sequence of operations it    *)
(* awaits; module Orchestrator executes the operations one at a time, and  *)
(* other handlers run between any two of them.  The two handlers that      *)
(* decide on what they read (email.classified resumes, rsvp.outcome pulls  *)
(* from the queue) end in an operation that extends the sequence then.     *)
(***************************************************************************)
EXTENDS PipelineStates, Naturals, Sequences

CONSTANTS Pipeline,    \* the pipeline rows; email_id is UNIQUE, so a row
                       \* stands for its e-mail too
          Slot,        \* calendar slots, each with its tentative hold
          Score,       \* priority scores
          NoSlot,      \* NULL in pipeline.proposed_slot
          NoPipeline   \* a task payload without pipeline_id

ASSUME SlotAssumption == NoSlot \notin Slot
ASSUME PipelineAssumption == NoPipeline \notin Pipeline
ASSUME ScoreAssumption == Score \subseteq Nat

Agent == {"dedup_guard", "charity_verifier", "eligibility", "prioritizer",
          "calendar", "pa_notification", "email_composer", "rsvp_monitor"}

---------------------------------------------------------------------------
\* Tasks: the payload fields the handlers branch on or store.
EmailTask    == [type : {"email.classified", "email.dropped"}, p : Pipeline]
DedupTask    == [type : {"dedup.result"}, p : Pipeline,
                 duplicate : BOOLEAN, merged : BOOLEAN]
VerifiedTask == [type : {"org.verified"}, p : Pipeline, verified : BOOLEAN]
EligibleTask == [type : {"eligibility.result"}, p : Pipeline,
                 eligible : BOOLEAN, escalate : BOOLEAN]
ScoredTask   == [type : {"org.scored"}, p : Pipeline, score : Score]
SlotTask     == [type : {"calendar.slot_found"}, p : Pipeline, slot : Slot]
NoSlotsTask  == [type : {"calendar.no_slots"}, p : Pipeline]
DecisionTask == [type : {"pa.decision"}, p : Pipeline,
                 decision : {"APPROVED", "REJECTED", "AUTO_APPROVED"}]
SentTask     == [type : {"email.sent"}, p : Pipeline,
                 template : {"confirmation_rsvp", "rsvp_timeout_cancel"}]
RsvpTask     == [type : {"rsvp.outcome"}, p : Pipeline,
                 next : {"FINALIZE", "CANCEL_AND_PULL_NEXT"}]

AnyTask == EmailTask \cup DedupTask \cup VerifiedTask \cup EligibleTask
             \cup ScoredTask \cup SlotTask \cup NoSlotsTask
             \cup DecisionTask \cup SentTask \cup RsvpTask

\* The agent that reports with t; e-mails come from the watcher unasked.
Sender(t) ==
  CASE t.type = "dedup.result"       -> "dedup_guard"
    [] t.type = "org.verified"       -> "charity_verifier"
    [] t.type = "eligibility.result" -> "eligibility"
    [] t.type = "org.scored"         -> "prioritizer"
    [] t.type \in {"calendar.slot_found", "calendar.no_slots"} -> "calendar"
    [] t.type = "pa.decision"        -> "pa_notification"
    [] t.type = "email.sent"         -> "email_composer"
    [] t.type = "rsvp.outcome"       -> "rsvp_monitor"
    [] OTHER -> "email_watcher"

---------------------------------------------------------------------------
\* The states a handler, or receive_task, asks transition() for.
Target == State \ {"EMAIL_RECEIVED", "DROPPED_NOT_CHARITY",
                   "DROPPED_MISSING_INFO", "MODEL_FAILURE"}

\* Operations.  "read" and "write" are the two halves of
\* StateMachine.transition: the first reads the row and validates, the
\* second commits the new state on the strength of what was read ("from").
RowOp   == [op : {"create", "insert", "resume", "droplog", "book"},
            p : Pipeline]
ReadOp  == [op : {"read"}, p : Pipeline,
            to : Target, slot : Slot \cup {NoSlot}]
WriteOp == {o \in [op : {"write"}, p : Pipeline, from : State, to : Target,
                   slot : Slot \cup {NoSlot}] :
              o.to \in VALID_TRANSITIONS(o.from)}
EnterOp == [op : {"publish", "timers"}, p : Pipeline, to : Target]
QueueOp == [op : {"queue_select"}, p : Pipeline, score : Score]
\* Second half of an upsert that found no entry.
InsertOp == [op : {"queue_insert"}, p : Pipeline, score : Score]
EntryOp == [op : {"queue_update"}, entry : Nat \ {0}, score : Score]
PullOp  == [op : {"top"}, owner : Pipeline]
MarkOp  == [op : {"mark"}, entry : Nat \ {0}]
ApptOp  == [op : {"appoint"}, p : Pipeline, slot : Slot \cup {NoSlot}]
\* A dispatch on its way ("post") or waiting for the response ("ack");
\* owner is the pipeline_id of the task being handled.
CallOp  == [op : {"post", "ack"}, agent : Agent, p : Pipeline,
            slot : Slot \cup {NoSlot}, owner : Pipeline \cup {NoPipeline}]

\* What handlers consist of.  The two that only execution brings up go on
\* with what the operation before them read.
ScriptOp == RowOp \cup ReadOp \cup EnterOp \cup QueueOp \cup EntryOp
              \cup PullOp \cup MarkOp \cup ApptOp \cup CallOp

Op == ScriptOp \cup InsertOp \cup WriteOp

TransitionWith(p, to, slot) ==
  <<[op |-> "read", p |-> p, to |-> to, slot |-> slot]>>

Transition(p, to) == TransitionWith(p, to, NoSlot)

DispatchWith(agent, p, slot, owner) ==
  <<[op |-> "post", agent |-> agent, p |-> p, slot |-> slot,
     owner |-> owner]>>

Dispatch(agent, p) == DispatchWith(agent, p, NoSlot, p)

---------------------------------------------------------------------------
\* The handlers, one per task type.
HandleEmailClassified(t) ==
  <<[op |-> "create", p |-> t.p], [op |-> "resume", p |-> t.p]>>

\* What remains of handle_email_classified once it has read state s of the
\* row it created or found: a retried task takes up where the first left.
Resume(p, s) ==
  (IF s = "EMAIL_RECEIVED" THEN Transition(p, "CLASSIFYING") ELSE <<>>)
  \o (IF s \in {"EMAIL_RECEIVED", "CLASSIFYING"}
      THEN Transition(p, "DEDUP_CHECK") ELSE <<>>)
  \o (IF s \in {"EMAIL_RECEIVED", "CLASSIFYING", "DEDUP_CHECK"}
      THEN DispatchWith("dedup_guard", p, NoSlot, NoPipeline) ELSE <<>>)

HandleEmailDropped(t) == <<[op |-> "droplog", p |-> t.p]>>

HandleDedupResult(t) ==
  IF t.duplicate /\ ~t.merged
  THEN Transition(t.p, "DROPPED_DUPLICATE")
  ELSE Transition(t.p, "VERIFYING") \o Dispatch("charity_verifier", t.p)

HandleOrgVerified(t) ==
  IF ~t.verified
  THEN Transition(t.p, "DROPPED_NOT_VERIFIED")
  ELSE Transition(t.p, "ELIGIBILITY_CHECK") \o Dispatch("eligibility", t.p)

HandleEligibilityResult(t) ==
  IF t.eligible
  THEN Transition(t.p, "SCORING") \o Dispatch("prioritizer", t.p)
  ELSE IF t.escalate
  THEN Transition(t.p, "URGENT_ESCALATED_TO_PA")
         \o Dispatch("pa_notification", t.p)
  ELSE Transition(t.p, "DROPPED_WITHIN_90_DAYS")

\* Mutant: the pipeline waits in the queue to be pulled.
ScoredAndQueued(t) ==
  <<[op |-> "queue_select", p |-> t.p, score |-> t.score]>>
  \o Transition(t.p, "IN_PRIORITY_QUEUE")
  \o Transition(t.p, "FINDING_SLOT")

HandleOrgScored(t) ==
  <<[op |-> "queue_select", p |-> t.p, score |-> t.score]>>
  \o Transition(t.p, "IN_PRIORITY_QUEUE")
  \o Transition(t.p, "FINDING_SLOT")
  \o Dispatch("calendar", t.p)

\* Mutant: the slot is shown to the PA and not stored.
SlotNotStored(t) ==
  Transition(t.p, "SLOT_HELD")
  \o Transition(t.p, "PA_PENDING")
  \o DispatchWith("pa_notification", t.p, t.slot, t.p)

HandleSlotFound(t) ==
  TransitionWith(t.p, "SLOT_HELD", t.slot)
  \o Transition(t.p, "PA_PENDING")
  \o DispatchWith("pa_notification", t.p, t.slot, t.p)

HandleNoSlots(t) == Transition(t.p, "NO_SLOTS_REQUEUE")

\* Mutant: the confirmation e-mail does not wait for the transitions.
ConfirmFirst(t) ==
  IF t.decision = "REJECTED"
  THEN Transition(t.p, "PA_REJECTED")
  ELSE Dispatch("email_composer", t.p)
         \o Transition(t.p, IF t.decision = "AUTO_APPROVED"
                            THEN "AUTO_APPROVED" ELSE "PA_APPROVED")
         \o Transition(t.p, "CONFIRMATION_SENT")

HandlePaDecision(t) ==
  IF t.decision = "REJECTED"
  THEN Transition(t.p, "PA_REJECTED")
  ELSE Transition(t.p, IF t.decision = "AUTO_APPROVED"
                       THEN "AUTO_APPROVED" ELSE "PA_APPROVED")
         \o Transition(t.p, "CONFIRMATION_SENT")
         \o Dispatch("email_composer", t.p)

HandleEmailSent(t) ==
  IF t.template = "confirmation_rsvp"
  THEN Transition(t.p, "RSVP_PENDING") \o Dispatch("rsvp_monitor", t.p)
  ELSE <<>>

\* Mutant: the visit is recorded before BOOKED is validated.
RecordedEarly(t) ==
  IF t.next = "FINALIZE"
  THEN Transition(t.p, "RSVP_CONFIRMED")
         \o <<[op |-> "book", p |-> t.p]>> \o Transition(t.p, "BOOKED")
  ELSE Transition(t.p, "RSVP_TIMEOUT_CANCELLED")
         \o <<[op |-> "top", owner |-> t.p]>>

\* Mutant: the visit is recorded first of all.
RecordedFirst(t) ==
  IF t.next = "FINALIZE"
  THEN <<[op |-> "book", p |-> t.p]>>
         \o Transition(t.p, "RSVP_CONFIRMED") \o Transition(t.p, "BOOKED")
  ELSE Transition(t.p, "RSVP_TIMEOUT_CANCELLED")
         \o <<[op |-> "top", owner |-> t.p]>>

HandleRsvpOutcome(t) ==
  IF t.next = "FINALIZE"
  THEN Transition(t.p, "RSVP_CONFIRMED") \o Transition(t.p, "BOOKED")
         \o <<[op |-> "book", p |-> t.p]>>
  ELSE Transition(t.p, "RSVP_TIMEOUT_CANCELLED")
         \o <<[op |-> "top", owner |-> t.p]>>

\* What remains of handle_rsvp_outcome once get_top_queue has returned
\* entry i, which belongs to pipeline p; owner is the cancelled one.
PullNext(i, p, owner) ==
  <<[op |-> "mark", entry |-> i]>>
  \o Transition(p, "NEXT_IN_QUEUE_INVITED")
  \o Transition(p, "FINDING_SLOT")
  \o DispatchWith("calendar", p, NoSlot, owner)

Handler(t) ==
  CASE t.type = "email.classified"    -> HandleEmailClassified(t)
    [] t.type = "email.dropped"       -> HandleEmailDropped(t)
    [] t.type = "dedup.result"        -> HandleDedupResult(t)
    [] t.type = "org.verified"        -> HandleOrgVerified(t)
    [] t.type = "eligibility.result"  -> HandleEligibilityResult(t)
    [] t.type = "org.scored"          -> HandleOrgScored(t)
    [] t.type = "calendar.slot_found" -> HandleSlotFound(t)
    [] t.type = "calendar.no_slots"   -> HandleNoSlots(t)
    [] t.type = "pa.decision"         -> HandlePaDecision(t)
    [] t.type = "email.sent"          -> HandleEmailSent(t)
    [] t.type = "rsvp.outcome"        -> HandleRsvpOutcome(t)
=============================================================================
