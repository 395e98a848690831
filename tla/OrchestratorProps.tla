--------------------------- MODULE OrchestratorProps ---------------------------
(***************************************************************************)
(* What the orchestrator promises, as properties of module Orchestrator.   *)
(***************************************************************************)
EXTENDS Orchestrator

---------------------------------------------------------------------------
(* The gates.  Gate(s) is the number of gates a pipeline in state s is     *)
(* behind; a side state (dropped, escalated, requeued, cancelled) counts   *)
(* the gates of the state it is entered from.                              *)

GateStates ==
  <<{"CLASSIFYING"}, {"DEDUP_CHECK"}, {"VERIFYING"}, {"ELIGIBILITY_CHECK"},
    {"SCORING"}, {"IN_PRIORITY_QUEUE"}, {"FINDING_SLOT"}, {"SLOT_HELD"},
    {"PA_PENDING"}, {"PA_APPROVED", "AUTO_APPROVED"}, {"CONFIRMATION_SENT"},
    {"RSVP_PENDING"}, {"RSVP_CONFIRMED"}, {"BOOKED"}>>

Gate(s) ==
  CASE s = "CLASSIFYING" -> 1
    [] s \in {"DEDUP_CHECK", "DROPPED_DUPLICATE"} -> 2
    [] s \in {"VERIFYING", "DROPPED_NOT_VERIFIED"} -> 3
    [] s \in {"ELIGIBILITY_CHECK", "DROPPED_WITHIN_90_DAYS",
              "URGENT_ESCALATED_TO_PA"} -> 4
    [] s = "SCORING" -> 5
    [] s = "IN_PRIORITY_QUEUE" -> 6
    [] s \in {"FINDING_SLOT", "NO_SLOTS_REQUEUE"} -> 7
    [] s = "SLOT_HELD" -> 8
    [] s \in {"PA_PENDING", "PA_REJECTED"} -> 9
    [] s \in {"PA_APPROVED", "AUTO_APPROVED"} -> 10
    [] s = "CONFIRMATION_SENT" -> 11
    [] s \in {"RSVP_PENDING", "RSVP_TIMEOUT_CANCELLED",
              "NEXT_IN_QUEUE_INVITED"} -> 12
    [] s = "RSVP_CONFIRMED" -> 13
    [] s = "BOOKED" -> 14
    [] OTHER -> 0

\* The audit log shows that p went through gate j.
Passed(p, j) == \E a \in audit : a.p = p /\ a.to \in GateStates[j]

\* No pipeline is behind a gate it did not go through: whatever tasks
\* arrive, in whatever order, however often, with handlers interleaved at
\* every await and coroutines lost to errors and crashes, a pipeline the
\* log shows BOOKED was deduplicated, verified, found eligible, scored,
\* given a slot, approved and confirmed (handlers.py, transition()).
GatesPassed ==
  \A a \in audit : \A j \in 1..Gate(a.to) : Passed(a.p, j)

\* The state a pipeline has entered when agent r.agent is asked about it.
AskedIn(r) ==
  CASE r.agent = "dedup_guard" -> "DEDUP_CHECK"
    [] r.agent = "charity_verifier" -> "VERIFYING"
    [] r.agent = "eligibility" -> "ELIGIBILITY_CHECK"
    [] r.agent = "prioritizer" -> "SCORING"
    [] r.agent = "calendar" -> "FINDING_SLOT"
    [] r.agent = "pa_notification" -> IF r.slot = NoSlot
                                      THEN "URGENT_ESCALATED_TO_PA"
                                      ELSE "PA_PENDING"
    [] r.agent = "email_composer" -> "CONFIRMATION_SENT"
    [] r.agent = "rsvp_monitor" -> "RSVP_PENDING"

\* An agent is asked to act for a pipeline only behind the gate that
\* justifies it; above all, the composer is asked for a confirmation
\* e-mail only for a pipeline that was approved (dispatch after
\* transition, every handler).
RequestsJustified ==
  \A r \in asked \cup dlq : \A j \in 1..Gate(AskedIn(r)) : Passed(r.p, j)

\* The 90-day record never names a visit that was not booked: an
\* appointment has a slot and a pipeline the log shows BOOKED
\* (handle_rsvp_outcome writes it last).
AppointmentsWereBooked ==
  \A a \in appts : a.slot # NoSlot /\ Passed(a.p, 14)

---------------------------------------------------------------------------
(* The state machine *)

\* A pipeline changes state only along VALID_TRANSITIONS ("Validates legal
\* transitions", state_machine.py).  Terminal states are final by this.
LegalSteps ==
  [][\A p \in Pipeline :
       row'[p].state # row[p].state =>
         \/ row[p].state = "none" /\ row'[p].state = "EMAIL_RECEIVED"
         \/ row'[p].state \in VALID_TRANSITIONS(row[p].state)]_vars

\* No two coroutines are between the SELECT and the UPDATE of transition()
\* about one pipeline.
OneTransition ==
  \A v, w \in Worker :
    At(v, "write") /\ At(w, "write")
      /\ Head(todo[v]).p = Head(todo[w]).p => v = w

\* No coroutine is in the middle of a handler.
Quiet == \A w \in Worker : Parked(w)

\* The states a pipeline may rest in with no agent at work on it.
Resting == Terminal \cup {"NO_SLOTS_REQUEUE", "RSVP_TIMEOUT_CANCELLED"}

\* Between tasks no pipeline is stranded: it rests, or the agent it waits
\* for was asked, or the request is in the dead letter list ("dead letter
\* queue for manual requeue", a2a_client.py).
NobodyStranded ==
  Quiet => \A p \in Pipeline :
    \/ ~Exists(p)
    \/ row[p].state \in Resting
    \/ \E r \in asked \cup dlq :
         r.p = p /\ r.agent \in Awaited(row[p].state)

---------------------------------------------------------------------------
(* Redis timers *)

\* The log shows that p was escalated to the PA.
Escalated(p) == \E a \in audit : a.p = p /\ a.to = "URGENT_ESCALATED_TO_PA"

\* Between tasks a timer key exists only for a pipeline that still waits
\* for what the timer limits, or that was escalated: _handle_timers does not
\* delete pa_timeout when a pending approval is escalated, but it deletes
\* rsvp_timeout whatever happened before.
TimersMatch ==
  Quiet => \A p \in Pipeline :
    /\ <<"pa_timeout", p>> \in timers =>
         row[p].state = "PA_PENDING" \/ Escalated(p)
    /\ <<"rsvp_timeout", p>> \in timers => row[p].state = "RSVP_PENDING"

---------------------------------------------------------------------------
(* The priority queue and the appointments *)

\* A pipeline waits in the queue at most once ("If already in queue
\* (waiting), update score", db_queue_upsert).
OneWaitingEntry ==
  \A i, j \in Waiting : queue[i].p = queue[j].p => i = j

\* No two coroutines are between the SELECT and the INSERT of
\* db_queue_upsert about one pipeline.
OneUpsert ==
  \A v, w \in Worker :
    At(v, "queue_insert") /\ At(w, "queue_insert")
      /\ Head(todo[v]).p = Head(todo[w]).p => v = w

\* A second waiting entry has one cause, however handlers interleave and
\* whatever calls raise: two upserts that overlapped (db_queue_upsert).
TwiceOnlyByRace == []OneUpsert => []OneWaitingEntry

\* An entry marked invited belongs to a pipeline that was invited ("Top
\* org by priority_score is invited to calendar scheduling", schema.sql).
InvitedWasInvited ==
  Quiet => \A i \in DOMAIN queue :
    queue[i].status = "invited" =>
      \E a \in audit : a.p = queue[i].p /\ a.to = "NEXT_IN_QUEUE_INVITED"

\* Between tasks a pipeline is BOOKED exactly when appointment_history has
\* its one visit, at the slot the row proposes: the 90-day rule counts
\* these rows (handle_rsvp_outcome).
BookedOnce ==
  Quiet => \A p \in Pipeline :
    LET mine == {a \in appts : a.p = p}
    IN  IF row[p].state = "BOOKED"
        THEN \E a \in mine : mine = {a} /\ a.slot = row[p].slot
        ELSE mine = {}

\* The slot of an appointment is one the PA was shown for approval, also
\* when an earlier slot was approved, cancelled and replaced
\* (handle_slot_found, handle_pa_decision).
BookedSlotWasShown ==
  \A a \in appts :
    [agent |-> "pa_notification", p |-> a.p, slot |-> a.slot] \in asked

---------------------------------------------------------------------------
(* Liveness *)

InState(p, S) == row[p].state \in S

\* Where the automatic gates may leave a pipeline for good: at rest, with a
\* human, with the Eligibility Agent, which does not answer without an EIN
\* (eligibility_logic.py:61), or with the Prioritizer, whose report is
\* refused (scorer.py:236 sends less than models.py:191 requires).
Unanswered == {"PA_PENDING", "RSVP_PENDING", "URGENT_ESCALATED_TO_PA",
               "ELIGIBILITY_CHECK", "SCORING"}

\* From wherever it is, a pipeline goes on until it rests or waits where the
\* code does not promise an answer, or the request or the report it waits for
\* is in the dead letter list: no await of a handler, and no failed dispatch,
\* leaves it anywhere else (every handler, receive_task, a2a_client.py:92).
AutomaticGatesDecide ==
  \A p \in Pipeline :
    Exists(p) ~> \/ InState(p, Resting \cup Unanswered)
                 \/ \E r \in dlq : r.p = p /\ r.agent \in Awaited(row[p].state)

---------------------------------------------------------------------------
(* The inductive invariant behind GatesPassed.  GatesPassed alone does not *)
(* survive WriteState, which adds an audit row on the strength of a state  *)
(* read earlier: the state a pending write was validated against, and the  *)
(* state of every row, must be in the audit log themselves.                *)

\* p has been in state s, as far as the tables tell.
Logged(p, s) ==
  s = "EMAIL_RECEIVED" \/ \E a \in audit : a.p = p /\ a.to = s

LoggedOp == ScriptOp \cup InsertOp \cup {o \in WriteOp : Logged(o.p, o.from)}

TablesOK ==
  /\ row \in [Pipeline -> Row \cup {NoRow}]
  /\ queue \in Seq(Entry)
  /\ appts \subseteq Appointment /\ IsFiniteSet(appts)
  /\ audit \subseteq [p : Pipeline, from : State, to : Target]
  /\ dropped \subseteq Pipeline
  /\ timers \subseteq TimerKind \X Pipeline
  /\ dlq \subseteq Request
  /\ asked \subseteq Request

RowsLogged == \A p \in Pipeline : Exists(p) => Logged(p, row[p].state)

TodoLogged == todo \in [Worker -> Seq(LoggedOp)]

GateInv == TablesOK /\ TodoLogged /\ RowsLogged /\ GatesPassed

---------------------------------------------------------------------------
(* The inductive invariant behind RequestsJustified and                    *)
(* AppointmentsWereBooked.  What justifies a call is a move: it is in the  *)
(* audit log, or the same coroutine still makes it before the call.        *)

\* The operations that need the pipeline to have entered a state before.
NeedsMove(o) == o.op \in {"post", "ack", "book", "appoint"}

MoveBefore(o) == IF o.op \in {"post", "ack"} THEN AskedIn(o) ELSE "BOOKED"

Moves(x, p, s) == x.op \in {"read", "write"} /\ x.p = p /\ x.to = s

\* A slot goes where one belongs.
SlotGiven(o) ==
  \/ o.op \in {"read", "write"} /\ o.to = "SLOT_HELD"
  \/ o.op = "appoint"
  => o.slot # NoSlot

\* The moves the audit log tells of.
Log == {<<a.p, a.to>> : a \in audit}

\* Each operation of ops is justified by the log or by one before it.
InOrder(ops, log) ==
  \A i \in DOMAIN ops :
    /\ SlotGiven(ops[i])
    /\ NeedsMove(ops[i]) =>
         LET p == ops[i].p
             s == MoveBefore(ops[i])
         IN  <<p, s>> \in log \/ \E k \in 1..(i - 1) : Moves(ops[k], p, s)

TodoInOrder == \A w \in Worker : InOrder(todo[w], Log)

\* Once a slot was held the row proposes one.
HeldHasSlot ==
  \A p \in Pipeline : Passed(p, 8) => row[p].slot # NoSlot

RequestInv ==
  TodoInOrder /\ HeldHasSlot /\ RequestsJustified /\ AppointmentsWereBooked

---------------------------------------------------------------------------
(* The inductive invariant behind what only a race breaks: an insert and a  *)
(* write come first in what a coroutine has left, and, while no two of them *)
(* overlap, find the tables as they were read.                              *)

RestScripted == \A w \in Worker : ~Idle(w) => Rest(w) \in Seq(ScriptOp)

InsertFindsNone ==
  \A w \in Worker : At(w, "queue_insert") =>
    \A j \in Waiting : queue[j].p # Head(todo[w]).p

WriteFindsRead ==
  \A w \in Worker : At(w, "write") =>
    row[Head(todo[w]).p].state = Head(todo[w]).from

---------------------------------------------------------------------------
(* The inductive invariant behind the properties of handlers that run one  *)
(* after the other (Serial).  Its first half is about what a coroutine has *)
(* left: what can follow an operation, and what can come last.  Its second *)
(* half ties the operation that comes next to the tables.                  *)

Move(o)  == o.op \in {"read", "write"}
Quick(o) == o.op \in {"publish", "timers"}

\* An operation that only ever comes first, or last.
First(o) == ~Quick(o) /\ o.op \notin {"read", "post", "top", "book", "resume"}
Last(o)  == o.op \in {"post", "ack", "top", "book", "appoint", "resume"}

\* What a handler does next about p, once it has moved p to s.
Follows(o, p, s) ==
  \/ /\ o.op = "read" /\ o.p = p /\ o.to \in VALID_TRANSITIONS(s)
     /\ s # "PA_PENDING"
  \/ /\ o.op = "post" /\ o.p = p /\ o.agent \in Awaited(s)
     /\ (o.slot # NoSlot) <=> (s = "PA_PENDING")
  \/ o.op = "book" /\ o.p = p /\ s = "BOOKED"
  \/ o.op = "top" /\ s = "RSVP_TIMEOUT_CANCELLED"

Precedes(o, n) ==
  /\ ~Last(o) /\ ~First(n)
  /\ Quick(n) => Quick(o)
  /\ Move(o) => Follows(n, o.p, o.to)
  /\ Move(n) /\ n.to = "AGENT_UNREACHABLE" => Quick(o)
  /\ o.op \in {"create", "insert"} => n.op = "resume" /\ n.p = o.p
  /\ n.op = "resume" => o.op \in {"create", "insert"}
  /\ First(o) /\ ~Move(o) /\ n.op # "resume" =>
       n.op = "read" /\ n.to # "PA_PENDING"

MayEnd(o) ==
  /\ o.op \notin {"create", "insert"}
  /\ Move(o) => o.to \in Resting \ {"BOOKED"}

WellFormed(ops) ==
  \A i \in DOMAIN ops :
    LET o == ops[i]
    IN  /\ i = Len(ops) => MayEnd(o)
        /\ i < Len(ops) => Precedes(o, ops[i + 1])
        /\ Move(o) =>
             /\ (o.slot # NoSlot) <=> (o.to = "SLOT_HELD")
             /\ o.to = "SLOT_HELD" =>
                  i + 2 \in DOMAIN ops /\ ops[i + 2].slot = o.slot

\* A coroutine that touches no table any more: it waits for a response, or
\* tries to put a pipeline in AGENT_UNREACHABLE, which no state allows.
Light(ops) ==
  \/ ops = <<>>
  \/ /\ Len(ops) = 1
     /\ \/ ops[1].op = "ack"
        \/ ops[1].op = "read" /\ ops[1].to = "AGENT_UNREACHABLE"

OneBusy ==
  \A v, w \in Worker : v # w => Light(todo[v]) \/ Light(todo[w])

\* Nothing but what follows a commit comes before operation i.
Front(ops, i) ==
  i \in DOMAIN ops /\ \A k \in DOMAIN ops : k < i => Quick(ops[k])

\* The tables are as operation i takes them to be.
Ready(ops, i) ==
  LET o == ops[i]
  IN  /\ Quick(o) => row[o.p].state = o.to
      /\ o.op = "write" => row[o.p].state = o.from
      /\ o.op = "queue_insert" => \A j \in Waiting : queue[j].p # o.p
      /\ Move(o) /\ o.to = "PA_PENDING" => row[o.p].slot = ops[i + 1].slot
      /\ o.op = "post" /\ o.slot # NoSlot => row[o.p].slot = o.slot
      /\ o.op \in {"book", "appoint"} =>
           row[o.p].state = "BOOKED" /\ \A a \in appts : a.p # o.p
      /\ o.op = "appoint" => o.slot = row[o.p].slot

Linked(ops) == \A i \in DOMAIN ops : Front(ops, i) => Ready(ops, i)

VisitsAreBooked == \A a \in appts : row[a.p].state = "BOOKED"

SerialInv ==
  /\ \A w \in Worker : WellFormed(todo[w]) /\ Linked(todo[w])
  /\ OneBusy
  /\ OneWaitingEntry
  /\ VisitsAreBooked

\* The operations a coroutine comes to next, and those all of them do.
Heads(ops) == {ops[i] : i \in {j \in DOMAIN ops : Front(ops, j)}}

Upcoming == UNION {Heads(todo[w]) : w \in Worker}

\* Until a key is deleted, its deletion is still to be awaited.
TimerInv ==
  \A p \in Pipeline, k \in TimerKind :
    <<k, p>> \in timers =>
      \/ k \in TimersSet(row[p].state)
      \/ k = "pa_timeout" /\ Escalated(p)
      \/ \E o \in Upcoming :
           o.op = "timers" /\ o.p = p /\ k \in TimersCancelled(o.to)

\* A booked pipeline has its visit, or one is still to be recorded.
BookInv ==
  \A p \in Pipeline :
    row[p].state = "BOOKED" =>
      \/ \E a \in appts : /\ a.p = p /\ a.slot = row[p].slot
                          /\ \A b \in appts : b.p = p => b = a
      \/ \E o \in Upcoming : o.op \in {"book", "appoint"} /\ o.p = p

\* The states behind the PA's decision about the slot of the row.
Shown == {"PA_PENDING", "PA_APPROVED", "AUTO_APPROVED", "CONFIRMATION_SENT",
          "RSVP_PENDING", "RSVP_CONFIRMED", "BOOKED"}

ShownTo(p, slot) == [agent |-> "pa_notification", p |-> p, slot |-> slot]

\* In these the PA was shown the slot of the row, or is about to be.
ShowInv ==
  /\ \A a \in appts : ShownTo(a.p, a.slot) \in asked
  /\ \A p \in Pipeline :
       row[p].state \in Shown =>
         \/ ShownTo(p, row[p].slot) \in asked
         \/ \E o \in Upcoming :
              o.op = "post" /\ RequestOf(o) = ShownTo(p, row[p].slot)

\* Operation o takes p on from state s.
Serves(o, p, s) ==
  \/ Move(o) /\ o.p = p /\ o.to \in VALID_TRANSITIONS(s)
  \/ o.op = "post" /\ o.p = p /\ o.agent \in Awaited(s)
  \/ o.op = "resume" /\ o.p = p /\ s = "EMAIL_RECEIVED"

StrandInv ==
  \A p \in Pipeline :
    \/ ~Exists(p)
    \/ row[p].state \in Resting
    \/ \E r \in asked \cup dlq : r.p = p /\ r.agent \in Awaited(row[p].state)
    \/ \E o \in Upcoming : Serves(o, p, row[p].state)
=============================================================================
