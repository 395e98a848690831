----------------------------- MODULE RsvpMonitor -----------------------------
(***************************************************************************)
(* The last gate (agents/rsvp_monitor): once the confirmation is sent, a   *)
(* poll looks for the charity's reply, finalizes or releases the hold in   *)
(* the calendar, and tells the orchestrator, which books or cancels the    *)
(* visit and may invite the same charity again.  Google's calls are        *)
(* synchronous: they interleave with nothing.                              *)
(***************************************************************************)
EXTENDS Naturals

CONSTANTS
  Pipeline,
  Poller,     \* the poll loop, and the polls POST /poll started
  MaxRound,   \* bound: invitations of one pipeline
  Faults      \* what may go wrong: "google", "io", "crash", "repeat"
              \* once, and a calendar client that raises ("calendar")
              \* at any time

ASSUME RsvpAssumption ==
  /\ MaxRound \in Nat \ {0} /\ "service" \notin Poller
  /\ Faults \subseteq {"google", "calendar", "io", "crash", "repeat"}

VARIABLES
  state,     \* pipeline.current_state, from CONFIRMATION_SENT on
  round,     \* which invitation the row is about: its gcal_hold_event_id
  event,     \* the events of the calendar, one per invitation
  threads,   \* rsvp:threads, the invitation a registration is about, or 0
  age,       \* of a registration: no poll looked at it, some did, or it
             \* is RSVP_TIMEOUT_HOURS old
  wire,      \* the dispatches in progress
  dlq,       \* the dead letter list
  joining,   \* register_thread: what it read and has not stored
  poll,      \* per poll, what run_once is doing
  faults     \* the faults that happened

vars == <<state, round, event, threads, age, wire, dlq, joining, poll,
          faults>>

Round == 1..MaxRound
Entry == Pipeline \X Round

\* A dispatch, and the poll that waits for it if one does.
Msg == [kind : {"email.sent", "register", "finalize", "cancel"},
        entry : Entry, from : Poller \cup {"service"}]

Posted(kind, e) == [kind |-> kind, entry |-> e, from |-> "service"]
Outcome(k, kind, e) == [kind |-> kind, entry |-> e, from |-> k]

Idle == [pc |-> "idle", todo |-> {}]

PollState ==
  [pc : {"idle", "polling", "dead"}, todo : SUBSET Entry]
    \cup [pc : {"reading", "classifying", "sending"}, todo : SUBSET Entry,
          cur : Entry]

TypeOK ==
  /\ state \in [Pipeline -> {"CONFIRMATION_SENT", "RSVP_PENDING", "BOOKED",
                             "RSVP_TIMEOUT_CANCELLED"}]
  /\ round \in [Pipeline -> Round]
  /\ event \in [Entry -> {"none", "tentative", "confirmed", "deleted"}]
  /\ threads \in [Pipeline -> Round \cup {0}]
  /\ age \in [Entry -> {"new", "polled", "old"}]
  /\ wire \subseteq Msg /\ dlq \subseteq Msg
  /\ joining \subseteq Entry
  /\ poll \in [Poller -> PollState]
  /\ faults \subseteq Faults

Init ==
  /\ state = [p \in Pipeline |-> "CONFIRMATION_SENT"]
  /\ round = [p \in Pipeline |-> 1]
  /\ event = [e \in Entry |-> IF e[2] = 1 THEN "tentative" ELSE "none"]
  /\ threads = [p \in Pipeline |-> 0]
  /\ age = [e \in Entry |-> "new"]
  /\ wire = {Posted("email.sent", <<p, 1>>) : p \in Pipeline}
  /\ dlq = {}
  /\ joining = {}
  /\ poll = [k \in Poller |-> Idle]
  /\ faults = {}

Fault(f) == f \in Faults \ faults /\ faults' = faults \cup {f}
Healthy == UNCHANGED faults

---------------------------------------------------------------------------
(* dispatch_task: a receiver handles the POST; then the call is over, or   *)
(* its answer is lost and the POST is repeated.  See A2ADispatch.          *)

Handled(m, new) ==
  /\ m \in wire
  /\ \/ wire' = (wire \ {m}) \cup new /\ Healthy
     \/ wire' = wire \cup new /\ Fault("repeat")

GiveUp(m) ==
  /\ m \in wire
  /\ wire' = wire \ {m}
  /\ dlq' = dlq \cup {m}
  /\ UNCHANGED <<state, round, event, threads, age, joining, poll,
                 faults>>

About(p) == {m \in wire : m.entry[1] = p}

---------------------------------------------------------------------------
(* The orchestrator *)

\* The move is committed, and the handler goes on to the registration; the
\* POST of email.sent is open until that ends.  Illegal moves raise: such a
\* POST is only ever given up.
HandleEmailSent(m) ==
  /\ m \in wire
  /\ m.kind = "email.sent"
  /\ state[m.entry[1]] = "CONFIRMATION_SENT"
  /\ state' = [state EXCEPT ![m.entry[1]] = "RSVP_PENDING"]
  /\ wire' = wire \cup {Posted("register", m.entry)}
  /\ UNCHANGED <<round, event, threads, age, dlq, joining, poll, faults>>

\* The orchestrator stops, or a call of Redis raises, after the commit: the
\* registration is not sent, or not sent again.
HandlerCut(m) ==
  /\ m \in wire
  /\ m.kind = "register"
  /\ Fault("crash") \/ Fault("io")
  /\ wire' = wire \ {m}
  /\ UNCHANGED <<state, round, event, threads, age, dlq, joining, poll>>

\* Mutant: next_action is written where the state belongs.
OutcomeAsState(m) ==
  /\ m.kind \in {"finalize", "cancel"}
  /\ state[m.entry[1]] = "RSVP_PENDING"
  /\ state' = [state EXCEPT ![m.entry[1]] = m.kind]
  /\ Handled(m, {})
  /\ UNCHANGED <<round, event, threads, age, dlq, joining, poll>>

HandleRsvpOutcome(m) ==
  /\ m.kind \in {"finalize", "cancel"}
  /\ state[m.entry[1]] = "RSVP_PENDING"
  /\ state' = [state EXCEPT ![m.entry[1]] =
                 IF m.kind = "finalize" THEN "BOOKED"
                 ELSE "RSVP_TIMEOUT_CANCELLED"]
  /\ Handled(m, {})
  /\ UNCHANGED <<round, event, threads, age, dlq, joining, poll>>

\* A cancelled pipeline that is on top of the queue gets another slot, and
\* the PA approves it, and the confirmation is sent.  That takes longer
\* than a dispatch in progress.
Reinvite(p) ==
  /\ state[p] = "RSVP_TIMEOUT_CANCELLED"
  /\ round[p] < MaxRound
  /\ About(p) = {}
  /\ \A k \in Poller : poll[k].pc = "sending" => poll[k].cur[1] # p
  /\ state' = [state EXCEPT ![p] = "CONFIRMATION_SENT"]
  /\ round' = [round EXCEPT ![p] = @ + 1]
  /\ event' = [event EXCEPT ![<<p, round'[p]>>] = "tentative"]
  /\ wire' = wire \cup {Posted("email.sent", <<p, round'[p]>>)}
  /\ UNCHANGED <<threads, age, dlq, joining, poll, faults>>

---------------------------------------------------------------------------
(* register_thread *)

RegisterRead(m) ==
  /\ m \in wire
  /\ m.kind = "register"
  /\ joining' = joining \cup {<<m.entry[1], round[m.entry[1]]>>}
  /\ UNCHANGED <<state, round, event, threads, age, wire, dlq, poll,
                 faults>>

\* Both POSTs are answered, the registration's and the one of email.sent, or
\* an answer is lost.
RegisterStore(m, e) ==
  /\ m \in wire
  /\ m.kind = "register"
  /\ e \in joining
  /\ e[1] = m.entry[1]
  /\ joining' = joining \ {e}
  /\ threads' = [threads EXCEPT ![e[1]] = e[2]]
  /\ age' = [age EXCEPT ![e] = "new"]
  /\ \/ wire' = wire \ {m, Posted("email.sent", m.entry)} /\ Healthy
     \/ wire' = wire /\ Fault("repeat")
  /\ UNCHANGED <<state, round, event, dlq, poll>>

\* RSVP_TIMEOUT_HOURS pass: longer than the attempts of a dispatch, and,
\* unless the process was down or its loop died, than an interval.
Age(p) ==
  /\ threads[p] # 0
  /\ About(p) = {}
  /\ \/ age[<<p, threads[p]>>] = "polled"
     \/ age[<<p, threads[p]>>] = "new" /\ faults \cap {"io", "crash"} # {}
  /\ age' = [age EXCEPT ![<<p, threads[p]>>] = "old"]
  /\ UNCHANGED <<state, round, event, threads, wire, dlq, joining, poll,
                 faults>>

---------------------------------------------------------------------------
(* run_once and process_thread *)

At(k, pc) == poll[k].pc = pc
Cur(k) == poll[k].cur

\* process_thread returns or raises, and run_once goes on.
NextThread(k) ==
  poll' = [poll EXCEPT ![k] = [pc |-> "polling", todo |-> poll[k].todo]]

StayOn(k, pc) == poll' = [poll EXCEPT ![k].pc = pc]

\* The event of an invitation once the calendar did what the poll asked for.
Changed(e, kind) ==
  [event EXCEPT ![e] = IF kind = "finalize" THEN "confirmed" ELSE "deleted"]

\* What the poll does to the event of the thread: an HttpError is logged and
\* the outcome is dispatched all the same.
Decide(k, e, kind) ==
  /\ \/ event' = Changed(e, kind) /\ Healthy
     \/ UNCHANGED event /\ Fault("google")
  /\ wire' = wire \cup {Outcome(k, kind, e)}

Snapshot(k) ==
  /\ At(k, "idle")
  /\ poll' = [poll EXCEPT ![k] =
                [pc |-> "polling",
                 todo |-> {e \in Entry : threads[e[1]] = e[2]}]]
  /\ UNCHANGED <<state, round, event, threads, age, wire, dlq, joining,
                 faults>>

PollEnds(k) ==
  /\ At(k, "polling")
  /\ poll[k].todo = {}
  /\ poll' = [poll EXCEPT ![k] = Idle]
  /\ UNCHANGED <<state, round, event, threads, age, wire, dlq, joining,
                 faults>>

Work(k, e, pc) ==
  /\ At(k, "polling")
  /\ e \in poll[k].todo
  /\ poll' = [poll EXCEPT ![k] =
                [pc |-> pc, todo |-> poll[k].todo \ {e}, cur |-> e]]

\* Mutant: the age of a registration is never looked at.
TimeoutIgnored(k, e) ==
  /\ age[e] = "old"
  /\ Work(k, e, "reading")
  /\ UNCHANGED <<state, round, event, threads, age, wire, dlq, joining,
                 faults>>

\* The timeout is looked at before the mailbox.
TimedOut(k, e) ==
  /\ age[e] = "old"
  /\ Work(k, e, "sending")
  /\ Decide(k, e, "cancel")
  /\ UNCHANGED <<state, round, threads, age, dlq, joining>>

ReadRow(k, e) ==
  /\ age[e] # "old"
  /\ Work(k, e, "reading")
  /\ age' = [age EXCEPT ![e] = "polled"]
  /\ UNCHANGED <<state, round, event, threads, wire, dlq, joining,
                 faults>>

\* Mutant: the event is deleted whatever the reply is.
ReleaseAnyway(k, kind) ==
  /\ At(k, "reading")
  /\ StayOn(k, "sending")
  /\ event' = [event EXCEPT ![Cur(k)] = "deleted"]
  /\ wire' = wire \cup {Outcome(k, kind, Cur(k))}
  /\ UNCHANGED <<state, round, threads, age, dlq, joining, faults>>

\* The charity writes what and whenever it likes, so a poll may find any
\* reply, also another one than the poll before.  Keywords decide on a clear
\* one without an await.
ClearReply(k, kind) ==
  /\ At(k, "reading")
  /\ StayOn(k, "sending")
  /\ Decide(k, Cur(k), kind)
  /\ UNCHANGED <<state, round, threads, age, dlq, joining>>

\* No reply yet, or Gmail cannot be asked: at the next poll again.
NoReply(k) ==
  /\ At(k, "reading")
  /\ NextThread(k)
  /\ UNCHANGED <<state, round, event, threads, age, wire, dlq, joining,
                 faults>>

VagueReply(k) ==
  /\ At(k, "reading")
  /\ StayOn(k, "classifying")
  /\ UNCHANGED <<state, round, event, threads, age, wire, dlq, joining,
                 faults>>

\* The model answers with an intent and enough confidence, or not.
Classified(k, kind) ==
  /\ At(k, "classifying")
  /\ StayOn(k, "sending")
  /\ Decide(k, Cur(k), kind)
  /\ UNCHANGED <<state, round, threads, age, dlq, joining>>

\* Mutant: a reply nobody understands ends the watch.
AmbiguousForgets(k) ==
  /\ At(k, "classifying")
  /\ threads' = [threads EXCEPT ![Cur(k)[1]] = 0]
  /\ NextThread(k)
  /\ UNCHANGED <<state, round, event, age, wire, dlq, joining, faults>>

Ambiguous(k) ==
  /\ At(k, "classifying")
  /\ NextThread(k)
  /\ UNCHANGED <<state, round, event, threads, age, wire, dlq, joining,
                 faults>>

\* What the poll is about to do with the visit of registration e.
Decides(k, e, kind) ==
  \/ At(k, "polling") /\ e \in poll[k].todo /\ age[e] = "old" /\ kind = "cancel"
  \/ poll[k].pc \in {"reading", "classifying"} /\ e = Cur(k)

\* The client raises what is no HttpError (no token file, a refresh that
\* fails, a broken connection), before or after the calendar changed the
\* event: nothing is dispatched, and the registration stays for later polls.
CalendarRaises(k, e, kind) ==
  /\ "calendar" \in Faults /\ faults' = faults \cup {"calendar"}
  /\ Decides(k, e, kind)
  /\ event' \in {event, Changed(e, kind)}
  /\ poll' = [poll EXCEPT ![k] =
                [pc |-> "polling", todo |-> poll[k].todo \ {e}]]
  /\ UNCHANGED <<state, round, threads, age, wire, dlq, joining>>

\* The dispatch ended, well or not: _dispatch_outcome swallows the error.
Deregister(k) ==
  /\ At(k, "sending")
  /\ \A m \in wire : m.from # k
  /\ threads' = [threads EXCEPT ![Cur(k)[1]] = 0]
  /\ NextThread(k)
  /\ UNCHANGED <<state, round, event, age, wire, dlq, joining, faults>>

\* Postgres, Redis or the push to the dead letter list raises.
Fails(k) ==
  /\ poll[k].pc \in {"reading", "sending"}
  /\ Fault("io")
  /\ NextThread(k)
  /\ wire' = {m \in wire : m.from # k}
  /\ UNCHANGED <<state, round, event, threads, age, dlq, joining>>

\* run_once reads the registrations outside its try: the exception leaves
\* poll_loop, and nobody polls until the process is restarted.
LoopDies(k) ==
  /\ At(k, "idle")
  /\ Fault("io")
  /\ poll' = [poll EXCEPT ![k] = [pc |-> "dead", todo |-> {}]]
  /\ UNCHANGED <<state, round, event, threads, age, wire, dlq, joining>>

\* The process is restarted: what it was doing is lost, Redis keeps the
\* registrations, and unanswered POSTs are repeated.
Restart ==
  /\ Fault("crash")
  /\ poll' = [k \in Poller |-> Idle]
  /\ joining' = {}
  /\ wire' = {m \in wire : m.from = "service"}
  /\ UNCHANGED <<state, round, event, threads, age, dlq>>

---------------------------------------------------------------------------
PollStep(k) ==
  \/ Snapshot(k) \/ PollEnds(k)
  \/ \E e \in poll[k].todo : TimedOut(k, e) \/ ReadRow(k, e)
  \/ \E kind \in {"finalize", "cancel"} :
       ClearReply(k, kind) \/ Classified(k, kind)
  \/ NoReply(k) \/ VagueReply(k) \/ Ambiguous(k)
  \/ Deregister(k)

Receive(m) ==
  \/ HandleEmailSent(m) \/ HandleRsvpOutcome(m)
  \/ RegisterRead(m) \/ \E e \in joining : RegisterStore(m, e)

Next ==
  \/ \E m \in wire : Receive(m) \/ HandlerCut(m) \/ GiveUp(m)
  \/ \E p \in Pipeline : Reinvite(p) \/ Age(p)
  \/ \E k \in Poller :
       \/ PollStep(k) \/ Fails(k) \/ LoopDies(k)
       \/ \E e \in Entry, kind \in {"finalize", "cancel"} :
            CalendarRaises(k, e, kind)
  \/ Restart

\* The loop goes on, a dispatch has three attempts and ends, hours pass.
Fairness ==
  /\ \A k \in Poller : WF_vars(PollStep(k))
  /\ WF_vars(\E m \in wire : (Receive(m) \/ GiveUp(m)) /\ m \notin wire')
  /\ \A p \in Pipeline : WF_vars(Age(p))

Spec == Init /\ [][Next]_vars /\ Fairness

---------------------------------------------------------------------------
(* Properties *)

\* No step of process_thread or handle_email_sent was cut off from the next
\* and no POST was repeated.
Uncut == faults \subseteq {"google"}

\* A visit that waits for its charity is watched, or is about to be, or its
\* outcome is on its way, or one of these dispatches is kept in the dead
\* letter list: registration and poll leave nobody out (register_thread,
\* process_thread).  A handler cut off before the registration leaves the
\* email.sent it was working on, which no retry can finish, in that list.
\* Cut short, a poll still keeps what it worked on; only what it knows of an
\* earlier invitation may then undo a later one.
PendingIsWatched ==
  \A p \in Pipeline : state[p] = "RSVP_PENDING" /\ (round[p] = 1 \/ Uncut) =>
    \/ threads[p] # 0
    \/ \E m \in wire \cup dlq : m.entry = <<p, round[p]>>

\* The calendar and the database agree on an ended visit: a booked one was
\* not released, and a cancelled one is not left confirmed unless Google
\* failed ("finalizes or releases the calendar hold", README.md:51).
EventFollowsOutcome ==
  \A p \in Pipeline :
    LET e == event[<<p, round[p]>>] IN
    /\ state[p] = "BOOKED" => e # "deleted"
    /\ state[p] = "RSVP_TIMEOUT_CANCELLED" =>
         e # "confirmed" \/ "google" \in faults

\* They do as long as nothing is cut short, whatever fails at Google or is
\* kept for a later poll (_confirm_gcal_event, _delete_gcal_hold).
EventFollowsWhenUncut == Uncut => EventFollowsOutcome

\* Every invitation ends, by a reply or by the timeout, even if Gmail is
\* never reached, no reply is understood, or the calendar's client raises for
\* a while, unless a dispatch is left in the dead letter list, the poll loop
\* died, or the client raises for ever (process_thread, run_once).
InvitationEnds ==
  \A p \in Pipeline :
    \/ state[p] = "RSVP_PENDING" ~>
         \/ state[p] # "RSVP_PENDING"
         \/ \E m \in dlq : m.entry[1] = p
         \/ \E k \in Poller : poll[k].pc = "dead"
    \/ []<><<\E k \in Poller, r \in Round, kind \in {"finalize", "cancel"} :
               CalendarRaises(k, <<p, r>>, kind)>>_vars
=============================================================================
