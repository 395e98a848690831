-------------------------- MODULE RsvpMonitorProofs --------------------------
(***************************************************************************)
(* The watch list, the calendar and the pipelines agree, for any number of *)
(* pipelines and invitations, when one poll runs at a time.                *)
(***************************************************************************)
EXTENDS RsvpMonitor, TLAPS

\* poll_loop alone, without POST /poll next to it.
OnePoller == \A k, l \in Poller : k = l

---------------------------------------------------------------------------
(* The inductive invariant *)

Busy(k) == poll[k].pc \in {"reading", "classifying", "sending"}

\* The registrations poll k still has to do with.
Working(k) ==
  poll[k].todo \cup (IF Busy(k) THEN {poll[k].cur} ELSE {})

Sending(p) == \E k \in Poller : At(k, "sending") /\ Cur(k)[1] = p

Ended == {"BOOKED", "RSVP_TIMEOUT_CANCELLED"}

\* The registrations of p that somebody knows of.
Knows(p, r) ==
  \/ threads[p] = r
  \/ <<p, r>> \in joining
  \/ \E k \in Poller : <<p, r>> \in Working(k)

\* Somebody is about to store a registration.
Joins(p) ==
  \/ \E m \in wire : m.kind = "register" /\ m.entry[1] = p
  \/ \E e \in joining : e[1] = p

\* The service's dispatches are about the latest invitation; a poll waits
\* for its own.
WireTrue ==
  \A m \in wire :
    IF m.from = "service"
    THEN /\ m.kind \in {"email.sent", "register"}
         /\ m.entry[2] = round[m.entry[1]]
         /\ m.kind = "register" => state[m.entry[1]] # "CONFIRMATION_SENT"
    ELSE /\ m.kind \in {"finalize", "cancel"}
         /\ At(m.from, "sending") /\ Cur(m.from) = m.entry

\* Nobody knows of a later invitation, nor of one whose confirmation is on
\* its way.
KnownTrue ==
  \A p \in Pipeline, r \in Round : Knows(p, r) =>
    /\ r <= round[p]
    /\ r = round[p] => state[p] # "CONFIRMATION_SENT"

\* A poll works on registered pipelines, and on each once.
WorkTrue ==
  \A k \in Poller :
    /\ \A e \in Working(k) : threads[e[1]] # 0
    /\ \A e, f \in Working(k) : e[1] = f[1] => e = f
    /\ Busy(k) => poll[k].cur \notin poll[k].todo

\* A poll that ends the watch of a pipeline that still waits has told the
\* orchestrator, or the dead letter list.
OutcomeIsKept ==
  \A k \in Poller :
    At(k, "sending") /\ Cur(k)[2] = round[Cur(k)[1]]
      /\ state[Cur(k)[1]] = "RSVP_PENDING" =>
        \E m \in wire \cup dlq :
          m.kind \in {"finalize", "cancel"} /\ m.entry = Cur(k)

\* As long as nothing was cut short: only the latest invitation is known;
\* who registers it finds it pending and unwatched; the watch of an ended
\* visit is being ended; a hold is tentative until the poll decides, and what
\* it then does to the event is what it tells.
UncutTrue ==
  Uncut =>
    /\ \A p \in Pipeline, r \in Round : Knows(p, r) => r = round[p]
    /\ \A p \in Pipeline :
         /\ Joins(p) => state[p] = "RSVP_PENDING" /\ threads[p] = 0
         /\ state[p] \in Ended /\ threads[p] # 0 => Sending(p)
         /\ \/ state[p] = "CONFIRMATION_SENT"
            \/ /\ state[p] = "RSVP_PENDING" /\ ~ Sending(p)
               /\ threads[p] # 0 \/ Joins(p)
            => event[<<p, round[p]>>] = "tentative"
    /\ \A m \in wire :
         /\ m.kind = "finalize" => event[m.entry] # "deleted"
         /\ m.kind = "cancel" => event[m.entry] # "confirmed"
    /\ EventFollowsOutcome

\* The POST of email.sent is open until the registration ends, or was given
\* up by then.
HandlerOpen ==
  \A m \in wire :
    m.kind = "register" => Posted("email.sent", m.entry) \in wire \cup dlq

RsvpInv ==
  /\ TypeOK /\ WireTrue /\ KnownTrue /\ WorkTrue /\ OutcomeIsKept
  /\ UncutTrue /\ PendingIsWatched

---------------------------------------------------------------------------
(* What a step does to the poll                                            *)

LEMMA PollType ==
  ASSUME TypeOK, NEW k \in Poller
  PROVE  /\ poll[k].todo \subseteq Entry
         /\ Busy(k) => poll[k].cur \in Entry
         /\ Working(k) \subseteq Entry
         /\ \A e \in Entry : /\ e[1] \in Pipeline /\ e[2] \in Round
                             /\ e = <<e[1], e[2]>>
<1>1. poll[k] \in PollState
  BY DEF TypeOK
<1>2. poll[k].todo \subseteq Entry
  BY <1>1 DEF PollState
<1>3. Busy(k) => poll[k].cur \in Entry
  BY <1>1 DEF PollState, Busy
<1>4. \A e \in Entry : /\ e[1] \in Pipeline /\ e[2] \in Round
                       /\ e = <<e[1], e[2]>>
  BY DEF Entry
<1> QED
  BY <1>2, <1>3, <1>4 DEF Working

LEMMA StayOnIs ==
  ASSUME TypeOK, NEW k \in Poller, Busy(k),
         NEW pc \in {"classifying", "sending"}, StayOn(k, pc)
  PROVE  /\ poll' \in [Poller -> PollState]
         /\ poll'[k].pc = pc
         /\ poll'[k].todo = poll[k].todo /\ poll'[k].cur = poll[k].cur
         /\ Working(k)' = Working(k)
<1>1. poll[k] \in [pc : {"reading", "classifying", "sending"},
                   todo : SUBSET Entry, cur : Entry]
  BY DEF TypeOK, PollState, Busy
<1>2. PICK r : r = [poll[k] EXCEPT !.pc = pc]
  OBVIOUS
<1>3. /\ r \in PollState
      /\ r.pc = pc /\ r.todo = poll[k].todo /\ r.cur = poll[k].cur
  BY <1>1, <1>2 DEF PollState
<1>4. poll' = [poll EXCEPT ![k] = r]
  BY <1>2 DEF StayOn
<1>5. poll' \in [Poller -> PollState] /\ poll'[k] = r
  BY <1>3, <1>4 DEF TypeOK
<1> QED
  BY <1>3, <1>5 DEF Working, Busy

LEMMA NextThreadIs ==
  ASSUME TypeOK, NEW k \in Poller, NextThread(k)
  PROVE  /\ poll' \in [Poller -> PollState]
         /\ poll'[k].pc = "polling"
         /\ poll'[k].todo = poll[k].todo
         /\ Working(k)' = poll[k].todo
<1>1. PICK r : r = [pc |-> "polling", todo |-> poll[k].todo]
  OBVIOUS
<1>2. r \in PollState /\ r.pc = "polling" /\ r.todo = poll[k].todo
  BY <1>1, PollType DEF PollState
<1>3. poll' \in [Poller -> PollState] /\ poll'[k] = r
  BY <1>1, <1>2 DEF NextThread, TypeOK
<1> QED
  BY <1>2, <1>3 DEF Working, Busy

LEMMA WorkIs ==
  ASSUME TypeOK, NEW k \in Poller, NEW e \in poll[k].todo,
         NEW pc \in {"reading", "sending"}, Work(k, e, pc)
  PROVE  /\ poll' \in [Poller -> PollState]
         /\ poll[k].pc = "polling" /\ poll'[k].pc = pc
         /\ poll'[k].todo = poll[k].todo \ {e} /\ poll'[k].cur = e
         /\ e \in Entry /\ Working(k) = poll[k].todo
         /\ Working(k)' = Working(k)
<1>1. PICK r : r = [pc |-> pc, todo |-> poll[k].todo \ {e}, cur |-> e]
  OBVIOUS
<1>2. e \in Entry
  BY PollType
<1>3. /\ r \in PollState
      /\ r.pc = pc /\ r.todo = poll[k].todo \ {e} /\ r.cur = e
  BY <1>1, <1>2, PollType DEF PollState
<1>4. poll' \in [Poller -> PollState] /\ poll'[k] = r
  BY <1>1, <1>3 DEF Work, TypeOK
<1>5. poll[k].pc = "polling"
  BY DEF Work, At
<1> QED
  BY <1>2, <1>3, <1>4, <1>5 DEF Working, Busy

\* A message is about an invitation, and comes from a poll or not.
LEMMA MsgIs ==
  ASSUME TypeOK, NEW m \in wire \cup dlq
  PROVE  /\ m \in Msg
         /\ m.entry \in Entry /\ m.entry[1] \in Pipeline
         /\ m.entry[2] \in Round /\ m.entry = <<m.entry[1], m.entry[2]>>
         /\ m.from # "service" => m.from \in Poller
<1>1. m \in Msg
  BY DEF TypeOK
<1> QED
  BY <1>1 DEF Msg, Entry

---------------------------------------------------------------------------
(* Polls that decide nothing, or are cut short                             *)

PollQuiet ==
  /\ UNCHANGED <<state, round, threads, dlq>>
  /\ event' \in [Entry -> {"none", "tentative", "confirmed", "deleted"}]
  /\ Uncut' => event' = event
  /\ age' \in [Entry -> {"new", "polled", "old"}]
  /\ joining' \subseteq joining
  /\ wire' = {m \in wire : m.from = "service"}
  /\ poll' \in [Poller -> PollState]
  /\ faults \subseteq faults' /\ faults' \subseteq Faults
  /\ \A k \in Poller :
       /\ poll'[k].pc # "sending"
       /\ Uncut' => poll[k].pc # "sending"
       /\ \/ Working(k)' \subseteq Working(k)
          \/ Working(k)' \subseteq {e \in Entry : threads[e[1]] = e[2]}
       /\ Busy(k)' => poll'[k].cur \notin poll'[k].todo

LEMMA PollQuietKeeps ==
  ASSUME RsvpInv, PollQuiet
  PROVE  RsvpInv'
<1>1. TypeOK'
  BY DEF RsvpInv, TypeOK, PollQuiet
<1>2. WireTrue'
  BY DEF RsvpInv, WireTrue, PollQuiet
<1>3. ASSUME NEW p \in Pipeline, NEW r \in Round, Knows(p, r)'
      PROVE  Knows(p, r)
  <2>1. CASE threads'[p] = r \/ <<p, r>> \in joining'
    BY <2>1 DEF PollQuiet, Knows
  <2>2. ASSUME NEW k \in Poller, <<p, r>> \in Working(k)'
        PROVE  Knows(p, r)
    BY <2>2 DEF PollQuiet, Knows
  <2> QED
    BY <1>3, <2>1, <2>2 DEF Knows
<1>4. KnownTrue'
  BY <1>3 DEF RsvpInv, KnownTrue, PollQuiet
<1>5. WorkTrue'
  <2>1. ASSUME NEW k \in Poller
        PROVE  /\ \A e \in Working(k)' : threads[e[1]] # 0
               /\ \A e, f \in Working(k)' : e[1] = f[1] => e = f
               /\ Busy(k)' => poll'[k].cur \notin poll'[k].todo
    <3>1. CASE Working(k)' \subseteq Working(k)
      BY <3>1 DEF RsvpInv, WorkTrue, PollQuiet
    <3>2. CASE Working(k)' \subseteq {e \in Entry : threads[e[1]] = e[2]}
      <4>1. \A e \in Entry : e[2] # 0
        BY DEF Entry, Round
      <4>2. \A e, f \in Entry : e[1] = f[1] /\ e[2] = f[2] => e = f
        BY DEF Entry
      <4> QED
        BY <3>2, <4>1, <4>2 DEF PollQuiet
    <3> QED
      BY <3>1, <3>2 DEF PollQuiet
  <2> QED
    BY <2>1 DEF WorkTrue, PollQuiet
<1>6. OutcomeIsKept'
  BY DEF OutcomeIsKept, At, PollQuiet
<1>7. UncutTrue'
  <2> SUFFICES ASSUME Uncut' PROVE UncutTrue'
    BY DEF UncutTrue
  <2>1. Uncut
    BY DEF Uncut, PollQuiet
  <2>2. \A p \in Pipeline : Joins(p)' => Joins(p)
    BY DEF PollQuiet, Joins
  <2>3. \A p \in Pipeline : ~ Sending(p) /\ ~ Sending(p)'
    BY DEF Sending, At, PollQuiet
  <2>4. \A p \in Pipeline, r \in Round : Knows(p, r)' => r = round'[p]
    BY <1>3, <2>1 DEF RsvpInv, UncutTrue, PollQuiet
  <2>5. \A p \in Pipeline :
          /\ Joins(p)' => state'[p] = "RSVP_PENDING" /\ threads'[p] = 0
          /\ state'[p] \in Ended /\ threads'[p] # 0 => Sending(p)'
          /\ \/ state'[p] = "CONFIRMATION_SENT"
             \/ /\ state'[p] = "RSVP_PENDING" /\ ~ Sending(p)'
                /\ threads'[p] # 0 \/ Joins(p)'
             => event'[<<p, round'[p]>>] = "tentative"
    BY <2>1, <2>2, <2>3 DEF RsvpInv, UncutTrue, PollQuiet
  <2>6. \A m \in wire' :
          /\ m.kind = "finalize" => event'[m.entry] # "deleted"
          /\ m.kind = "cancel" => event'[m.entry] # "confirmed"
    BY <2>1 DEF RsvpInv, UncutTrue, PollQuiet
  <2>7. EventFollowsOutcome'
    BY <2>1 DEF RsvpInv, UncutTrue, PollQuiet, EventFollowsOutcome
  <2> QED
    BY <2>4, <2>5, <2>6, <2>7 DEF UncutTrue
<1>8. PendingIsWatched'
  <2> SUFFICES ASSUME NEW p \in Pipeline, state'[p] = "RSVP_PENDING",
                      round'[p] = 1 \/ Uncut'
               PROVE  \/ threads'[p] # 0
                      \/ \E m \in wire' \cup dlq' : m.entry = <<p, round'[p]>>
    BY DEF PendingIsWatched
  <2>1. CASE threads[p] # 0
    BY <2>1 DEF PollQuiet
  <2>2. ASSUME NEW m \in wire \cup dlq, m.entry = <<p, round[p]>>
        PROVE  \/ threads'[p] # 0 \/ m \in wire' \cup dlq'
    <3>1. CASE m \in wire /\ m.from # "service"
      <4>1. m.from \in Poller /\ At(m.from, "sending") /\ Cur(m.from) = m.entry
        BY <3>1, MsgIs DEF RsvpInv, WireTrue
      <4>2. m.entry \in Working(m.from)
        BY <4>1 DEF Working, Busy, At, Cur
      <4>3. threads[p] # 0
        BY <2>2, <4>1, <4>2 DEF RsvpInv, WorkTrue
      <4> QED
        BY <4>3 DEF PollQuiet
    <3>2. CASE m \notin wire \/ m.from = "service"
      BY <3>2 DEF PollQuiet
    <3> QED
      BY <3>1, <3>2
  <2>3. Uncut' => Uncut
    BY DEF Uncut, PollQuiet
  <2>4. state[p] = "RSVP_PENDING" /\ (round[p] = 1 \/ Uncut)
    BY <2>3 DEF PollQuiet
  <2>5. \/ threads[p] # 0
        \/ \E m \in wire \cup dlq : m.entry = <<p, round[p]>>
    BY <2>4 DEF RsvpInv, PendingIsWatched
  <2> QED
    BY <2>1, <2>2, <2>5 DEF PollQuiet
<1> QED
  BY <1>1, <1>2, <1>4, <1>5, <1>6, <1>7, <1>8 DEF RsvpInv

\* The usual one: the poll is not waiting for a dispatch.
LEMMA OnePollQuiet ==
  ASSUME RsvpInv, OnePoller, NEW k \in Poller, ~ At(k, "sending"),
         UNCHANGED <<state, round, event, threads, wire, dlq, joining>>,
         age' \in [Entry -> {"new", "polled", "old"}],
         faults \subseteq faults', faults' \subseteq Faults,
         poll' \in [Poller -> PollState], poll'[k].pc # "sending",
         \/ Working(k)' \subseteq Working(k)
         \/ Working(k)' \subseteq {e \in Entry : threads[e[1]] = e[2]},
         Busy(k)' => poll'[k].cur \notin poll'[k].todo
  PROVE  RsvpInv'
<1>1. \A m \in wire : m.from = "service"
  <2> SUFFICES ASSUME NEW m \in wire, m.from # "service" PROVE FALSE
    OBVIOUS
  <2>1. m.from \in Poller /\ At(m.from, "sending")
    BY MsgIs DEF RsvpInv, WireTrue
  <2> QED
    BY <2>1 DEF OnePoller
<1>2. wire' = {m \in wire : m.from = "service"}
  BY <1>1
<1>3. \A l \in Poller : l = k
  BY DEF OnePoller
<1>4. PollQuiet
  BY <1>2, <1>3 DEF PollQuiet, At, RsvpInv, TypeOK
<1> QED
  BY <1>4, PollQuietKeeps

LEMMA SnapshotKeeps ==
  ASSUME RsvpInv, OnePoller, NEW k \in Poller, Snapshot(k)
  PROVE  RsvpInv'
<1> DEFINE T == {e \in Entry : threads[e[1]] = e[2]}
<1>1. PICK r : r = [pc |-> "polling", todo |-> T]
  OBVIOUS
<1>2. r \in PollState /\ r.pc = "polling" /\ r.todo = T
  BY <1>1 DEF PollState
<1>3. poll' \in [Poller -> PollState] /\ poll'[k] = r
  BY <1>1, <1>2 DEF Snapshot, RsvpInv, TypeOK
<1>4. Working(k)' = T
  BY <1>2, <1>3 DEF Working, Busy
<1> HIDE DEF T
<1>5. Working(k)' \subseteq {e \in Entry : threads[e[1]] = e[2]}
  BY <1>4 DEF T
<1>6. /\ UNCHANGED <<state, round, event, threads, wire, dlq, joining>>
      /\ age' \in [Entry -> {"new", "polled", "old"}]
      /\ faults \subseteq faults' /\ faults' \subseteq Faults
      /\ ~ At(k, "sending")
  BY DEF Snapshot, RsvpInv, TypeOK, At
<1>7. poll'[k].pc # "sending" /\ ~ Busy(k)'
  BY <1>2, <1>3 DEF Busy
<1> QED
  BY <1>3, <1>5, <1>6, <1>7, OnePollQuiet

LEMMA PollEndsKeeps ==
  ASSUME RsvpInv, OnePoller, NEW k \in Poller, PollEnds(k)
  PROVE  RsvpInv'
<1>1. Idle \in PollState /\ Idle.pc = "idle" /\ Idle.todo = {}
  BY DEF Idle, PollState
<1>2. poll' \in [Poller -> PollState] /\ poll'[k] = Idle
  BY <1>1 DEF PollEnds, RsvpInv, TypeOK
<1>3. Working(k)' = {} /\ poll'[k].pc # "sending" /\ ~ Busy(k)'
  BY <1>1, <1>2 DEF Working, Busy
<1>4. /\ UNCHANGED <<state, round, event, threads, wire, dlq, joining>>
      /\ age' \in [Entry -> {"new", "polled", "old"}]
      /\ faults \subseteq faults' /\ faults' \subseteq Faults
      /\ ~ At(k, "sending")
  BY DEF PollEnds, RsvpInv, TypeOK, At
<1>5. Working(k)' \subseteq Working(k)
  BY <1>3
<1> QED
  BY <1>2, <1>3, <1>4, <1>5, OnePollQuiet

LEMMA LoopDiesKeeps ==
  ASSUME RsvpInv, OnePoller, NEW k \in Poller, LoopDies(k)
  PROVE  RsvpInv'
<1>1. PICK r : r = [pc |-> "dead", todo |-> {}]
  OBVIOUS
<1>2. r \in PollState /\ r.pc = "dead" /\ r.todo = {}
  BY <1>1 DEF PollState
<1>3. poll' \in [Poller -> PollState] /\ poll'[k] = r
  BY <1>1, <1>2 DEF LoopDies, RsvpInv, TypeOK
<1>4. Working(k)' = {} /\ poll'[k].pc # "sending" /\ ~ Busy(k)'
  BY <1>2, <1>3 DEF Working, Busy
<1>5. /\ UNCHANGED <<state, round, event, threads, wire, dlq, joining>>
      /\ age' \in [Entry -> {"new", "polled", "old"}]
      /\ faults \subseteq faults' /\ faults' \subseteq Faults
      /\ ~ At(k, "sending")
  BY DEF LoopDies, Fault, RsvpInv, TypeOK, At
<1>6. Working(k)' \subseteq Working(k)
  BY <1>4
<1> QED
  BY <1>3, <1>4, <1>5, <1>6, OnePollQuiet

LEMMA ReadRowKeeps ==
  ASSUME RsvpInv, OnePoller, NEW k \in Poller, NEW e \in poll[k].todo,
         ReadRow(k, e)
  PROVE  RsvpInv'
<1>1. TypeOK /\ Work(k, e, "reading") /\ "reading" \in {"reading", "sending"}
  BY DEF ReadRow, RsvpInv
<1>2. /\ poll' \in [Poller -> PollState]
      /\ poll[k].pc = "polling" /\ poll'[k].pc = "reading"
      /\ poll'[k].todo = poll[k].todo \ {e} /\ poll'[k].cur = e
      /\ Working(k)' = Working(k)
  BY <1>1, WorkIs
<1>3. /\ UNCHANGED <<state, round, event, threads, wire, dlq, joining>>
      /\ age' \in [Entry -> {"new", "polled", "old"}]
      /\ faults \subseteq faults' /\ faults' \subseteq Faults
      /\ ~ At(k, "sending")
  BY <1>2 DEF ReadRow, RsvpInv, TypeOK, At
<1>4. /\ Working(k)' \subseteq Working(k) /\ poll'[k].pc # "sending"
      /\ poll'[k].cur \notin poll'[k].todo
  BY <1>2
<1> QED
  BY <1>2, <1>3, <1>4, OnePollQuiet

LEMMA ReadingGoesOn ==
  ASSUME RsvpInv, OnePoller, NEW k \in Poller,
         NoReply(k) \/ Ambiguous(k)
  PROVE  RsvpInv'
<1>1. TypeOK /\ NextThread(k) /\ ~ At(k, "sending")
  BY DEF NoReply, Ambiguous, At, RsvpInv
<1>2. /\ poll' \in [Poller -> PollState] /\ poll'[k].pc = "polling"
      /\ Working(k)' = poll[k].todo
  BY <1>1, NextThreadIs
<1>3. /\ Working(k)' \subseteq Working(k)
      /\ poll'[k].pc # "sending" /\ ~ Busy(k)'
  BY <1>2 DEF Working, Busy
<1>4. /\ UNCHANGED <<state, round, event, threads, wire, dlq, joining>>
      /\ age' \in [Entry -> {"new", "polled", "old"}]
      /\ faults \subseteq faults' /\ faults' \subseteq Faults
  BY DEF NoReply, Ambiguous, Healthy, RsvpInv, TypeOK
<1> QED
  BY <1>1, <1>2, <1>3, <1>4, OnePollQuiet

LEMMA VagueReplyKeeps ==
  ASSUME RsvpInv, OnePoller, NEW k \in Poller, VagueReply(k)
  PROVE  RsvpInv'
<1>1. /\ TypeOK /\ StayOn(k, "classifying") /\ ~ At(k, "sending") /\ Busy(k)
      /\ "classifying" \in {"classifying", "sending"}
  BY DEF VagueReply, At, Busy, RsvpInv
<1>2. /\ poll' \in [Poller -> PollState] /\ poll'[k].pc = "classifying"
      /\ poll'[k].todo = poll[k].todo /\ poll'[k].cur = poll[k].cur
      /\ Working(k)' = Working(k)
  BY <1>1, StayOnIs
<1>3. poll[k].cur \notin poll[k].todo
  BY <1>1 DEF RsvpInv, WorkTrue
<1>4. /\ Working(k)' \subseteq Working(k)
      /\ poll'[k].pc # "sending" /\ poll'[k].cur \notin poll'[k].todo
  BY <1>2, <1>3
<1>5. /\ UNCHANGED <<state, round, event, threads, wire, dlq, joining>>
      /\ age' \in [Entry -> {"new", "polled", "old"}]
      /\ faults \subseteq faults' /\ faults' \subseteq Faults
  BY DEF VagueReply, RsvpInv, TypeOK
<1> QED
  BY <1>1, <1>2, <1>4, <1>5, OnePollQuiet

LEMMA FailsKeeps ==
  ASSUME RsvpInv, OnePoller, NEW k \in Poller, Fails(k)
  PROVE  RsvpInv'
<1>1. TypeOK /\ NextThread(k)
  BY DEF Fails, RsvpInv
<1>2. /\ poll' \in [Poller -> PollState] /\ poll'[k].pc = "polling"
      /\ Working(k)' = poll[k].todo
  BY <1>1, NextThreadIs
<1>3. /\ Working(k)' \subseteq Working(k)
      /\ poll'[k].pc # "sending" /\ ~ Busy(k)'
  BY <1>2 DEF Working, Busy
<1>4. \A l \in Poller : l = k
  BY DEF OnePoller
<1>5. ~ Uncut'
  BY DEF Fails, Fault, Uncut
<1>6. wire' = {m \in wire : m.from = "service"}
  <2>1. \A m \in wire : m.from # "service" => m.from = k
    BY <1>1, <1>4, MsgIs
  <2>2. "service" # k
    BY RsvpAssumption
  <2> QED
    BY <2>1, <2>2 DEF Fails
<1>7. PollQuiet
  BY <1>2, <1>3, <1>4, <1>5, <1>6
     DEF PollQuiet, Fails, Fault, RsvpInv, TypeOK
<1> QED
  BY <1>7, PollQuietKeeps

\* A calendar that raises leaves the registration to later polls.
LEMMA CalendarRaisesKeeps ==
  ASSUME RsvpInv, OnePoller, NEW k \in Poller, NEW e \in Entry,
         NEW kind \in {"finalize", "cancel"}, CalendarRaises(k, e, kind)
  PROVE  RsvpInv'
<1>1. /\ TypeOK /\ ~ At(k, "sending")
      /\ UNCHANGED <<state, round, threads, age, wire, dlq, joining>>
      /\ event' \in {event, Changed(e, kind)}
      /\ faults' = faults \cup {"calendar"} /\ "calendar" \in Faults
  BY DEF CalendarRaises, Decides, At, RsvpInv
<1>2. PICK r : r = [pc |-> "polling", todo |-> poll[k].todo \ {e}]
  OBVIOUS
<1>3. r \in PollState /\ r.pc = "polling" /\ r.todo = poll[k].todo \ {e}
  BY <1>1, <1>2, PollType DEF PollState
<1>4. poll' \in [Poller -> PollState] /\ poll'[k] = r
  BY <1>1, <1>2, <1>3 DEF CalendarRaises, TypeOK
<1>5. /\ Working(k)' \subseteq Working(k)
      /\ poll'[k].pc # "sending" /\ ~ Busy(k)'
  BY <1>3, <1>4 DEF Working, Busy
<1>6. ~ Uncut'
  BY <1>1 DEF Uncut
<1>7. wire' = {m \in wire : m.from = "service"}
  <2> SUFFICES ASSUME NEW m \in wire, m.from # "service" PROVE FALSE
    BY <1>1
  <2>1. m.from \in Poller /\ At(m.from, "sending")
    BY <1>1, MsgIs DEF RsvpInv, WireTrue
  <2> QED
    BY <1>1, <2>1 DEF OnePoller
<1>8. event' \in [Entry -> {"none", "tentative", "confirmed", "deleted"}]
  BY <1>1 DEF Changed, TypeOK
<1>9. \A l \in Poller : l = k
  BY DEF OnePoller
<1>10. PollQuiet
  BY <1>1, <1>4, <1>5, <1>6, <1>7, <1>8, <1>9 DEF PollQuiet, TypeOK
<1> QED
  BY <1>10, PollQuietKeeps

LEMMA RestartKeeps ==
  ASSUME RsvpInv, Restart
  PROVE  RsvpInv'
<1>1. Idle \in PollState /\ Idle.pc = "idle" /\ Idle.todo = {}
  BY DEF Idle, PollState
<1>2. /\ poll' \in [Poller -> PollState]
      /\ \A k \in Poller : poll'[k] = Idle
  BY <1>1 DEF Restart
<1>3. \A k \in Poller :
        Working(k)' = {} /\ poll'[k].pc # "sending" /\ ~ Busy(k)'
  BY <1>1, <1>2 DEF Working, Busy
<1>4. ~ Uncut'
  BY DEF Restart, Fault, Uncut
<1>5. PollQuiet
  BY <1>2, <1>3, <1>4 DEF PollQuiet, Restart, Fault, RsvpInv, TypeOK
<1> QED
  BY <1>5, PollQuietKeeps

---------------------------------------------------------------------------
(* A poll decides                                                          *)

\* Nobody waits for a dispatch: every dispatch is the service's.
LEMMA NoSender ==
  ASSUME RsvpInv, OnePoller, NEW k \in Poller, ~ At(k, "sending")
  PROVE  /\ \A m \in wire : /\ m.from = "service"
                            /\ m.kind \in {"email.sent", "register"}
         /\ \A p : ~ Sending(p)
<1>1. \A m \in wire : m.from = "service"
  <2> SUFFICES ASSUME NEW m \in wire, m.from # "service" PROVE FALSE
    OBVIOUS
  <2>1. m.from \in Poller /\ At(m.from, "sending")
    BY MsgIs DEF RsvpInv, WireTrue
  <2> QED
    BY <2>1 DEF OnePoller
<1>2. \A m \in wire : m.kind \in {"email.sent", "register"}
  BY <1>1 DEF RsvpInv, WireTrue
<1>3. \A p : ~ Sending(p)
  BY DEF Sending, OnePoller
<1> QED
  BY <1>1, <1>2, <1>3

LEMMA OutcomeIs ==
  ASSUME NEW k \in Poller, NEW kind \in {"finalize", "cancel"},
         NEW e \in Entry
  PROVE  /\ Outcome(k, kind, e) \in Msg
         /\ Outcome(k, kind, e).kind = kind
         /\ Outcome(k, kind, e).entry = e
         /\ Outcome(k, kind, e).from = k
  BY DEF Outcome, Msg

Decided(k, e, kind) ==
  /\ ~ At(k, "sending")
  /\ e \in Working(k)
  /\ Decide(k, e, kind)
  /\ UNCHANGED <<state, round, threads, age, dlq, joining>>
  /\ poll' \in [Poller -> PollState]
  /\ poll'[k].pc = "sending" /\ poll'[k].cur = e
  /\ e \notin poll'[k].todo
  /\ Working(k)' = Working(k)

LEMMA DecidesKeeps ==
  ASSUME RsvpInv, OnePoller, NEW k \in Poller,
         NEW kind \in {"finalize", "cancel"}, NEW e, Decided(k, e, kind)
  PROVE  RsvpInv'
<1> DEFINE o == Outcome(k, kind, e)
<1>1. /\ e \in Entry /\ e[1] \in Pipeline /\ e[2] \in Round
      /\ e = <<e[1], e[2]>>
  BY PollType DEF RsvpInv, Decided
<1>2. o \in Msg /\ o.kind = kind /\ o.entry = e /\ o.from = k
  BY <1>1, OutcomeIs
<1>3. wire' = wire \cup {o}
  BY DEF Decided, Decide
<1> HIDE DEF o
<1>4. k # "service" /\ \A l \in Poller : l = k
  BY RsvpAssumption DEF OnePoller
<1>5. /\ \A m \in wire : /\ m.from = "service"
                         /\ m.kind \in {"email.sent", "register"}
      /\ \A p : ~ Sending(p)
  BY NoSender DEF Decided
<1>6. /\ event' \in [Entry -> {"none", "tentative", "confirmed", "deleted"}]
      /\ faults \subseteq faults' /\ faults' \subseteq Faults
      /\ \A f \in Entry : f # e => event'[f] = event[f]
      /\ \/ event'[e] = event[e]
         \/ kind = "finalize" /\ event'[e] = "confirmed"
         \/ kind = "cancel" /\ event'[e] = "deleted"
  BY <1>1 DEF Decided, Decide, Changed, Healthy, Fault, RsvpInv, TypeOK
<1>7. TypeOK'
  BY <1>2, <1>3, <1>6 DEF Decided, RsvpInv, TypeOK
<1>8. WireTrue'
  BY <1>2, <1>3, <1>4, <1>5
     DEF Decided, RsvpInv, WireTrue, At, Cur
<1>9. \A p \in Pipeline, r \in Round : Knows(p, r)' => Knows(p, r)
  BY <1>4 DEF Decided, Knows
<1>10. KnownTrue'
  BY <1>9 DEF Decided, RsvpInv, KnownTrue
<1>11. WorkTrue'
  BY <1>4 DEF Decided, RsvpInv, WorkTrue, Busy
<1>12. OutcomeIsKept'
  BY <1>2, <1>3, <1>4 DEF Decided, OutcomeIsKept, Cur
<1>13. UncutTrue'
  <2> SUFFICES ASSUME Uncut' PROVE UncutTrue'
    BY DEF UncutTrue
  <2>1. Uncut
    BY <1>6 DEF Uncut
  <2>2. Knows(e[1], e[2]) /\ threads[e[1]] # 0
    BY <1>1 DEF Knows, Decided, RsvpInv, WorkTrue
  <2>3. e[2] = round[e[1]] /\ state[e[1]] # "CONFIRMATION_SENT"
    BY <1>1, <2>1, <2>2 DEF RsvpInv, UncutTrue, KnownTrue
  <2>4. state[e[1]] = "RSVP_PENDING"
    <3>1. state[e[1]] \notin Ended
      BY <1>1, <1>5, <2>1, <2>2 DEF RsvpInv, UncutTrue
    <3> QED
      BY <1>1, <2>3, <3>1 DEF RsvpInv, TypeOK, Ended
  <2>5. event[e] = "tentative"
    BY <1>1, <1>5, <2>1, <2>2, <2>3, <2>4 DEF RsvpInv, UncutTrue
  <2>6. \A p \in Pipeline : Joins(p)' => Joins(p)
    BY <1>2, <1>3 DEF Joins, Decided
  <2>7. Sending(e[1])'
    BY DEF Sending, Decided, At, Cur
  <2>8. \A p \in Pipeline : <<p, round[p]>> \in Entry
    BY DEF RsvpInv, TypeOK, Entry
  <2>9. \A p \in Pipeline : p # e[1] =>
          event'[<<p, round[p]>>] = event[<<p, round[p]>>]
    BY <1>6, <2>8
  <2>10. \A p \in Pipeline, r \in Round : Knows(p, r)' => r = round'[p]
    BY <1>9, <2>1 DEF RsvpInv, UncutTrue, Decided
  <2>11. \A p \in Pipeline :
           /\ Joins(p)' => state'[p] = "RSVP_PENDING" /\ threads'[p] = 0
           /\ state'[p] \in Ended /\ threads'[p] # 0 => Sending(p)'
    BY <1>5, <2>1, <2>6 DEF RsvpInv, UncutTrue, Decided
  <2>12. \A p \in Pipeline :
           \/ state'[p] = "CONFIRMATION_SENT"
           \/ /\ state'[p] = "RSVP_PENDING" /\ ~ Sending(p)'
              /\ threads'[p] # 0 \/ Joins(p)'
           => event'[<<p, round'[p]>>] = "tentative"
    <3> SUFFICES ASSUME NEW p \in Pipeline,
                        \/ state'[p] = "CONFIRMATION_SENT"
                        \/ /\ state'[p] = "RSVP_PENDING" /\ ~ Sending(p)'
                           /\ threads'[p] # 0 \/ Joins(p)'
                 PROVE  event'[<<p, round'[p]>>] = "tentative"
      OBVIOUS
    <3>1. p # e[1]
      BY <2>4, <2>7 DEF Decided
    <3>2. event[<<p, round[p]>>] = "tentative"
      BY <1>5, <2>1, <2>6 DEF RsvpInv, UncutTrue, Decided
    <3> QED
      BY <2>9, <3>1, <3>2 DEF Decided
  <2>13. \A m \in wire' :
           /\ m.kind = "finalize" => event'[m.entry] # "deleted"
           /\ m.kind = "cancel" => event'[m.entry] # "confirmed"
    BY <1>2, <1>3, <1>5, <1>6, <2>5
  <2>14. EventFollowsOutcome'
    <3> SUFFICES ASSUME NEW p \in Pipeline
                 PROVE  /\ state'[p] = "BOOKED" =>
                             event'[<<p, round'[p]>>] # "deleted"
                        /\ state'[p] = "RSVP_TIMEOUT_CANCELLED" =>
                             \/ event'[<<p, round'[p]>>] # "confirmed"
                             \/ "google" \in faults'
      BY DEF EventFollowsOutcome
    <3>1. CASE p = e[1]
      BY <2>4, <3>1 DEF Decided
    <3>2. CASE p # e[1]
      BY <1>6, <2>1, <2>9, <3>2
         DEF Decided, RsvpInv, UncutTrue, EventFollowsOutcome
    <3> QED
      BY <3>1, <3>2
  <2> QED
    BY <2>10, <2>11, <2>12, <2>13, <2>14 DEF UncutTrue
<1>14. PendingIsWatched'
  BY <1>3, <1>6 DEF Decided, RsvpInv, PendingIsWatched, Uncut
<1> QED
  BY <1>7, <1>8, <1>10, <1>11, <1>12, <1>13, <1>14 DEF RsvpInv

LEMMA TimedOutKeeps ==
  ASSUME RsvpInv, OnePoller, NEW k \in Poller, NEW e \in poll[k].todo,
         TimedOut(k, e)
  PROVE  RsvpInv'
<1>1. TypeOK /\ Work(k, e, "sending") /\ "sending" \in {"reading", "sending"}
  BY DEF TimedOut, RsvpInv
<1>2. /\ poll' \in [Poller -> PollState]
      /\ poll[k].pc = "polling" /\ poll'[k].pc = "sending"
      /\ poll'[k].todo = poll[k].todo \ {e} /\ poll'[k].cur = e
      /\ Working(k) = poll[k].todo /\ Working(k)' = Working(k)
  BY <1>1, WorkIs
<1>3. Decided(k, e, "cancel")
  BY <1>2 DEF Decided, TimedOut, At
<1> QED
  BY <1>3, DecidesKeeps

LEMMA ReplyDecides ==
  ASSUME RsvpInv, OnePoller, NEW k \in Poller,
         NEW kind \in {"finalize", "cancel"},
         At(k, "reading") \/ At(k, "classifying"), StayOn(k, "sending"),
         Decide(k, Cur(k), kind),
         UNCHANGED <<state, round, threads, age, dlq, joining>>
  PROVE  RsvpInv'
<1>1. TypeOK /\ Busy(k) /\ "sending" \in {"classifying", "sending"}
  BY DEF Busy, At, RsvpInv
<1>2. /\ poll' \in [Poller -> PollState] /\ poll'[k].pc = "sending"
      /\ poll'[k].todo = poll[k].todo /\ poll'[k].cur = poll[k].cur
      /\ Working(k)' = Working(k)
  BY <1>1, StayOnIs
<1>3. poll[k].cur \notin poll[k].todo
  BY <1>1 DEF RsvpInv, WorkTrue
<1>4. Cur(k) \in Working(k)
  BY <1>1 DEF Working, Cur
<1>5. Decided(k, Cur(k), kind)
  BY <1>2, <1>3, <1>4 DEF Decided, At, Cur
<1> QED
  BY <1>5, DecidesKeeps

LEMMA ClearReplyKeeps ==
  ASSUME RsvpInv, OnePoller, NEW k \in Poller,
         NEW kind \in {"finalize", "cancel"}, ClearReply(k, kind)
  PROVE  RsvpInv'
  BY ReplyDecides DEF ClearReply

LEMMA ClassifiedKeeps ==
  ASSUME RsvpInv, OnePoller, NEW k \in Poller,
         NEW kind \in {"finalize", "cancel"}, Classified(k, kind)
  PROVE  RsvpInv'
  BY ReplyDecides DEF Classified

LEMMA DeregisterKeeps ==
  ASSUME RsvpInv, OnePoller, NEW k \in Poller, Deregister(k)
  PROVE  RsvpInv'
<1> DEFINE c == Cur(k)
<1>1. /\ TypeOK /\ NextThread(k) /\ At(k, "sending") /\ Busy(k)
      /\ threads' = [threads EXCEPT ![c[1]] = 0]
      /\ UNCHANGED <<state, round, event, age, wire, dlq, joining, faults>>
  BY DEF Deregister, RsvpInv, Busy, At
<1>2. /\ poll' \in [Poller -> PollState] /\ poll'[k].pc = "polling"
      /\ Working(k)' = poll[k].todo
  BY <1>1, NextThreadIs
<1>3. \A l \in Poller : l = k
  BY DEF OnePoller
<1>4. \A m \in wire : m.from = "service"
  BY <1>1, <1>3, MsgIs DEF Deregister
<1>5. /\ c \in Entry /\ c[1] \in Pipeline /\ c[2] \in Round
      /\ c = <<c[1], c[2]>>
  BY <1>1, PollType DEF Cur
<1>6. c \in Working(k) /\ c \notin poll[k].todo /\ threads[c[1]] # 0
  BY <1>1 DEF RsvpInv, WorkTrue, Cur, Working
<1>7. Working(k)' \subseteq Working(k) \ {c}
  BY <1>2, <1>6 DEF Working
<1> HIDE DEF c
<1>8. /\ threads'[c[1]] = 0
      /\ \A p \in Pipeline : p # c[1] => threads'[p] = threads[p]
  BY <1>1, <1>5 DEF TypeOK
<1>9. TypeOK'
  BY <1>1, <1>2, <1>5 DEF TypeOK
<1>10. WireTrue'
  BY <1>1, <1>4 DEF RsvpInv, WireTrue
<1>11. ASSUME NEW p \in Pipeline, NEW r \in Round, Knows(p, r)'
       PROVE  Knows(p, r)
  <2>1. CASE threads'[p] = r
    <3>1. r # 0
      BY DEF Round
    <3> QED
      BY <1>8, <2>1, <3>1 DEF Knows
  <2>2. CASE <<p, r>> \in joining' \/ <<p, r>> \in Working(k)'
    BY <1>1, <1>7, <2>2 DEF Knows
  <2> QED
    BY <1>3, <1>11, <2>1, <2>2 DEF Knows
<1>12. KnownTrue'
  BY <1>1, <1>11 DEF RsvpInv, KnownTrue
<1>13. WorkTrue'
  <2>1. \A e \in Working(k)' : e[1] \in Pipeline /\ e[1] # c[1]
    BY <1>1, <1>6, <1>7, PollType DEF RsvpInv, WorkTrue
  <2>2. /\ \A e \in Working(k)' : threads'[e[1]] # 0
        /\ \A e, f \in Working(k)' : e[1] = f[1] => e = f
    BY <1>6, <1>7, <1>8, <2>1 DEF RsvpInv, WorkTrue
  <2> QED
    BY <1>2, <1>3, <2>2 DEF WorkTrue, Busy
<1>14. OutcomeIsKept' /\ \A p : ~ Sending(p)'
  BY <1>2, <1>3 DEF OutcomeIsKept, Sending, At
<1>15. \A p \in Pipeline : Sending(p) => p = c[1]
  BY <1>3 DEF Sending, c
<1>16. UncutTrue'
  <2> SUFFICES ASSUME Uncut' PROVE UncutTrue'
    BY DEF UncutTrue
  <2>1. Uncut
    BY <1>1 DEF Uncut
  <2>2. \A p \in Pipeline : Joins(p)' = Joins(p)
    BY <1>1 DEF Joins
  <2>3. \A p \in Pipeline, r \in Round : Knows(p, r)' => r = round'[p]
    BY <1>1, <1>11, <2>1 DEF RsvpInv, UncutTrue
  <2>4. \A p \in Pipeline :
          /\ Joins(p)' => state'[p] = "RSVP_PENDING" /\ threads'[p] = 0
          /\ state'[p] \in Ended /\ threads'[p] # 0 => Sending(p)'
          /\ \/ state'[p] = "CONFIRMATION_SENT"
             \/ /\ state'[p] = "RSVP_PENDING" /\ ~ Sending(p)'
                /\ threads'[p] # 0 \/ Joins(p)'
             => event'[<<p, round'[p]>>] = "tentative"
    <3> SUFFICES ASSUME NEW p \in Pipeline
                 PROVE
          /\ Joins(p)' => state'[p] = "RSVP_PENDING" /\ threads'[p] = 0
          /\ state'[p] \in Ended /\ threads'[p] # 0 => Sending(p)'
          /\ \/ state'[p] = "CONFIRMATION_SENT"
             \/ /\ state'[p] = "RSVP_PENDING" /\ ~ Sending(p)'
                /\ threads'[p] # 0 \/ Joins(p)'
             => event'[<<p, round'[p]>>] = "tentative"
      OBVIOUS
    <3>1. CASE p = c[1]
      BY <1>1, <1>6, <1>8, <2>1, <2>2, <3>1 DEF RsvpInv, UncutTrue
    <3>2. CASE p # c[1]
      BY <1>1, <1>8, <1>15, <2>1, <2>2, <3>2 DEF RsvpInv, UncutTrue
    <3> QED
      BY <3>1, <3>2
  <2>5. \A m \in wire' :
          /\ m.kind = "finalize" => event'[m.entry] # "deleted"
          /\ m.kind = "cancel" => event'[m.entry] # "confirmed"
    BY <1>1, <2>1 DEF RsvpInv, UncutTrue
  <2>6. EventFollowsOutcome'
    BY <1>1, <2>1 DEF RsvpInv, UncutTrue, EventFollowsOutcome
  <2> QED
    BY <2>3, <2>4, <2>5, <2>6 DEF UncutTrue
<1>17. PendingIsWatched'
  <2> SUFFICES ASSUME NEW p \in Pipeline, state'[p] = "RSVP_PENDING",
                      round'[p] = 1 \/ Uncut'
               PROVE  \/ threads'[p] # 0
                      \/ \E m \in wire' \cup dlq' : m.entry = <<p, round'[p]>>
    BY DEF PendingIsWatched
  <2>1. state[p] = "RSVP_PENDING" /\ (round[p] = 1 \/ Uncut)
    BY <1>1 DEF Uncut
  <2>2. CASE p = c[1]
    <3>1. Knows(p, c[2])
      BY <1>5, <1>6, <2>2 DEF Knows
    <3>2. c[2] <= round[p] /\ (Uncut => c[2] = round[p])
      BY <1>5, <3>1 DEF RsvpInv, KnownTrue, UncutTrue
    <3>3. c[2] = round[p]
      BY <1>5, <2>1, <3>2 DEF Round
    <3>4. \E m \in wire \cup dlq :
             m.kind \in {"finalize", "cancel"} /\ m.entry = c
      BY <1>1, <2>1, <2>2, <3>3 DEF RsvpInv, OutcomeIsKept, c
    <3> QED
      BY <1>1, <1>5, <2>2, <3>3, <3>4
  <2>3. CASE p # c[1]
    BY <1>1, <1>8, <2>1, <2>3 DEF RsvpInv, PendingIsWatched
  <2> QED
    BY <2>2, <2>3
<1> QED
  BY <1>9, <1>10, <1>12, <1>13, <1>14, <1>16, <1>17 DEF RsvpInv

---------------------------------------------------------------------------
(* The orchestrator and the registration                                   *)

\* Nothing the invariant speaks of changes but the replies and the ages.
LEMMA SameKeeps ==
  ASSUME RsvpInv, TypeOK',
         UNCHANGED <<state, round, event, threads, wire, dlq, joining, poll,
                     faults>>
  PROVE  RsvpInv'
<1>1. /\ \A p, r : Knows(p, r)' = Knows(p, r)
      /\ \A p : Joins(p)' = Joins(p) /\ Sending(p)' = Sending(p)
      /\ Uncut' = Uncut
  BY DEF Knows, Joins, Sending, Working, Busy, At, Cur, Uncut
<1>2. WireTrue' /\ WorkTrue' /\ OutcomeIsKept' /\ EventFollowsOutcome' = EventFollowsOutcome
  BY DEF RsvpInv, WireTrue, WorkTrue, OutcomeIsKept, EventFollowsOutcome,
         Working, Busy, At, Cur
<1>3. KnownTrue' /\ UncutTrue' /\ PendingIsWatched'
  BY <1>1, <1>2 DEF RsvpInv, KnownTrue, UncutTrue, PendingIsWatched
<1> QED
  BY <1>2, <1>3 DEF RsvpInv

LEMMA PostedIs ==
  ASSUME NEW kind \in {"email.sent", "register"}, NEW e \in Entry
  PROVE  /\ Posted(kind, e) \in Msg
         /\ Posted(kind, e).kind = kind
         /\ Posted(kind, e).entry = e
         /\ Posted(kind, e).from = "service"
  BY DEF Posted, Msg

\* A dispatch is one of the service's or a poll's.
LEMMA HandledIs ==
  ASSUME TypeOK, NEW m, NEW new, Handled(m, new)
  PROVE  /\ m \in wire
         /\ wire \ {m} \subseteq wire' /\ new \subseteq wire'
         /\ wire' \subseteq wire \cup new
         /\ faults \subseteq faults' /\ faults' \subseteq Faults
         /\ Uncut' => Uncut /\ wire' = (wire \ {m}) \cup new
  BY DEF Handled, Healthy, Fault, TypeOK, Uncut

LEMMA HandleEmailSentKeeps ==
  ASSUME RsvpInv, NEW m, HandleEmailSent(m)
  PROVE  RsvpInv'
<1> DEFINE p == m.entry[1]
           n == Posted("register", m.entry)
<1>1. /\ TypeOK /\ m.kind = "email.sent" /\ state[p] = "CONFIRMATION_SENT"
      /\ state' = [state EXCEPT ![p] = "RSVP_PENDING"]
      /\ m \in wire /\ wire' = wire \cup {n}
      /\ UNCHANGED <<round, event, threads, age, dlq, joining, poll, faults>>
  BY DEF HandleEmailSent, RsvpInv
<1>2. /\ m \in wire
      /\ wire \ {m} \subseteq wire' /\ n \in wire'
      /\ wire' \subseteq wire \cup {n}
      /\ faults \subseteq faults' /\ faults' \subseteq Faults
      /\ Uncut' => Uncut
  BY <1>1 DEF TypeOK, Uncut
<1>3. m.entry \in Entry /\ p \in Pipeline /\ m.entry = <<p, m.entry[2]>>
  BY <1>1, <1>2, MsgIs
<1>4. m.entry[2] = round[p]
  BY <1>1, <1>2 DEF RsvpInv, WireTrue
<1>5. /\ n \in Msg /\ n.kind = "register" /\ n.entry = <<p, round[p]>>
      /\ n.entry[1] = p /\ n.entry[2] = round[p] /\ n.from = "service"
  BY <1>3, <1>4, PostedIs
<1> HIDE DEF n, p
<1>6. /\ state'[p] = "RSVP_PENDING"
      /\ \A q \in Pipeline : q # p => state'[q] = state[q]
  BY <1>1, <1>3 DEF TypeOK
<1>7. /\ \A q, r : Knows(q, r)' = Knows(q, r)
      /\ \A q : Sending(q)' = Sending(q)
      /\ \A q : q # p /\ Joins(q)' => Joins(q)
  BY <1>1, <1>2, <1>5 DEF Knows, Working, Busy, Sending, At, Cur, Joins
<1>8. round[p] \in Round /\ ~ Knows(p, round[p])
  BY <1>1, <1>3 DEF RsvpInv, KnownTrue, TypeOK
<1>9. TypeOK'
  BY <1>1, <1>2, <1>3, <1>5 DEF TypeOK
<1>10. WireTrue'
  BY <1>1, <1>2, <1>5, <1>6, MsgIs DEF RsvpInv, WireTrue, At, Cur
<1>11. KnownTrue'
  BY <1>1, <1>6, <1>7 DEF RsvpInv, KnownTrue
<1>12. WorkTrue'
  BY <1>1 DEF RsvpInv, WorkTrue, Working, Busy
<1>13. OutcomeIsKept'
  <2> SUFFICES ASSUME NEW k \in Poller, At(k, "sending"),
                      Cur(k)[2] = round[Cur(k)[1]],
                      state'[Cur(k)[1]] = "RSVP_PENDING"
               PROVE  \E x \in wire' \cup dlq' :
                        x.kind \in {"finalize", "cancel"} /\ x.entry = Cur(k)
    BY <1>1 DEF OutcomeIsKept, At, Cur
  <2>1. Cur(k) \in Working(k)
    BY DEF Working, Busy, At, Cur
  <2>2. /\ Cur(k)[1] \in Pipeline /\ Cur(k)[2] \in Round
        /\ Cur(k) = <<Cur(k)[1], Cur(k)[2]>>
    BY <1>1, <2>1, PollType
  <2>3. Cur(k)[1] # p
    BY <1>8, <2>1, <2>2 DEF Knows
  <2>4. PICK x \in wire \cup dlq :
           x.kind \in {"finalize", "cancel"} /\ x.entry = Cur(k)
    BY <1>6, <2>2, <2>3 DEF RsvpInv, OutcomeIsKept
  <2> QED
    BY <1>1, <1>2, <2>4
<1>14. UncutTrue'
  <2> SUFFICES ASSUME Uncut' PROVE UncutTrue'
    BY DEF UncutTrue
  <2>1. Uncut
    BY <1>2
  <2>2. threads[p] = 0
    BY <1>3, <1>8, <2>1 DEF RsvpInv, UncutTrue, Knows, TypeOK
  <2>3. event[<<p, round[p]>>] = "tentative"
    BY <1>1, <1>3, <2>1 DEF RsvpInv, UncutTrue, p
  <2>4. \A q \in Pipeline :
          /\ Joins(q)' => state'[q] = "RSVP_PENDING" /\ threads'[q] = 0
          /\ state'[q] \in Ended /\ threads'[q] # 0 => Sending(q)'
          /\ \/ state'[q] = "CONFIRMATION_SENT"
             \/ /\ state'[q] = "RSVP_PENDING" /\ ~ Sending(q)'
                /\ threads'[q] # 0 \/ Joins(q)'
             => event'[<<q, round'[q]>>] = "tentative"
    <3> SUFFICES ASSUME NEW q \in Pipeline
                 PROVE
          /\ Joins(q)' => state'[q] = "RSVP_PENDING" /\ threads'[q] = 0
          /\ state'[q] \in Ended /\ threads'[q] # 0 => Sending(q)'
          /\ \/ state'[q] = "CONFIRMATION_SENT"
             \/ /\ state'[q] = "RSVP_PENDING" /\ ~ Sending(q)'
                /\ threads'[q] # 0 \/ Joins(q)'
             => event'[<<q, round'[q]>>] = "tentative"
      OBVIOUS
    <3>1. CASE q = p
      BY <1>1, <1>6, <2>2, <2>3, <3>1
    <3>2. CASE q # p
      BY <1>1, <1>6, <1>7, <2>1, <3>2 DEF RsvpInv, UncutTrue
    <3> QED
      BY <3>1, <3>2
  <2>5. \A x \in wire' :
          /\ x.kind = "finalize" => event'[x.entry] # "deleted"
          /\ x.kind = "cancel" => event'[x.entry] # "confirmed"
    BY <1>1, <1>2, <1>5, <2>1 DEF RsvpInv, UncutTrue
  <2>6. EventFollowsOutcome'
    BY <1>1, <1>2, <1>6, <2>1 DEF RsvpInv, UncutTrue, EventFollowsOutcome
  <2> QED
    BY <1>1, <1>7, <2>1, <2>4, <2>5, <2>6 DEF UncutTrue, RsvpInv
<1>15. PendingIsWatched'
  <2> SUFFICES ASSUME NEW q \in Pipeline, state'[q] = "RSVP_PENDING",
                      round'[q] = 1 \/ Uncut'
               PROVE  \/ threads'[q] # 0
                      \/ \E x \in wire' \cup dlq' : x.entry = <<q, round'[q]>>
    BY DEF PendingIsWatched
  <2>1. CASE q = p
    BY <1>1, <1>2, <1>5, <2>1
  <2>2. CASE q # p
    BY <1>1, <1>2, <1>6, <2>2 DEF RsvpInv, PendingIsWatched
  <2> QED
    BY <2>1, <2>2
<1> QED
  BY <1>9, <1>10, <1>11, <1>12, <1>13, <1>14, <1>15 DEF RsvpInv

LEMMA HandleRsvpOutcomeKeeps ==
  ASSUME RsvpInv, OnePoller, NEW m, HandleRsvpOutcome(m)
  PROVE  RsvpInv'
<1> DEFINE p == m.entry[1]
           k == m.from
<1>1. /\ TypeOK /\ m.kind \in {"finalize", "cancel"}
      /\ state[p] = "RSVP_PENDING"
      /\ Handled(m, {})
      /\ UNCHANGED <<round, event, threads, age, dlq, joining, poll>>
  BY DEF HandleRsvpOutcome, RsvpInv
<1>2. /\ m \in wire /\ wire \ {m} \subseteq wire' /\ wire' \subseteq wire
      /\ faults \subseteq faults' /\ faults' \subseteq Faults
      /\ Uncut' => Uncut
  BY <1>1, HandledIs
<1>3. m.entry \in Entry /\ p \in Pipeline /\ m.entry = <<p, m.entry[2]>>
  BY <1>1, <1>2, MsgIs
<1>4. /\ k \in Poller /\ At(k, "sending") /\ Cur(k) = m.entry
      /\ \A l \in Poller : l = k
  BY <1>1, <1>2, MsgIs DEF RsvpInv, WireTrue, OnePoller
<1>5. m.entry \in Working(k)
  BY <1>4 DEF Working, Busy, At, Cur
<1>6. threads[p] # 0 /\ Knows(p, m.entry[2])
  BY <1>3, <1>4, <1>5 DEF RsvpInv, WorkTrue, Knows
<1>7. /\ state' \in [Pipeline -> {"CONFIRMATION_SENT", "RSVP_PENDING",
                                 "BOOKED", "RSVP_TIMEOUT_CANCELLED"}]
      /\ state'[p] \in Ended
      /\ state'[p] = "BOOKED" => m.kind = "finalize"
      /\ state'[p] = "RSVP_TIMEOUT_CANCELLED" => m.kind = "cancel"
      /\ \A q \in Pipeline : q # p => state'[q] = state[q]
  BY <1>1, <1>3 DEF TypeOK, HandleRsvpOutcome, Ended
<1> HIDE DEF p, k
<1>8. /\ \A q, r : Knows(q, r)' = Knows(q, r)
      /\ \A q : Sending(q)' = Sending(q)
      /\ \A q : Joins(q)' => Joins(q)
  BY <1>1, <1>2 DEF Knows, Working, Busy, Sending, At, Cur, Joins
<1>9. TypeOK'
  BY <1>1, <1>2, <1>7 DEF TypeOK
<1>10. WireTrue'
  BY <1>1, <1>2, <1>7, MsgIs DEF RsvpInv, WireTrue, At, Cur, Ended
<1>11. KnownTrue'
  BY <1>1, <1>7, <1>8 DEF RsvpInv, KnownTrue, Ended
<1>12. WorkTrue'
  BY <1>1 DEF RsvpInv, WorkTrue, Working, Busy
<1>13. OutcomeIsKept'
  BY <1>1, <1>4, <1>7 DEF OutcomeIsKept, At, Cur, Ended, p
<1>14. UncutTrue'
  <2> SUFFICES ASSUME Uncut' PROVE UncutTrue'
    BY DEF UncutTrue
  <2>1. Uncut
    BY <1>2
  <2>2. m.entry[2] \in Round
    BY <1>3 DEF Entry
  <2>3. m.entry = <<p, round[p]>>
    BY <1>3, <1>6, <2>1, <2>2 DEF RsvpInv, UncutTrue
  <2>4. Sending(p)
    BY <1>4 DEF Sending, p
  <2>5. \A q \in Pipeline :
          /\ Joins(q)' => state'[q] = "RSVP_PENDING" /\ threads'[q] = 0
          /\ state'[q] \in Ended /\ threads'[q] # 0 => Sending(q)'
          /\ \/ state'[q] = "CONFIRMATION_SENT"
             \/ /\ state'[q] = "RSVP_PENDING" /\ ~ Sending(q)'
                /\ threads'[q] # 0 \/ Joins(q)'
             => event'[<<q, round'[q]>>] = "tentative"
    <3> SUFFICES ASSUME NEW q \in Pipeline
                 PROVE
          /\ Joins(q)' => state'[q] = "RSVP_PENDING" /\ threads'[q] = 0
          /\ state'[q] \in Ended /\ threads'[q] # 0 => Sending(q)'
          /\ \/ state'[q] = "CONFIRMATION_SENT"
             \/ /\ state'[q] = "RSVP_PENDING" /\ ~ Sending(q)'
                /\ threads'[q] # 0 \/ Joins(q)'
             => event'[<<q, round'[q]>>] = "tentative"
      OBVIOUS
    <3>1. CASE q = p
      <4>1. ~ Joins(p)
        BY <1>3, <1>6, <2>1 DEF RsvpInv, UncutTrue
      <4> QED
        BY <1>7, <1>8, <2>4, <3>1, <4>1 DEF Ended
    <3>2. CASE q # p
      BY <1>1, <1>7, <1>8, <2>1, <3>2 DEF RsvpInv, UncutTrue
    <3> QED
      BY <3>1, <3>2
  <2>6. \A x \in wire' :
          /\ x.kind = "finalize" => event'[x.entry] # "deleted"
          /\ x.kind = "cancel" => event'[x.entry] # "confirmed"
    BY <1>1, <1>2, <2>1 DEF RsvpInv, UncutTrue
  <2>7. EventFollowsOutcome'
    <3> SUFFICES ASSUME NEW q \in Pipeline
                 PROVE  /\ state'[q] = "BOOKED" =>
                             event'[<<q, round'[q]>>] # "deleted"
                        /\ state'[q] = "RSVP_TIMEOUT_CANCELLED" =>
                             \/ event'[<<q, round'[q]>>] # "confirmed"
                             \/ "google" \in faults'
      BY DEF EventFollowsOutcome
    <3>1. CASE q = p
      <4>1. /\ m.kind = "finalize" => event[m.entry] # "deleted"
            /\ m.kind = "cancel" => event[m.entry] # "confirmed"
        BY <1>2, <2>1 DEF RsvpInv, UncutTrue
      <4> QED
        BY <1>1, <1>7, <2>3, <3>1, <4>1
    <3>2. CASE q # p
      BY <1>1, <1>2, <1>7, <2>1, <3>2
         DEF RsvpInv, UncutTrue, EventFollowsOutcome
    <3> QED
      BY <3>1, <3>2
  <2> QED
    BY <1>1, <1>8, <2>1, <2>5, <2>6, <2>7 DEF UncutTrue, RsvpInv
<1>15. PendingIsWatched'
  <2> SUFFICES ASSUME NEW q \in Pipeline, state'[q] = "RSVP_PENDING",
                      round'[q] = 1 \/ Uncut'
               PROVE  \/ threads'[q] # 0
                      \/ \E x \in wire' \cup dlq' : x.entry = <<q, round'[q]>>
    BY DEF PendingIsWatched
  <2>1. q # p /\ state[q] = "RSVP_PENDING" /\ (round[q] = 1 \/ Uncut)
    BY <1>1, <1>2, <1>7 DEF Ended
  <2>2. \/ threads[q] # 0
        \/ \E x \in wire \cup dlq : x.entry = <<q, round[q]>>
    BY <2>1 DEF RsvpInv, PendingIsWatched
  <2>3. \A x \in wire \cup dlq : x.entry = <<q, round[q]>> =>
          x \in wire' \cup dlq'
    BY <1>1, <1>2, <1>3, <2>1
  <2> QED
    BY <1>1, <2>2, <2>3
<1> QED
  BY <1>9, <1>10, <1>11, <1>12, <1>13, <1>14, <1>15 DEF RsvpInv

LEMMA ReinviteKeeps ==
  ASSUME RsvpInv, OnePoller, NEW p \in Pipeline, Reinvite(p)
  PROVE  RsvpInv'
<1> DEFINE r == round[p] + 1
           n == Posted("email.sent", <<p, r>>)
<1>1. /\ TypeOK /\ state[p] = "RSVP_TIMEOUT_CANCELLED" /\ round[p] < MaxRound
      /\ About(p) = {} /\ ~ Sending(p)
      /\ state' = [state EXCEPT ![p] = "CONFIRMATION_SENT"]
      /\ UNCHANGED <<threads, age, dlq, joining, poll, faults>>
  BY DEF Reinvite, RsvpInv, Sending, At, Cur
<1>2. round[p] \in Nat \ {0} /\ round[p] \in Round /\ r \in Round
  BY <1>1, RsvpAssumption DEF TypeOK, Round
<1>3. <<p, r>> \in Entry
  BY <1>2 DEF Entry
<1>4. /\ round' = [round EXCEPT ![p] = r] /\ round'[p] = r
      /\ event' = [event EXCEPT ![<<p, r>>] = "tentative"]
      /\ wire' = wire \cup {n}
  BY <1>1, <1>2 DEF Reinvite, TypeOK
<1>5. /\ n \in Msg /\ n.kind = "email.sent" /\ n.entry = <<p, r>>
      /\ n.entry[1] = p /\ n.entry[2] = r /\ n.from = "service"
  BY <1>3, PostedIs
<1>6. r > round[p]
  BY <1>2
<1> HIDE DEF n, r
<1>7. /\ state'[p] = "CONFIRMATION_SENT"
      /\ \A q \in Pipeline : q # p => /\ state'[q] = state[q]
                                      /\ round'[q] = round[q]
  BY <1>1, <1>4 DEF TypeOK
<1>8. /\ event'[<<p, r>>] = "tentative"
      /\ \A e \in Entry : e[1] # p => event'[e] = event[e]
  BY <1>1, <1>3, <1>4 DEF TypeOK
<1>9. \A m \in wire : m.entry \in Entry /\ m.entry[1] \in Pipeline /\ m.entry[1] # p
  BY <1>1, MsgIs DEF About
<1>10. /\ \A q, s : Knows(q, s)' = Knows(q, s)
       /\ \A q : Sending(q)' = Sending(q) /\ Joins(q)' = Joins(q)
       /\ Uncut' = Uncut
  BY <1>1, <1>4, <1>5 DEF Knows, Working, Busy, Sending, At, Cur, Joins, Uncut
<1>11. TypeOK'
  BY <1>1, <1>2, <1>3, <1>4, <1>5 DEF TypeOK
<1>12. WireTrue'
  BY <1>1, <1>4, <1>5, <1>7, <1>9 DEF RsvpInv, WireTrue, At, Cur
<1>13. KnownTrue'
  <2> SUFFICES ASSUME NEW q \in Pipeline, NEW s \in Round, Knows(q, s)
               PROVE  /\ s <= round'[q]
                      /\ s = round'[q] => state'[q] # "CONFIRMATION_SENT"
    BY <1>10 DEF KnownTrue
  <2>1. /\ s <= round[q] /\ s \in Nat /\ round[q] \in Nat
        /\ s = round[q] => state[q] # "CONFIRMATION_SENT"
    BY <1>1 DEF RsvpInv, KnownTrue, TypeOK, Round
  <2>2. CASE q = p
    BY <1>2, <1>4, <1>6, <2>1, <2>2 DEF Round
  <2>3. CASE q # p
    BY <1>7, <2>1, <2>3
  <2> QED
    BY <2>2, <2>3
<1>14. WorkTrue'
  BY <1>1 DEF RsvpInv, WorkTrue, Working, Busy
<1>15. OutcomeIsKept'
  <2> SUFFICES ASSUME NEW k \in Poller, At(k, "sending"),
                      Cur(k)[2] = round'[Cur(k)[1]],
                      state'[Cur(k)[1]] = "RSVP_PENDING"
               PROVE  \E x \in wire' \cup dlq' :
                        x.kind \in {"finalize", "cancel"} /\ x.entry = Cur(k)
    BY <1>1 DEF OutcomeIsKept, At, Cur
  <2>1. Cur(k)[1] \in Pipeline /\ Cur(k)[1] # p
    BY <1>1, <1>7, PollType DEF Busy, At, Cur
  <2> QED
    BY <1>1, <1>4, <1>7, <2>1 DEF RsvpInv, OutcomeIsKept
<1>16. UncutTrue'
  <2> SUFFICES ASSUME Uncut' PROVE UncutTrue'
    BY DEF UncutTrue
  <2>1. Uncut
    BY <1>10
  <2>2. threads[p] = 0 /\ ~ Joins(p)
    BY <1>1, <2>1 DEF RsvpInv, UncutTrue, Ended
  <2>3. \A s \in Round : ~ Knows(p, s)
    <3> SUFFICES ASSUME NEW s \in Round, Knows(p, s) PROVE FALSE
      OBVIOUS
    <3>1. CASE threads[p] = s
      BY <2>2, <3>1 DEF Round
    <3>2. CASE <<p, s>> \in joining
      BY <2>2, <3>2 DEF Joins
    <3>3. ASSUME NEW k \in Poller, <<p, s>> \in Working(k)
          PROVE  FALSE
      BY <2>2, <3>3 DEF RsvpInv, WorkTrue
    <3> QED
      BY <3>1, <3>2, <3>3 DEF Knows
  <2>4. \A q \in Pipeline, s \in Round : Knows(q, s)' => s = round'[q]
    BY <1>7, <1>10, <2>1, <2>3 DEF RsvpInv, UncutTrue
  <2>5. \A q \in Pipeline : q # p =>
          event'[<<q, round'[q]>>] = event[<<q, round[q]>>]
    BY <1>1, <1>7, <1>8 DEF TypeOK, Entry
  <2>6. \A q \in Pipeline :
          /\ Joins(q)' => state'[q] = "RSVP_PENDING" /\ threads'[q] = 0
          /\ state'[q] \in Ended /\ threads'[q] # 0 => Sending(q)'
          /\ \/ state'[q] = "CONFIRMATION_SENT"
             \/ /\ state'[q] = "RSVP_PENDING" /\ ~ Sending(q)'
                /\ threads'[q] # 0 \/ Joins(q)'
             => event'[<<q, round'[q]>>] = "tentative"
    <3> SUFFICES ASSUME NEW q \in Pipeline
                 PROVE
          /\ Joins(q)' => state'[q] = "RSVP_PENDING" /\ threads'[q] = 0
          /\ state'[q] \in Ended /\ threads'[q] # 0 => Sending(q)'
          /\ \/ state'[q] = "CONFIRMATION_SENT"
             \/ /\ state'[q] = "RSVP_PENDING" /\ ~ Sending(q)'
                /\ threads'[q] # 0 \/ Joins(q)'
             => event'[<<q, round'[q]>>] = "tentative"
      OBVIOUS
    <3>1. CASE q = p
      BY <1>4, <1>7, <1>8, <1>10, <2>2, <3>1 DEF Ended
    <3>2. CASE q # p
      BY <1>1, <1>7, <1>10, <2>1, <2>5, <3>2 DEF RsvpInv, UncutTrue
    <3> QED
      BY <3>1, <3>2
  <2>7. \A x \in wire' :
          /\ x.kind = "finalize" => event'[x.entry] # "deleted"
          /\ x.kind = "cancel" => event'[x.entry] # "confirmed"
    BY <1>4, <1>5, <1>8, <1>9, <2>1 DEF RsvpInv, UncutTrue
  <2>8. EventFollowsOutcome'
    <3> SUFFICES ASSUME NEW q \in Pipeline
                 PROVE  /\ state'[q] = "BOOKED" =>
                             event'[<<q, round'[q]>>] # "deleted"
                        /\ state'[q] = "RSVP_TIMEOUT_CANCELLED" =>
                             \/ event'[<<q, round'[q]>>] # "confirmed"
                             \/ "google" \in faults'
      BY DEF EventFollowsOutcome
    <3>1. CASE q = p
      BY <1>7, <3>1
    <3>2. CASE q # p
      BY <1>1, <1>7, <2>1, <2>5, <3>2
         DEF RsvpInv, UncutTrue, EventFollowsOutcome
    <3> QED
      BY <3>1, <3>2
  <2> QED
    BY <2>4, <2>6, <2>7, <2>8 DEF UncutTrue
<1>17. PendingIsWatched'
  <2> SUFFICES ASSUME NEW q \in Pipeline, state'[q] = "RSVP_PENDING",
                      round'[q] = 1 \/ Uncut'
               PROVE  \/ threads'[q] # 0
                      \/ \E x \in wire' \cup dlq' : x.entry = <<q, round'[q]>>
    BY DEF PendingIsWatched
  <2>1. q # p
    BY <1>7
  <2> QED
    BY <1>1, <1>4, <1>7, <1>10, <2>1 DEF RsvpInv, PendingIsWatched
<1> QED
  BY <1>11, <1>12, <1>13, <1>14, <1>15, <1>16, <1>17 DEF RsvpInv

LEMMA RegisterReadKeeps ==
  ASSUME RsvpInv, NEW m, RegisterRead(m)
  PROVE  RsvpInv'
<1> DEFINE p == m.entry[1]
           e == <<p, round[p]>>
<1>1. /\ TypeOK /\ m \in wire /\ m.kind = "register"
      /\ joining' = joining \cup {e}
      /\ UNCHANGED <<state, round, event, threads, age, wire, dlq, poll,
                     faults>>
  BY DEF RegisterRead, RsvpInv
<1>2. p \in Pipeline /\ round[p] \in Round /\ e \in Entry
  BY <1>1, MsgIs DEF TypeOK, Entry
<1>3. Joins(p)
  BY <1>1 DEF Joins
<1>4. state[p] # "CONFIRMATION_SENT"
  BY <1>1 DEF RsvpInv, WireTrue
<1> HIDE DEF p
<1>5. /\ \A q : Joins(q)' => Joins(q)
      /\ \A q : Sending(q)' = Sending(q)
      /\ \A q, r : Knows(q, r)' => Knows(q, r) \/ (q = p /\ r = round[p])
      /\ Uncut' = Uncut
  <2>1. \A q : Joins(q)' => Joins(q)
    <3>1. \A f \in joining' : f \in joining \/ f[1] = p
      BY <1>1
    <3> QED
      BY <1>1, <1>3, <3>1 DEF Joins
  <2>2. Uncut' = Uncut /\ \A q : Sending(q)' = Sending(q)
    BY <1>1 DEF Sending, At, Cur, Uncut
  <2>3. \A k : Working(k)' = Working(k)
    BY <1>1 DEF Working, Busy
  <2>4. \A q, r : Knows(q, r)' => Knows(q, r) \/ (q = p /\ r = round[p])
    BY <1>1, <2>3 DEF Knows
  <2> QED
    BY <2>1, <2>2, <2>4
<1>6. TypeOK'
  BY <1>1, <1>2 DEF TypeOK
<1>7. WireTrue' /\ WorkTrue' /\ OutcomeIsKept'
  BY <1>1 DEF RsvpInv, WireTrue, WorkTrue, OutcomeIsKept, Working, Busy, At, Cur
<1>8. KnownTrue'
  BY <1>1, <1>2, <1>4, <1>5 DEF RsvpInv, KnownTrue, TypeOK, Round
<1>9. UncutTrue'
  <2> SUFFICES ASSUME Uncut' PROVE UncutTrue'
    BY DEF UncutTrue
  <2>1. Uncut
    BY <1>5
  <2>2. \A q \in Pipeline, r \in Round : Knows(q, r)' => r = round'[q]
    BY <1>1, <1>5, <2>1 DEF RsvpInv, UncutTrue
  <2>3. \A q \in Pipeline :
          /\ Joins(q)' => state'[q] = "RSVP_PENDING" /\ threads'[q] = 0
          /\ state'[q] \in Ended /\ threads'[q] # 0 => Sending(q)'
          /\ \/ state'[q] = "CONFIRMATION_SENT"
             \/ /\ state'[q] = "RSVP_PENDING" /\ ~ Sending(q)'
                /\ threads'[q] # 0 \/ Joins(q)'
             => event'[<<q, round'[q]>>] = "tentative"
    BY <1>1, <1>5, <2>1 DEF RsvpInv, UncutTrue
  <2>4. /\ EventFollowsOutcome'
        /\ \A x \in wire' :
             /\ x.kind = "finalize" => event'[x.entry] # "deleted"
             /\ x.kind = "cancel" => event'[x.entry] # "confirmed"
    BY <1>1, <2>1 DEF RsvpInv, UncutTrue, EventFollowsOutcome
  <2> QED
    BY <2>2, <2>3, <2>4 DEF UncutTrue
<1>10. PendingIsWatched'
  BY <1>1, <1>5 DEF RsvpInv, PendingIsWatched
<1> QED
  BY <1>6, <1>7, <1>8, <1>9, <1>10 DEF RsvpInv

\* One registration of a pipeline is in progress at most, as long as no
\* call was repeated.
LEMMA OneRegistration ==
  ASSUME RsvpInv, Uncut, NEW m \in wire, m.kind = "register",
         NEW x \in wire, x.kind = "register", x.entry[1] = m.entry[1]
  PROVE  x = m
<1>1. /\ m \in Msg /\ x \in Msg
      /\ m.entry = <<m.entry[1], m.entry[2]>>
      /\ x.entry = <<x.entry[1], x.entry[2]>>
  BY MsgIs DEF RsvpInv
<1>2. /\ m.from = "service" /\ x.from = "service"
      /\ m.entry[2] = round[m.entry[1]] /\ x.entry[2] = round[x.entry[1]]
  BY DEF RsvpInv, WireTrue
<1>3. m.entry = x.entry /\ m.kind = x.kind /\ m.from = x.from
  BY <1>1, <1>2
<1> QED
  BY <1>1, <1>3 DEF Msg

LEMMA RegisterStoreKeeps ==
  ASSUME RsvpInv, NEW m, NEW e \in joining, RegisterStore(m, e)
  PROVE  RsvpInv'
<1> DEFINE p == e[1]
           s == Posted("email.sent", m.entry)
<1>1. /\ TypeOK /\ m.kind = "register" /\ p = m.entry[1]
      /\ joining' = joining \ {e}
      /\ threads' = [threads EXCEPT ![p] = e[2]]
      /\ age' = [age EXCEPT ![e] = "new"]
      /\ m \in wire
      /\ \/ wire' = wire \ {m, s} /\ Healthy
         \/ wire' = wire /\ Fault("repeat")
      /\ UNCHANGED <<state, round, event, dlq, poll>>
  BY DEF RegisterStore, RsvpInv
<1>2. /\ m \in wire /\ wire \ {m, s} \subseteq wire' /\ wire' \subseteq wire
      /\ faults \subseteq faults' /\ faults' \subseteq Faults
      /\ Uncut' => Uncut /\ wire' = wire \ {m, s}
  BY <1>1 DEF Healthy, Fault, Uncut, TypeOK
<1>0. s.kind = "email.sent" /\ s.entry = m.entry
  BY <1>1, MsgIs, PostedIs
<1>3. /\ e \in Entry /\ p \in Pipeline /\ e[2] \in Round /\ e = <<p, e[2]>>
      /\ e[2] # 0
  BY <1>1 DEF TypeOK, Entry, Round
<1>4. Joins(p) /\ Knows(p, e[2])
  BY <1>3 DEF Joins, Knows
<1> HIDE DEF p, s
<1>5. /\ threads'[p] = e[2]
      /\ \A q \in Pipeline : q # p => threads'[q] = threads[q]
  BY <1>1, <1>3 DEF TypeOK
<1>6. TypeOK'
  BY <1>1, <1>2, <1>3 DEF TypeOK
<1>7. WireTrue'
  BY <1>1, <1>2 DEF RsvpInv, WireTrue, At, Cur
<1>8. /\ \A q \in Pipeline, r \in Round : Knows(q, r)' => Knows(q, r)
      /\ \A q : Sending(q)' = Sending(q)
      /\ \A q : Joins(q)' => Joins(q)
  <2>1. ASSUME NEW q \in Pipeline, NEW r \in Round, Knows(q, r)'
        PROVE  Knows(q, r)
    <3>1. CASE q = p /\ r = e[2]
      BY <1>4, <3>1
    <3>2. CASE ~ (q = p /\ r = e[2])
      BY <1>1, <1>5, <2>1, <3>2 DEF Knows, Working, Busy
    <3> QED
      BY <3>1, <3>2
  <2>2. /\ \A q : Sending(q)' = Sending(q)
        /\ \A q : Joins(q)' => Joins(q)
    BY <1>1, <1>2 DEF Sending, At, Cur, Joins
  <2> QED
    BY <2>1, <2>2
<1>9. KnownTrue'
  BY <1>1, <1>8 DEF RsvpInv, KnownTrue
<1>10. WorkTrue'
  <2>1. \A q \in Pipeline : threads[q] # 0 => threads'[q] # 0
    BY <1>3, <1>5
  <2>2. \A k \in Poller : \A x \in Working(k) : x[1] \in Pipeline
    BY <1>1, PollType
  <2> QED
    BY <1>1, <2>1, <2>2 DEF RsvpInv, WorkTrue, Working, Busy
<1>11. OutcomeIsKept'
  BY <1>0, <1>1, <1>2 DEF RsvpInv, OutcomeIsKept, At, Cur
<1>12. UncutTrue'
  <2> SUFFICES ASSUME Uncut' PROVE UncutTrue'
    BY DEF UncutTrue
  <2>1. Uncut /\ wire' = wire \ {m, s}
    BY <1>2
  <2>2. /\ state[p] = "RSVP_PENDING" /\ threads[p] = 0 /\ e[2] = round[p]
        /\ ~ Sending(p) => event[<<p, round[p]>>] = "tentative"
    BY <1>3, <1>4, <2>1 DEF RsvpInv, UncutTrue
  <2>3. ~ Joins(p)'
    <3>1. \A x \in wire' : ~ (x.kind = "register" /\ x.entry[1] = p)
      BY <1>1, <1>2, <2>1, OneRegistration
    <3>2. \A f \in joining' : f[1] # p
      <4> SUFFICES ASSUME NEW f \in joining', f[1] = p PROVE FALSE
        OBVIOUS
      <4>1. f \in joining /\ f # e
        BY <1>1
      <4>2. f = <<p, f[2]>> /\ f[2] \in Round
        BY <1>1, <4>1 DEF TypeOK, Entry
      <4>3. f[2] = round[p]
        BY <1>3, <2>1, <4>1, <4>2 DEF RsvpInv, UncutTrue, Knows
      <4> QED
        BY <1>3, <2>2, <4>1, <4>2, <4>3
    <3> QED
      BY <3>1, <3>2 DEF Joins
  <2>4. \A q \in Pipeline :
          /\ Joins(q)' => state'[q] = "RSVP_PENDING" /\ threads'[q] = 0
          /\ state'[q] \in Ended /\ threads'[q] # 0 => Sending(q)'
          /\ \/ state'[q] = "CONFIRMATION_SENT"
             \/ /\ state'[q] = "RSVP_PENDING" /\ ~ Sending(q)'
                /\ threads'[q] # 0 \/ Joins(q)'
             => event'[<<q, round'[q]>>] = "tentative"
    <3> SUFFICES ASSUME NEW q \in Pipeline
                 PROVE
          /\ Joins(q)' => state'[q] = "RSVP_PENDING" /\ threads'[q] = 0
          /\ state'[q] \in Ended /\ threads'[q] # 0 => Sending(q)'
          /\ \/ state'[q] = "CONFIRMATION_SENT"
             \/ /\ state'[q] = "RSVP_PENDING" /\ ~ Sending(q)'
                /\ threads'[q] # 0 \/ Joins(q)'
             => event'[<<q, round'[q]>>] = "tentative"
      OBVIOUS
    <3>1. CASE q = p
      BY <1>1, <1>8, <2>2, <2>3, <3>1 DEF Ended
    <3>2. CASE q # p
      BY <1>1, <1>5, <1>8, <2>1, <3>2 DEF RsvpInv, UncutTrue
    <3> QED
      BY <3>1, <3>2
  <2>5. \A x \in wire' :
          /\ x.kind = "finalize" => event'[x.entry] # "deleted"
          /\ x.kind = "cancel" => event'[x.entry] # "confirmed"
    BY <1>1, <2>1 DEF RsvpInv, UncutTrue
  <2>6. EventFollowsOutcome'
    BY <1>1, <1>2, <2>1 DEF RsvpInv, UncutTrue, EventFollowsOutcome
  <2> QED
    BY <1>1, <1>8, <2>1, <2>4, <2>5, <2>6 DEF UncutTrue, RsvpInv
<1>13. PendingIsWatched'
  <2> SUFFICES ASSUME NEW q \in Pipeline, state'[q] = "RSVP_PENDING",
                      round'[q] = 1 \/ Uncut'
               PROVE  \/ threads'[q] # 0
                      \/ \E x \in wire' \cup dlq' : x.entry = <<q, round'[q]>>
    BY DEF PendingIsWatched
  <2>1. CASE q = p
    BY <1>3, <1>5, <2>1
  <2>2. CASE q # p
    <3>1. \A x \in wire \cup dlq : x.entry = <<q, round[q]>> =>
            x \in wire' \cup dlq'
      BY <1>0, <1>1, <1>2, <2>2
    <3> QED
      BY <1>1, <1>2, <1>5, <2>2, <3>1 DEF RsvpInv, PendingIsWatched
  <2> QED
    BY <2>1, <2>2
<1> QED
  BY <1>6, <1>7, <1>9, <1>10, <1>11, <1>12, <1>13 DEF RsvpInv

\* A dispatch that is given up goes to the dead letter list.
LEMMA GiveUpKeeps ==
  ASSUME RsvpInv, NEW m, GiveUp(m)
  PROVE  RsvpInv'
<1>1. /\ TypeOK /\ m \in wire
      /\ wire' = wire \ {m} /\ dlq' = dlq \cup {m}
      /\ UNCHANGED <<state, round, event, threads, age, joining, poll,
                     faults>>
  BY DEF GiveUp, RsvpInv
<1>2. wire' \cup dlq' = wire \cup dlq
  BY <1>1
<1>3. /\ \A q : Joins(q)' => Joins(q)
      /\ \A q : Sending(q)' = Sending(q)
      /\ \A q, r : Knows(q, r)' = Knows(q, r)
      /\ Uncut' = Uncut
  BY <1>1 DEF Joins, Sending, Knows, Working, Busy, At, Cur, Uncut
<1>4. TypeOK'
  BY <1>1 DEF TypeOK
<1>5. WireTrue' /\ WorkTrue' /\ KnownTrue'
  BY <1>1, <1>3 DEF RsvpInv, WireTrue, WorkTrue, KnownTrue, Working, Busy, At,
                    Cur
<1>6. OutcomeIsKept'
  BY <1>1, <1>2 DEF RsvpInv, OutcomeIsKept, At, Cur
<1>7. UncutTrue'
  BY <1>1, <1>3 DEF RsvpInv, UncutTrue, EventFollowsOutcome
<1>8. PendingIsWatched'
  BY <1>1, <1>2, <1>3 DEF RsvpInv, PendingIsWatched
<1> QED
  BY <1>4, <1>5, <1>6, <1>7, <1>8 DEF RsvpInv

\* A handler that is cut off leaves its POST behind.
LEMMA HandlerCutKeeps ==
  ASSUME RsvpInv, HandlerOpen, NEW m, HandlerCut(m)
  PROVE  RsvpInv'
<1>1. /\ TypeOK /\ m \in wire /\ m.kind = "register"
      /\ wire' = wire \ {m}
      /\ faults \subseteq faults' /\ faults' \subseteq Faults
      /\ UNCHANGED <<state, round, event, threads, age, dlq, joining, poll>>
  BY DEF HandlerCut, Fault, RsvpInv, TypeOK
<1>2. ~ Uncut'
  BY DEF HandlerCut, Fault, Uncut
<1>3. \A q, r : Knows(q, r)' = Knows(q, r)
  BY <1>1 DEF Knows, Working, Busy
<1>4. TypeOK'
  BY <1>1 DEF TypeOK
<1>5. WireTrue' /\ WorkTrue' /\ KnownTrue'
  BY <1>1, <1>3 DEF RsvpInv, WireTrue, WorkTrue, KnownTrue, Working, Busy, At,
                    Cur
<1>6. OutcomeIsKept'
  BY <1>1 DEF RsvpInv, OutcomeIsKept, At, Cur
<1>7. UncutTrue'
  BY <1>2 DEF UncutTrue
<1>8. PendingIsWatched'
  <2> SUFFICES ASSUME NEW q \in Pipeline, state'[q] = "RSVP_PENDING",
                      round'[q] = 1 \/ Uncut'
               PROVE  \/ threads'[q] # 0
                      \/ \E x \in wire' \cup dlq' : x.entry = <<q, round'[q]>>
    BY DEF PendingIsWatched
  <2>1. \/ threads[q] # 0
        \/ \E x \in wire \cup dlq : x.entry = <<q, round[q]>>
    BY <1>1, <1>2 DEF RsvpInv, PendingIsWatched
  <2>2. /\ Posted("email.sent", m.entry) \in wire \cup dlq
        /\ Posted("email.sent", m.entry).entry = m.entry
        /\ Posted("email.sent", m.entry).kind = "email.sent"
    BY <1>1, MsgIs, PostedIs DEF HandlerOpen
  <2>3. Posted("email.sent", m.entry) \in wire' \cup dlq'
    BY <1>1, <2>2
  <2> QED
    BY <1>1, <2>1, <2>2, <2>3
<1> QED
  BY <1>4, <1>5, <1>6, <1>7, <1>8 DEF RsvpInv

---------------------------------------------------------------------------
(* The specification keeps the invariant                                   *)

\* Nothing but the registration's own end closes the POST.
LEMMA HandlerOpenStep ==
  ASSUME RsvpInv, HandlerOpen, [Next]_vars
  PROVE  HandlerOpen'
<1>1. /\ TypeOK
      /\ \A m \in Msg : /\ m.entry \in Entry
                        /\ m = [kind |-> m.kind, entry |-> m.entry,
                               from |-> m.from]
  BY DEF RsvpInv, Msg
<1>2. \A m \in wire : m.kind \in {"email.sent", "register"} =>
        m = Posted(m.kind, m.entry)
  BY <1>1, MsgIs DEF RsvpInv, WireTrue, Posted
<1>3. \A kind, e : /\ Posted(kind, e).kind = kind
                   /\ Posted(kind, e).entry = e
                   /\ Posted(kind, e).from = "service"
  BY DEF Posted
<1>4. \A k, kind, e : Outcome(k, kind, e).kind = kind
  BY DEF Outcome
<1>5. ASSUME wire \subseteq wire', dlq' = dlq,
             \A m \in wire' \ wire : m.kind # "register"
      PROVE  HandlerOpen'
  BY <1>5 DEF HandlerOpen
<1>6. ASSUME NEW m \in wire, Receive(m) \/ HandlerCut(m) \/ GiveUp(m)
      PROVE  HandlerOpen'
  <2>1. CASE HandleEmailSent(m)
    <3>1. m = Posted("email.sent", m.entry)
      BY <1>2, <2>1 DEF HandleEmailSent
    <3> QED
      BY <1>3, <2>1, <3>1 DEF HandleEmailSent, HandlerOpen
  <2>2. CASE HandleRsvpOutcome(m)
    BY <1>3, <2>2 DEF HandleRsvpOutcome, Handled, HandlerOpen
  <2>3. CASE RegisterRead(m)
    BY <1>5, <2>3 DEF RegisterRead
  <2>4. ASSUME NEW e \in joining, RegisterStore(m, e)
        PROVE  HandlerOpen'
    <3>1. CASE wire' = wire
      BY <1>5, <2>4, <3>1 DEF RegisterStore
    <3>2. CASE wire' = wire \ {m, Posted("email.sent", m.entry)}
      <4>1. m.kind = "register" /\ m = Posted("register", m.entry)
        BY <1>2, <2>4 DEF RegisterStore
      <4>2. ASSUME NEW x \in wire', x.kind = "register"
            PROVE  Posted("email.sent", x.entry) \in wire' \cup dlq'
        <5>1. x \in wire /\ x # m /\ x = Posted("register", x.entry)
          BY <1>2, <3>2, <4>2
        <5>2. x.entry # m.entry
          BY <4>1, <5>1
        <5>3. Posted("email.sent", x.entry) \in wire \cup dlq
          BY <4>2, <5>1 DEF HandlerOpen
        <5>4. /\ Posted("email.sent", x.entry) # m
              /\ Posted("email.sent", x.entry) # Posted("email.sent", m.entry)
          BY <1>3, <4>1, <5>2
        <5>5. dlq' = dlq
          BY <2>4 DEF RegisterStore
        <5> QED
          BY <3>2, <5>3, <5>4, <5>5
      <4> QED
        BY <4>2 DEF HandlerOpen
    <3> QED
      BY <2>4, <3>1, <3>2 DEF RegisterStore
  <2>5. CASE HandlerCut(m)
    BY <1>3, <2>5 DEF HandlerCut, HandlerOpen
  <2>6. CASE GiveUp(m)
    BY <2>6 DEF GiveUp, HandlerOpen
  <2> QED
    BY <1>6, <2>1, <2>2, <2>3, <2>4, <2>5, <2>6 DEF Receive
<1>7. ASSUME NEW p \in Pipeline, Reinvite(p) \/ Age(p)
      PROVE  HandlerOpen'
  BY <1>3, <1>5, <1>7 DEF Reinvite, Age
<1>8. ASSUME NEW k \in Poller, PollStep(k)
      PROVE  HandlerOpen'
  <2>1. ASSUME NEW e, NEW kind \in {"finalize", "cancel"}, Decide(k, e, kind),
               UNCHANGED dlq
        PROVE  HandlerOpen'
    BY <1>4, <1>5, <2>1 DEF Decide
  <2>2. CASE \E e \in poll[k].todo : TimedOut(k, e)
    BY <2>1, <2>2 DEF TimedOut
  <2>3. CASE \E kind \in {"finalize", "cancel"} :
               ClearReply(k, kind) \/ Classified(k, kind)
    BY <2>1, <2>3 DEF ClearReply, Classified
  <2>4. CASE UNCHANGED <<wire, dlq>>
    BY <1>5, <2>4
  <2> QED
    BY <1>8, <2>2, <2>3, <2>4
       DEF PollStep, Snapshot, PollEnds, ReadRow, NoReply, VagueReply,
           Ambiguous, Deregister
<1>9. ASSUME NEW k \in Poller, Fails(k)
      PROVE  HandlerOpen'
  <2>1. k # "service"
    BY RsvpAssumption
  <2> QED
    BY <1>3, <1>9, <2>1 DEF Fails, HandlerOpen
<1>10. ASSUME NEW k \in Poller, NEW e, NEW kind,
              LoopDies(k) \/ CalendarRaises(k, e, kind)
       PROVE  HandlerOpen'
  BY <1>5, <1>10 DEF LoopDies, CalendarRaises
<1>11. CASE Restart
  BY <1>3, <1>11 DEF Restart, HandlerOpen
<1>12. CASE UNCHANGED vars
  BY <1>5, <1>12 DEF vars
<1> QED
  BY <1>6, <1>7, <1>8, <1>9, <1>10, <1>11, <1>12 DEF Next

LEMMA InitHolds == Init => RsvpInv
<1> SUFFICES ASSUME Init PROVE RsvpInv
  OBVIOUS
<1>1. 1 \in Round /\ \A p \in Pipeline : <<p, 1>> \in Entry
  BY RsvpAssumption DEF Round, Entry
<1>2. Idle \in PollState /\ Idle.pc = "idle" /\ Idle.todo = {}
  BY DEF Idle, PollState
<1>3. \A k \in Poller : poll[k] = Idle
  BY DEF Init
<1>4. ASSUME NEW m \in wire
      PROVE  /\ m \in Msg /\ m.kind = "email.sent" /\ m.from = "service"
             /\ m.entry[1] \in Pipeline /\ m.entry[2] = 1
  <2>1. PICK p \in Pipeline : m = Posted("email.sent", <<p, 1>>)
    BY <1>4 DEF Init
  <2> QED
    BY <1>1, <2>1, PostedIs
<1>5. \A k \in Poller : Working(k) = {} /\ ~ Busy(k) /\ ~ At(k, "sending")
  BY <1>2, <1>3 DEF Working, Busy, At
<1>6. TypeOK
  BY <1>1, <1>2, <1>4 DEF Init, TypeOK, Entry
<1>7. WireTrue
  BY <1>4 DEF WireTrue, Init
<1>8. \A p \in Pipeline, r \in Round : ~ Knows(p, r)
  BY <1>5 DEF Knows, Init, Round
<1>9. KnownTrue /\ WorkTrue /\ OutcomeIsKept
  BY <1>5, <1>8 DEF KnownTrue, WorkTrue, OutcomeIsKept
<1>10. UncutTrue
  <2>1. \A p \in Pipeline : event[<<p, round[p]>>] = "tentative"
    BY <1>1 DEF Init
  <2>2. \A p \in Pipeline : ~ Joins(p)
    BY <1>4 DEF Joins, Init
  <2> QED
    BY <1>4, <1>8, <2>1, <2>2
       DEF UncutTrue, EventFollowsOutcome, Init, Ended
<1>11. PendingIsWatched
  BY DEF PendingIsWatched, Init
<1> QED
  BY <1>6, <1>7, <1>9, <1>10, <1>11 DEF RsvpInv

LEMMA NextKeeps ==
  ASSUME OnePoller, RsvpInv, HandlerOpen, [Next]_vars
  PROVE  RsvpInv'
<1>1. ASSUME NEW m \in wire, Receive(m) \/ HandlerCut(m) \/ GiveUp(m)
      PROVE  RsvpInv'
  <2>1. CASE HandleEmailSent(m)
    BY <2>1, HandleEmailSentKeeps
  <2>2. CASE HandleRsvpOutcome(m)
    BY <2>2, HandleRsvpOutcomeKeeps
  <2>3. CASE RegisterRead(m)
    BY <2>3, RegisterReadKeeps
  <2>4. CASE \E e \in joining : RegisterStore(m, e)
    BY <2>4, RegisterStoreKeeps
  <2>5. CASE GiveUp(m)
    BY <2>5, GiveUpKeeps
  <2>6. CASE HandlerCut(m)
    BY <2>6, HandlerCutKeeps
  <2> QED
    BY <1>1, <2>1, <2>2, <2>3, <2>4, <2>5, <2>6 DEF Receive
<1>2. ASSUME NEW k \in Poller, NEW e \in Entry,
             NEW kind \in {"finalize", "cancel"}, CalendarRaises(k, e, kind)
      PROVE  RsvpInv'
  BY <1>2, CalendarRaisesKeeps
<1>3. ASSUME NEW p \in Pipeline, Age(p)
      PROVE  RsvpInv'
  <2>1. TypeOK'
    BY <1>3 DEF Age, RsvpInv, TypeOK
  <2> QED
    BY <1>3, <2>1, SameKeeps DEF Age
<1>4. ASSUME NEW k \in Poller, PollStep(k)
      PROVE  RsvpInv'
  <2>1. CASE Snapshot(k) \/ PollEnds(k)
    BY <2>1, SnapshotKeeps, PollEndsKeeps
  <2>2. ASSUME NEW e \in poll[k].todo, TimedOut(k, e) \/ ReadRow(k, e)
        PROVE  RsvpInv'
    BY <2>2, TimedOutKeeps, ReadRowKeeps
  <2>3. CASE NoReply(k) \/ Ambiguous(k)
    BY <2>3, ReadingGoesOn
  <2>4. CASE VagueReply(k)
    BY <2>4, VagueReplyKeeps
  <2>5. ASSUME NEW kind \in {"finalize", "cancel"},
               ClearReply(k, kind) \/ Classified(k, kind)
        PROVE  RsvpInv'
    BY <2>5, ClearReplyKeeps, ClassifiedKeeps
  <2>6. CASE Deregister(k)
    BY <2>6, DeregisterKeeps
  <2> QED
    BY <1>4, <2>1, <2>2, <2>3, <2>4, <2>5, <2>6 DEF PollStep
<1>5. ASSUME NEW k \in Poller, Fails(k) \/ LoopDies(k)
      PROVE  RsvpInv'
  BY <1>5, FailsKeeps, LoopDiesKeeps
<1>6. CASE UNCHANGED vars
  <2>1. TypeOK'
    BY <1>6 DEF vars, RsvpInv, TypeOK
  <2> QED
    BY <1>6, <2>1, SameKeeps DEF vars
<1>7. ASSUME NEW p \in Pipeline, Reinvite(p)
      PROVE  RsvpInv'
  BY <1>7, ReinviteKeeps
<1> QED
  BY <1>1, <1>2, <1>3, <1>4, <1>5, <1>6, <1>7, RestartKeeps DEF Next

LEMMA Invariant == OnePoller => (Spec => [](RsvpInv /\ HandlerOpen))
<1> DEFINE I == RsvpInv /\ HandlerOpen
<1>1. ASSUME OnePoller PROVE I /\ [Next]_vars => I'
  BY <1>1, NextKeeps, HandlerOpenStep
<1> SUFFICES ASSUME OnePoller PROVE Spec => []I
  OBVIOUS
<1>2. I /\ [Next]_vars => I'
  BY <1>1
<1>3. Init => HandlerOpen
  BY DEF Init, HandlerOpen, Posted
<1>4. Init => I
  BY <1>3, InitHolds
<1> HIDE DEF I
<1> QED
  BY <1>2, <1>4, PTL DEF Spec

LEMMA TypeStep == TypeOK /\ [Next]_vars => TypeOK'
<1> SUFFICES ASSUME TypeOK, [Next]_vars PROVE TypeOK'
  OBVIOUS
<1>1. ASSUME NEW m \in wire, Receive(m) \/ HandlerCut(m) \/ GiveUp(m)
      PROVE  TypeOK'
  <2>1. /\ m \in Msg /\ m.entry \in Entry /\ m.entry[1] \in Pipeline
        /\ \A p \in Pipeline : <<p, round[p]>> \in Entry
    BY MsgIs DEF TypeOK, Entry
  <2>2. ASSUME NEW new, Handled(m, new), new \subseteq Msg
        PROVE  wire' \subseteq Msg /\ faults' \subseteq Faults
    BY <2>2, HandledIs DEF TypeOK
  <2>3. CASE HandleEmailSent(m)
    <3>1. Posted("register", m.entry) \in Msg
      BY <2>1, PostedIs
    <3> QED
      BY <2>1, <2>3, <3>1 DEF HandleEmailSent, TypeOK
  <2>4. CASE HandleRsvpOutcome(m)
    <3>1. wire' \subseteq Msg /\ faults' \subseteq Faults
      BY <2>2, <2>4 DEF HandleRsvpOutcome
    <3> QED
      BY <2>4, <3>1 DEF HandleRsvpOutcome, TypeOK
  <2>5. CASE RegisterRead(m)
    BY <2>1, <2>5 DEF RegisterRead, TypeOK
  <2>6. ASSUME NEW e \in joining, RegisterStore(m, e)
        PROVE  TypeOK'
    <3>1. wire' \subseteq Msg /\ faults' \subseteq Faults
      BY <2>6 DEF RegisterStore, Healthy, Fault, TypeOK
    <3>2. e[2] \in Round
      BY DEF TypeOK, Entry
    <3> QED
      BY <2>6, <3>1, <3>2 DEF RegisterStore, TypeOK
  <2>7. CASE GiveUp(m)
    BY <2>1, <2>7 DEF GiveUp, TypeOK
  <2>8. CASE HandlerCut(m)
    BY <2>8 DEF HandlerCut, Fault, TypeOK
  <2> QED
    BY <1>1, <2>3, <2>4, <2>5, <2>6, <2>7, <2>8 DEF Receive
<1>2. ASSUME NEW p \in Pipeline, Reinvite(p)
      PROVE  TypeOK'
  <2>1. round[p] + 1 \in Round
    BY <1>2, RsvpAssumption DEF Reinvite, TypeOK, Round
  <2>2. <<p, round[p] + 1>> \in Entry
    BY <2>1 DEF Entry
  <2>3. Posted("email.sent", <<p, round[p] + 1>>) \in Msg
    BY <2>2, PostedIs
  <2>4. round' = [round EXCEPT ![p] = round[p] + 1] /\ round'[p] = round[p] + 1
    BY <1>2 DEF Reinvite, TypeOK
  <2> QED
    BY <1>2, <2>1, <2>2, <2>3, <2>4 DEF Reinvite, TypeOK
<1>3. ASSUME NEW p \in Pipeline, Age(p)
      PROVE  TypeOK'
  BY <1>3 DEF Age, TypeOK
<1>4. ASSUME NEW k \in Poller, NEW e \in Entry,
             NEW kind \in {"finalize", "cancel"}, Decide(k, e, kind)
      PROVE  /\ event' \in [Entry -> {"none", "tentative", "confirmed",
                                      "deleted"}]
             /\ wire' \subseteq Msg /\ faults' \subseteq Faults
  <2>1. Outcome(k, kind, e) \in Msg /\ wire' = wire \cup {Outcome(k, kind, e)}
    BY <1>4, OutcomeIs DEF Decide
  <2>2. wire' \subseteq Msg
    BY <2>1 DEF TypeOK
  <2>3. /\ event' \in [Entry -> {"none", "tentative", "confirmed", "deleted"}]
        /\ faults' \subseteq Faults
    BY <1>4 DEF Decide, Changed, Healthy, Fault, TypeOK
  <2> QED
    BY <2>2, <2>3
<1>5. ASSUME NEW k \in Poller, PollStep(k)
      PROVE  TypeOK'
  <2>1. ASSUME NEW e \in poll[k].todo, TimedOut(k, e)
        PROVE  TypeOK'
    <3>1. e \in Entry /\ poll' \in [Poller -> PollState]
      BY <2>1, WorkIs DEF TimedOut
    <3> QED
      BY <1>4, <2>1, <3>1 DEF TimedOut, TypeOK
  <2>2. ASSUME NEW e \in poll[k].todo, ReadRow(k, e)
        PROVE  TypeOK'
    <3>1. e \in Entry /\ poll' \in [Poller -> PollState]
      BY <2>2, WorkIs DEF ReadRow
    <3> QED
      BY <2>2, <3>1 DEF ReadRow, TypeOK
  <2>3. CASE Snapshot(k)
    <3>1. [pc |-> "polling", todo |-> {e \in Entry : threads[e[1]] = e[2]}]
            \in PollState
      BY DEF PollState
    <3> QED
      BY <2>3, <3>1 DEF Snapshot, TypeOK
  <2>4. CASE PollEnds(k)
    <3>1. Idle \in PollState
      BY DEF Idle, PollState
    <3> QED
      BY <2>4, <3>1 DEF PollEnds, TypeOK
  <2>5. CASE NoReply(k) \/ Ambiguous(k) \/ Deregister(k)
    <3>1. poll' \in [Poller -> PollState]
      BY <2>5, NextThreadIs DEF NoReply, Ambiguous, Deregister
    <3> QED
      BY <2>5, <3>1 DEF NoReply, Ambiguous, Deregister, Healthy, TypeOK
  <2>6. ASSUME NEW pc \in {"classifying", "sending"}, Busy(k), StayOn(k, pc)
        PROVE  Cur(k) \in Entry /\ poll' \in [Poller -> PollState]
    BY <2>6, StayOnIs, PollType DEF Cur
  <2>7. CASE VagueReply(k)
    <3>1. poll' \in [Poller -> PollState]
      BY <2>6, <2>7 DEF VagueReply, At, Busy
    <3> QED
      BY <2>7, <3>1 DEF VagueReply, TypeOK
  <2>8. ASSUME NEW kind \in {"finalize", "cancel"}, Busy(k),
               StayOn(k, "sending"), Decide(k, Cur(k), kind),
               UNCHANGED <<state, round, threads, age, dlq, joining>>
        PROVE  TypeOK'
    BY <1>4, <2>6, <2>8 DEF TypeOK
  <2>9. CASE \E kind \in {"finalize", "cancel"} :
               ClearReply(k, kind) \/ Classified(k, kind)
    BY <2>8, <2>9 DEF ClearReply, Classified, At, Busy
  <2> QED
    BY <1>5, <2>1, <2>2, <2>3, <2>4, <2>5, <2>7, <2>9 DEF PollStep
<1>6. ASSUME NEW k \in Poller, Fails(k)
      PROVE  TypeOK'
  BY <1>6, NextThreadIs DEF Fails, Fault, TypeOK
<1>7. ASSUME NEW k \in Poller, LoopDies(k)
      PROVE  TypeOK'
  <2>1. [pc |-> "dead", todo |-> {}] \in PollState
    BY DEF PollState
  <2> QED
    BY <1>7, <2>1 DEF LoopDies, Fault, TypeOK
<1>8. CASE Restart
  <2>1. Idle \in PollState
    BY DEF Idle, PollState
  <2> QED
    BY <1>8, <2>1 DEF Restart, Fault, TypeOK
<1>9. ASSUME NEW k \in Poller, NEW e \in Entry,
             NEW kind \in {"finalize", "cancel"}, CalendarRaises(k, e, kind)
      PROVE  TypeOK'
  <2>1. [pc |-> "polling", todo |-> poll[k].todo \ {e}] \in PollState
    BY PollType DEF PollState
  <2>2. event' \in [Entry -> {"none", "tentative", "confirmed", "deleted"}]
    BY <1>9 DEF CalendarRaises, Changed, TypeOK
  <2> QED
    BY <1>9, <2>1, <2>2 DEF CalendarRaises, TypeOK
<1>10. CASE UNCHANGED vars
  BY <1>10 DEF vars, TypeOK
<1> QED
  BY <1>1, <1>2, <1>3, <1>5, <1>6, <1>7, <1>8, <1>9, <1>10 DEF Next

\* Every variable keeps its type, however many polls run at a time and
\* whatever fails and is cut short.
THEOREM TypeCorrect == Spec => []TypeOK
<1>1. Init => TypeOK
  BY InitHolds DEF RsvpInv
<1> QED
  BY <1>1, TypeStep, PTL DEF Spec

\* With one poll at a time a waiting visit is never lost: its registration
\* is stored or on its way, or its outcome is, or the dead letter list has
\* them (register_thread, process_thread).
THEOREM NobodyIsLeftOut == OnePoller => (Spec => []PendingIsWatched)
<1>1. RsvpInv /\ HandlerOpen => PendingIsWatched
  BY DEF RsvpInv
<1> QED
  BY <1>1, Invariant, PTL

\* With one poll at a time and nothing cut short, the calendar agrees with
\* how a visit ended, for any number of invitations.
THEOREM CalendarFollows == OnePoller => (Spec => []EventFollowsWhenUncut)
<1>1. RsvpInv /\ HandlerOpen => EventFollowsWhenUncut
  BY DEF RsvpInv, UncutTrue, EventFollowsWhenUncut
<1> QED
  BY <1>1, Invariant, PTL
=============================================================================
