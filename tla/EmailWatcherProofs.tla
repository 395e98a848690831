-------------------------- MODULE EmailWatcherProofs --------------------------
(***************************************************************************)
(* What the label UNREAD stands for, for any number of messages, polls and *)
(* failures.                                                               *)
(***************************************************************************)
EXTENDS EmailWatcher, TLAPS

\* A poll works on a message that has arrived; before it marks a message the
\* decision is on record.
PollsJustified ==
  \A p \in Poller :
    /\ poll[p] # Idle => poll[p].msg \in 1 .. arrived
    /\ poll[p].at = "log" => poll[p].msg \in dropped
    /\ poll[p].reached => poll[p].at = "post" /\ poll[p].msg \in pipeline

WatcherInv == TypeOK /\ PollsJustified /\ ReadForAReason

\* Both routes have two models.
LEMMA RouteLength == ASSUME NEW task PROVE Len(Route(task)) = 2
BY DEF Route

LEMMA InitWatcher == Init => WatcherInv
BY WatcherAssumption
DEF Init, WatcherInv, TypeOK, PollsJustified, ReadForAReason, Email, Idle,
    NoEmail

\* A poll that is not idle is about a message.
LEMMA BusyPoll ==
  ASSUME WatcherInv, NEW p \in Poller, poll[p].at # "idle"
  PROVE  /\ poll[p] # Idle
         /\ poll[p] \in [at : {"classify", "extract", "log", "post"},
                         msg : Email, model : 0 .. 2, reached : BOOLEAN]
         /\ poll[p].msg \in 1 .. arrived
BY DEF WatcherInv, TypeOK, PollsJustified, Idle

\* Marking touches the label, the history and the count of failures alone,
\* and takes the label of no other message.
LEMMA Marking ==
  ASSUME WatcherInv, NEW m \in Email, MarkAsRead(m)
  PROVE  /\ unread' \subseteq unread /\ unread \ {m} \subseteq unread'
         /\ slip' \subseteq Email /\ trouble' \in 0 .. MaxTrouble
BY WatcherAssumption DEF WatcherInv, TypeOK, MarkAsRead, Trouble

\* What a poll may be, and that its model is one of the two of its task.
PollRecord ==
  {Idle} \cup [at : {"classify", "extract", "log", "post"}, msg : Email,
              model : 0 .. 2, reached : BOOLEAN]

PollsTyped ==
  /\ poll \in [Poller -> PollRecord]
  /\ \A p \in Poller : poll[p].at \in {"classify", "extract"} =>
                         poll[p].model \in 1 .. Len(Route(poll[p].at))

\* A poll that goes on.
LEMMA PollGoesOn ==
  ASSUME WatcherInv, NEW p \in Poller, NEW r \in PollRecord,
         r.at \in {"classify", "extract"} => r.model \in {1, 2},
         poll' = [poll EXCEPT ![p] = r]
  PROVE  PollsTyped'
<1>1. ASSUME NEW task PROVE 1 .. Len(Route(task)) = {1, 2}
  <2>1. 1 .. 2 = {1, 2}
    OBVIOUS
  <2> QED
    BY RouteLength, <2>1, Zenon
<1>2. PollsTyped
  BY DEF WatcherInv, TypeOK, PollsTyped, PollRecord
<1>3. poll' \in [Poller -> PollRecord]
  BY <1>2 DEF PollsTyped
<1>4. ASSUME NEW q \in Poller, poll'[q].at \in {"classify", "extract"}
      PROVE  poll'[q].model \in 1 .. Len(Route(poll'[q].at))
  <2>1. CASE q = p
    <3>1. poll'[q] = r
      BY <1>2, <2>1 DEF PollsTyped
    <3> QED
      BY <1>1, <1>4, <3>1
  <2>2. CASE q # p
    <3>1. poll'[q] = poll[q]
      BY <1>2, <2>2 DEF PollsTyped
    <3>2. poll[q].model \in 1 .. Len(Route(poll[q].at))
      BY <1>2, <1>4, <3>1 DEF PollsTyped
    <3> QED
      BY <3>1, <3>2
  <2> QED
    BY <2>1, <2>2
<1> QED
  BY <1>3, <1>4 DEF PollsTyped

\* A poll that ends, with everything the others rely on kept.
LEMMA PollEnds ==
  ASSUME WatcherInv, NEW p \in Poller,
         poll' = [poll EXCEPT ![p] = Idle],
         dropped \subseteq dropped', UNCHANGED <<arrived, pipeline>>
  PROVE  PollsJustified' /\ PollsTyped'
<1>1. PollsJustified'
  BY DEF WatcherInv, TypeOK, PollsJustified, Idle
<1>2. PollsTyped'
  BY PollGoesOn DEF PollRecord, Idle
<1> QED
  BY <1>1, <1>2

LEMMA NextWatcher == WatcherInv /\ [Next]_vars => WatcherInv'
<1> SUFFICES ASSUME WatcherInv, [Next]_vars PROVE WatcherInv'
  OBVIOUS
<1> USE DEF WatcherInv
<1>a. Messages \in Nat /\ MaxTrouble \in Nat /\ arrived \in 0 .. Messages
  BY WatcherAssumption DEF TypeOK
<1>1. ASSUME NEW p \in Poller, List(p) PROVE WatcherInv'
  <2>1. PICK m \in Listed :
          /\ poll' = [poll EXCEPT ![p] = [at |-> "classify", msg |-> m,
                                          model |-> 1, reached |-> FALSE]]
          /\ slip' \subseteq slip \cup {m}
    BY <1>1 DEF List
  <2>2. m \in 1 .. arrived /\ m \in Email
    BY <1>a DEF Listed, TypeOK, Email
  <2>3. slip' \subseteq Email
    BY <2>1, <2>2 DEF TypeOK
  <2> DEFINE r == [at |-> "classify", msg |-> m, model |-> 1,
                   reached |-> FALSE]
  <2>b. r \in PollRecord /\ r.model \in {1, 2}
    BY <2>2 DEF PollRecord
  <2>a. PollsTyped'
    BY <2>1, <2>b, PollGoesOn
  <2>4. TypeOK'
    BY <1>1, <2>3, <2>a DEF List, TypeOK, mail, PollsTyped, PollRecord
  <2>5. PollsJustified'
    BY <1>1, <2>1, <2>2 DEF List, PollsJustified, TypeOK, mail
  <2>6. ReadForAReason'
    BY <1>1 DEF List, ReadForAReason, mail
  <2> QED
    BY <2>4, <2>5, <2>6
<1>2. ASSUME NEW p \in Poller, poll[p].at = "classify", Discard(p)
      PROVE  WatcherInv'
  <2>1. poll[p].msg \in Email
    BY <1>2, BusyPoll
  <2>2. PollsJustified' /\ TypeOK'
    BY <1>2, <2>1, PollEnds, Marking
    DEF Discard, TypeOK, PollsTyped, PollRecord
  <2>3. ReadForAReason'
    BY <1>2, <2>1, Marking DEF Discard, ReadForAReason
  <2> QED
    BY <2>2, <2>3
<1>3. ASSUME NEW p \in Poller, NEW at \in {"extract", "log", "post"},
             poll[p].at \in {"classify", "extract"}, GoTo(p, at),
             dropped' = dropped \cup (IF at = "log" THEN {poll[p].msg}
                                      ELSE {})
      PROVE  WatcherInv'
  <2>1. poll[p].msg \in Email /\ poll[p].reached = FALSE
    BY <1>3, BusyPoll DEF PollsJustified
  <2> DEFINE r == [at |-> at, msg |-> poll[p].msg, reached |-> FALSE,
                   model |-> IF at = "extract" THEN 1 ELSE 0]
  <2>b. poll' = [poll EXCEPT ![p] = r]
    BY <1>3 DEF GoTo
  <2>c. /\ r \in PollRecord
        /\ r.at \in {"classify", "extract"} => r.model \in {1, 2}
    BY <1>3, <2>1 DEF PollRecord
  <2>a. PollsTyped'
    BY <2>b, <2>c, PollGoesOn
  <2>2. TypeOK'
    BY <1>3, <2>1, <2>a DEF GoTo, TypeOK, mail, PollsTyped, PollRecord
  <2>3. PollsJustified'
    BY <1>3, <2>1, BusyPoll DEF GoTo, PollsJustified, TypeOK, mail
  <2>4. ReadForAReason'
    BY <1>3 DEF GoTo, ReadForAReason, mail
  <2> QED
    BY <2>2, <2>3, <2>4
<1>4. ASSUME NEW p \in Poller, Classify(p) PROVE WatcherInv'
  BY <1>2, <1>3, <1>4 DEF Classify
<1>5. ASSUME NEW p \in Poller, Extract(p) PROVE WatcherInv'
  BY <1>3, <1>5 DEF Extract
<1>6. ASSUME NEW p \in Poller, ModelFails(p) PROVE WatcherInv'
  <2>1. CASE /\ poll[p].model < Len(Route(poll[p].at))
             /\ poll' = [poll EXCEPT ![p].model = @ + 1]
             /\ UNCHANGED <<refused, mail, alive, pipeline, log, history,
                            trouble>>
    <3>1. /\ poll[p].at \in {"classify", "extract"}
          /\ Len(Route(poll[p].at)) = 2
          /\ poll[p].model \in 1 .. Len(Route(poll[p].at))
      BY <1>6, RouteLength DEF ModelFails, TypeOK
    <3>2. poll[p].model + 1 \in {1, 2} /\ poll[p].model + 1 \in 0 .. 2
      BY <2>1, <3>1
    <3>a. PollsTyped'
      BY <2>1, <3>1, <3>2, BusyPoll, PollGoesOn DEF PollRecord
    <3>b. TypeOK'
      BY <2>1, <3>a DEF TypeOK, mail, history, PollsTyped, PollRecord
    <3>3. PollsJustified'
      BY <1>6, <2>1, BusyPoll
      DEF ModelFails, PollsJustified, TypeOK, mail, history
    <3>4. ReadForAReason'
      BY <2>1 DEF ReadForAReason, mail, history
    <3> QED
      BY <3>b, <3>3, <3>4
  <2> QED
    BY <1>2, <1>3, <1>6, <2>1 DEF ModelFails
<1>7. ASSUME NEW p \in Poller, LogDrop(p) PROVE WatcherInv'
  <2>1. poll[p].msg \in Email /\ poll[p].msg \in dropped
    BY <1>7, BusyPoll DEF LogDrop, PollsJustified
  <2>2. PollsJustified' /\ TypeOK'
    BY <1>7, <2>1, PollEnds, Marking
    DEF LogDrop, TypeOK, PollsTyped, PollRecord
  <2>3. ReadForAReason'
    BY <1>7, <2>1, Marking DEF LogDrop, ReadForAReason
  <2> QED
    BY <2>2, <2>3
<1>8. ASSUME NEW p \in Poller, Reach(p) PROVE WatcherInv'
  <2>1. poll[p].msg \in Email
    BY <1>8, BusyPoll DEF Reach
  <2>a. PollsTyped'
    BY <1>8, BusyPoll, PollGoesOn DEF Reach, PollRecord
  <2>b. reports' \in [Email -> 0 .. 2]
    BY <1>8, <2>1 DEF Reach, TypeOK
  <2>2. TypeOK'
    BY <1>8, <2>1, <2>a, <2>b DEF Reach, TypeOK, mail, PollsTyped, PollRecord
  <2>3. PollsJustified'
    BY <1>8, <2>1, BusyPoll DEF Reach, PollsJustified, TypeOK, mail
  <2>4. ReadForAReason'
    BY <1>8 DEF Reach, ReadForAReason, mail
  <2> QED
    BY <2>2, <2>3, <2>4
<1>9. ASSUME NEW p \in Poller, Answered(p) PROVE WatcherInv'
  <2>1. poll[p].msg \in Email /\ poll[p].msg \in pipeline
    BY <1>9, BusyPoll DEF Answered, PollsJustified
  <2>2. PollsJustified' /\ TypeOK'
    BY <1>9, <2>1, PollEnds, Marking
    DEF Answered, TypeOK, PollsTyped, PollRecord
  <2>3. ReadForAReason'
    BY <1>9, <2>1, Marking DEF Answered, ReadForAReason
  <2> QED
    BY <2>2, <2>3
<1>10. ASSUME NEW p \in Poller, GivenUp(p) \/ Escapes(p) PROVE WatcherInv'
  <2>a. PollsJustified' /\ PollsTyped'
    BY <1>10, PollEnds DEF GivenUp, Escapes, mail
  <2>b. trouble' \in 0 .. MaxTrouble /\ slip' \subseteq Email
    BY <1>10, <1>a DEF GivenUp, Escapes, TypeOK, Trouble, Slipped
  <2>c. alive' \in BOOLEAN
    BY <1>10 DEF GivenUp, Escapes, TypeOK
  <2>1. PollsJustified' /\ TypeOK'
    BY <1>10, <2>a, <2>b, <2>c
    DEF GivenUp, Escapes, TypeOK, mail, PollsTyped, PollRecord
  <2>2. ReadForAReason'
    BY <1>10 DEF GivenUp, Escapes, ReadForAReason, mail
  <2> QED
    BY <2>1, <2>2
<1>11. CASE ArriveNext
  <2>1. TypeOK'
    BY <1>11, <1>a DEF ArriveNext, TypeOK, Email, history
  <2>2. PollsJustified'
    BY <1>11, <1>a DEF ArriveNext, PollsJustified, history
  <2>3. ReadForAReason'
    BY <1>11, <1>a DEF ArriveNext, ReadForAReason, history
  <2> QED
    BY <2>1, <2>2, <2>3
<1>12. CASE Restart
  <2>1. TypeOK'
    BY <1>12, <1>a DEF Restart, TypeOK, Trouble, Slipped, Idle
  <2>2. PollsJustified'
    BY <1>12 DEF Restart, PollsJustified, Idle
  <2>3. ReadForAReason'
    BY <1>12 DEF Restart, ReadForAReason
  <2> QED
    BY <2>1, <2>2, <2>3
<1>14. CASE ArriveAnew
  <2> DEFINE m == Messages
  <2>1. /\ m \in 1 .. arrived /\ m \in Email
        /\ \A p \in Poller : poll[p].msg # m
        /\ UNCHANGED <<arrived, alive, poll, trouble>>
    BY <1>14, <1>a DEF ArriveAnew, Holds, Email
  <2>2. refused' \subseteq Email /\ start' \in 0 .. arrived
    BY <1>14, <1>a, <2>1 DEF ArriveAnew, TypeOK
  <2>3. TypeOK'
    BY <1>14, <2>1, <2>2 DEF ArriveAnew, TypeOK
  <2>4. PollsJustified'
    BY <1>14, <2>1 DEF ArriveAnew, PollsJustified
  <2>5. ReadForAReason'
    BY <1>14, <2>1 DEF ArriveAnew, ReadForAReason
  <2> QED
    BY <2>3, <2>4, <2>5
<1>13. CASE UNCHANGED vars
  BY <1>13 DEF vars, mail, history, TypeOK, PollsJustified, ReadForAReason
<1> QED
  BY <1>1, <1>4, <1>5, <1>6, <1>7, <1>8, <1>9, <1>10, <1>11, <1>12, <1>13,
     <1>14
  DEF Next, Step, Arrive

---------------------------------------------------------------------------
(* A message is reported once, unless a poll slipped                       *)

\* What has not slipped is worked on by one poll at most, which has not
\* reported it before; once reported it is either marked or still held.  No
\* report that is refused is ever counted.
ReportedOnce ==
  /\ \A p \in Poller : poll[p].reached => poll[p].msg \notin refused
  /\ \A m \in Email \ slip :
       /\ \A p, q \in Poller : Holds(p, m) /\ Holds(q, m) => p = q
       /\ \A p \in Poller :
            Holds(p, m) /\ ~ poll[p].reached => reports[m] = 0
       /\ reports[m] # 0 =>
            /\ m \in 1 .. arrived
            /\ reports[m] = 1
            /\ m \in unread => \E p \in Poller : Holds(p, m)

LEMMA OnceCaused == ReportedOnce => SecondReportHasACause
BY DEF ReportedOnce, SecondReportHasACause

LEMMA InitOnce == Init => ReportedOnce
<1> SUFFICES ASSUME Init PROVE ReportedOnce
  OBVIOUS
<1>1. /\ \A p \in Poller : poll[p].reached = FALSE /\ poll[p].msg = 0
      /\ \A m \in Email : reports[m] = 0
  BY DEF Init, Idle, NoEmail
<1>2. 0 \notin Email
  BY WatcherAssumption DEF Email
<1> QED
  BY <1>1, <1>2 DEF ReportedOnce, Holds

\* A poll ends: what it reported is marked by then, or has slipped.
LEMMA EndsOnce ==
  ASSUME WatcherInv, ReportedOnce, NEW p \in Poller,
         poll' = [poll EXCEPT ![p] = Idle],
         UNCHANGED <<refused, arrived, reports>>,
         unread' \subseteq unread, slip \subseteq slip',
         poll[p].reached =>
           poll[p].msg \notin unread' \/ poll[p].msg \in slip'
  PROVE  ReportedOnce'
<1>1. /\ poll'[p] = Idle
      /\ \A q \in Poller : q # p => poll'[q] = poll[q]
  BY DEF WatcherInv, TypeOK
<1>2. Idle.reached = FALSE /\ Idle.msg = 0
  BY DEF Idle, NoEmail
<1>3. \A q \in Poller : poll'[q].reached => poll'[q].msg \notin refused'
  BY <1>1, <1>2 DEF ReportedOnce
<1>4. ASSUME NEW m \in Email \ slip'
      PROVE  /\ \A r, q \in Poller : Holds(r, m)' /\ Holds(q, m)' => r = q
             /\ \A q \in Poller :
                  Holds(q, m)' /\ ~ poll'[q].reached => reports'[m] = 0
             /\ reports'[m] # 0 =>
                  /\ m \in 1 .. arrived'
                  /\ reports'[m] = 1
                  /\ m \in unread' => \E q \in Poller : Holds(q, m)'
  <2>1. m \in Email \ slip /\ m # 0
    BY WatcherAssumption DEF Email
  <2>2. \A q \in Poller : Holds(q, m)' => q # p /\ Holds(q, m)
    BY <1>1, <1>2, <2>1 DEF Holds
  <2>3. ASSUME reports[m] # 0, m \in unread'
        PROVE  \E q \in Poller : Holds(q, m)'
    <3>1. PICK q \in Poller : Holds(q, m)
      BY <2>1, <2>3 DEF ReportedOnce
    <3>2. poll[q].reached
      BY <2>1, <2>3, <3>1 DEF ReportedOnce
    <3>3. q # p
      BY <1>4, <2>3, <3>1, <3>2 DEF Holds
    <3> QED
      BY <1>1, <3>1, <3>3 DEF Holds
  <2> QED
    BY <1>1, <2>1, <2>2, <2>3 DEF ReportedOnce
<1> QED
  BY <1>3, <1>4 DEF ReportedOnce

\* A poll goes on with its message, which it has not reported.
LEMMA GoesOnOnce ==
  ASSUME WatcherInv, ReportedOnce, NEW p \in Poller, NEW r,
         r.msg = poll[p].msg, r.reached = FALSE, poll[p].reached = FALSE,
         poll' = [poll EXCEPT ![p] = r],
         UNCHANGED <<refused, arrived, unread, reports, slip>>
  PROVE  ReportedOnce'
<1>1. /\ poll'[p] = r
      /\ \A q \in Poller : q # p => poll'[q] = poll[q]
  BY DEF WatcherInv, TypeOK
<1>2. \A q \in Poller : /\ poll'[q].reached <=> poll[q].reached
                        /\ poll'[q].msg = poll[q].msg
  BY <1>1
<1> QED
  BY <1>2 DEF ReportedOnce, Holds

\* A message is listed while another poll holds it, or has not been reported.
LEMMA ListOnce ==
  ASSUME WatcherInv, ReportedOnce, NEW p \in Poller, List(p)
  PROVE  ReportedOnce'
<1>1. PICK m \in Listed :
        /\ poll' = [poll EXCEPT ![p] = [at |-> "classify", msg |-> m,
                                        model |-> 1, reached |-> FALSE]]
        /\ slip' = slip \cup
             {n \in {m} : \E q \in Poller \ {p} : Holds(q, n)}
  BY DEF List
<1>2. /\ poll'[p].msg = m /\ poll'[p].reached = FALSE
      /\ \A q \in Poller : q # p => poll'[q] = poll[q]
  BY <1>1 DEF WatcherInv, TypeOK
<1>3. /\ poll[p].msg = 0 /\ UNCHANGED <<refused, arrived, unread, reports>>
      /\ m \in unread
  BY DEF List, Idle, NoEmail, mail, Listed
<1>4. \A q \in Poller : poll'[q].reached => poll'[q].msg \notin refused'
  BY <1>2, <1>3 DEF ReportedOnce
<1>5. ASSUME NEW n \in Email \ slip'
      PROVE  /\ \A r, q \in Poller : Holds(r, n)' /\ Holds(q, n)' => r = q
             /\ \A q \in Poller :
                  Holds(q, n)' /\ ~ poll'[q].reached => reports'[n] = 0
             /\ reports'[n] # 0 =>
                  /\ n \in 1 .. arrived'
                  /\ reports'[n] = 1
                  /\ n \in unread' => \E q \in Poller : Holds(q, n)'
  <2>1. n \in Email \ slip /\ n # 0
    BY <1>1, WatcherAssumption DEF Email
  <2>2. CASE n = m
    <3>1. \A q \in Poller : q # p => ~ Holds(q, n)
      BY <1>1, <1>5, <2>2
    <3>2. reports[n] = 0
      BY <1>3, <2>1, <2>2, <3>1 DEF ReportedOnce, Holds
    <3> QED
      BY <1>2, <1>3, <3>1, <3>2 DEF Holds
  <2>3. CASE n # m
    <3>1. \A q \in Poller : Holds(q, n)' <=> Holds(q, n)
      BY <1>2, <1>3, <2>1, <2>3 DEF Holds
    <3>2. \A q \in Poller : Holds(q, n) => q # p
      BY <1>3, <2>1 DEF Holds
    <3> QED
      BY <1>2, <1>3, <2>1, <3>1, <3>2 DEF ReportedOnce
  <2> QED
    BY <2>2, <2>3
<1> QED
  BY <1>4, <1>5 DEF ReportedOnce

\* The orchestrator handles the one report of a message.
LEMMA ReachOnce ==
  ASSUME WatcherInv, ReportedOnce, NEW p \in Poller, Reach(p)
  PROVE  ReportedOnce'
<1>1. PICK m : m = poll[p].msg
  OBVIOUS
<1>2. m \in Email /\ m \in 1 .. arrived
  BY <1>1, BusyPoll DEF Reach
<1>3. /\ poll'[p].msg = m /\ poll'[p].reached
      /\ \A q \in Poller : q # p => poll'[q] = poll[q]
  BY <1>1, BusyPoll DEF Reach, WatcherInv, TypeOK
<1>4. /\ ~ poll[p].reached /\ m \notin refused
      /\ UNCHANGED <<refused, arrived, unread, slip>>
  BY <1>1 DEF Reach, mail
<1>5. /\ reports'[m] = IF reports[m] = 2 THEN 2 ELSE reports[m] + 1
      /\ \A n \in Email : n # m => reports'[n] = reports[n]
  BY <1>1, <1>2 DEF Reach, WatcherInv, TypeOK
<1>6. \A q \in Poller : Holds(q, m)' <=> Holds(q, m)
  BY <1>1, <1>3 DEF Holds
<1>7. \A q \in Poller : poll'[q].reached => poll'[q].msg \notin refused'
  BY <1>3, <1>4 DEF ReportedOnce
<1>8. ASSUME NEW n \in Email \ slip'
      PROVE  /\ \A r, q \in Poller : Holds(r, n)' /\ Holds(q, n)' => r = q
             /\ \A q \in Poller :
                  Holds(q, n)' /\ ~ poll'[q].reached => reports'[n] = 0
             /\ reports'[n] # 0 =>
                  /\ n \in 1 .. arrived'
                  /\ reports'[n] = 1
                  /\ n \in unread' => \E q \in Poller : Holds(q, n)'
  <2>1. n \in Email \ slip
    BY <1>4
  <2>2. \A q \in Poller : Holds(q, n)' <=> Holds(q, n)
    BY <1>1, <1>3 DEF Holds
  <2>3. CASE n = m
    <3>1. Holds(p, n) /\ reports[n] = 0
      BY <1>1, <1>4, <2>1, <2>3 DEF ReportedOnce, Holds
    <3>2. reports'[n] = 1
      BY <1>5, <2>3, <3>1
    <3>3. \A q \in Poller : Holds(q, n)' => q = p
      BY <2>1, <2>2, <3>1 DEF ReportedOnce
    <3> QED
      BY <1>2, <1>3, <1>4, <2>2, <2>3, <3>1, <3>2, <3>3
  <2>4. CASE n # m
    <3>1. \A q \in Poller : Holds(q, n) => q # p
      BY <1>1, <2>4 DEF Holds
    <3> QED
      BY <1>3, <1>4, <1>5, <2>1, <2>2, <2>4, <3>1 DEF ReportedOnce
  <2> QED
    BY <2>3, <2>4
<1> QED
  BY <1>7, <1>8 DEF ReportedOnce

\* Nobody holds, and nobody has reported, a message that has just arrived.
LEMMA ArriveOnce ==
  ASSUME WatcherInv, ReportedOnce, ArriveNext
  PROVE  ReportedOnce'
<1>1. /\ arrived' = arrived + 1 /\ unread' = unread \cup {arrived + 1}
      /\ UNCHANGED <<refused, poll, reports, slip>>
  BY DEF ArriveNext, history
<1>2. arrived \in Nat
  BY WatcherAssumption DEF WatcherInv, TypeOK
<1>3. ASSUME NEW m \in Email \ slip', reports'[m] # 0
      PROVE  /\ m \in 1 .. arrived'
             /\ reports'[m] = 1
             /\ m \in unread' => \E q \in Poller : Holds(q, m)'
  <2>1. m \in Email \ slip /\ m \in 1 .. arrived /\ reports[m] # 0
    BY <1>1, <1>3 DEF ReportedOnce
  <2>2. m \in unread' => m \in unread
    BY <1>1, <1>2, <2>1
  <2> QED
    BY <1>1, <1>2, <2>1, <2>2 DEF ReportedOnce, Holds
<1> QED
  BY <1>1, <1>3 DEF ReportedOnce, Holds

\* What was on record about a message that was read ends with it.
LEMMA ArriveAnewOnce ==
  ASSUME WatcherInv, ReportedOnce, ArriveAnew
  PROVE  ReportedOnce'
<1> DEFINE m == Messages
<1>1. /\ \A p \in Poller : ~ Holds(p, m)
      /\ unread' = unread \cup {m} /\ slip' = slip \ {m}
      /\ refused' \subseteq refused \cup {m}
      /\ UNCHANGED <<arrived, poll>>
  BY DEF ArriveAnew
<1>2. /\ m \in Email => reports'[m] = 0
      /\ \A n \in Email : n # m => reports'[n] = reports[n]
  BY DEF ArriveAnew, WatcherInv, TypeOK
<1>3. \A p \in Poller : poll'[p].reached => poll'[p].msg \notin refused'
  BY <1>1 DEF ReportedOnce, Holds
<1>4. ASSUME NEW n \in Email \ slip'
      PROVE  /\ \A r, q \in Poller : Holds(r, n)' /\ Holds(q, n)' => r = q
             /\ \A q \in Poller :
                  Holds(q, n)' /\ ~ poll'[q].reached => reports'[n] = 0
             /\ reports'[n] # 0 =>
                  /\ n \in 1 .. arrived'
                  /\ reports'[n] = 1
                  /\ n \in unread' => \E q \in Poller : Holds(q, n)'
  <2>1. CASE n = m
    BY <1>1, <1>2, <2>1 DEF Holds
  <2>2. CASE n # m
    BY <1>1, <1>2, <2>2 DEF ReportedOnce, Holds
  <2> QED
    BY <2>1, <2>2
<1> QED
  BY <1>3, <1>4 DEF ReportedOnce

\* A restart forgets what every poll was doing.
LEMMA RestartOnce ==
  ASSUME WatcherInv, ReportedOnce, Restart
  PROVE  ReportedOnce'
<1>1. /\ \A q \in Poller : poll'[q] = Idle
      /\ slip' = slip \cup UNION {Slipped(q) : q \in Poller}
      /\ UNCHANGED <<refused, arrived, unread, reports>>
  BY DEF Restart
<1>2. Idle.reached = FALSE /\ Idle.msg = 0
  BY DEF Idle, NoEmail
<1>3. ASSUME NEW m \in Email \ slip'
      PROVE  /\ m \in Email \ slip /\ m # 0
             /\ \A q \in Poller : ~ (Holds(q, m) /\ poll[q].reached)
  <2>1. m \in Email \ slip /\ m # 0
    BY <1>1, WatcherAssumption DEF Email
  <2>2. ASSUME NEW q \in Poller, Holds(q, m), poll[q].reached PROVE FALSE
    <3>1. m \in Slipped(q)
      BY <2>1, <2>2 DEF Slipped
    <3> QED
      BY <1>1, <1>3, <3>1
  <2> QED
    BY <2>1, <2>2
<1>4. ASSUME NEW m \in Email \ slip', reports'[m] # 0
      PROVE  /\ m \in 1 .. arrived' /\ reports'[m] = 1 /\ m \notin unread'
  <2>1. m \in Email \ slip /\ reports[m] # 0
    BY <1>1, <1>3, <1>4
  <2>2. \A q \in Poller : ~ Holds(q, m)
    BY <1>3, <2>1 DEF ReportedOnce
  <2> QED
    BY <1>1, <2>1, <2>2 DEF ReportedOnce
<1>5. \A m \in Email \ slip', q \in Poller : ~ Holds(q, m)'
  BY <1>1, <1>2, <1>3 DEF Holds
<1>6. \A q \in Poller : poll'[q].reached => poll'[q].msg \notin refused'
  BY <1>1, <1>2
<1> QED
  BY <1>4, <1>5, <1>6 DEF ReportedOnce

LEMMA NextOnce == WatcherInv /\ ReportedOnce /\ [Next]_vars => ReportedOnce'
<1> SUFFICES ASSUME WatcherInv, ReportedOnce, [Next]_vars
             PROVE  ReportedOnce'
  OBVIOUS
<1>1. ASSUME NEW p \in Poller, poll[p].at \in {"classify", "extract", "log"}
      PROVE  poll[p].reached = FALSE
  BY <1>1, BusyPoll DEF WatcherInv, PollsJustified
<1>2. ASSUME NEW m, MarkAsRead(m)
      PROVE  /\ unread' \subseteq unread /\ slip \subseteq slip'
             /\ m \notin unread' \/ m \in slip'
  BY <1>2 DEF MarkAsRead
<1>3. ASSUME NEW p \in Poller, poll[p].at = "classify", Discard(p)
      PROVE  ReportedOnce'
  BY <1>1, <1>2, <1>3, EndsOnce DEF Discard
<1>4. ASSUME NEW p \in Poller, NEW at \in {"extract", "log", "post"},
             poll[p].at \in {"classify", "extract"}, GoTo(p, at)
      PROVE  ReportedOnce'
  <2> DEFINE r == [at |-> at, msg |-> poll[p].msg, reached |-> FALSE,
                   model |-> IF at = "extract" THEN 1 ELSE 0]
  <2>1. /\ poll' = [poll EXCEPT ![p] = r]
        /\ UNCHANGED <<refused, arrived, unread, reports, slip>>
    BY <1>4 DEF GoTo, mail
  <2>2. r.msg = poll[p].msg /\ r.reached = FALSE
    OBVIOUS
  <2> HIDE DEF r
  <2> QED
    BY <1>1, <1>4, <2>1, <2>2, GoesOnOnce
<1>5. ASSUME NEW p \in Poller, Classify(p) \/ Extract(p)
      PROVE  ReportedOnce'
  BY <1>3, <1>4, <1>5 DEF Classify, Extract
<1>6. ASSUME NEW p \in Poller, ModelFails(p) PROVE ReportedOnce'
  <2>1. CASE /\ poll' = [poll EXCEPT ![p].model = @ + 1]
             /\ UNCHANGED <<refused, mail, alive, pipeline, log, history,
                            trouble>>
    <3>1. poll[p].at \in {"classify", "extract"}
      BY <1>6 DEF ModelFails
    <3>2. PICK r : r = [poll[p] EXCEPT !.model = poll[p].model + 1]
      OBVIOUS
    <3>3. r.msg = poll[p].msg /\ r.reached = FALSE
      BY <1>1, <3>1, <3>2, BusyPoll
    <3>4. poll' = [poll EXCEPT ![p] = r]
      BY <2>1, <3>2
    <3>5. UNCHANGED <<refused, arrived, unread, reports, slip>>
      BY <2>1 DEF mail, history
    <3> QED
      BY <1>1, <3>1, <3>3, <3>4, <3>5, GoesOnOnce
  <2> QED
    BY <1>3, <1>4, <1>6, <2>1 DEF ModelFails
<1>7. ASSUME NEW p \in Poller, LogDrop(p) \/ Answered(p) PROVE ReportedOnce'
  BY <1>1, <1>2, <1>7, EndsOnce DEF LogDrop, Answered
<1>8. ASSUME NEW p \in Poller, GivenUp(p) \/ Escapes(p) PROVE ReportedOnce'
  <2>1. poll[p].reached => poll[p].msg \in slip'
    <3> SUFFICES ASSUME poll[p].reached PROVE poll[p].msg \in slip'
      OBVIOUS
    <3>1. poll[p].msg \notin refused
      BY DEF ReportedOnce
    <3>2. poll[p].at = "post"
      BY DEF WatcherInv, PollsJustified
    <3>3. poll[p].msg \in Slipped(p)
      BY <3>2, BusyPoll DEF Slipped, Holds
    <3> QED
      BY <1>8, <3>1, <3>3 DEF GivenUp, Escapes
  <2>2. slip \subseteq slip'
    BY <1>8 DEF GivenUp, Escapes
  <2>3. /\ poll' = [poll EXCEPT ![p] = Idle]
        /\ UNCHANGED <<refused, arrived, unread, reports>>
    BY <1>8 DEF GivenUp, Escapes, mail
  <2> QED
    BY <2>1, <2>2, <2>3, EndsOnce
<1>9. CASE UNCHANGED vars
  BY <1>9 DEF vars, mail, history, ReportedOnce, Holds
<1> QED
  BY <1>5, <1>6, <1>7, <1>8, <1>9, ListOnce, ReachOnce, ArriveOnce,
     ArriveAnewOnce, RestartOnce
     DEF Next, Step, Arrive

---------------------------------------------------------------------------
(* The theorems *)

\* The inductive invariant of the watcher.
LEMMA Invariant == Spec => [](WatcherInv /\ ReportedOnce)
<1>1. Init => WatcherInv /\ ReportedOnce
  BY InitWatcher, InitOnce
<1>2. WatcherInv /\ ReportedOnce /\ [Next]_vars
        => (WatcherInv /\ ReportedOnce)'
  BY NextWatcher, NextOnce
<1> QED
  BY <1>1, <1>2, PTL DEF Spec

\* Labels, polls and counts keep their types for any number of messages and
\* polls (poller.py).
THEOREM TypeCorrect == Spec => []TypeOK
BY Invariant, PTL DEF WatcherInv

\* A message loses the label UNREAD only when the orchestrator has it or a
\* poll decided to drop it, whatever failed and however many polls worked on
\* it (process_message): no step marks a message first and reports it later.
THEOREM MailIsReadForAReason == Spec => []ReadForAReason
BY Invariant, PTL DEF WatcherInv

\* A message is reported a second time only when a poll reported it and could
\* not mark it, or two polls listed it at once: one poll at a time and a Gmail
\* that answers report each message once (process_message).
THEOREM SecondReportIsExplained == Spec => []SecondReportHasACause
BY Invariant, OnceCaused, PTL
=============================================================================
