------------------------------ MODULE A2AProofs ------------------------------
(***************************************************************************)
(* dispatch_task implements A2ACall, for any dispatches and any number of  *)
(* attempts: the handlers of the orchestrator may be modelled with the     *)
(* five steps of A2ACall in place of the POSTs, sleeps and answers.  And   *)
(* it delivers at least once, at most MAX_ATTEMPTS times, or keeps the     *)
(* request.                                                                *)
(***************************************************************************)
EXTENDS A2ADispatch, FiniteSetTheorems, TLAPS

\* What a caller can read, or an agent is at work on, was received.
Received ==
  /\ \A a \in answers : a.post[1] \in reached
  /\ \A p \in working : p[1] \in reached

\* The part of TypeOK the proof needs, with Received.
CallInv ==
  /\ pc \in [Call -> {"idle", "posting", "waiting", "sleeping", "pushing",
                      "returned", "failed", "lost"}]
  /\ Received

\* No step takes back what was received, and each answer is to such a POST.
LEMMA CallInvHolds == Spec => []CallInv
<1>1. Init => CallInv
  BY DEF Init, CallInv, Received
<1>2. CallInv /\ [Next]_vars => CallInv'
  <2> SUFFICES ASSUME CallInv, [Next]_vars PROVE CallInv'
    OBVIOUS
  <2> USE DEF CallInv, Received, Goto
  <2>1. ASSUME NEW c \in Call, Dispatch(c) PROVE CallInv'
    BY <2>1 DEF Dispatch
  <2>2. ASSUME NEW c \in Call, Send(c) PROVE CallInv'
    BY <2>2 DEF Send
  <2>3. ASSUME NEW c \in Call, ConnectFails(c) PROVE CallInv'
    BY <2>3 DEF ConnectFails, AttemptFails
  <2>4. ASSUME NEW c \in Call, Timeout(c) PROVE CallInv'
    BY <2>4 DEF Timeout, AttemptFails
  <2>5. ASSUME NEW c \in Call, ErrorStatus(c) PROVE CallInv'
    BY <2>5 DEF ErrorStatus, Answered, AttemptFails
  <2>6. ASSUME NEW c \in Call, Return(c) PROVE CallInv'
    BY <2>6 DEF Return, Answered
  <2>7. ASSUME NEW c \in Call, Unreadable(c) PROVE CallInv'
    BY <2>7 DEF Unreadable, Answered
  <2>8. ASSUME NEW c \in Call, Retry(c) PROVE CallInv'
    BY <2>8 DEF Retry
  <2>9. ASSUME NEW c \in Call, Push(c) PROVE CallInv'
    BY <2>9 DEF Push
  <2>10. ASSUME NEW c \in Call, PushFails(c) PROVE CallInv'
    BY <2>10 DEF PushFails
  <2>11. ASSUME NEW p \in working, NEW k, Handle(p, k) PROVE CallInv'
    BY <2>11 DEF Handle
  <2>12. ASSUME NEW p \in working, Drop(p) PROVE CallInv'
    BY <2>12 DEF Drop
  <2>13. CASE UNCHANGED vars
    BY <2>13 DEF vars
  <2> QED
    BY <2>1, <2>2, <2>3, <2>4, <2>5, <2>6, <2>7, <2>8, <2>9, <2>10, <2>11,
       <2>12, <2>13 DEF Next, CallerStep
<1> QED
  BY <1>1, <1>2, PTL DEF Spec

Seen == <<[c \in Call |-> Phase(pc[c])], reached, dlq>>

\* A step of the caller is seen as a change of its phase.
LEMMA PhaseMoves ==
  ASSUME NEW c \in Call, NEW from, NEW to, CallInv, Goto(c, from, to)
  PROVE  Abstract!Enter(c, Phase(from), Phase(to))
BY DEF CallInv, Goto, Abstract!Enter

\* A step of the caller that stays within one dispatch is not seen.
LEMMA PendingStays ==
  ASSUME NEW c \in Call, NEW from, NEW to, CallInv, Goto(c, from, to),
         Phase(from) = Phase(to)
  PROVE  UNCHANGED [d \in Call |-> Phase(pc[d])]
BY DEF CallInv, Goto

\* Every step of dispatch_task and of the agents is a step of A2ACall or
\* changes nothing of what it sees.
LEMMA StepsImplement == CallInv /\ [Next]_vars => [Abstract!Next]_Seen
<1> SUFFICES ASSUME CallInv, [Next]_vars PROVE [Abstract!Next]_Seen
  OBVIOUS
<1>p. /\ Phase("idle") = "idle"
      /\ \A s \in {"posting", "waiting", "sleeping", "pushing"} :
           Phase(s) = "pending"
      /\ \A s \in Ended : Phase(s) = s
  BY DEF Phase, Ended
<1>1. ASSUME NEW c \in Call, Dispatch(c) PROVE Abstract!Start(c)
  <2>1. Abstract!Enter(c, Phase("idle"), Phase("posting"))
    BY <1>1, PhaseMoves DEF Dispatch
  <2> QED
    BY <1>1, <1>p, <2>1 DEF Dispatch, Abstract!Start, Ended
<1>2. ASSUME NEW c \in Call, Send(c) PROVE Abstract!Reach(c)
  <2>1. UNCHANGED [d \in Call |-> Phase(pc[d])]
    BY <1>2, <1>p, PendingStays DEF Send
  <2> QED
    BY <1>2, <1>p, <2>1 DEF Send, Abstract!Reach, Goto
<1>3. ASSUME NEW c \in Call, NEW from \in {"posting", "waiting"},
             AttemptFails(c, from)
      PROVE  UNCHANGED Seen
  BY <1>3, <1>p, PendingStays DEF AttemptFails, Seen
<1>4. ASSUME NEW c \in Call, Return(c) PROVE Abstract!Return(c)
  <2>1. c \in reached
    BY <1>4 DEF Return, Answered, CallInv, Received
  <2>2. Abstract!Enter(c, Phase("waiting"), Phase("returned"))
    BY <1>4, PhaseMoves DEF Return
  <2> QED
    BY <1>4, <1>p, <2>1, <2>2 DEF Return, Abstract!Return, Ended
<1>5. ASSUME NEW c \in Call, Unreadable(c) PROVE UNCHANGED Seen
  BY <1>5, <1>p, PendingStays DEF Unreadable, Seen
<1>6. ASSUME NEW c \in Call, Retry(c) PROVE UNCHANGED Seen
  BY <1>6, <1>p, PendingStays DEF Retry, Seen
<1>7. ASSUME NEW c \in Call, Push(c) PROVE Abstract!Fail(c)
  <2>1. Abstract!Enter(c, Phase("pushing"), Phase("failed"))
    BY <1>7, PhaseMoves DEF Push
  <2> QED
    BY <1>7, <1>p, <2>1 DEF Push, Abstract!Fail, Ended
<1>8. ASSUME NEW c \in Call, PushFails(c) PROVE Abstract!Lose(c)
  <2>1. Abstract!Enter(c, Phase("pushing"), Phase("lost"))
    BY <1>8, PhaseMoves DEF PushFails
  <2> QED
    BY <1>8, <1>p, <2>1 DEF PushFails, Abstract!Lose, Ended
<1>9. ASSUME NEW p \in working, NEW k, Handle(p, k) PROVE UNCHANGED Seen
  BY <1>9 DEF Handle, Seen
<1>10. ASSUME NEW p \in working, Drop(p) PROVE UNCHANGED Seen
  BY <1>10 DEF Drop, Seen
<1>11. CASE UNCHANGED vars
  BY <1>11 DEF vars, Seen
<1>12. CASE Next
  <2>1. ASSUME NEW c \in Call, CallerStep(c) PROVE [Abstract!Next]_Seen
    BY <2>1, <1>2, <1>3, <1>4, <1>5, <1>6, <1>7, <1>8
    DEF CallerStep, ConnectFails, Timeout, ErrorStatus, Abstract!Next
  <2>2. ASSUME NEW c \in Call, Dispatch(c) PROVE [Abstract!Next]_Seen
    BY <2>2, <1>1 DEF Abstract!Next
  <2> QED
    BY <1>12, <2>1, <2>2, <1>9, <1>10 DEF Next
<1> QED
  BY <1>11, <1>12

\* A2ADispatch implements A2ACall: a call that returned was received, and
\* one that failed is in the dead letter list if it has a pipeline_id,
\* whatever was lost, repeated or answered late (dispatch_task).
THEOREM DispatchImplementsCall == Spec => ImplementsCall
<1>1. Init => Abstract!Init
  BY DEF Init, Abstract!Init, Phase, Ended
<1>2. Spec => [][Abstract!Next]_Seen
  BY CallInvHolds, StepsImplement, PTL DEF Spec
<1> QED
  BY <1>1, <1>2, PTL DEF Spec, ImplementsCall, Abstract!Spec, Seen

---------------------------------------------------------------------------
(* Delivery *)

WorkingOn(c) == {p \in working : p[1] = c}

\* The POSTs that can have been sent: the present one only from "waiting" on.
Sent(c) == IF pc[c] = "posting" THEN attempt[c] - 1 ELSE attempt[c]

DeliveredOnce(c) ==
  /\ pc[c] = "idle" <=> attempt[c] = 0
  /\ pc[c] = "sleeping" => attempt[c] < MAX_ATTEMPTS
  /\ handled[c] + Cardinality(WorkingOn(c)) <= Sent(c)
  /\ pc[c] = "returned" => handled[c] > 0

\* An attempt is counted before it is posted, sleeping needs one that is
\* left, each POST that was sent is at work or handled or gone, and an
\* answer is to one that was handled.
DeliveryInv ==
  /\ TypeOK /\ KeptWhenFailed
  /\ \A c \in Call : DeliveredOnce(c)
  /\ IsFiniteSet(working)
  /\ \A a \in answers : handled[a.post[1]] > 0

LEMMA WorkingCount ==
  ASSUME DeliveryInv, NEW c
  PROVE  IsFiniteSet(WorkingOn(c)) /\ Cardinality(WorkingOn(c)) \in Nat
BY FS_Subset, FS_CardinalityType DEF DeliveryInv, WorkingOn

LEMMA InitDelivery == Init => DeliveryInv
<1> SUFFICES ASSUME Init PROVE DeliveryInv
  OBVIOUS
<1>1. \A c \in Call : Cardinality(WorkingOn(c)) = 0
  <2>1. \A c \in Call : WorkingOn(c) = {}
    BY DEF Init, WorkingOn
  <2> QED
    BY <2>1, FS_EmptySet
<1> QED
  BY <1>1, FS_EmptySet, AttemptsAssumption, CallAssumption
  DEF Init, DeliveryInv, TypeOK, KeptWhenFailed, DeliveredOnce, Sent

\* Where nothing of a dispatch changes, nothing is to be shown.
LEMMA SameDispatch ==
  ASSUME DeliveryInv, NEW c \in Call, pc'[c] = pc[c],
         attempt'[c] = attempt[c], handled'[c] = handled[c],
         WorkingOn(c)' = WorkingOn(c)
  PROVE  DeliveredOnce(c)'
BY DEF DeliveryInv, DeliveredOnce, Sent

\* A step of the caller that sends nothing.
LEMMA CallerMoves ==
  ASSUME DeliveryInv, NEW c \in Call, NEW from, NEW to,
         Goto(c, from, to), UNCHANGED <<attempt, working, handled, reached>>,
         answers' \subseteq answers, dlq' \subseteq Call,
         to \in {"sleeping", "pushing", "returned", "failed", "lost"},
         from # "idle",
         to = "sleeping" => attempt[c] < MAX_ATTEMPTS,
         to = "returned" => handled[c] > 0,
         KeptWhenFailed'
  PROVE  DeliveryInv'
<1>1. TypeOK'
  BY DEF DeliveryInv, TypeOK, Goto
<1>2. ASSUME NEW d \in Call PROVE DeliveredOnce(d)'
  <2>1. WorkingOn(d)' = WorkingOn(d)
    BY DEF WorkingOn
  <2>2. CASE d # c
    BY <2>1, <2>2, SameDispatch DEF Goto, DeliveryInv, TypeOK
  <2>3. CASE d = c
    <3>1. pc'[c] = to /\ pc[c] = from
      BY DEF Goto, DeliveryInv, TypeOK
    <3>2. Sent(c)' >= Sent(c)
      BY <3>1 DEF Sent, DeliveryInv, TypeOK
    <3> QED
      BY <2>1, <2>3, <3>1, <3>2, WorkingCount
      DEF DeliveryInv, TypeOK, DeliveredOnce, Sent
  <2> QED
    BY <2>2, <2>3
<1> QED
  BY <1>1, <1>2 DEF DeliveryInv

\* The dead letter list stays when a dispatch goes from one step to another
\* that does not fail.
LEMMA KeptStays ==
  ASSUME DeliveryInv, NEW c \in Call, NEW from, NEW to,
         Goto(c, from, to), dlq' = dlq, from \notin {"failed", "lost"},
         to # "failed"
  PROVE  KeptWhenFailed'
BY CallAssumption DEF DeliveryInv, TypeOK, KeptWhenFailed, Goto

LEMMA StepDispatch ==
  ASSUME DeliveryInv, NEW c \in Call, Dispatch(c)
  PROVE  DeliveryInv'
<1>1. TypeOK'
  BY AttemptsAssumption DEF Dispatch, DeliveryInv, TypeOK, Goto
<1>2. KeptWhenFailed'
  BY KeptStays DEF Dispatch
<1>3. ASSUME NEW d \in Call PROVE DeliveredOnce(d)'
  <2>1. WorkingOn(d)' = WorkingOn(d)
    BY DEF WorkingOn, Dispatch
  <2>2. CASE d # c
    BY <2>1, <2>2, SameDispatch DEF Dispatch, Goto, DeliveryInv, TypeOK
  <2>3. CASE d = c
    BY <2>1, <2>3, WorkingCount
    DEF Dispatch, Goto, DeliveryInv, TypeOK, DeliveredOnce, Sent
  <2> QED
    BY <2>2, <2>3
<1> QED
  BY <1>1, <1>2, <1>3 DEF DeliveryInv, Dispatch

LEMMA StepSend ==
  ASSUME DeliveryInv, NEW c \in Call, Send(c)
  PROVE  DeliveryInv'
<1> DEFINE p == <<c, attempt[c]>>
<1>0. p \in Post /\ attempt[c] >= 1 /\ pc[c] = "posting"
  BY DEF Send, Goto, DeliveryInv, DeliveredOnce, TypeOK, Post
<1>1. TypeOK'
  BY <1>0 DEF Send, DeliveryInv, TypeOK, Goto
<1>2. KeptWhenFailed'
  BY KeptStays DEF Send
<1>3. ASSUME NEW d \in Call PROVE DeliveredOnce(d)'
  <2>2. CASE d # c
    <3>1. WorkingOn(d)' = WorkingOn(d)
      BY <2>2 DEF WorkingOn, Send
    <3> QED
      BY <2>2, <3>1, SameDispatch DEF Send, Goto, DeliveryInv, TypeOK
  <2>3. CASE d = c
    <3>1. WorkingOn(c)' = WorkingOn(c) \cup {p}
      BY DEF WorkingOn, Send
    <3>a. IsFiniteSet(WorkingOn(c)) /\ Cardinality(WorkingOn(c)) \in Nat
      BY WorkingCount
    <3> HIDE DEF p
    <3>2. Cardinality(WorkingOn(c) \cup {p}) <= Cardinality(WorkingOn(c)) + 1
      <4>1. Cardinality(WorkingOn(c) \cup {p})
              = IF p \in WorkingOn(c) THEN Cardinality(WorkingOn(c))
                ELSE Cardinality(WorkingOn(c)) + 1
        BY <3>a, FS_AddElement
      <4> QED
        BY <3>a, <4>1
    <3>3. Cardinality(WorkingOn(c) \cup {p}) \in Nat
      BY <3>a, FS_AddElement, FS_CardinalityType
    <3> QED
      BY <1>0, <2>3, <3>1, <3>2, <3>3, WorkingCount
      DEF Send, Goto, DeliveryInv, TypeOK, DeliveredOnce, Sent
  <2> QED
    BY <2>2, <2>3
<1>4. IsFiniteSet(working')
  BY FS_AddElement DEF Send, DeliveryInv
<1> QED
  BY <1>1, <1>2, <1>3, <1>4 DEF DeliveryInv, Send

LEMMA StepRetry ==
  ASSUME DeliveryInv, NEW c \in Call, Retry(c)
  PROVE  DeliveryInv'
<1>0. pc[c] = "sleeping" /\ attempt[c] \in 1 .. MAX_ATTEMPTS - 1
  BY AttemptsAssumption
  DEF Retry, Goto, DeliveryInv, DeliveredOnce, TypeOK
<1>1. TypeOK'
  BY <1>0, AttemptsAssumption DEF Retry, DeliveryInv, TypeOK, Goto
<1>2. KeptWhenFailed'
  BY KeptStays DEF Retry
<1>3. ASSUME NEW d \in Call PROVE DeliveredOnce(d)'
  <2>1. WorkingOn(d)' = WorkingOn(d)
    BY DEF WorkingOn, Retry
  <2>2. CASE d # c
    BY <2>1, <2>2, SameDispatch DEF Retry, Goto, DeliveryInv, TypeOK
  <2>3. CASE d = c
    BY <1>0, <2>1, <2>3, WorkingCount
    DEF Retry, Goto, DeliveryInv, TypeOK, DeliveredOnce, Sent
  <2> QED
    BY <2>2, <2>3
<1> QED
  BY <1>1, <1>2, <1>3 DEF DeliveryInv, Retry

LEMMA StepAttemptFails ==
  ASSUME DeliveryInv, NEW c \in Call, NEW from \in {"posting", "waiting"},
         AttemptFails(c, from), answers' \subseteq answers
  PROVE  DeliveryInv'
<1> DEFINE to == IF attempt[c] < MAX_ATTEMPTS THEN "sleeping" ELSE "pushing"
<1>1. Goto(c, from, to) /\ to \in {"sleeping", "pushing"}
  BY DEF AttemptFails
<1>2. to = "sleeping" => attempt[c] < MAX_ATTEMPTS
  OBVIOUS
<1> HIDE DEF to
<1>3. KeptWhenFailed'
  BY <1>1, KeptStays DEF AttemptFails
<1> QED
  BY <1>1, <1>2, <1>3, CallerMoves DEF AttemptFails, DeliveryInv, TypeOK

LEMMA StepReturn ==
  ASSUME DeliveryInv, NEW c \in Call, Return(c)
  PROVE  DeliveryInv'
<1>1. handled[c] > 0
  BY DEF Return, Answered, DeliveryInv
<1>2. KeptWhenFailed'
  BY KeptStays DEF Return
<1> QED
  BY <1>1, <1>2, CallerMoves DEF Return, Answered, DeliveryInv, TypeOK

LEMMA StepUnreadable ==
  ASSUME DeliveryInv, NEW c \in Call, Unreadable(c)
  PROVE  DeliveryInv'
<1>1. KeptWhenFailed'
  BY KeptStays DEF Unreadable
<1> QED
  BY <1>1, CallerMoves DEF Unreadable, Answered, DeliveryInv, TypeOK

LEMMA StepPush ==
  ASSUME DeliveryInv, NEW c \in Call, Push(c)
  PROVE  DeliveryInv'
<1>1. KeptWhenFailed'
  BY CallAssumption DEF Push, Goto, DeliveryInv, TypeOK, KeptWhenFailed
<1> QED
  BY <1>1, CallerMoves, CallAssumption DEF Push, DeliveryInv, TypeOK

LEMMA StepPushFails ==
  ASSUME DeliveryInv, NEW c \in Call, PushFails(c)
  PROVE  DeliveryInv'
<1>1. KeptWhenFailed'
  BY CallAssumption DEF PushFails, Goto, DeliveryInv, TypeOK, KeptWhenFailed
<1> QED
  BY <1>1, CallerMoves, CallAssumption DEF PushFails, DeliveryInv, TypeOK

LEMMA StepHandle ==
  ASSUME DeliveryInv, NEW p \in working,
         NEW kind \in {"ok", "http_error", "unreadable"}, Handle(p, kind)
  PROVE  DeliveryInv'
<1>0. p \in Post /\ p[1] \in Call
  BY DEF DeliveryInv, TypeOK, Post
<1>1. TypeOK'
  BY <1>0 DEF Handle, DeliveryInv, TypeOK, Answer
<1>2. KeptWhenFailed'
  BY DEF Handle, DeliveryInv, KeptWhenFailed
<1>3. ASSUME NEW d \in Call PROVE DeliveredOnce(d)'
  <2>2. CASE d # p[1]
    <3>1. WorkingOn(d)' = WorkingOn(d)
      BY <2>2 DEF WorkingOn, Handle
    <3> QED
      BY <1>0, <2>2, <3>1, SameDispatch DEF Handle, DeliveryInv, TypeOK
  <2>3. CASE d = p[1]
    <3>1. WorkingOn(d)' = WorkingOn(d) \ {p} /\ p \in WorkingOn(d)
      BY <2>3 DEF WorkingOn, Handle
    <3>2. Cardinality(WorkingOn(d) \ {p}) = Cardinality(WorkingOn(d)) - 1
      BY <3>1, WorkingCount, FS_RemoveElement
    <3>3. handled'[d] = handled[d] + 1
      BY <1>0, <2>3 DEF Handle, DeliveryInv, TypeOK
    <3> QED
      BY <3>1, <3>2, <3>3, WorkingCount
      DEF Handle, DeliveryInv, TypeOK, DeliveredOnce, Sent
  <2> QED
    BY <2>2, <2>3
<1>4. IsFiniteSet(working')
  BY FS_RemoveElement DEF Handle, DeliveryInv
<1>5. \A a \in answers' : handled'[a.post[1]] > 0
  BY <1>0 DEF Handle, DeliveryInv, TypeOK, Answer, Post
<1> QED
  BY <1>1, <1>2, <1>3, <1>4, <1>5 DEF DeliveryInv

LEMMA StepDrop ==
  ASSUME DeliveryInv, NEW p \in working, Drop(p)
  PROVE  DeliveryInv'
<1>1. TypeOK' /\ KeptWhenFailed'
  BY DEF Drop, DeliveryInv, TypeOK, KeptWhenFailed
<1>3. ASSUME NEW d \in Call PROVE DeliveredOnce(d)'
  <2>1. WorkingOn(d)' \subseteq WorkingOn(d)
    BY DEF WorkingOn, Drop
  <2>2. /\ Cardinality(WorkingOn(d)') \in Nat
        /\ Cardinality(WorkingOn(d)') <= Cardinality(WorkingOn(d))
    BY <2>1, WorkingCount, FS_Subset, FS_CardinalityType
  <2> QED
    BY <2>2, WorkingCount
    DEF Drop, DeliveryInv, TypeOK, DeliveredOnce, Sent
<1>4. IsFiniteSet(working')
  BY FS_RemoveElement DEF Drop, DeliveryInv
<1> QED
  BY <1>1, <1>3, <1>4 DEF DeliveryInv, Drop

LEMMA NextDelivery == DeliveryInv /\ [Next]_vars => DeliveryInv'
<1> SUFFICES ASSUME DeliveryInv, [Next]_vars PROVE DeliveryInv'
  OBVIOUS
<1>1. ASSUME NEW c \in Call, CallerStep(c) PROVE DeliveryInv'
  <2>1. CASE ConnectFails(c) \/ Timeout(c) \/ ErrorStatus(c)
    <3>1. /\ answers' \subseteq answers
          /\ \E from \in {"posting", "waiting"} : AttemptFails(c, from)
      BY <2>1 DEF ConnectFails, Timeout, ErrorStatus, Answered
    <3> QED
      BY <3>1, StepAttemptFails
  <2> QED
    BY <1>1, <2>1, StepSend, StepReturn, StepUnreadable, StepRetry, StepPush,
       StepPushFails
    DEF CallerStep
<1>2. CASE UNCHANGED vars
  BY <1>2
  DEF vars, DeliveryInv, TypeOK, KeptWhenFailed, DeliveredOnce, Sent,
      WorkingOn
<1> QED
  BY <1>1, <1>2, StepDispatch, StepHandle, StepDrop DEF Next

\* The inductive invariant of the delivery.
LEMMA Invariant == Spec => []DeliveryInv
BY InitDelivery, NextDelivery, PTL DEF Spec

\* Attempts, POSTs and answers keep their types for any number of dispatches
\* and attempts: no POST is beyond MAX_ATTEMPTS (_post_with_retry).
THEOREM TypeCorrect == Spec => []TypeOK
BY Invariant, PTL DEF DeliveryInv

\* The work of a dispatch is done at most once per attempt, and was done
\* when dispatch_task returns (_post_with_retry).
THEOREM DeliveredAtLeastOnce == Spec => []DoneWhenReturned
<1>1. DeliveryInv => DoneWhenReturned
  <2> SUFFICES ASSUME DeliveryInv, NEW c \in Call
               PROVE  /\ handled[c] + Cardinality(WorkingOn(c)) <= attempt[c]
                      /\ pc[c] = "returned" => handled[c] > 0
    BY DEF DoneWhenReturned, WorkingOn
  <2> QED
    BY WorkingCount DEF DeliveryInv, DeliveredOnce, Sent, TypeOK
<1> QED
  BY <1>1, Invariant, PTL

\* A request with a pipeline_id is in the dead letter list when its dispatch
\* failed, and only then or when the push raised (dispatch_task).
THEOREM FailedIsKept == Spec => []KeptWhenFailed
BY Invariant, PTL DEF DeliveryInv
=============================================================================
