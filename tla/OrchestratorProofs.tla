-------------------------- MODULE OrchestratorProofs --------------------------
(***************************************************************************)
(* For every number of pipelines, coroutines, slots and scores, every set  *)
(* of tasks, and whatever interleaves or fails: the types; that no         *)
(* pipeline is behind a gate it did not go through; that an agent is asked *)
(* only behind the gate that justifies it; and that a visit is recorded    *)
(* only of a pipeline that was booked.                                     *)
(***************************************************************************)
EXTENDS OrchestratorProps, SequenceTheorems, FiniteSetTheorems, TLAPS

---------------------------------------------------------------------------
(* Handlers are sequences of operations, none of them a write. *)

\* A transition is one operation of a handler.
LEMMA TransitionType ==
  ASSUME NEW p \in Pipeline, NEW s \in Target,
         NEW slot \in Slot \cup {NoSlot}
  PROVE  TransitionWith(p, s, slot) \in Seq(ScriptOp)
<1>1. [op |-> "read", p |-> p, to |-> s, slot |-> slot] \in ReadOp
  BY DEF ReadOp
<1> QED BY <1>1 DEF TransitionWith, ScriptOp

\* A dispatch is one operation of a handler.
LEMMA DispatchType ==
  ASSUME NEW g \in Agent, NEW p \in Pipeline, NEW slot \in Slot \cup {NoSlot},
         NEW owner \in Pipeline \cup {NoPipeline}
  PROVE  DispatchWith(g, p, slot, owner) \in Seq(ScriptOp)
<1>1. [op |-> "post", agent |-> g, p |-> p, slot |-> slot, owner |-> owner]
        \in CallOp
  BY DEF CallOp
<1> QED BY <1>1 DEF DispatchWith, ScriptOp

\* The operations of both, without a slot.
LEMMA PlainTypes ==
  /\ \A p \in Pipeline, s \in Target : Transition(p, s) \in Seq(ScriptOp)
  /\ \A g \in Agent, p \in Pipeline : Dispatch(g, p) \in Seq(ScriptOp)
<1>1. ASSUME NEW p \in Pipeline, NEW s \in Target
      PROVE  Transition(p, s) \in Seq(ScriptOp)
  BY TransitionType DEF Transition
<1>2. ASSUME NEW g \in Agent, NEW p \in Pipeline
      PROVE  Dispatch(g, p) \in Seq(ScriptOp)
  BY DispatchType DEF Dispatch
<1> QED BY <1>1, <1>2

\* Sequences of operations are closed under concatenation.
LEMMA ScriptConcat ==
  \A x, y \in Seq(ScriptOp) : x \o y \in Seq(ScriptOp)
BY ConcatProperties

\* A single row operation is a sequence of operations.
LEMMA RowOpType ==
  ASSUME NEW p \in Pipeline,
         NEW k \in {"create", "insert", "resume", "droplog", "book"}
  PROVE  <<[op |-> k, p |-> p]>> \in Seq(ScriptOp)
<1>1. [op |-> k, p |-> p] \in RowOp
  BY DEF RowOp
<1> QED BY <1>1 DEF ScriptOp

\* The states the handlers name.
LEMMA Targets ==
  {"CLASSIFYING", "DEDUP_CHECK", "VERIFYING", "DROPPED_DUPLICATE",
   "ELIGIBILITY_CHECK", "DROPPED_NOT_VERIFIED", "SCORING",
   "DROPPED_WITHIN_90_DAYS", "URGENT_ESCALATED_TO_PA",
   "IN_PRIORITY_QUEUE", "FINDING_SLOT", "SLOT_HELD", "NO_SLOTS_REQUEUE",
   "PA_PENDING", "PA_APPROVED", "AUTO_APPROVED", "PA_REJECTED",
   "CONFIRMATION_SENT", "RSVP_PENDING", "RSVP_CONFIRMED", "BOOKED",
   "RSVP_TIMEOUT_CANCELLED", "NEXT_IN_QUEUE_INVITED",
   "AGENT_UNREACHABLE"} \subseteq Target
BY DEF Target, State

\* What is left of handle_email_classified after the read.
LEMMA ResumeType ==
  ASSUME NEW p \in Pipeline, NEW s
  PROVE  Resume(p, s) \in Seq(ScriptOp)
<1> DEFINE A == IF s = "EMAIL_RECEIVED" THEN Transition(p, "CLASSIFYING")
                ELSE <<>>
           B == IF s \in {"EMAIL_RECEIVED", "CLASSIFYING"}
                THEN Transition(p, "DEDUP_CHECK") ELSE <<>>
           C == IF s \in {"EMAIL_RECEIVED", "CLASSIFYING", "DEDUP_CHECK"}
                THEN DispatchWith("dedup_guard", p, NoSlot, NoPipeline)
                ELSE <<>>
<1>1. A \in Seq(ScriptOp) /\ B \in Seq(ScriptOp)
  BY PlainTypes, Targets, EmptySeq
<1>2. C \in Seq(ScriptOp)
  BY DispatchType, EmptySeq DEF Agent
<1>3. (A \o B) \o C \in Seq(ScriptOp)
  <2> HIDE DEF A, B, C
  <2> QED BY <1>1, <1>2, ScriptConcat
<1> QED BY <1>3 DEF Resume

\* What is left of handle_rsvp_outcome after get_top_queue.
LEMMA PullNextType ==
  ASSUME NEW i \in Nat \ {0}, NEW p \in Pipeline, NEW owner \in Pipeline
  PROVE  PullNext(i, p, owner) \in Seq(ScriptOp)
<1>1. [op |-> "mark", entry |-> i] \in MarkOp
  BY DEF MarkOp
<1>2. <<[op |-> "mark", entry |-> i]>> \in Seq(ScriptOp)
  BY <1>1 DEF ScriptOp
<1>3. DispatchWith("calendar", p, NoSlot, owner) \in Seq(ScriptOp)
  BY DispatchType DEF Agent
<1>4. /\ Transition(p, "NEXT_IN_QUEUE_INVITED") \in Seq(ScriptOp)
      /\ Transition(p, "FINDING_SLOT") \in Seq(ScriptOp)
  BY PlainTypes, Targets
<1> QED BY <1>2, <1>3, <1>4, ScriptConcat DEF PullNext

\* What transition() awaits after the commit.
LEMMA OnEntryType ==
  ASSUME NEW p \in Pipeline, NEW s \in Target
  PROVE  OnEntry(p, s) \in Seq(ScriptOp)
<1>1. /\ [op |-> "publish", p |-> p, to |-> s] \in EnterOp
      /\ [op |-> "timers", p |-> p, to |-> s] \in EnterOp
  BY DEF EnterOp
<1>2. /\ <<[op |-> "publish", p |-> p, to |-> s]>> \in Seq(ScriptOp)
      /\ <<[op |-> "timers", p |-> p, to |-> s]>> \in Seq(ScriptOp)
      /\ <<>> \in Seq(ScriptOp)
  BY <1>1, EmptySeq DEF ScriptOp
<1> QED BY <1>2, ScriptConcat DEF OnEntry

\* Every handler is a sequence of operations without writes.
LEMMA HandlerType ==
  ASSUME NEW t \in AnyTask
  PROVE  Handler(t) \in Seq(ScriptOp)
<1> USE PlainTypes, Targets, ScriptConcat
<1>1. CASE t \in EmailTask
  <2>1. t.p \in Pipeline /\ t.type \in {"email.classified", "email.dropped"}
    BY <1>1 DEF EmailTask
  <2>2. CASE t.type = "email.classified"
    <3>1. /\ <<[op |-> "create", p |-> t.p]>> \in Seq(ScriptOp)
          /\ <<[op |-> "resume", p |-> t.p]>> \in Seq(ScriptOp)
      BY <2>1, RowOpType
    <3>2. HandleEmailClassified(t) =
            <<[op |-> "create", p |-> t.p]>> \o <<[op |-> "resume", p |-> t.p]>>
      BY DEF HandleEmailClassified
    <3>3. Handler(t) = HandleEmailClassified(t)
      BY <2>2 DEF Handler
    <3> QED BY <3>1, <3>2, <3>3
  <2>3. CASE t.type = "email.dropped"
    <3>1. Handler(t) = HandleEmailDropped(t)
      BY <2>3 DEF Handler
    <3> QED BY <2>1, <3>1, RowOpType DEF HandleEmailDropped
  <2> QED BY <2>1, <2>2, <2>3
<1>2. CASE t \in DedupTask
  <2>1. t.p \in Pipeline /\ t.type = "dedup.result"
    BY <1>2 DEF DedupTask
  <2>2. Handler(t) = HandleDedupResult(t)
    BY <2>1 DEF Handler
  <2> QED BY <2>1, <2>2 DEF HandleDedupResult, Agent
<1>3. CASE t \in VerifiedTask
  <2>1. t.p \in Pipeline /\ t.type = "org.verified"
    BY <1>3 DEF VerifiedTask
  <2>2. Handler(t) = HandleOrgVerified(t)
    BY <2>1 DEF Handler
  <2> QED BY <2>1, <2>2 DEF HandleOrgVerified, Agent
<1>4. CASE t \in EligibleTask
  <2>1. t.p \in Pipeline /\ t.type = "eligibility.result"
    BY <1>4 DEF EligibleTask
  <2>2. Handler(t) = HandleEligibilityResult(t)
    BY <2>1 DEF Handler
  <2> QED BY <2>1, <2>2 DEF HandleEligibilityResult, Agent
<1>5. CASE t \in ScoredTask
  <2>1. t.p \in Pipeline /\ t.type = "org.scored" /\ t.score \in Score
    BY <1>5 DEF ScoredTask
  <2>2. Handler(t) = HandleOrgScored(t)
    BY <2>1 DEF Handler
  <2>3. [op |-> "queue_select", p |-> t.p, score |-> t.score] \in QueueOp
    BY <2>1 DEF QueueOp
  <2>4. <<[op |-> "queue_select", p |-> t.p, score |-> t.score]>>
          \in Seq(ScriptOp)
    BY <2>3 DEF ScriptOp
  <2> QED BY <2>1, <2>2, <2>4 DEF HandleOrgScored, Agent
<1>6. CASE t \in SlotTask
  <2>1. t.p \in Pipeline /\ t.type = "calendar.slot_found" /\ t.slot \in Slot
    BY <1>6 DEF SlotTask
  <2>2. Handler(t) = HandleSlotFound(t)
    BY <2>1 DEF Handler
  <2>3. /\ TransitionWith(t.p, "SLOT_HELD", t.slot) \in Seq(ScriptOp)
        /\ DispatchWith("pa_notification", t.p, t.slot, t.p) \in Seq(ScriptOp)
    BY <2>1, TransitionType, DispatchType DEF Agent
  <2> QED BY <2>1, <2>2, <2>3 DEF HandleSlotFound
<1>7. CASE t \in NoSlotsTask
  <2>1. t.p \in Pipeline /\ t.type = "calendar.no_slots"
    BY <1>7 DEF NoSlotsTask
  <2>2. Handler(t) = HandleNoSlots(t)
    BY <2>1 DEF Handler
  <2> QED BY <2>1, <2>2 DEF HandleNoSlots
<1>8. CASE t \in DecisionTask
  <2>1. t.p \in Pipeline /\ t.type = "pa.decision"
    BY <1>8 DEF DecisionTask
  <2>2. Handler(t) = HandlePaDecision(t)
    BY <2>1 DEF Handler
  <2> QED BY <2>1, <2>2 DEF HandlePaDecision, Agent
<1>9. CASE t \in SentTask
  <2>1. t.p \in Pipeline /\ t.type = "email.sent"
    BY <1>9 DEF SentTask
  <2>2. Handler(t) = HandleEmailSent(t)
    BY <2>1 DEF Handler
  <2> QED BY <2>1, <2>2, EmptySeq DEF HandleEmailSent, Agent
<1>10. CASE t \in RsvpTask
  <2>1. t.p \in Pipeline /\ t.type = "rsvp.outcome"
    BY <1>10 DEF RsvpTask
  <2>2. Handler(t) = HandleRsvpOutcome(t)
    BY <2>1 DEF Handler
  <2>3. [op |-> "top", owner |-> t.p] \in PullOp
    BY <2>1 DEF PullOp
  <2>4. <<[op |-> "top", owner |-> t.p]>> \in Seq(ScriptOp)
    BY <2>3 DEF ScriptOp
  <2>5. <<[op |-> "book", p |-> t.p]>> \in Seq(ScriptOp)
    BY <2>1, RowOpType
  <2> QED BY <2>1, <2>2, <2>4, <2>5 DEF HandleRsvpOutcome
<1> QED BY <1>1, <1>2, <1>3, <1>4, <1>5, <1>6, <1>7, <1>8, <1>9, <1>10
        DEF AnyTask

---------------------------------------------------------------------------
(* Operations by kind. *)

\* The kind of an operation tells its shape.
LEMMA Shapes ==
  ASSUME NEW o \in Op
  PROVE  /\ o.op \in {"create", "insert", "resume", "droplog", "book"}
              => o \in RowOp
         /\ o.op = "read" => o \in ReadOp
         /\ o.op = "write" => o \in WriteOp
         /\ o.op \in {"publish", "timers"} => o \in EnterOp
         /\ o.op = "queue_select" => o \in QueueOp
         /\ o.op = "queue_insert" => o \in InsertOp
         /\ o.op = "queue_update" => o \in EntryOp
         /\ o.op = "top" => o \in PullOp
         /\ o.op = "mark" => o \in MarkOp
         /\ o.op = "appoint" => o \in ApptOp
         /\ o.op \in {"post", "ack"} => o \in CallOp
BY DEF Op, ScriptOp, RowOp, ReadOp, WriteOp, EnterOp, QueueOp, InsertOp,
       EntryOp, PullOp, MarkOp, ApptOp, CallOp

\* A pending operation is one of its kind, and so is what follows it.
LEMMA Pending ==
  ASSUME TodoLogged, NEW w \in Worker, NEW k, At(w, k)
  PROVE  /\ Head(todo[w]) \in LoggedOp
         /\ Head(todo[w]) \in Op
         /\ Head(todo[w]).op = k
         /\ Rest(w) \in Seq(LoggedOp)
<1>1. todo[w] \in Seq(LoggedOp) /\ todo[w] # <<>>
  BY DEF TodoLogged, At
<1>2. LoggedOp \subseteq Op
  BY DEF LoggedOp, Op
<1>3. Head(todo[w]) \in LoggedOp /\ Tail(todo[w]) \in Seq(LoggedOp)
  <2> HIDE DEF LoggedOp
  <2> QED BY <1>1, HeadTailProperties
<1> QED BY <1>2, <1>3 DEF At, Rest

\* Scripts are sequences of logged operations.
LEMMA ScriptsLogged == Seq(ScriptOp) \subseteq Seq(LoggedOp)
<1>1. ScriptOp \subseteq LoggedOp
  BY DEF LoggedOp
<1> QED BY <1>1, SeqMonotonic

\* A coroutine that goes on with logged operations keeps todo logged.
LEMMA GotoLogged ==
  ASSUME TodoLogged, NEW w \in Worker, NEW x \in Seq(LoggedOp), Goto(w, x),
         UNCHANGED audit
  PROVE  TodoLogged'
<1>1. LoggedOp' = LoggedOp
  BY DEF LoggedOp, Logged
<1>2. todo' \in [Worker -> Seq(LoggedOp)]
  <2> HIDE DEF LoggedOp
  <2> QED BY DEF TodoLogged, Goto
<1> QED BY <1>1, <1>2 DEF TodoLogged

\* The same when it goes on with a script, then the rest.
LEMMA GotoScript ==
  ASSUME TodoLogged, NEW w \in Worker, NEW x \in Seq(ScriptOp),
         NEW y \in Seq(LoggedOp), Goto(w, x \o y), UNCHANGED audit
  PROVE  TodoLogged'
<1>1. x \o y \in Seq(LoggedOp)
  BY ScriptsLogged, ConcatProperties
<1> QED BY <1>1, GotoLogged

\* A single scripted operation as a sequence.
LEMMA OneOp == \A o \in ScriptOp : <<o>> \in Seq(ScriptOp)
OBVIOUS

\* The empty sequence, as what an exception leaves.
LEMMA NothingLeft == <<>> \in Seq(LoggedOp) /\ <<>> \in Seq(ScriptOp)
BY EmptySeq

---------------------------------------------------------------------------
(* The gates. *)

\* A legal move passes at most the next gate, and passes it when it moves
\* on; any other move leaves the pipeline behind no more gates.
LEMMA GateMove ==
  ASSUME NEW s \in State \ {"MODEL_FAILURE"},
         NEW t \in VALID_TRANSITIONS(s) \cap Target
  PROVE  /\ Gate(t) \in 0..14 /\ Gate(s) \in 0..14
         /\ \/ Gate(t) <= Gate(s)
            \/ Gate(t) = Gate(s) + 1 /\ t \in GateStates[Gate(t)]
<1>1. s \in Target \cup {"EMAIL_RECEIVED", "DROPPED_NOT_CHARITY",
                         "DROPPED_MISSING_INFO"}
  BY DEF Target
<1> QED BY <1>1 DEF State, Target, VALID_TRANSITIONS, Gate, GateStates

\* A state the tables tell of is one the handlers can ask for.
LEMMA LoggedStates ==
  ASSUME TablesOK, NEW p \in Pipeline, NEW s, Logged(p, s)
  PROVE  s \in Target \cup {"EMAIL_RECEIVED"}
BY DEF TablesOK, Logged

\* Behind every gate of a logged state there is its audit row.
LEMMA LoggedPassed ==
  ASSUME GatesPassed, NEW p \in Pipeline, NEW s, Logged(p, s)
  PROVE  \A j \in 1..Gate(s) : Passed(p, j)
<1>1. CASE s = "EMAIL_RECEIVED"
  <2>1. Gate(s) = 0
    BY <1>1 DEF Gate
  <2> QED BY <2>1
<1>2. CASE s # "EMAIL_RECEIVED"
  <2>1. PICK a \in audit : a.p = p /\ a.to = s
    BY <1>2 DEF Logged
  <2> QED BY <2>1 DEF GatesPassed
<1> QED BY <1>1, <1>2

---------------------------------------------------------------------------
(* The inductive invariant. *)

\* The audit log only matters through its rows: what does not touch it and
\* the rows of pipeline keeps what they say.
LEMMA RowsKept ==
  ASSUME RowsLogged, GatesPassed, UNCHANGED <<row, audit>>
  PROVE  RowsLogged' /\ GatesPassed'
BY DEF RowsLogged, GatesPassed, Logged, Passed, Exists

\* A step of a coroutine that touches no table and goes on with logged
\* operations.
LEMMA GotoKeeps ==
  ASSUME GateInv, NEW w \in Worker, NEW x \in Seq(LoggedOp), Goto(w, x),
         UNCHANGED <<tables, timers, dlq, asked>>
  PROVE  GateInv'
<1>1. TodoLogged'
  BY GotoLogged DEF GateInv, tables
<1>2. TablesOK'
  BY DEF GateInv, TablesOK, tables
<1> QED BY <1>1, <1>2, RowsKept DEF GateInv, tables

\* The invariant holds of the empty tables.
LEMMA InitInv == Init => GateInv
<1> SUFFICES ASSUME Init PROVE GateInv
  OBVIOUS
<1>1. TablesOK
  BY EmptySeq, FS_EmptySet DEF Init, TablesOK
<1>2. TodoLogged
  BY NothingLeft DEF Init, TodoLogged
<1>3. RowsLogged /\ GatesPassed
  BY DEF Init, RowsLogged, GatesPassed, Exists, NoRow
<1> QED BY <1>1, <1>2, <1>3 DEF GateInv

\* A task that arrives brings a script.
LEMMA ReceiveInv ==
  ASSUME GateInv, NEW w \in Worker, NEW t \in Task, Receive(w, t)
  PROVE  GateInv'
<1>1. Handler(t) \in Seq(LoggedOp)
  BY HandlerType, TaskAssumption, ScriptsLogged
<1> QED BY <1>1, GotoKeeps DEF Receive

\* create_pipeline: the new row is in EMAIL_RECEIVED, which needs no log.
LEMMA CreateInv ==
  ASSUME GateInv, NEW w \in Worker,
         LookupEmail(w) \/ InsertPipeline(w) \/ ReadForResume(w)
  PROVE  GateInv'
<1> DEFINE p == Head(todo[w]).p
<1>1. CASE LookupEmail(w)
  <2>1. p \in Pipeline /\ Rest(w) \in Seq(LoggedOp)
    BY <1>1, Pending, Shapes DEF LookupEmail, GateInv, RowOp
  <2>2. <<[op |-> "insert", p |-> p]>> \o Rest(w) \in Seq(LoggedOp)
    BY <2>1, RowOpType, ScriptsLogged, ConcatProperties
  <2> QED BY <1>1, <2>1, <2>2, GotoKeeps DEF LookupEmail
<1>2. CASE InsertPipeline(w)
  <2>1. p \in Pipeline /\ Rest(w) \in Seq(LoggedOp)
    BY <1>2, Pending, Shapes DEF InsertPipeline, GateInv, RowOp
  <2>2. CASE Exists(p)
    BY <1>2, <2>2, NothingLeft, GotoKeeps DEF InsertPipeline, Raise, tables
  <2>3. CASE ~Exists(p)
    <3>1. /\ row' = [row EXCEPT ![p] = [state |-> "EMAIL_RECEIVED",
                                        slot  |-> NoSlot]]
          /\ Goto(w, Rest(w)) /\ UNCHANGED audit
          /\ UNCHANGED <<queue, appts, dropped, timers, dlq, asked>>
      BY <1>2, <2>3 DEF InsertPipeline
    <3>2. TodoLogged'
      BY <2>1, <3>1, GotoLogged DEF GateInv
    <3>3. TablesOK'
      BY <2>1, <3>1 DEF GateInv, TablesOK, Row, State
    <3>4. RowsLogged'
      BY <2>1, <3>1 DEF GateInv, TablesOK, RowsLogged, Exists, Logged
    <3>5. GatesPassed'
      BY <3>1 DEF GateInv, GatesPassed, Passed
    <3> QED BY <3>2, <3>3, <3>4, <3>5 DEF GateInv
  <2> QED BY <2>2, <2>3
<1>3. CASE ReadForResume(w)
  <2>1. p \in Pipeline
    BY <1>3, Pending, Shapes DEF ReadForResume, GateInv, RowOp
  <2>2. Resume(p, row[p].state) \in Seq(LoggedOp)
    BY <2>1, ResumeType, ScriptsLogged
  <2> QED BY <1>3, <2>2, GotoKeeps DEF ReadForResume
<1> QED BY <1>1, <1>2, <1>3

\* The first half of transition(): the state a write is validated against
\* is the state of the row, which is logged.
LEMMA ReadInv ==
  ASSUME GateInv, NEW w \in Worker, ReadState(w)
  PROVE  GateInv'
<1> DEFINE o == Head(todo[w])
           s == row[o.p].state
           write == [op |-> "write", p |-> o.p, from |-> s, to |-> o.to,
                     slot |-> o.slot]
<1>1. o \in ReadOp /\ Rest(w) \in Seq(LoggedOp)
  BY Pending, Shapes DEF ReadState, GateInv
<1>2. CASE Exists(o.p) /\ o.to \in VALID_TRANSITIONS(s)
  <2>1. o.p \in Pipeline /\ o.to \in Target /\ o.slot \in Slot \cup {NoSlot}
    BY <1>1 DEF ReadOp
  <2>2. s \in State /\ Logged(o.p, s)
    BY <1>2, <2>1 DEF GateInv, TablesOK, RowsLogged, Exists, Row, NoRow
  <2>3. write \in WriteOp
    <3> HIDE DEF o, s
    <3> QED BY <1>2, <2>1, <2>2 DEF WriteOp
  <2>4. write \in LoggedOp
    <3> HIDE DEF o, s
    <3> QED BY <2>2, <2>3 DEF LoggedOp
  <2>5. <<write>> \o Rest(w) \in Seq(LoggedOp)
    <3> HIDE DEF write
    <3>1. <<write>> \in Seq(LoggedOp)
      BY <2>4
    <3> QED BY <1>1, <3>1, ConcatProperties
  <2>6. Goto(w, <<write>> \o Rest(w))
    BY <1>2 DEF ReadState
  <2> HIDE DEF write
  <2> QED BY <2>5, <2>6, GotoKeeps DEF ReadState
<1>3. CASE ~(Exists(o.p) /\ o.to \in VALID_TRANSITIONS(s))
  BY <1>3, NothingLeft, GotoKeeps DEF ReadState, Raise
<1> QED BY <1>2, <1>3

\* The second half of transition(), whatever happened since the read: the
\* audit log grows, so that what was logged stays logged, and the new row is
\* at most one gate beyond the state the write was validated against.
LEMMA WriteInv ==
  ASSUME GateInv, NEW w \in Worker, WriteState(w)
  PROVE  GateInv'
<1>1. PICK o : o = Head(todo[w])
  OBVIOUS
<1>2. /\ o \in WriteOp /\ Logged(o.p, o.from)
      /\ Rest(w) \in Seq(LoggedOp)
  <2>1. o \in LoggedOp /\ o.op = "write" /\ Rest(w) \in Seq(LoggedOp)
    BY <1>1, Pending DEF WriteState, GateInv
  <2>2. o \notin ScriptOp \cup InsertOp
    BY <2>1 DEF ScriptOp, InsertOp, RowOp, ReadOp, EnterOp, QueueOp, EntryOp, PullOp,
                MarkOp, ApptOp, CallOp
  <2> QED BY <2>1, <2>2 DEF LoggedOp
<1>3. /\ o.p \in Pipeline /\ o.from \in State /\ o.to \in Target
      /\ o.slot \in Slot \cup {NoSlot} /\ o.to \in VALID_TRANSITIONS(o.from)
  BY <1>2 DEF WriteOp
<1> DEFINE new == [p |-> o.p, from |-> o.to, to |-> o.to]
<1>4. PICK slot \in Slot \cup {NoSlot} :
        row' = [row EXCEPT ![o.p] = [state |-> o.to, slot |-> slot]]
  <2>1. row[o.p] \in Row \cup {NoRow}
    BY <1>3 DEF GateInv, TablesOK
  <2>2. row[o.p].slot \in Slot \cup {NoSlot}
    BY <2>1 DEF Row, NoRow
  <2> QED BY <1>1, <1>3, <2>2 DEF WriteState
<1>5. /\ row'[o.p] = [state |-> o.to, slot |-> slot]
      /\ \A p \in Pipeline \ {o.p} : row'[p] = row[p]
  BY <1>3, <1>4 DEF GateInv, TablesOK
<1>6. /\ audit' = audit \cup {new}
      /\ Goto(w, OnEntry(o.p, o.to) \o Rest(w))
      /\ UNCHANGED <<queue, appts, dropped, timers, dlq, asked>>
  BY <1>1, <1>5 DEF WriteState
<1>7. new \in audit' /\ new.p = o.p /\ new.to = o.to
  BY <1>6
<1> HIDE DEF new
<1>8. TablesOK'
  <2>1. new \in [p : Pipeline, from : State, to : Target]
    BY <1>3 DEF Target, new
  <2>2. [state |-> o.to, slot |-> slot] \in Row
    BY <1>3 DEF Row, Target
  <2> QED BY <1>6, <1>3, <1>4, <2>1, <2>2 DEF GateInv, TablesOK
<1>9. \A p \in Pipeline : \A s : Logged(p, s) => Logged(p, s)'
  BY <1>6 DEF Logged
<1>10. TodoLogged'
  <2>1. LoggedOp \subseteq LoggedOp'
    <3>1. \A x \in WriteOp : x.p \in Pipeline
      BY DEF WriteOp
    <3> QED BY <1>9, <3>1 DEF LoggedOp
  <2>2. OnEntry(o.p, o.to) \in Seq(LoggedOp)
    BY <1>3, OnEntryType, ScriptsLogged
  <2>3. OnEntry(o.p, o.to) \o Rest(w) \in Seq(LoggedOp)
    BY <1>2, <2>2, ConcatProperties
  <2>4. todo' \in [Worker -> Seq(LoggedOp)]
    BY <1>6, <2>3 DEF Goto, GateInv, TodoLogged
  <2>5. Seq(LoggedOp) \subseteq Seq(LoggedOp')
    BY <2>1, SeqMonotonic
  <2>6. todo' \in [Worker -> Seq(LoggedOp')]
    BY <2>4, <2>5
  <2> QED BY <2>6 DEF TodoLogged
<1>11. RowsLogged'
  <2>1. Logged(o.p, o.to)'
    BY <1>7 DEF Logged
  <2>2. ASSUME NEW p \in Pipeline, p # o.p, Exists(p)'
        PROVE  Logged(p, row[p].state)'
    <3>1. row'[p].state = row[p].state
      BY <1>5, <2>2
    <3>2. Logged(p, row[p].state)
      BY <2>2, <3>1 DEF GateInv, RowsLogged, Exists
    <3> QED BY <1>6, <3>1, <3>2 DEF Logged
  <2> QED BY <1>5, <2>1, <2>2 DEF RowsLogged
<1>12. GatesPassed'
  <2>1. \A p, j : Passed(p, j) => Passed(p, j)'
    BY <1>6 DEF Passed
  <2>2. \A a \in audit : \A j \in 1..Gate(a.to) : Passed(a.p, j)'
    BY <2>1 DEF GateInv, GatesPassed
  <2>3. \A j \in 1..Gate(o.from) : Passed(o.p, j)'
    BY <1>2, <1>3, <2>1, LoggedPassed DEF GateInv
  <2>4. o.from # "MODEL_FAILURE"
    BY <1>2, <1>3, LoggedStates DEF GateInv, Target
  <2>5. /\ Gate(o.to) \in 0..14 /\ Gate(o.from) \in 0..14
        /\ \/ Gate(o.to) <= Gate(o.from)
           \/ Gate(o.to) = Gate(o.from) + 1
                /\ o.to \in GateStates[Gate(o.to)]
    BY <1>3, <2>4, GateMove
  <2>6. o.to \in GateStates[Gate(o.to)] => Passed(o.p, Gate(o.to))'
    BY <1>7 DEF Passed
  <2>7. \A j \in 1..Gate(o.to) : Passed(o.p, j)'
    <3> SUFFICES ASSUME NEW j \in 1..Gate(o.to) PROVE Passed(o.p, j)'
      OBVIOUS
    <3>1. CASE Gate(o.to) <= Gate(o.from)
      BY <2>3, <2>5, <3>1
    <3>2. CASE Gate(o.to) = Gate(o.from) + 1
                 /\ o.to \in GateStates[Gate(o.to)]
      <4>1. j \in 1..Gate(o.from) \/ j = Gate(o.to)
        BY <2>5, <3>2
      <4> QED BY <2>3, <2>6, <3>2, <4>1
    <3> QED BY <2>5, <3>1, <3>2
  <2> QED BY <1>6, <1>7, <2>2, <2>7 DEF GatesPassed
<1> QED BY <1>8, <1>10, <1>11, <1>12 DEF GateInv

\* A step of a coroutine that leaves rows and audit log alone and goes on
\* with what it has left.
LEMMA RestKeeps ==
  ASSUME GateInv, NEW w \in Worker, Rest(w) \in Seq(LoggedOp),
         Goto(w, Rest(w)), UNCHANGED <<row, audit>>, TablesOK'
  PROVE  GateInv'
<1>1. TodoLogged'
  BY GotoLogged DEF GateInv
<1> QED BY <1>1, RowsKept DEF GateInv

\* After the commit: the publication and the timer keys.
LEMMA EnterInv ==
  ASSUME GateInv, NEW w \in Worker, Publish(w) \/ HandleTimers(w)
  PROVE  GateInv'
<1> DEFINE o == Head(todo[w])
<1>1. CASE Publish(w)
  BY <1>1, Pending, GotoKeeps DEF Publish, GateInv
<1>2. CASE HandleTimers(w)
  <2>1. /\ o.p \in Pipeline
        /\ Rest(w) \in Seq(LoggedOp)
    BY <1>2, Pending, Shapes DEF HandleTimers, GateInv, EnterOp
  <2>2. TimersSet(o.to) \subseteq TimerKind
    BY DEF TimersSet, TimerKind
  <2>3. TablesOK'
    <3>1. timers' \subseteq TimerKind \X Pipeline
      <4> HIDE DEF o
      <4>1. timers' = (timers \cup (TimersSet(o.to) \X {o.p}))
                        \ (TimersCancelled(o.to) \X {o.p})
        BY <1>2 DEF HandleTimers, o
      <4> QED BY <2>1, <2>2, <4>1 DEF GateInv, TablesOK
    <3> QED BY <1>2, <3>1 DEF HandleTimers, tables, GateInv, TablesOK
  <2> QED BY <1>2, <2>1, <2>3, RestKeeps DEF HandleTimers, tables
<1> QED BY <1>1, <1>2

\* A row of the queue can be replaced by another.
LEMMA EntryReplaced ==
  ASSUME NEW q \in Seq(Entry), NEW i,
         NEW e, i \in DOMAIN q => e \in Entry
  PROVE  [q EXCEPT ![i] = e] \in Seq(Entry)
<1>1. CASE i \in DOMAIN q
  BY <1>1, ExceptSeq
<1>2. CASE i \notin DOMAIN q
  <2>1. [q EXCEPT ![i] = e] = q
    BY <1>2
  <2> QED BY <2>1
<1> QED BY <1>1, <1>2

\* db_queue_upsert.
LEMMA UpsertInv ==
  ASSUME GateInv, NEW w \in Worker,
         QueueSelect(w) \/ QueueInsert(w) \/ QueueUpdate(w)
  PROVE  GateInv'
<1> DEFINE o == Head(todo[w])
           insert == [op |-> "queue_insert", p |-> o.p, score |-> o.score]
           update(i) == [op |-> "queue_update", entry |-> i,
                         score |-> o.score]
<1>1. CASE QueueSelect(w)
  <2>1. o \in QueueOp /\ Rest(w) \in Seq(LoggedOp)
    BY <1>1, Pending, Shapes DEF QueueSelect, GateInv
  <2>2. <<insert>> \in Seq(LoggedOp)
    <3>1. insert \in InsertOp
      BY <2>1 DEF QueueOp, InsertOp
    <3> HIDE DEF insert
    <3>2. insert \in LoggedOp
      BY <3>1 DEF LoggedOp
    <3> QED BY <3>2
  <2>3. \A i \in Waiting : <<update(i)>> \in Seq(ScriptOp)
    <3> SUFFICES ASSUME NEW i \in Waiting PROVE <<update(i)>> \in Seq(ScriptOp)
      OBVIOUS
    <3>1. i \in Nat \ {0}
      BY DEF Waiting, GateInv, TablesOK
    <3>2. update(i) \in EntryOp
      BY <2>1, <3>1 DEF QueueOp, EntryOp
    <3> HIDE DEF update
    <3> QED BY <3>2 DEF ScriptOp
  <2>4. \A x \in Seq(ScriptOp) \cup {<<insert>>} : x \o Rest(w) \in Seq(LoggedOp)
    BY <2>1, <2>2, ScriptsLogged, ConcatProperties
  <2>5. \/ Goto(w, <<insert>> \o Rest(w))
        \/ \E i \in Waiting : Goto(w, <<update(i)>> \o Rest(w))
    BY <1>1 DEF QueueSelect
  <2> HIDE DEF insert, update
  <2> QED BY <1>1, <2>2, <2>3, <2>4, <2>5, GotoKeeps DEF QueueSelect
<1>2. CASE QueueInsert(w)
  <2>1. o \in InsertOp /\ Rest(w) \in Seq(LoggedOp)
    BY <1>2, Pending, Shapes DEF QueueInsert, GateInv
  <2>2. [p |-> o.p, score |-> o.score, status |-> "waiting"] \in Entry
    BY <2>1 DEF InsertOp, Entry
  <2>3. queue' \in Seq(Entry)
    BY <1>2, <2>2, AppendProperties DEF QueueInsert, GateInv, TablesOK
  <2> QED BY <1>2, <2>1, <2>3, RestKeeps DEF QueueInsert, GateInv, TablesOK
<1>3. CASE QueueUpdate(w)
  <2>1. o \in EntryOp /\ Rest(w) \in Seq(LoggedOp)
    BY <1>3, Pending, Shapes DEF QueueUpdate, GateInv
  <2>2. o.entry \in DOMAIN queue =>
          [queue[o.entry] EXCEPT !.score = o.score] \in Entry
    <3> SUFFICES ASSUME o.entry \in DOMAIN queue
                 PROVE  [queue[o.entry] EXCEPT !.score = o.score] \in Entry
      OBVIOUS
    <3>1. queue[o.entry] \in Entry
      BY ElementOfSeq DEF GateInv, TablesOK
    <3>2. o.score \in Score
      BY <2>1 DEF EntryOp
    <3> QED BY <3>1, <3>2 DEF Entry
  <2>3. queue' \in Seq(Entry)
    BY <1>3, <2>2, EntryReplaced DEF QueueUpdate, GateInv, TablesOK
  <2> QED BY <1>3, <2>1, <2>3, RestKeeps DEF QueueUpdate, GateInv, TablesOK
<1> QED BY <1>1, <1>2, <1>3

\* get_top_queue and mark_queue_invited.
LEMMA PullInv ==
  ASSUME GateInv, NEW w \in Worker, GetTopQueue(w) \/ MarkInvited(w)
  PROVE  GateInv'
<1> DEFINE o == Head(todo[w])
<1>1. CASE GetTopQueue(w)
  <2>1. o.owner \in Pipeline /\ Rest(w) \in Seq(LoggedOp)
    BY <1>1, Pending, Shapes DEF GetTopQueue, GateInv, PullOp
  <2>2. \A i \in Waiting :
          PullNext(i, queue[i].p, o.owner) \o Rest(w) \in Seq(LoggedOp)
    <3> SUFFICES ASSUME NEW i \in Waiting
                 PROVE  PullNext(i, queue[i].p, o.owner) \o Rest(w)
                          \in Seq(LoggedOp)
      OBVIOUS
    <3>1. i \in Nat \ {0} /\ queue[i] \in Entry
      BY ElementOfSeq DEF Waiting, GateInv, TablesOK
    <3>2. PullNext(i, queue[i].p, o.owner) \in Seq(ScriptOp)
      BY <2>1, <3>1, PullNextType DEF Entry
    <3> QED BY <2>1, <3>2, ScriptsLogged, ConcatProperties
  <2>3. \/ Goto(w, Rest(w))
        \/ \E i \in Waiting :
             Goto(w, PullNext(i, queue[i].p, o.owner) \o Rest(w))
    BY <1>1 DEF GetTopQueue
  <2> QED BY <1>1, <2>1, <2>2, <2>3, GotoKeeps DEF GetTopQueue
<1>2. CASE MarkInvited(w)
  <2>1. Rest(w) \in Seq(LoggedOp)
    BY <1>2, Pending DEF MarkInvited, GateInv
  <2>2. o.entry \in DOMAIN queue =>
          [queue[o.entry] EXCEPT !.status = "invited"] \in Entry
    <3> SUFFICES ASSUME o.entry \in DOMAIN queue
                 PROVE  [queue[o.entry] EXCEPT !.status = "invited"] \in Entry
      OBVIOUS
    <3>1. queue[o.entry] \in Entry
      BY ElementOfSeq DEF GateInv, TablesOK
    <3> QED BY <3>1 DEF Entry
  <2>3. queue' \in Seq(Entry)
    BY <1>2, <2>2, EntryReplaced DEF MarkInvited, GateInv, TablesOK
  <2> QED BY <1>2, <2>1, <2>3, RestKeeps DEF MarkInvited, GateInv, TablesOK
<1> QED BY <1>1, <1>2

\* The appointment and the dropped e-mails.  The id of an appointment is
\* the next of a sequence, so its type needs the table to be finite.
LEMMA RecordInv ==
  ASSUME GateInv, NEW w \in Worker,
         ReadBooked(w) \/ WriteAppointment(w) \/ LogDrop(w)
  PROVE  GateInv'
<1> DEFINE o == Head(todo[w])
<1>1. CASE ReadBooked(w)
  <2>1. o.p \in Pipeline /\ Rest(w) \in Seq(LoggedOp)
    BY <1>1, Pending, Shapes DEF ReadBooked, GateInv, RowOp
  <2>2. row[o.p].slot \in Slot \cup {NoSlot}
    <3>1. row[o.p] \in Row \cup {NoRow}
      BY <2>1 DEF GateInv, TablesOK
    <3> QED BY <3>1 DEF Row, NoRow
  <2> DEFINE appoint == [op |-> "appoint", p |-> o.p, slot |-> row[o.p].slot]
  <2>3. appoint \in ApptOp
    <3> HIDE DEF o
    <3> QED BY <2>1, <2>2 DEF ApptOp
  <2>4. \/ Goto(w, <<appoint>> \o Rest(w))
        \/ Goto(w, Rest(w))
    BY <1>1 DEF ReadBooked
  <2> HIDE DEF appoint
  <2>5. <<appoint>> \in Seq(ScriptOp)
    BY <2>3 DEF ScriptOp
  <2>6. <<appoint>> \o Rest(w) \in Seq(LoggedOp)
    BY <2>1, <2>5, ScriptsLogged, ConcatProperties
  <2> QED BY <1>1, <2>1, <2>4, <2>6, GotoKeeps DEF ReadBooked
<1>2. CASE WriteAppointment(w)
  <2>1. o \in ApptOp /\ Rest(w) \in Seq(LoggedOp)
    BY <1>2, Pending, Shapes DEF WriteAppointment, GateInv
  <2>2. [id |-> Cardinality(appts) + 1, p |-> o.p, slot |-> o.slot]
          \in Appointment
    BY <2>1, FS_CardinalityType DEF ApptOp, Appointment, GateInv, TablesOK
  <2>3. TablesOK'
    BY <1>2, <2>2, FS_AddElement DEF WriteAppointment, GateInv, TablesOK
  <2> QED BY <1>2, <2>1, <2>3, RestKeeps DEF WriteAppointment
<1>3. CASE LogDrop(w)
  <2>1. o.p \in Pipeline /\ Rest(w) \in Seq(LoggedOp)
    BY <1>3, Pending, Shapes DEF LogDrop, GateInv, RowOp
  <2>2. TablesOK'
    BY <1>3, <2>1 DEF LogDrop, GateInv, TablesOK
  <2> QED BY <1>3, <2>1, <2>2, RestKeeps DEF LogDrop
<1> QED BY <1>1, <1>2, <1>3

\* A dispatch, its response and its failure.
LEMMA CallInv ==
  ASSUME GateInv, NEW w \in Worker,
         PostReaches(w) \/ PostAcked(w) \/ DispatchFails(w)
  PROVE  GateInv'
<1> DEFINE o == Head(todo[w])
<1>1. o \in CallOp /\ Rest(w) \in Seq(LoggedOp)
  BY Pending, Shapes DEF PostReaches, PostAcked, DispatchFails, GateInv
<1>2. RequestOf(o) \in Request
  <2> HIDE DEF o
  <2> QED BY <1>1 DEF RequestOf, CallOp, Request
<1>3. CASE PostReaches(w)
  <2> DEFINE ack == [o EXCEPT !.op = "ack"]
  <2>1. ack \in CallOp
    <3> HIDE DEF o
    <3> QED BY <1>1 DEF CallOp
  <2>2. /\ asked' = asked \cup {RequestOf(o)}
        /\ Goto(w, <<ack>> \o Rest(w))
        /\ UNCHANGED <<tables, timers, dlq>>
    BY <1>3 DEF PostReaches
  <2> HIDE DEF ack
  <2>3. <<ack>> \in Seq(ScriptOp)
    BY <2>1 DEF ScriptOp
  <2>4. TodoLogged'
    BY <1>1, <2>2, <2>3, GotoScript DEF GateInv, tables
  <2>5. TablesOK'
    BY <1>2, <2>2 DEF tables, GateInv, TablesOK
  <2> QED BY <2>2, <2>4, <2>5, RowsKept DEF tables, GateInv
<1>4. CASE PostAcked(w)
  BY <1>1, <1>4, GotoKeeps DEF PostAcked
<1>5. CASE DispatchFails(w)
  <2>1. PICK x \in Seq(ScriptOp) : Goto(w, x)
    <3>1. o.owner \in Pipeline \cup {NoPipeline}
      BY <1>1 DEF CallOp
    <3>2. CASE o.owner = NoPipeline
      BY <1>5, <3>2, NothingLeft DEF DispatchFails
    <3>3. CASE o.owner # NoPipeline
      BY <1>5, <3>1, <3>3, PlainTypes, Targets DEF DispatchFails
    <3> QED BY <3>2, <3>3
  <2>2. TodoLogged'
    BY <1>5, <2>1, ScriptsLogged, GotoLogged
       DEF DispatchFails, tables, GateInv
  <2>3. dlq' = dlq \cup {RequestOf(o)}
    BY <1>5 DEF DispatchFails
  <2>4. TablesOK'
    BY <1>2, <1>5, <2>3 DEF DispatchFails, tables, GateInv, TablesOK
  <2> QED BY <1>5, <2>2, <2>4, RowsKept DEF DispatchFails, tables, GateInv
<1> QED BY <1>3, <1>4, <1>5

\* Errors, crashes and expiry lose operations and keys, nothing else.
LEMMA FailureInv ==
  ASSUME GateInv,
         Crash \/ ExpireTimer \/ ReportFails \/ \E w \in Worker : CallRaises(w)
  PROVE  GateInv'
<1>1. CASE Crash
  <2>1. TodoLogged'
    BY <1>1, NothingLeft DEF Crash, TodoLogged, LoggedOp, Logged, tables
  <2>2. TablesOK'
    BY <1>1 DEF Crash, tables, GateInv, TablesOK
  <2> QED BY <1>1, <2>1, <2>2, RowsKept DEF Crash, tables, GateInv
<1>2. CASE ExpireTimer
  <2>1. TodoLogged'
    BY <1>2 DEF ExpireTimer, GateInv, TodoLogged, LoggedOp, Logged, tables
  <2>2. TablesOK'
    BY <1>2 DEF ExpireTimer, tables, GateInv, TablesOK
  <2> QED BY <1>2, <2>1, <2>2, RowsKept DEF ExpireTimer, tables, GateInv
<1>3. CASE \E w \in Worker : CallRaises(w)
  BY <1>3, NothingLeft, GotoKeeps DEF CallRaises, Raise
<1>4. CASE ReportFails
  <2>1. TodoLogged'
    BY <1>4
    DEF ReportFails, KeepReport, GateInv, TodoLogged, LoggedOp, Logged, tables
  <2>2. TablesOK'
    BY <1>4 DEF ReportFails, KeepReport, tables, GateInv, TablesOK
  <2> QED BY <1>4, <2>1, <2>2, RowsKept
      DEF ReportFails, KeepReport, tables, GateInv
<1> QED BY <1>1, <1>2, <1>3, <1>4

\* Every step preserves the invariant.
LEMMA StepInv == GateInv /\ [Next]_vars => GateInv'
<1> SUFFICES ASSUME GateInv, [Next]_vars PROVE GateInv'
  OBVIOUS
<1>1. CASE UNCHANGED vars
  <2>1. TablesOK' /\ TodoLogged'
    BY <1>1 DEF vars, GateInv, TablesOK, TodoLogged, LoggedOp, Logged
  <2> QED BY <1>1, <2>1, RowsKept DEF vars, GateInv
<1>2. ASSUME NEW w \in Worker, Step(w) PROVE GateInv'
  BY <1>2, CreateInv, ReadInv, WriteInv, EnterInv, UpsertInv, PullInv,
     RecordInv, CallInv DEF Step
<1>3. ASSUME NEW w \in Worker, NEW t \in Task, Receive(w, t) PROVE GateInv'
  BY <1>3, ReceiveInv
<1> QED BY <1>1, <1>2, <1>3, CallInv, FailureInv DEF Next

---------------------------------------------------------------------------
(* The theorems. *)

\* The invariant holds in every reachable state.
THEOREM Invariant == Spec => []GateInv
BY InitInv, StepInv, PTL DEF Spec

\* The tables, Redis and the pending operations keep their types whatever
\* tasks arrive and whatever fails (the orchestrator's whole state).
THEOREM TypeCorrect == Spec => []TypeOK
<1>1. GateInv => TypeOK
  <2> SUFFICES ASSUME GateInv PROVE TypeOK
    OBVIOUS
  <2>1. LoggedOp \subseteq Op
    BY DEF LoggedOp, Op
  <2>2. todo \in [Worker -> Seq(Op)]
    <3>1. Seq(LoggedOp) \subseteq Seq(Op)
      BY <2>1, SeqMonotonic
    <3> QED BY <3>1 DEF GateInv, TodoLogged
  <2>3. audit \subseteq AuditRow
    BY DEF GateInv, TablesOK, AuditRow, Target
  <2> QED BY <2>2, <2>3 DEF GateInv, TablesOK, TypeOK
<1> QED BY <1>1, Invariant, PTL

\* No pipeline is ever behind a gate it did not go through, however many
\* handlers interleave inside transition() and whichever of them fail.
THEOREM GatesAlwaysPassed == Spec => []GatesPassed
<1>1. GateInv => GatesPassed
  BY DEF GateInv
<1> QED BY <1>1, Invariant, PTL

---------------------------------------------------------------------------
(* Sequences of operations, one by one. *)

\* The indices of what is left after the first operation.
LEMMA TailParts ==
  ASSUME NEW ops \in Seq(Op), ops # <<>>
  PROVE  /\ Len(ops) \in Nat \ {0} /\ DOMAIN ops = 1..Len(ops)
         /\ Head(ops) = ops[1] /\ ops[1] \in Op
         /\ Tail(ops) \in Seq(Op)
         /\ Len(Tail(ops)) = Len(ops) - 1
         /\ DOMAIN Tail(ops) = 1..(Len(ops) - 1)
         /\ \A i \in 1..(Len(ops) - 1) : Tail(ops)[i] = ops[i + 1]
         /\ Tail(ops) = <<>> <=> Len(ops) = 1
<1> HIDE DEF Op
<1>1. /\ Len(ops) \in Nat \ {0} /\ DOMAIN ops = 1..Len(ops)
      /\ Head(ops) = ops[1] /\ ops[1] \in Op
      /\ Tail(ops) \in Seq(Op) /\ Len(Tail(ops)) = Len(ops) - 1
      /\ \A i \in 1..Len(Tail(ops)) : Tail(ops)[i] = ops[i + 1]
  BY HeadTailProperties, LenProperties, EmptySeq
<1>2. DOMAIN Tail(ops) = 1..(Len(ops) - 1)
  BY <1>1, LenProperties
<1>3. Tail(ops) = <<>> <=> Len(Tail(ops)) = 0
  BY <1>1, EmptySeq
<1> QED BY <1>1, <1>2, <1>3

\* The indices of a sequence with one more operation in front.
LEMMA ConsParts ==
  ASSUME NEW o \in Op, NEW y \in Seq(Op)
  PROVE  /\ Len(y) \in Nat /\ DOMAIN y = 1..Len(y)
         /\ <<o>> \o y \in Seq(Op) /\ <<o>> \o y # <<>>
         /\ Len(<<o>> \o y) = Len(y) + 1
         /\ DOMAIN (<<o>> \o y) = 1..(Len(y) + 1)
         /\ (<<o>> \o y)[1] = o
         /\ \A i \in 1..Len(y) : (<<o>> \o y)[i + 1] = y[i]
         /\ y = <<>> <=> Len(y) = 0
<1> HIDE DEF Op
<1> DEFINE x == <<o>> \o y
<1>1. <<o>> \in Seq(Op) /\ Len(<<o>>) = 1 /\ <<o>>[1] = o
  OBVIOUS
<1>2. Len(y) \in Nat /\ DOMAIN y = 1..Len(y) /\ (y = <<>> <=> Len(y) = 0)
  BY LenProperties, EmptySeq
<1>3. /\ x \in Seq(Op) /\ Len(x) = 1 + Len(y)
      /\ \A i \in 1..(1 + Len(y)) : x[i] = IF i <= 1 THEN <<o>>[i] ELSE y[i - 1]
  BY <1>1, <1>2, ConcatProperties
<1> HIDE DEF x
<1>4. DOMAIN x = 1..(Len(y) + 1) /\ x[1] = o
  BY <1>1, <1>2, <1>3, LenProperties
<1>5. ASSUME NEW i \in 1..Len(y)
      PROVE  x[i + 1] = y[i]
  <2>1. i + 1 \in 1..(1 + Len(y)) /\ ~(i + 1 <= 1) /\ (i + 1) - 1 = i
    BY <1>2
  <2> QED BY <1>3, <2>1
<1>6. x # <<>>
  BY <1>2, <1>3, EmptySeq
<1> QED BY <1>1, <1>2, <1>3, <1>4, <1>5, <1>6 DEF x

---------------------------------------------------------------------------
(* Sequences of operations in order. *)

\* What a log justifies a longer log justifies.
LEMMA OrderStays ==
  ASSUME NEW log, NEW more, log \subseteq more, NEW ops, InOrder(ops, log)
  PROVE  InOrder(ops, more)
BY DEF InOrder

\* What is left after a first operation whose move, if it is one, was made.
LEMMA OrderedTail ==
  ASSUME NEW log, NEW ops \in Seq(Op), ops # <<>>, InOrder(ops, log),
         \A p, s : Moves(Head(ops), p, s) => <<p, s>> \in log
  PROVE  InOrder(Tail(ops), log)
<1> HIDE DEF Op
<1>1. /\ Len(ops) \in Nat \ {0} /\ DOMAIN ops = 1..Len(ops)
      /\ Tail(ops) \in Seq(Op) /\ Len(Tail(ops)) = Len(ops) - 1
      /\ \A i \in 1..Len(Tail(ops)) : Tail(ops)[i] = ops[i + 1]
      /\ Head(ops) = ops[1]
  BY HeadTailProperties, LenProperties, EmptySeq
<1>2. DOMAIN Tail(ops) = 1..(Len(ops) - 1)
  BY <1>1, LenProperties
<1> SUFFICES ASSUME NEW i \in 1..(Len(ops) - 1)
             PROVE  /\ SlotGiven(ops[i + 1])
                    /\ NeedsMove(ops[i + 1]) =>
                         LET p == ops[i + 1].p
                             s == MoveBefore(ops[i + 1])
                         IN  \/ <<p, s>> \in log
                             \/ \E k \in 1..(i - 1) : Moves(Tail(ops)[k], p, s)
  BY <1>1, <1>2 DEF InOrder
<1>3. i + 1 \in DOMAIN ops
  BY <1>1
<1> DEFINE p == ops[i + 1].p
           s == MoveBefore(ops[i + 1])
<1>4. ASSUME NEW k \in 1..i, Moves(ops[k], p, s)
      PROVE  <<p, s>> \in log \/ \E j \in 1..(i - 1) : Moves(Tail(ops)[j], p, s)
  <2>1. CASE k = 1
    BY <1>1, <1>4, <2>1
  <2>2. CASE k # 1
    <3>1. k - 1 \in 1..(i - 1) /\ Tail(ops)[k - 1] = ops[k]
      BY <1>1, <2>2
    <3> QED BY <1>4, <3>1
  <2> QED BY <2>1, <2>2
<1>5. /\ SlotGiven(ops[i + 1])
      /\ NeedsMove(ops[i + 1]) =>
           <<p, s>> \in log \/ \E k \in 1..i : Moves(ops[k], p, s)
  BY <1>3 DEF InOrder
<1> QED BY <1>4, <1>5

\* Two sequences in order are in order one after the other.
LEMMA OrderedConcat ==
  ASSUME NEW log, NEW x \in Seq(Op), NEW y \in Seq(Op), InOrder(x, log), InOrder(y, log)
  PROVE  InOrder(x \o y, log)
<1> HIDE DEF Op
<1>1. /\ Len(x) \in Nat /\ Len(y) \in Nat
      /\ DOMAIN x = 1..Len(x) /\ DOMAIN y = 1..Len(y)
      /\ DOMAIN (x \o y) = 1..(Len(x) + Len(y))
      /\ \A i \in 1..(Len(x) + Len(y)) :
           (x \o y)[i] = IF i <= Len(x) THEN x[i] ELSE y[i - Len(x)]
  BY ConcatProperties, LenProperties
<1> SUFFICES ASSUME NEW i \in 1..(Len(x) + Len(y))
             PROVE  /\ SlotGiven((x \o y)[i])
                    /\ NeedsMove((x \o y)[i]) =>
                         LET p == (x \o y)[i].p
                             s == MoveBefore((x \o y)[i])
                         IN  \/ <<p, s>> \in log
                             \/ \E k \in 1..(i - 1) : Moves((x \o y)[k], p, s)
  BY <1>1 DEF InOrder
<1> DEFINE o == (x \o y)[i]
<1>2. CASE i <= Len(x)
  <2>1. i \in DOMAIN x /\ o = x[i]
    BY <1>1, <1>2
  <2>2. \A k \in 1..(i - 1) : (x \o y)[k] = x[k]
    BY <1>1, <1>2
  <2> QED BY <2>1, <2>2 DEF InOrder
<1>3. CASE i > Len(x)
  <2> DEFINE j == i - Len(x)
  <2>1. j \in DOMAIN y /\ o = y[j]
    BY <1>1, <1>3
  <2>2. \A k \in 1..(j - 1) :
          k + Len(x) \in 1..(i - 1) /\ (x \o y)[k + Len(x)] = y[k]
    BY <1>1, <1>3
  <2>3. /\ SlotGiven(y[j])
        /\ NeedsMove(y[j]) =>
             \/ <<y[j].p, MoveBefore(y[j])>> \in log
             \/ \E k \in 1..(j - 1) : Moves(y[k], y[j].p, MoveBefore(y[j]))
    BY <2>1 DEF InOrder
  <2> QED BY <2>1, <2>2, <2>3
<1>4. i <= Len(x) \/ i > Len(x)
  BY <1>1
<1> QED BY <1>2, <1>3, <1>4

\* A single operation, justified by the log if it needs to be.
LEMMA OrderedOne ==
  ASSUME NEW log, NEW o \in Op, SlotGiven(o),
         NeedsMove(o) => <<o.p, MoveBefore(o)>> \in log
  PROVE  <<o>> \in Seq(Op) /\ InOrder(<<o>>, log)
<1> HIDE DEF Op
<1>1. DOMAIN <<o>> = {1} /\ <<o>>[1] = o
  OBVIOUS
<1> QED BY <1>1 DEF InOrder

\* A call right after the move that justifies it.
LEMMA OrderedCall ==
  ASSUME NEW log, NEW x \in Op, NEW o \in Op, SlotGiven(x), SlotGiven(o),
         ~NeedsMove(x), Moves(x, o.p, MoveBefore(o))
  PROVE  <<x>> \o <<o>> \in Seq(Op) /\ InOrder(<<x>> \o <<o>>, log)
<1> HIDE DEF Op
<1> DEFINE ops == <<x>> \o <<o>>
<1>1. /\ <<x>> \in Seq(Op) /\ Len(<<x>>) = 1 /\ <<x>>[1] = x
      /\ <<o>> \in Seq(Op) /\ Len(<<o>>) = 1 /\ <<o>>[1] = o
  OBVIOUS
<1>2. ops \in Seq(Op) /\ Len(ops) = 2 /\ ops[1] = x /\ ops[2] = o
  BY <1>1, ConcatProperties
<1>3. DOMAIN ops = 1..2
  BY <1>2, LenProperties
<1> HIDE DEF ops
<1>4. InOrder(ops, log)
  BY <1>2, <1>3 DEF InOrder
<1> QED BY <1>2, <1>4 DEF ops

\* A first operation replaced by one that makes the same moves, if any.
LEMMA OrderedReplace ==
  ASSUME NEW log, NEW ops \in Seq(Op), ops # <<>>, InOrder(ops, log), NEW o \in Op,
         SlotGiven(o), NeedsMove(o) => <<o.p, MoveBefore(o)>> \in log,
         \A p, s : Moves(Head(ops), p, s) => Moves(o, p, s) \/ <<p, s>> \in log
  PROVE  InOrder(<<o>> \o Tail(ops), log)
<1> HIDE DEF Op
<1> DEFINE new == <<o>> \o Tail(ops)
<1>1. /\ Len(ops) \in Nat \ {0} /\ DOMAIN ops = 1..Len(ops)
      /\ Tail(ops) \in Seq(Op) /\ Len(Tail(ops)) = Len(ops) - 1
      /\ \A i \in 1..Len(Tail(ops)) : Tail(ops)[i] = ops[i + 1]
      /\ Head(ops) = ops[1]
      /\ <<o>> \in Seq(Op) /\ Len(<<o>>) = 1 /\ <<o>>[1] = o
  BY HeadTailProperties, LenProperties, EmptySeq
<1>2. /\ DOMAIN new = 1..Len(ops)
      /\ new[1] = o
      /\ \A i \in 2..Len(ops) : new[i] = ops[i]
  <2>1. /\ new \in Seq(Op) /\ Len(new) = Len(ops)
        /\ \A i \in 1..(1 + Len(Tail(ops))) :
             new[i] = IF i <= 1 THEN <<o>>[i] ELSE Tail(ops)[i - 1]
    BY <1>1, ConcatProperties
  <2> QED BY <1>1, <2>1, LenProperties
<1> HIDE DEF new
<1> SUFFICES ASSUME NEW i \in 1..Len(ops)
             PROVE  /\ SlotGiven(new[i])
                    /\ NeedsMove(new[i]) =>
                         \/ <<new[i].p, MoveBefore(new[i])>> \in log
                         \/ \E k \in 1..(i - 1) :
                              Moves(new[k], new[i].p, MoveBefore(new[i]))
  BY <1>2 DEF InOrder, new
<1>3. CASE i = 1
  BY <1>2, <1>3
<1>4. CASE i # 1
  <2> DEFINE p == ops[i].p
             s == MoveBefore(ops[i])
  <2>1. i \in DOMAIN ops /\ new[i] = ops[i]
    BY <1>1, <1>2, <1>4
  <2>2. ASSUME NEW k \in 1..(i - 1), Moves(ops[k], p, s)
        PROVE  <<p, s>> \in log \/ \E j \in 1..(i - 1) : Moves(new[j], p, s)
    <3>1. CASE k = 1
      <4>1. Moves(Head(ops), p, s)
        BY <1>1, <2>2, <3>1
      <4>2. 1 \in 1..(i - 1)
        BY <1>1, <1>4
      <4> QED BY <1>2, <4>1, <4>2
    <3>2. CASE k # 1
      <4>1. new[k] = ops[k]
        BY <1>1, <1>2, <3>2
      <4> QED BY <2>2, <4>1
    <3> QED BY <3>1, <3>2
  <2>3. /\ SlotGiven(ops[i])
        /\ NeedsMove(ops[i]) =>
             <<p, s>> \in log \/ \E k \in 1..(i - 1) : Moves(ops[k], p, s)
    BY <2>1 DEF InOrder
  <2> QED BY <2>1, <2>2, <2>3
<1>5. i = 1 \/ i # 1
  OBVIOUS
<1> QED BY <1>3, <1>4, <1>5

---------------------------------------------------------------------------
(* The handlers ask an agent right after the move that justifies it. *)

\* Sequences of operations that are in order.
Ordered(log) == {ops \in Seq(Op) : InOrder(ops, log)}

\* They are closed under concatenation, and an exception leaves one.
LEMMA OrderedClosed ==
  ASSUME NEW log
  PROVE  /\ <<>> \in Ordered(log)
         /\ \A x, y \in Ordered(log) : x \o y \in Ordered(log)
<1>1. <<>> \in Seq(Op) /\ InOrder(<<>>, log)
  BY EmptySeq DEF InOrder
<1>2. \A x, y \in Ordered(log) : x \o y \in Seq(Op) /\ InOrder(x \o y, log)
  BY OrderedConcat, ConcatProperties DEF Ordered
<1> QED BY <1>1, <1>2 DEF Ordered

\* An operation that needs no move is in order by itself.
LEMMA OrderedPlain ==
  ASSUME NEW log, NEW o \in Op, ~NeedsMove(o), SlotGiven(o)
  PROVE  <<o>> \in Ordered(log)
BY OrderedOne DEF Ordered

\* A transition; to SLOT_HELD with a slot.
LEMMA OrderedTransition ==
  ASSUME NEW log, NEW p \in Pipeline, NEW s \in Target,
         NEW slot \in Slot \cup {NoSlot}, s = "SLOT_HELD" => slot # NoSlot
  PROVE  TransitionWith(p, s, slot) \in Ordered(log)
<1> DEFINE o == [op |-> "read", p |-> p, to |-> s, slot |-> slot]
<1>1. o \in Op
  BY DEF ReadOp, ScriptOp, Op
<1>2. ~NeedsMove(o) /\ SlotGiven(o)
  BY DEF NeedsMove, SlotGiven
<1> HIDE DEF o
<1>3. <<o>> \in Ordered(log)
  BY <1>1, <1>2, OrderedPlain
<1> QED BY <1>3 DEF TransitionWith, o

\* So is one without a slot.
LEMMA OrderedMove ==
  ASSUME NEW log, NEW p \in Pipeline, NEW s \in Target \ {"SLOT_HELD"}
  PROVE  Transition(p, s) \in Ordered(log)
BY OrderedTransition DEF Transition

\* A transition and the call it justifies.
LEMMA OrderedAsk ==
  ASSUME NEW log, NEW p \in Pipeline, NEW s \in Target \ {"SLOT_HELD"},
         NEW g \in Agent, NEW slot \in Slot \cup {NoSlot},
         NEW owner \in Pipeline \cup {NoPipeline},
         AskedIn([op |-> "post", agent |-> g, p |-> p, slot |-> slot,
                  owner |-> owner]) = s
  PROVE  Transition(p, s) \o DispatchWith(g, p, slot, owner) \in Ordered(log)
<1> DEFINE x == [op |-> "read", p |-> p, to |-> s, slot |-> NoSlot]
           o == [op |-> "post", agent |-> g, p |-> p, slot |-> slot,
                 owner |-> owner]
<1>1. x \in Op /\ o \in Op
  BY DEF ReadOp, CallOp, ScriptOp, Op
<1>2. /\ ~NeedsMove(x) /\ SlotGiven(x)
      /\ SlotGiven(o) /\ Moves(x, o.p, MoveBefore(o))
  BY DEF NeedsMove, SlotGiven, Moves, MoveBefore
<1>3. Transition(p, s) = <<x>> /\ DispatchWith(g, p, slot, owner) = <<o>>
  BY DEF Transition, TransitionWith, DispatchWith
<1> HIDE DEF x, o
<1> QED BY <1>1, <1>2, <1>3, OrderedCall DEF Ordered

\* The calls about the pipeline alone.
LEMMA OrderedAskPlain ==
  ASSUME NEW log, NEW p \in Pipeline, NEW owner \in Pipeline \cup {NoPipeline}
  PROVE  /\ Transition(p, "DEDUP_CHECK")
              \o DispatchWith("dedup_guard", p, NoSlot, owner) \in Ordered(log)
         /\ Transition(p, "VERIFYING")
              \o DispatchWith("charity_verifier", p, NoSlot, owner) \in Ordered(log)
         /\ Transition(p, "ELIGIBILITY_CHECK")
              \o DispatchWith("eligibility", p, NoSlot, owner) \in Ordered(log)
         /\ Transition(p, "SCORING")
              \o DispatchWith("prioritizer", p, NoSlot, owner) \in Ordered(log)
         /\ Transition(p, "FINDING_SLOT")
              \o DispatchWith("calendar", p, NoSlot, owner) \in Ordered(log)
         /\ Transition(p, "URGENT_ESCALATED_TO_PA")
              \o DispatchWith("pa_notification", p, NoSlot, owner) \in Ordered(log)
         /\ Transition(p, "CONFIRMATION_SENT")
              \o DispatchWith("email_composer", p, NoSlot, owner) \in Ordered(log)
         /\ Transition(p, "RSVP_PENDING")
              \o DispatchWith("rsvp_monitor", p, NoSlot, owner) \in Ordered(log)
<1>1. /\ Agent = {"dedup_guard", "charity_verifier", "eligibility",
                  "prioritizer", "calendar", "pa_notification",
                  "email_composer", "rsvp_monitor"}
      /\ {"DEDUP_CHECK", "VERIFYING", "ELIGIBILITY_CHECK", "SCORING",
          "FINDING_SLOT", "URGENT_ESCALATED_TO_PA", "CONFIRMATION_SENT",
          "RSVP_PENDING"} \subseteq Target \ {"SLOT_HELD"}
  BY Targets DEF Agent
<1> DEFINE post(g) == [op |-> "post", agent |-> g, p |-> p, slot |-> NoSlot,
                       owner |-> owner]
<1>2. /\ AskedIn(post("dedup_guard")) = "DEDUP_CHECK"
      /\ AskedIn(post("charity_verifier")) = "VERIFYING"
      /\ AskedIn(post("eligibility")) = "ELIGIBILITY_CHECK"
      /\ AskedIn(post("prioritizer")) = "SCORING"
      /\ AskedIn(post("calendar")) = "FINDING_SLOT"
      /\ AskedIn(post("pa_notification")) = "URGENT_ESCALATED_TO_PA"
      /\ AskedIn(post("email_composer")) = "CONFIRMATION_SENT"
      /\ AskedIn(post("rsvp_monitor")) = "RSVP_PENDING"
  BY DEF AskedIn
<1>3. \A g \in Agent : \A s \in Target \ {"SLOT_HELD"} :
        AskedIn(post(g)) = s =>
          Transition(p, s) \o DispatchWith(g, p, NoSlot, owner) \in Ordered(log)
  BY OrderedAsk
<1> HIDE DEF post
<1> QED BY <1>1, <1>2, <1>3

\* The visit is booked right after the move to BOOKED.
LEMMA OrderedBook ==
  ASSUME NEW log, NEW p \in Pipeline
  PROVE  Transition(p, "BOOKED") \o <<[op |-> "book", p |-> p]>> \in Ordered(log)
<1> DEFINE x == [op |-> "read", p |-> p, to |-> "BOOKED", slot |-> NoSlot]
           o == [op |-> "book", p |-> p]
<1>1. x \in Op /\ o \in Op
  BY Targets DEF ReadOp, RowOp, ScriptOp, Op
<1>2. /\ ~NeedsMove(x) /\ SlotGiven(x)
      /\ SlotGiven(o) /\ Moves(x, o.p, MoveBefore(o))
  BY DEF NeedsMove, SlotGiven, Moves, MoveBefore
<1>3. Transition(p, "BOOKED") = <<x>>
  BY DEF Transition, TransitionWith
<1> HIDE DEF x, o
<1>4. <<x>> \o <<o>> \in Ordered(log)
  BY <1>1, <1>2, OrderedCall DEF Ordered
<1> QED BY <1>3, <1>4 DEF o

\* A move and its call after anything in order.
LEMMA OrderedThen ==
  ASSUME NEW log, NEW x \in Ordered(log), NEW y \in Seq(Op), NEW z \in Seq(Op),
         y \o z \in Ordered(log)
  PROVE  (x \o y) \o z \in Ordered(log)
<1> HIDE DEF Op
<1>1. x \in Seq(Op)
  BY DEF Ordered
<1>2. (x \o y) \o z = x \o (y \o z)
  BY <1>1, ConcatAssociative
<1> QED BY <1>2, OrderedClosed

\* Scripts are sequences of operations.
LEMMA ScriptsAreOps == Seq(ScriptOp) \subseteq Seq(Op)
<1>1. ScriptOp \subseteq Op
  BY DEF Op
<1> HIDE DEF Op, ScriptOp
<1> QED BY <1>1, SeqMonotonic

\* So are the pieces they are made of.
LEMMA PiecesAreOps ==
  /\ \A p \in Pipeline, s \in Target : Transition(p, s) \in Seq(Op)
  /\ \A g \in Agent, p \in Pipeline, slot \in Slot \cup {NoSlot},
        owner \in Pipeline \cup {NoPipeline} :
       DispatchWith(g, p, slot, owner) \in Seq(Op)
<1>1. \A p \in Pipeline, s \in Target : Transition(p, s) \in Seq(Op)
  BY PlainTypes, ScriptsAreOps
<1>2. ASSUME NEW g \in Agent, NEW p \in Pipeline,
             NEW slot \in Slot \cup {NoSlot},
             NEW owner \in Pipeline \cup {NoPipeline}
      PROVE  DispatchWith(g, p, slot, owner) \in Seq(Op)
  BY DispatchType, ScriptsAreOps
<1> QED BY <1>1, <1>2

\* A row operation that books nothing is in order by itself.
LEMMA OrderedRow ==
  ASSUME NEW log, NEW p \in Pipeline, NEW k \in {"create", "insert", "resume", "droplog"}
  PROVE  <<[op |-> k, p |-> p]>> \in Ordered(log)
<1> DEFINE o == [op |-> k, p |-> p]
<1>1. o \in Op /\ ~NeedsMove(o) /\ SlotGiven(o)
  BY DEF RowOp, ScriptOp, Op, NeedsMove, SlotGiven
<1> HIDE DEF o
<1>2. <<o>> \in Ordered(log)
  BY <1>1, OrderedPlain
<1> QED BY <1>2 DEF o

\* Every handler is in order: above all, the composer is asked after the
\* move to CONFIRMATION_SENT and the visit recorded after the one to BOOKED.
LEMMA HandlerOrdered ==
  ASSUME NEW log, NEW t \in AnyTask
  PROVE  Handler(t) \in Ordered(log)
<1> USE PiecesAreOps, OrderedAskPlain, OrderedMove, OrderedClosed, OrderedThen,
        Targets
<1> HIDE DEF Op, Ordered
<1>1. CASE t \in EmailTask
  <2>1. t.p \in Pipeline /\ t.type \in {"email.classified", "email.dropped"}
    BY <1>1 DEF EmailTask
  <2>2. CASE t.type = "email.classified"
    <3>1. /\ <<[op |-> "create", p |-> t.p]>> \in Ordered(log)
          /\ <<[op |-> "resume", p |-> t.p]>> \in Ordered(log)
      BY <2>1, OrderedRow
    <3>2. HandleEmailClassified(t) =
            <<[op |-> "create", p |-> t.p]>> \o <<[op |-> "resume", p |-> t.p]>>
      BY DEF HandleEmailClassified
    <3>3. Handler(t) = HandleEmailClassified(t)
      BY <2>2 DEF Handler
    <3> QED BY <3>1, <3>2, <3>3
  <2>3. CASE t.type = "email.dropped"
    <3>1. Handler(t) = HandleEmailDropped(t)
      BY <2>3 DEF Handler
    <3> QED BY <2>1, <3>1, OrderedRow DEF HandleEmailDropped
  <2> QED BY <2>1, <2>2, <2>3
<1>2. CASE t \in DedupTask
  <2>1. t.p \in Pipeline /\ t.type = "dedup.result"
    BY <1>2 DEF DedupTask
  <2>2. Handler(t) = HandleDedupResult(t)
    BY <2>1 DEF Handler
  <2> QED BY <2>1, <2>2 DEF HandleDedupResult, Dispatch
<1>3. CASE t \in VerifiedTask
  <2>1. t.p \in Pipeline /\ t.type = "org.verified"
    BY <1>3 DEF VerifiedTask
  <2>2. Handler(t) = HandleOrgVerified(t)
    BY <2>1 DEF Handler
  <2> QED BY <2>1, <2>2 DEF HandleOrgVerified, Dispatch
<1>4. CASE t \in EligibleTask
  <2>1. t.p \in Pipeline /\ t.type = "eligibility.result"
    BY <1>4 DEF EligibleTask
  <2>2. Handler(t) = HandleEligibilityResult(t)
    BY <2>1 DEF Handler
  <2> QED BY <2>1, <2>2 DEF HandleEligibilityResult, Dispatch
<1>5. CASE t \in ScoredTask
  <2>1. t.p \in Pipeline /\ t.type = "org.scored" /\ t.score \in Score
    BY <1>5 DEF ScoredTask
  <2>2. Handler(t) = HandleOrgScored(t)
    BY <2>1 DEF Handler
  <2> DEFINE o == [op |-> "queue_select", p |-> t.p, score |-> t.score]
  <2>3. o \in Op /\ ~NeedsMove(o) /\ SlotGiven(o)
    BY <2>1 DEF QueueOp, ScriptOp, Op, NeedsMove, SlotGiven
  <2> HIDE DEF o
  <2>4. <<o>> \o Transition(t.p, "IN_PRIORITY_QUEUE") \in Ordered(log)
    BY <2>1, <2>3, OrderedPlain
  <2>5. (<<o>> \o Transition(t.p, "IN_PRIORITY_QUEUE")
           \o Transition(t.p, "FINDING_SLOT"))
          \o DispatchWith("calendar", t.p, NoSlot, t.p) \in Ordered(log)
    BY <2>1, <2>4 DEF Agent
  <2> QED BY <2>2, <2>5 DEF HandleOrgScored, Dispatch, o
<1>6. CASE t \in SlotTask
  <2>1. t.p \in Pipeline /\ t.type = "calendar.slot_found" /\ t.slot \in Slot
    BY <1>6 DEF SlotTask
  <2>2. Handler(t) = HandleSlotFound(t)
    BY <2>1 DEF Handler
  <2>3. TransitionWith(t.p, "SLOT_HELD", t.slot) \in Ordered(log)
    BY <2>1, OrderedTransition, SlotAssumption
  <2>4. AskedIn([op |-> "post", agent |-> "pa_notification", p |-> t.p,
                 slot |-> t.slot, owner |-> t.p]) = "PA_PENDING"
    BY <2>1, SlotAssumption DEF AskedIn
  <2>5. /\ "pa_notification" \in Agent
        /\ "PA_PENDING" \in Target \ {"SLOT_HELD"}
    BY DEF Agent
  <2>6. Transition(t.p, "PA_PENDING")
          \o DispatchWith("pa_notification", t.p, t.slot, t.p) \in Ordered(log)
    BY <2>1, <2>4, <2>5, OrderedAsk
  <2>7. /\ Transition(t.p, "PA_PENDING") \in Seq(Op)
        /\ DispatchWith("pa_notification", t.p, t.slot, t.p) \in Seq(Op)
    BY <2>1, <2>5
  <2>8. (TransitionWith(t.p, "SLOT_HELD", t.slot)
           \o Transition(t.p, "PA_PENDING"))
          \o DispatchWith("pa_notification", t.p, t.slot, t.p) \in Ordered(log)
    BY <2>3, <2>6, <2>7, OrderedThen
  <2> QED BY <2>2, <2>8 DEF HandleSlotFound
<1>7. CASE t \in NoSlotsTask
  <2>1. t.p \in Pipeline /\ t.type = "calendar.no_slots"
    BY <1>7 DEF NoSlotsTask
  <2>2. Handler(t) = HandleNoSlots(t)
    BY <2>1 DEF Handler
  <2> QED BY <2>1, <2>2 DEF HandleNoSlots
<1>8. CASE t \in DecisionTask
  <2>1. t.p \in Pipeline /\ t.type = "pa.decision"
    BY <1>8 DEF DecisionTask
  <2>2. Handler(t) = HandlePaDecision(t)
    BY <2>1 DEF Handler
  <2> DEFINE first == Transition(t.p, IF t.decision = "AUTO_APPROVED"
                                      THEN "AUTO_APPROVED" ELSE "PA_APPROVED")
  <2>3. first \in Ordered(log) /\ Transition(t.p, "PA_REJECTED") \in Ordered(log)
    BY <2>1
  <2> HIDE DEF first
  <2>4. (first \o Transition(t.p, "CONFIRMATION_SENT"))
          \o DispatchWith("email_composer", t.p, NoSlot, t.p) \in Ordered(log)
    BY <2>1, <2>3 DEF Agent
  <2> QED BY <2>2, <2>3, <2>4 DEF HandlePaDecision, Dispatch, first
<1>9. CASE t \in SentTask
  <2>1. t.p \in Pipeline /\ t.type = "email.sent"
    BY <1>9 DEF SentTask
  <2>2. Handler(t) = HandleEmailSent(t)
    BY <2>1 DEF Handler
  <2> QED BY <2>1, <2>2 DEF HandleEmailSent, Dispatch
<1>10. CASE t \in RsvpTask
  <2>1. t.p \in Pipeline /\ t.type = "rsvp.outcome"
    BY <1>10 DEF RsvpTask
  <2>2. Handler(t) = HandleRsvpOutcome(t)
    BY <2>1 DEF Handler
  <2> DEFINE top == [op |-> "top", owner |-> t.p]
             book == [op |-> "book", p |-> t.p]
  <2>3. top \in Op /\ ~NeedsMove(top) /\ SlotGiven(top) /\ book \in Op
    BY <2>1 DEF PullOp, RowOp, ScriptOp, Op, NeedsMove, SlotGiven
  <2>4. Transition(t.p, "BOOKED") \o <<book>> \in Ordered(log)
    BY <2>1, OrderedBook
  <2> HIDE DEF top, book
  <2>5. <<top>> \in Ordered(log) /\ <<book>> \in Seq(Op)
    BY <2>3, OrderedPlain
  <2>6. (Transition(t.p, "RSVP_CONFIRMED") \o Transition(t.p, "BOOKED"))
          \o <<book>> \in Ordered(log)
    BY <2>1, <2>4, <2>5
  <2>7. Transition(t.p, "RSVP_TIMEOUT_CANCELLED") \o <<top>> \in Ordered(log)
    BY <2>1, <2>5
  <2> QED BY <2>2, <2>6, <2>7 DEF HandleRsvpOutcome, top, book
<1> QED BY <1>1, <1>2, <1>3, <1>4, <1>5, <1>6, <1>7, <1>8, <1>9, <1>10
        DEF AnyTask

\* What is left after get_top_queue asks for the pipeline it invites.
LEMMA PullNextOrdered ==
  ASSUME NEW log, NEW i \in Nat \ {0}, NEW p \in Pipeline, NEW owner \in Pipeline
  PROVE  PullNext(i, p, owner) \in Ordered(log)
<1> DEFINE o == [op |-> "mark", entry |-> i]
<1>1. o \in Op /\ ~NeedsMove(o) /\ SlotGiven(o)
  BY DEF MarkOp, ScriptOp, Op, NeedsMove, SlotGiven
<1> HIDE DEF o, Op, Ordered
<1>2. <<o>> \o Transition(p, "NEXT_IN_QUEUE_INVITED") \in Ordered(log)
  BY <1>1, OrderedPlain, OrderedMove, OrderedClosed, Targets
<1>3. /\ Transition(p, "FINDING_SLOT") \in Seq(Op)
      /\ DispatchWith("calendar", p, NoSlot, owner) \in Seq(Op)
  BY PiecesAreOps, Targets DEF Agent
<1>4. Transition(p, "FINDING_SLOT")
        \o DispatchWith("calendar", p, NoSlot, owner) \in Ordered(log)
  BY OrderedAskPlain
<1>5. (<<o>> \o Transition(p, "NEXT_IN_QUEUE_INVITED")
         \o Transition(p, "FINDING_SLOT"))
        \o DispatchWith("calendar", p, NoSlot, owner) \in Ordered(log)
  BY <1>2, <1>3, <1>4, OrderedThen
<1> QED BY <1>5 DEF PullNext, o

\* A retried e-mail asks the dedup guard only for a row in DEDUP_CHECK, or
\* after the move there.
LEMMA ResumeOrdered ==
  ASSUME NEW log, NEW p \in Pipeline, NEW s,
         s = "DEDUP_CHECK" => <<p, s>> \in log
  PROVE  Resume(p, s) \in Ordered(log)
<1> DEFINE call == DispatchWith("dedup_guard", p, NoSlot, NoPipeline)
           move(u) == Transition(p, u)
<1>1. /\ move("CLASSIFYING") \in Ordered(log)
      /\ move("DEDUP_CHECK") \in Ordered(log)
      /\ move("DEDUP_CHECK") \o call \in Ordered(log)
  BY OrderedMove, OrderedAskPlain, Targets
<1>2. call \in Seq(Op)
  BY PiecesAreOps DEF Agent
<1>3. s = "DEDUP_CHECK" => call \in Ordered(log)
  <2> DEFINE o == [op |-> "post", agent |-> "dedup_guard", p |-> p,
                   slot |-> NoSlot, owner |-> NoPipeline]
  <2>1. o \in Op
    BY DEF CallOp, Agent, ScriptOp, Op
  <2>2. o.p = p /\ MoveBefore(o) = "DEDUP_CHECK" /\ SlotGiven(o)
    BY DEF MoveBefore, AskedIn, SlotGiven
  <2> HIDE DEF o
  <2>3. s = "DEDUP_CHECK" => <<o>> \in Ordered(log)
    BY <2>1, <2>2, OrderedOne DEF Ordered
  <2> QED BY <2>3 DEF DispatchWith, o
<1>4. /\ <<>> \in Ordered(log)
      /\ \A x, y \in Ordered(log) : x \o y \in Ordered(log)
  BY OrderedClosed
<1>5. \A x \in Ordered(log) : x \in Seq(Op)
  BY DEF Ordered
<1>6. \A x \in Seq(Op) : x \o <<>> = x /\ <<>> \o x = x
  BY ConcatEmptySeq
<1>7. <<>> \in Seq(Op)
  BY EmptySeq
<1> DEFINE all == (move("CLASSIFYING") \o move("DEDUP_CHECK")) \o call
<1>8. all \in Ordered(log)
  BY <1>1, <1>2, <1>5, OrderedThen
<1> HIDE DEF Op, Ordered
<1>9. CASE s = "EMAIL_RECEIVED"
  <2>1. Resume(p, s) = all
    BY <1>9 DEF Resume
  <2> QED BY <1>8, <2>1
<1> HIDE DEF call, move
<1>10. CASE s = "CLASSIFYING"
  <2>1. Resume(p, s) = (<<>> \o move("DEDUP_CHECK")) \o call
    BY <1>10 DEF Resume, call, move
  <2> QED BY <1>1, <1>5, <1>6, <2>1
<1>11. CASE s = "DEDUP_CHECK"
  <2>1. Resume(p, s) = (<<>> \o <<>>) \o call
    BY <1>11 DEF Resume, call, move
  <2> QED BY <1>2, <1>3, <1>6, <1>7, <1>11, <2>1
<1>12. CASE s \notin {"EMAIL_RECEIVED", "CLASSIFYING", "DEDUP_CHECK"}
  <2>1. Resume(p, s) = (<<>> \o <<>>) \o <<>>
    BY <1>12 DEF Resume
  <2> QED BY <1>4, <2>1
<1> QED BY <1>9, <1>10, <1>11, <1>12

---------------------------------------------------------------------------
(* Every step preserves the invariant. *)

\* What a coroutine has left when its operation is no part of a move.
LEMMA RestOrdered ==
  ASSUME GateInv, RequestInv, NEW w \in Worker, NEW k, At(w, k),
         k \notin {"read", "write"}
  PROVE  Rest(w) \in Ordered(Log)
<1>1. todo[w] \in Seq(Op) /\ todo[w] # <<>> /\ Head(todo[w]).op = k
  <2>1. LoggedOp \subseteq Op
    BY DEF LoggedOp, Op
  <2>2. todo[w] \in Seq(LoggedOp)
    BY DEF GateInv, TodoLogged
  <2> HIDE DEF LoggedOp, Op
  <2> QED BY <2>1, <2>2, SeqMonotonic DEF At
<1>2. InOrder(todo[w], Log)
  BY DEF RequestInv, TodoInOrder
<1>3. \A p, s : ~Moves(Head(todo[w]), p, s)
  BY <1>1 DEF Moves
<1>4. InOrder(Tail(todo[w]), Log)
  BY <1>1, <1>2, <1>3, OrderedTail
<1>5. Tail(todo[w]) \in Seq(Op)
  <2> HIDE DEF Op
  <2> QED BY <1>1, HeadTailProperties
<1> QED BY <1>4, <1>5 DEF Ordered, Rest

\* The operation a coroutine awaits is justified by the log.
LEMMA HeadJustified ==
  ASSUME GateInv, RequestInv, NEW w \in Worker, NEW k, At(w, k)
  PROVE  LET o == Head(todo[w])
         IN  SlotGiven(o) /\ (NeedsMove(o) => <<o.p, MoveBefore(o)>> \in Log)
<1> DEFINE o == Head(todo[w])
<1>1. todo[w] \in Seq(LoggedOp) /\ todo[w] # <<>>
  BY DEF GateInv, TodoLogged, At
<1>2. 1 \in DOMAIN todo[w] /\ todo[w][1] = o
  <2> HIDE DEF LoggedOp
  <2> QED BY <1>1, LenProperties, EmptySeq
<1>3. InOrder(todo[w], Log)
  BY DEF RequestInv, TodoInOrder
<1> QED BY <1>2, <1>3 DEF InOrder

\* The log only grows.
LEMMA LogGrows ==
  ASSUME audit \subseteq audit'
  PROVE  Log \subseteq Log'
BY DEF Log

\* Coroutines stay in order when one goes on in order.
LEMMA TodoStaysInOrder ==
  ASSUME GateInv, RequestInv, NEW w \in Worker, NEW x, InOrder(x, Log'),
         Goto(w, x), audit \subseteq audit'
  PROVE  TodoInOrder'
<1>1. \A v \in Worker : todo'[v] = IF v = w THEN x ELSE todo[v]
  BY DEF GateInv, TodoLogged, Goto
<1> SUFFICES ASSUME NEW v \in Worker PROVE InOrder(todo'[v], Log')
  BY DEF TodoInOrder
<1>2. CASE v = w
  BY <1>1, <1>2
<1>3. CASE v # w
  <2>1. InOrder(todo[v], Log)
    BY DEF RequestInv, TodoInOrder
  <2>2. todo'[v] = todo[v]
    BY <1>1, <1>3
  <2> QED BY <2>1, <2>2, LogGrows, OrderStays
<1> QED BY <1>2, <1>3

\* A step of a coroutine that changes neither what is logged nor what was
\* asked or booked.
LEMMA GotoOrdered ==
  ASSUME GateInv, RequestInv, NEW w \in Worker, NEW x \in Ordered(Log),
         Goto(w, x), UNCHANGED <<row, appts, audit, dlq, asked>>
  PROVE  RequestInv'
<1>1. InOrder(x, Log')
  BY LogGrows, OrderStays DEF Ordered
<1>2. TodoInOrder'
  BY <1>1, TodoStaysInOrder
<1>3. HeldHasSlot' /\ RequestsJustified' /\ AppointmentsWereBooked'
  BY DEF RequestInv, HeldHasSlot, RequestsJustified, AppointmentsWereBooked,
         Passed
<1> QED BY <1>2, <1>3 DEF RequestInv

\* The same with an operation that needs no move before the rest.
LEMMA GotoPlain ==
  ASSUME GateInv, RequestInv, NEW w \in Worker, NEW k, At(w, k),
         k \notin {"read", "write"}, NEW o \in Op, SlotGiven(o), ~NeedsMove(o),
         Goto(w, <<o>> \o Rest(w)), UNCHANGED <<row, appts, audit, dlq, asked>>
  PROVE  RequestInv'
<1>1. <<o>> \o Rest(w) \in Ordered(Log)
  BY RestOrdered, OrderedPlain, OrderedClosed
<1> QED BY <1>1, GotoOrdered

\* A move in the log tells of all gates up to its state.
LEMMA JustifiedGates ==
  ASSUME GateInv, NEW p, NEW s, <<p, s>> \in Log
  PROVE  \A j \in 1..Gate(s) : Passed(p, j)
<1>1. PICK a \in audit : a.p = p /\ a.to = s
  BY DEF Log
<1> QED BY <1>1 DEF GateInv, GatesPassed

\* Nothing is done before the first task.
LEMMA InitRequest == Init => RequestInv
<1> SUFFICES ASSUME Init PROVE RequestInv
  OBVIOUS
<1>1. InOrder(<<>>, Log)
  BY OrderedClosed DEF Ordered
<1>2. TodoInOrder
  BY <1>1 DEF Init, TodoInOrder
<1>3. HeldHasSlot /\ RequestsJustified /\ AppointmentsWereBooked
  BY DEF Init, HeldHasSlot, RequestsJustified, AppointmentsWereBooked, Passed
<1> QED BY <1>2, <1>3 DEF RequestInv

\* create_pipeline: a row that is not there proposed no slot.
LEMMA CreateRequest ==
  ASSUME GateInv, RequestInv, NEW w \in Worker,
         LookupEmail(w) \/ InsertPipeline(w) \/ ReadForResume(w)
  PROVE  RequestInv'
<1> DEFINE p == Head(todo[w]).p
<1>1. CASE LookupEmail(w)
  <2>1. p \in Pipeline
    BY <1>1, Pending, Shapes DEF LookupEmail, GateInv, RowOp
  <2>2. Rest(w) \in Ordered(Log)
    BY <1>1, RestOrdered DEF LookupEmail
  <2>3. <<[op |-> "insert", p |-> p]>> \o Rest(w) \in Ordered(Log)
    BY <2>1, <2>2, OrderedRow, OrderedClosed
  <2>4. UNCHANGED <<row, appts, audit, dlq, asked>>
    BY <1>1 DEF LookupEmail, tables
  <2> QED BY <1>1, <2>2, <2>3, <2>4, GotoOrdered DEF LookupEmail
<1>2. CASE InsertPipeline(w)
  <2>1. p \in Pipeline
    BY <1>2, Pending, Shapes DEF InsertPipeline, GateInv, RowOp
  <2>2. Rest(w) \in Ordered(Log)
    BY <1>2, RestOrdered DEF InsertPipeline
  <2>3. CASE Exists(p)
    BY <1>2, <2>3, OrderedClosed, GotoOrdered DEF InsertPipeline, Raise
  <2>4. CASE ~Exists(p)
    <3>1. /\ row' = [row EXCEPT ![p] = [state |-> "EMAIL_RECEIVED",
                                        slot  |-> NoSlot]]
          /\ Goto(w, Rest(w))
          /\ UNCHANGED <<appts, audit, dlq, asked>>
      BY <1>2, <2>4 DEF InsertPipeline
    <3>2. row[p] = NoRow
      <4>1. row[p] \in Row \cup {NoRow} /\ row[p].state = "none"
        BY <2>1, <2>4 DEF GateInv, TablesOK, Exists
      <4>2. "none" \notin State
        BY DEF State
      <4> QED BY <4>1, <4>2 DEF Row
    <3>3. ~Passed(p, 8)
      BY <2>1, <3>2 DEF RequestInv, HeldHasSlot, NoRow
    <3>4. HeldHasSlot'
      <4>1. \A q \in Pipeline \ {p} : row'[q] = row[q]
        BY <3>1 DEF GateInv, TablesOK
      <4> QED BY <3>1, <3>3, <4>1 DEF RequestInv, HeldHasSlot, Passed
    <3>5. TodoInOrder'
      <4>1. InOrder(Rest(w), Log')
        BY <2>2, <3>1, LogGrows, OrderStays DEF Ordered
      <4> QED BY <3>1, <4>1, TodoStaysInOrder
    <3>6. RequestsJustified' /\ AppointmentsWereBooked'
      BY <3>1 DEF RequestInv, RequestsJustified, AppointmentsWereBooked, Passed
    <3> QED BY <3>4, <3>5, <3>6 DEF RequestInv
  <2> QED BY <2>3, <2>4
<1>3. CASE ReadForResume(w)
  <2>1. p \in Pipeline
    BY <1>3, Pending, Shapes DEF ReadForResume, GateInv, RowOp
  <2>2. row[p].state = "DEDUP_CHECK" => <<p, row[p].state>> \in Log
    BY <2>1 DEF GateInv, RowsLogged, Exists, Logged, Log
  <2>3. Resume(p, row[p].state) \in Ordered(Log)
    BY <2>1, <2>2, ResumeOrdered
  <2>4. UNCHANGED <<row, appts, audit, dlq, asked>>
    BY <1>3 DEF ReadForResume, tables
  <2> QED BY <1>3, <2>3, <2>4, GotoOrdered DEF ReadForResume
<1> QED BY <1>1, <1>2, <1>3

\* The first half of a transition keeps the move it is to make; what is not
\* legal ends the handler and everything after it.
LEMMA ReadRequest ==
  ASSUME GateInv, RequestInv, NEW w \in Worker, ReadState(w)
  PROVE  RequestInv'
<1> DEFINE o == Head(todo[w])
           write == [op |-> "write", p |-> o.p, from |-> row[o.p].state,
                     to |-> o.to, slot |-> o.slot]
<1>1. o \in ReadOp /\ o.op = "read"
  BY Pending, Shapes DEF ReadState, GateInv
<1>2. UNCHANGED <<row, appts, audit, dlq, asked>>
  BY DEF ReadState, tables
<1>3. CASE ~(Exists(o.p) /\ o.to \in VALID_TRANSITIONS(row[o.p].state))
  <2>1. Goto(w, <<>>)
    BY <1>3 DEF ReadState, Raise
  <2> QED BY <1>2, <2>1, OrderedClosed, GotoOrdered
<1>4. CASE Exists(o.p) /\ o.to \in VALID_TRANSITIONS(row[o.p].state)
  <2>1. Goto(w, <<write>> \o Tail(todo[w]))
    BY <1>4 DEF ReadState, Rest
  <2>2. write \in Op
    <3>1. row[o.p].state \in State
      <4>1. row[o.p] \in Row \cup {NoRow}
        BY <1>1 DEF ReadOp, GateInv, TablesOK
      <4> QED BY <1>4, <4>1 DEF Row, NoRow, Exists
    <3> HIDE DEF o
    <3> QED BY <1>1, <1>4, <3>1 DEF ReadOp, WriteOp, Op
  <2>3. SlotGiven(o)
    BY HeadJustified DEF ReadState
  <2>4. SlotGiven(write) /\ ~NeedsMove(write)
    <3> HIDE DEF o
    <3> QED BY <1>1, <2>3 DEF SlotGiven, NeedsMove
  <2>5. \A p, s : Moves(o, p, s) => Moves(write, p, s)
    BY DEF Moves
  <2>6. todo[w] \in Seq(Op) /\ todo[w] # <<>> /\ Tail(todo[w]) \in Seq(Op)
    <3>1. LoggedOp \subseteq Op
      BY DEF LoggedOp, Op
    <3>2. todo[w] \in Seq(LoggedOp) /\ todo[w] # <<>>
      BY DEF GateInv, TodoLogged, ReadState, At
    <3> HIDE DEF LoggedOp, Op
    <3> QED BY <3>1, <3>2, SeqMonotonic, HeadTailProperties
  <2>7. InOrder(todo[w], Log)
    BY DEF RequestInv, TodoInOrder
  <2> HIDE DEF write
  <2>8. InOrder(<<write>> \o Tail(todo[w]), Log)
    BY <2>2, <2>4, <2>5, <2>6, <2>7, OrderedReplace
  <2>9. <<write>> \o Tail(todo[w]) \in Ordered(Log)
    <3> HIDE DEF Op
    <3> QED BY <2>2, <2>6, <2>8, ConcatProperties DEF Ordered
  <2> QED BY <1>2, <2>1, <2>9, GotoOrdered
<1> QED BY <1>3, <1>4

\* What follows the commit needs no move.
LEMMA EntryOrdered ==
  ASSUME NEW log, NEW p \in Pipeline, NEW s \in Target
  PROVE  OnEntry(p, s) \in Ordered(log)
<1> DEFINE publish == [op |-> "publish", p |-> p, to |-> s]
           set == [op |-> "timers", p |-> p, to |-> s]
<1>1. publish \in Op /\ set \in Op
  BY DEF EnterOp, ScriptOp, Op
<1>2. /\ ~NeedsMove(publish) /\ SlotGiven(publish)
      /\ ~NeedsMove(set) /\ SlotGiven(set)
  BY DEF NeedsMove, SlotGiven
<1> HIDE DEF publish, set
<1>3. /\ <<publish>> \in Ordered(log) /\ <<set>> \in Ordered(log)
      /\ <<>> \in Ordered(log)
  BY <1>1, <1>2, OrderedPlain, OrderedClosed
<1> QED BY <1>3, OrderedClosed DEF OnEntry, publish, set

\* The second half is the move itself: it justifies what follows it, and
\* the move to SLOT_HELD brings a slot.
LEMMA WriteRequest ==
  ASSUME GateInv, RequestInv, NEW w \in Worker, WriteState(w)
  PROVE  RequestInv'
<1> DEFINE o == Head(todo[w])
           new == [p |-> o.p, from |-> row'[o.p].state, to |-> o.to]
           slot == IF o.slot = NoSlot THEN row[o.p].slot ELSE o.slot
<1>1. o \in WriteOp /\ o.op = "write" /\ At(w, "write")
  BY Pending, Shapes DEF WriteState, GateInv
<1>2. o.p \in Pipeline /\ o.to \in Target /\ o.slot \in Slot \cup {NoSlot}
  BY <1>1 DEF WriteOp
<1>3. /\ row' = [row EXCEPT ![o.p] = [state |-> o.to, slot |-> slot]]
      /\ audit' = audit \cup {new}
      /\ Goto(w, OnEntry(o.p, o.to) \o Rest(w))
      /\ UNCHANGED <<appts, dlq, asked>>
  BY DEF WriteState
<1>4. new.p = o.p /\ new.to = o.to
  OBVIOUS
<1> HIDE DEF new
<1>5. audit \subseteq audit' /\ \A p, j : Passed(p, j) => Passed(p, j)'
  BY <1>3 DEF Passed
<1>6. <<o.p, o.to>> \in Log' /\ Log \subseteq Log'
  BY <1>3, <1>4, <1>5, LogGrows DEF Log
<1>7. TodoInOrder'
  <2>1. todo[w] \in Seq(Op) /\ todo[w] # <<>> /\ Tail(todo[w]) \in Seq(Op)
    <3>1. LoggedOp \subseteq Op
      BY DEF LoggedOp, Op
    <3>2. todo[w] \in Seq(LoggedOp) /\ todo[w] # <<>>
      BY DEF GateInv, TodoLogged, WriteState, At
    <3> HIDE DEF LoggedOp, Op
    <3> QED BY <3>1, <3>2, SeqMonotonic, HeadTailProperties
  <2>2. InOrder(todo[w], Log')
    BY <1>6, OrderStays DEF RequestInv, TodoInOrder
  <2>3. \A p, s : Moves(o, p, s) => p = o.p /\ s = o.to
    BY DEF Moves
  <2>4. InOrder(Tail(todo[w]), Log')
    BY <1>6, <2>1, <2>2, <2>3, OrderedTail
  <2>5. Tail(todo[w]) \in Ordered(Log') /\ OnEntry(o.p, o.to) \in Ordered(Log')
    BY <1>2, <2>1, <2>4, EntryOrdered DEF Ordered
  <2>6. OnEntry(o.p, o.to) \o Rest(w) \in Ordered(Log')
    BY <2>5, OrderedClosed DEF Rest
  <2>7. InOrder(OnEntry(o.p, o.to) \o Rest(w), Log')
    BY <2>6 DEF Ordered
  <2> QED BY <1>3, <1>5, <2>7, TodoStaysInOrder
<1>8. HeldHasSlot'
  <2> SUFFICES ASSUME NEW p \in Pipeline, Passed(p, 8)'
               PROVE  row'[p].slot # NoSlot
    BY DEF HeldHasSlot
  <2>1. CASE p # o.p
    <3>1. row'[p] = row[p]
      BY <1>3, <2>1
    <3>2. Passed(p, 8)
      BY <1>3, <1>4, <2>1 DEF Passed
    <3> QED BY <3>1, <3>2 DEF RequestInv, HeldHasSlot
  <2>2. CASE p = o.p
    <3>1. row'[p].slot = slot
      BY <1>2, <1>3, <2>2 DEF GateInv, TablesOK
    <3>2. CASE Passed(p, 8)
      BY <2>2, <3>1, <3>2 DEF RequestInv, HeldHasSlot
    <3>3. CASE ~Passed(p, 8)
      <4>1. o.to = "SLOT_HELD"
        BY <1>3, <1>4, <3>3 DEF Passed, GateStates
      <4>2. SlotGiven(o)
        BY <1>1, HeadJustified
      <4> QED BY <1>1, <3>1, <4>1, <4>2 DEF SlotGiven
    <3> QED BY <3>2, <3>3
  <2> QED BY <2>1, <2>2
<1>9. RequestsJustified' /\ AppointmentsWereBooked'
  BY <1>3, <1>5 DEF RequestInv, RequestsJustified, AppointmentsWereBooked
<1> QED BY <1>7, <1>8, <1>9 DEF RequestInv

\* A task that arrives brings a handler in order.
LEMMA ReceiveRequest ==
  ASSUME GateInv, RequestInv, NEW w \in Worker, NEW t \in Task, Receive(w, t)
  PROVE  RequestInv'
<1>1. Handler(t) \in Ordered(Log)
  BY HandlerOrdered, TaskAssumption
<1>2. Goto(w, Handler(t)) /\ UNCHANGED <<row, appts, audit, dlq, asked>>
  BY DEF Receive, tables
<1> QED BY <1>1, <1>2, GotoOrdered

\* What follows a commit, the queue and the drop log touch nothing the
\* invariant speaks of.
LEMMA AsideRequest ==
  ASSUME GateInv, RequestInv, NEW w \in Worker,
         \/ Publish(w) \/ HandleTimers(w) \/ QueueInsert(w) \/ QueueUpdate(w)
         \/ MarkInvited(w) \/ LogDrop(w) \/ PostAcked(w)
  PROVE  RequestInv'
<1>1. /\ Goto(w, Rest(w)) /\ UNCHANGED <<row, appts, audit, dlq, asked>>
      /\ \E k : At(w, k) /\ k \notin {"read", "write"}
  BY DEF Publish, HandleTimers, QueueInsert, QueueUpdate, MarkInvited, LogDrop,
         PostAcked, tables
<1>2. Rest(w) \in Ordered(Log)
  BY <1>1, RestOrdered
<1> QED BY <1>1, <1>2, GotoOrdered

\* The reads of the queue.
LEMMA QueueRequest ==
  ASSUME GateInv, RequestInv, NEW w \in Worker,
         QueueSelect(w) \/ GetTopQueue(w)
  PROVE  RequestInv'
<1> DEFINE o == Head(todo[w])
<1>1. \A i \in Waiting : i \in Nat \ {0} /\ queue[i] \in Entry
  BY ElementOfSeq DEF Waiting, GateInv, TablesOK
<1>2. CASE QueueSelect(w)
  <2> DEFINE insert == [op |-> "queue_insert", p |-> o.p, score |-> o.score]
             update(i) == [op |-> "queue_update", entry |-> i,
                           score |-> o.score]
  <2>1. o \in QueueOp /\ At(w, "queue_select")
    BY <1>2, Pending, Shapes DEF QueueSelect, GateInv
  <2>2. insert \in Op /\ ~NeedsMove(insert) /\ SlotGiven(insert)
    <3> HIDE DEF o
    <3> QED BY <2>1 DEF QueueOp, InsertOp, Op, NeedsMove, SlotGiven
  <2>3. ASSUME NEW i \in Waiting
        PROVE  update(i) \in Op /\ ~NeedsMove(update(i)) /\ SlotGiven(update(i))
    <3> HIDE DEF o
    <3>1. o.score \in Score /\ i \in Nat \ {0}
      BY <1>1, <2>1 DEF QueueOp
    <3>2. update(i) \in EntryOp
      BY <3>1 DEF EntryOp
    <3>3. ~NeedsMove(update(i)) /\ SlotGiven(update(i))
      BY DEF NeedsMove, SlotGiven
    <3> QED BY <3>2, <3>3 DEF ScriptOp, Op
  <2>4. /\ \/ Goto(w, <<insert>> \o Rest(w))
           \/ \E i \in Waiting : Goto(w, <<update(i)>> \o Rest(w))
        /\ UNCHANGED <<row, appts, audit, dlq, asked>>
    BY <1>2 DEF QueueSelect, tables
  <2> HIDE DEF insert, update
  <2>5. CASE Goto(w, <<insert>> \o Rest(w))
    BY <2>1, <2>2, <2>4, <2>5, GotoPlain
  <2>6. CASE \E i \in Waiting : Goto(w, <<update(i)>> \o Rest(w))
    BY <2>1, <2>3, <2>4, <2>6, GotoPlain
  <2> QED BY <2>4, <2>5, <2>6
<1>3. CASE GetTopQueue(w)
  <2>1. o.owner \in Pipeline /\ Rest(w) \in Ordered(Log)
    BY <1>3, Pending, Shapes, RestOrdered DEF GetTopQueue, GateInv, PullOp
  <2>2. ASSUME NEW i \in Waiting
        PROVE  PullNext(i, queue[i].p, o.owner) \o Rest(w) \in Ordered(Log)
    <3>1. i \in Nat \ {0} /\ queue[i].p \in Pipeline
      BY <1>1 DEF Entry
    <3> QED BY <2>1, <3>1, PullNextOrdered, OrderedClosed
  <2>3. /\ \/ Goto(w, Rest(w))
           \/ \E i \in Waiting :
                Goto(w, PullNext(i, queue[i].p, o.owner) \o Rest(w))
        /\ UNCHANGED <<row, appts, audit, dlq, asked>>
    BY <1>3 DEF GetTopQueue, tables
  <2> QED BY <2>1, <2>2, <2>3, GotoOrdered
<1> QED BY <1>2, <1>3

\* handle_rsvp_outcome reads the row after the move to BOOKED: a row with
\* that move behind it proposes a slot.
LEMMA RecordRequest ==
  ASSUME GateInv, RequestInv, NEW w \in Worker,
         ReadBooked(w) \/ WriteAppointment(w)
  PROVE  RequestInv'
<1> DEFINE o == Head(todo[w])
<1>1. ASSUME NeedsMove(o), MoveBefore(o) = "BOOKED", NEW k, At(w, k)
      PROVE  \A j \in 1..14 : Passed(o.p, j)
  <2>1. <<o.p, "BOOKED">> \in Log
    BY <1>1, HeadJustified
  <2>2. Gate("BOOKED") = 14
    BY DEF Gate
  <2> QED BY <2>1, <2>2, JustifiedGates
<1>2. CASE ReadBooked(w)
  <2>1. o.p \in Pipeline /\ o.op = "book" /\ At(w, "book")
    BY <1>2, Pending, Shapes DEF ReadBooked, GateInv, RowOp
  <2>2. NeedsMove(o) /\ MoveBefore(o) = "BOOKED"
    BY <2>1 DEF NeedsMove, MoveBefore
  <2>3. row[o.p].slot # NoSlot
    <3>1. 8 \in 1..14
      OBVIOUS
    <3>2. Passed(o.p, 8)
      BY <1>1, <2>1, <2>2, <3>1
    <3> QED BY <2>1, <3>2 DEF RequestInv, HeldHasSlot
  <2>4. <<o.p, "BOOKED">> \in Log
    BY <2>1, <2>2, HeadJustified
  <2> DEFINE appoint == [op |-> "appoint", p |-> o.p, slot |-> row[o.p].slot]
  <2>5. appoint \in Op
    <3>1. row[o.p].slot \in Slot \cup {NoSlot}
      <4>1. row[o.p] \in Row \cup {NoRow}
        BY <2>1 DEF GateInv, TablesOK
      <4> QED BY <4>1 DEF Row, NoRow
    <3> HIDE DEF o
    <3>2. appoint \in ApptOp
      BY <2>1, <3>1 DEF ApptOp
    <3> QED BY <3>2 DEF ScriptOp, Op
  <2>6. /\ SlotGiven(appoint)
        /\ appoint.p = o.p /\ MoveBefore(appoint) = "BOOKED"
    <3> HIDE DEF o
    <3> QED BY <2>3 DEF SlotGiven, MoveBefore
  <2>7. /\ \/ Goto(w, <<appoint>> \o Rest(w))
           \/ Goto(w, Rest(w))
        /\ UNCHANGED <<row, appts, audit, dlq, asked>>
    BY <1>2 DEF ReadBooked, tables
  <2> HIDE DEF appoint
  <2>8. <<appoint>> \in Ordered(Log)
    BY <2>4, <2>5, <2>6, OrderedOne DEF Ordered
  <2>9. Rest(w) \in Ordered(Log)
    BY <2>1, RestOrdered
  <2>10. <<appoint>> \o Rest(w) \in Ordered(Log)
    BY <2>8, <2>9, OrderedClosed
  <2> QED BY <2>7, <2>9, <2>10, GotoOrdered
<1>3. CASE WriteAppointment(w)
  <2>1. o.op = "appoint" /\ At(w, "appoint")
    BY <1>3, Pending DEF WriteAppointment, GateInv
  <2>2. NeedsMove(o) /\ MoveBefore(o) = "BOOKED"
    BY <2>1 DEF NeedsMove, MoveBefore
  <2>3. o.slot # NoSlot
    BY <2>1, HeadJustified DEF SlotGiven
  <2>4. Passed(o.p, 14)
    <3>1. 14 \in 1..14
      OBVIOUS
    <3> QED BY <1>1, <2>1, <2>2, <3>1
  <2> DEFINE visit == [id |-> Cardinality(appts) + 1, p |-> o.p,
                       slot |-> o.slot]
  <2>5. /\ appts' = appts \cup {visit}
        /\ Goto(w, Rest(w))
        /\ UNCHANGED <<row, audit, dlq, asked>>
    BY <1>3 DEF WriteAppointment
  <2>6. visit.p = o.p /\ visit.slot = o.slot
    OBVIOUS
  <2> HIDE DEF visit
  <2>7. AppointmentsWereBooked'
    <3>1. \A p, j : Passed(p, j)' <=> Passed(p, j)
      BY <2>5 DEF Passed
    <3>2. \A a \in appts' : a \in appts \/ a = visit
      BY <2>5
    <3> SUFFICES ASSUME NEW a \in appts' PROVE a.slot # NoSlot /\ Passed(a.p, 14)
      BY <3>1 DEF AppointmentsWereBooked, Passed
    <3> QED BY <2>3, <2>4, <2>6, <3>2 DEF RequestInv, AppointmentsWereBooked
  <2>8. TodoInOrder'
    <3>1. InOrder(Rest(w), Log')
      BY <2>1, <2>5, RestOrdered, LogGrows, OrderStays DEF Ordered
    <3> QED BY <2>5, <3>1, TodoStaysInOrder
  <2>9. HeldHasSlot' /\ RequestsJustified'
    BY <2>5 DEF RequestInv, HeldHasSlot, RequestsJustified, Passed
  <2> QED BY <2>7, <2>8, <2>9 DEF RequestInv
<1> QED BY <1>2, <1>3

\* A request that reaches an agent, or the dead letter list, was the
\* operation its coroutine awaited, so the log justifies it.
LEMMA CallRequest ==
  ASSUME GateInv, RequestInv, NEW w \in Worker,
         PostReaches(w) \/ DispatchFails(w)
  PROVE  RequestInv'
<1> DEFINE o == Head(todo[w])
           r == RequestOf(o)
<1>1. o \in CallOp /\ \E k \in {"post", "ack"} : At(w, k)
  BY Pending, Shapes DEF PostReaches, DispatchFails, GateInv
<1>2. NeedsMove(o) /\ MoveBefore(o) = AskedIn(o)
  BY <1>1 DEF CallOp, NeedsMove, MoveBefore
<1>3. AskedIn(r) = AskedIn(o) /\ r.p = o.p
  BY DEF RequestOf, AskedIn
<1>4. SlotGiven(o) /\ <<o.p, AskedIn(o)>> \in Log
  BY <1>1, <1>2, HeadJustified
<1>5. \A j \in 1..Gate(AskedIn(r)) : Passed(r.p, j)
  BY <1>3, <1>4, JustifiedGates
<1> HIDE DEF r
<1>6. /\ asked' \cup dlq' = asked \cup dlq \cup {r}
      /\ UNCHANGED <<row, appts, audit>>
  BY DEF PostReaches, DispatchFails, tables, r
<1>7. RequestsJustified'
  <2>1. \A p, j : Passed(p, j)' <=> Passed(p, j)
    BY <1>6 DEF Passed
  <2>2. \A q \in asked' \cup dlq' : q \in asked \cup dlq \/ q = r
    BY <1>6
  <2> SUFFICES ASSUME NEW q \in asked' \cup dlq',
                      NEW j \in 1..Gate(AskedIn(q))
               PROVE  Passed(q.p, j)
    BY <2>1 DEF RequestsJustified
  <2> QED BY <1>5, <2>2 DEF RequestInv, RequestsJustified
<1>8. HeldHasSlot' /\ AppointmentsWereBooked'
  BY <1>6 DEF RequestInv, HeldHasSlot, AppointmentsWereBooked, Passed
<1>9. \E x \in Ordered(Log) : Goto(w, x)
  <2>1. CASE PostReaches(w)
    <3> DEFINE ack == [o EXCEPT !.op = "ack"]
    <3>1. ack \in Op /\ SlotGiven(ack) /\ ack.p = o.p
          /\ MoveBefore(ack) = AskedIn(o)
      <4> HIDE DEF o
      <4>1. ack \in CallOp /\ ack.p = o.p /\ ack.op = "ack"
            /\ ack.agent = o.agent /\ ack.slot = o.slot
        BY <1>1 DEF CallOp
      <4> HIDE DEF ack
      <4> QED BY <1>4, <4>1 DEF ScriptOp, Op, SlotGiven, MoveBefore, AskedIn
    <3>2. Goto(w, <<ack>> \o Rest(w)) /\ At(w, "post")
      BY <2>1 DEF PostReaches
    <3> HIDE DEF ack
    <3>3. <<ack>> \in Ordered(Log)
      BY <1>4, <3>1, OrderedOne DEF Ordered
    <3>4. Rest(w) \in Ordered(Log)
      BY <3>2, RestOrdered
    <3> QED BY <3>2, <3>3, <3>4, OrderedClosed
  <2>2. CASE DispatchFails(w)
    <3>1. o.owner \in Pipeline \cup {NoPipeline}
      BY <1>1 DEF CallOp
    <3>2. CASE o.owner = NoPipeline
      BY <2>2, <3>2, OrderedClosed DEF DispatchFails
    <3>3. CASE o.owner # NoPipeline
      <4>1. Transition(o.owner, "AGENT_UNREACHABLE") \in Ordered(Log)
        BY <3>1, <3>3, OrderedMove, Targets
      <4> QED BY <2>2, <3>3, <4>1 DEF DispatchFails
    <3> QED BY <3>2, <3>3
  <2> QED BY <2>1, <2>2
<1>10. TodoInOrder'
  <2>1. PICK x \in Ordered(Log) : Goto(w, x)
    BY <1>9
  <2>2. InOrder(x, Log')
    BY <1>6, LogGrows, OrderStays DEF Ordered
  <2> QED BY <1>6, <2>1, <2>2, TodoStaysInOrder
<1> QED BY <1>7, <1>8, <1>10 DEF RequestInv

\* Errors, crashes and expiry.
LEMMA FailureRequest ==
  ASSUME GateInv, RequestInv,
         Crash \/ ExpireTimer \/ ReportFails \/ \E w \in Worker : CallRaises(w)
  PROVE  RequestInv'
<1>1. UNCHANGED <<row, appts, audit>> /\ asked' \cup dlq' = asked \cup dlq
  BY DEF Crash, ExpireTimer, ReportFails, KeepReport, CallRaises, tables
<1>2. HeldHasSlot' /\ RequestsJustified' /\ AppointmentsWereBooked'
  BY <1>1 DEF RequestInv, HeldHasSlot, RequestsJustified,
              AppointmentsWereBooked, Passed
<1>3. Log' = Log /\ InOrder(<<>>, Log)
  BY <1>1, OrderedClosed DEF Log, Ordered
<1>4. CASE Crash
  <2>1. \A w \in Worker : todo'[w] = <<>>
    BY <1>4 DEF Crash
  <2>2. TodoInOrder'
    BY <1>3, <2>1 DEF TodoInOrder
  <2> QED BY <1>2, <2>2 DEF RequestInv
<1>5. CASE ExpireTimer \/ ReportFails
  <2>1. TodoInOrder'
    BY <1>3, <1>5 DEF ExpireTimer, ReportFails, KeepReport, RequestInv, TodoInOrder
  <2> QED BY <1>2, <2>1 DEF RequestInv
<1>6. CASE \E w \in Worker : CallRaises(w)
  BY <1>1, <1>6, OrderedClosed, GotoOrdered DEF CallRaises, Raise
<1> QED BY <1>4, <1>5, <1>6

\* Every step preserves the invariant.
LEMMA StepRequest == GateInv /\ RequestInv /\ [Next]_vars => RequestInv'
<1> SUFFICES ASSUME GateInv, RequestInv, [Next]_vars PROVE RequestInv'
  OBVIOUS
<1>1. CASE UNCHANGED vars
  BY <1>1 DEF vars, RequestInv, TodoInOrder, Log, HeldHasSlot,
              RequestsJustified, AppointmentsWereBooked, Passed
<1>2. ASSUME NEW w \in Worker, Step(w) PROVE RequestInv'
  BY <1>2, CreateRequest, ReadRequest, WriteRequest, AsideRequest,
     QueueRequest, RecordRequest, CallRequest DEF Step
<1>3. ASSUME NEW w \in Worker, NEW t \in Task, Receive(w, t)
      PROVE  RequestInv'
  BY <1>3, ReceiveRequest
<1> QED BY <1>1, <1>2, <1>3, CallRequest, FailureRequest DEF Next

---------------------------------------------------------------------------
(* The theorems. *)

\* The invariant holds in every reachable state.
LEMMA RequestInvariant == Spec => []RequestInv
<1>1. Init => GateInv /\ RequestInv
  BY InitInv, InitRequest
<1>2. GateInv /\ RequestInv /\ [Next]_vars => (GateInv /\ RequestInv)'
  BY StepInv, StepRequest
<1> QED BY <1>1, <1>2, PTL DEF Spec

\* An agent is asked to act for a pipeline, or the request to it kept for a
\* manual requeue, only when the log shows every gate up to the state that
\* makes the handlers ask: no confirmation without approval, no search
\* before the score, however handlers interleave and fail.
THEOREM RequestsAlwaysJustified == Spec => []RequestsJustified
BY RequestInvariant, PTL DEF RequestInv

\* The 90-day record has only visits with a slot, of pipelines the log shows
\* BOOKED.
THEOREM VisitsWereBooked == Spec => []AppointmentsWereBooked
BY RequestInvariant, PTL DEF RequestInv
---------------------------------------------------------------------------
(* What only a race breaks.                                                *)

\* A coroutine at an operation has a script left after it.
LEMMA ScriptLeft ==
  ASSUME GateInv, RestScripted, NEW w \in Worker, NEW k, At(w, k)
  PROVE  /\ Head(todo[w]) \in Op /\ Head(todo[w]).op = k
         /\ Rest(w) \in Seq(ScriptOp)
BY Pending DEF GateInv, RestScripted, Idle, At

\* What a coroutine goes on with: a script, or a write of the state it has
\* just read, or an insert for a pipeline it has just found no entry of.
GoesOn(w) ==
  \/ \E y \in Seq(ScriptOp) : Goto(w, y)
  \/ /\ UNCHANGED <<row, queue>>
     /\ \E o \in WriteOp, y \in Seq(ScriptOp) :
          Goto(w, <<o>> \o y) /\ row[o.p].state = o.from
  \/ /\ UNCHANGED <<row, queue>>
     /\ \E o \in InsertOp, y \in Seq(ScriptOp) :
          Goto(w, <<o>> \o y) /\ \A j \in Waiting : queue[j].p # o.p

\* The creation of a pipeline, the reads of transition() and of the queue.
LEMMA ReadsGoOn ==
  ASSUME GateInv, RestScripted, NEW w \in Worker,
         \/ LookupEmail(w) \/ InsertPipeline(w) \/ ReadForResume(w)
         \/ ReadState(w) \/ QueueSelect(w)
  PROVE  GoesOn(w)
<1> DEFINE o == Head(todo[w])
           s == row[o.p].state
<1>1. CASE LookupEmail(w)
  <2>1. o.p \in Pipeline /\ Rest(w) \in Seq(ScriptOp)
    BY <1>1, ScriptLeft, Shapes DEF LookupEmail, RowOp
  <2>2. <<[op |-> "insert", p |-> o.p]>> \o Rest(w) \in Seq(ScriptOp)
    BY <2>1, RowOpType, ScriptConcat
  <2> QED BY <1>1, <2>1, <2>2 DEF LookupEmail, GoesOn
<1>2. CASE InsertPipeline(w)
  BY <1>2, ScriptLeft, NothingLeft DEF InsertPipeline, Raise, GoesOn
<1>3. CASE ReadForResume(w)
  <2>1. o.p \in Pipeline
    BY <1>3, ScriptLeft, Shapes DEF ReadForResume, RowOp
  <2> QED BY <1>3, <2>1, ResumeType DEF ReadForResume, GoesOn
<1>4. CASE ReadState(w)
  <2> DEFINE write == [op |-> "write", p |-> o.p, from |-> s, to |-> o.to,
                       slot |-> o.slot]
  <2>1. o \in ReadOp /\ Rest(w) \in Seq(ScriptOp)
    BY <1>4, ScriptLeft, Shapes DEF ReadState
  <2>2. CASE Exists(o.p) /\ o.to \in VALID_TRANSITIONS(s)
    <3>1. /\ o.p \in Pipeline /\ o.to \in Target
          /\ o.slot \in Slot \cup {NoSlot}
      BY <2>1 DEF ReadOp
    <3>2. s \in State
      BY <2>2, <3>1 DEF GateInv, TablesOK, Exists, Row, NoRow
    <3>3. write \in WriteOp /\ write.p = o.p /\ write.from = s
      <4> HIDE DEF o, s
      <4> QED BY <2>2, <3>1, <3>2 DEF WriteOp
    <3>4. Goto(w, <<write>> \o Rest(w)) /\ UNCHANGED <<row, queue>>
      BY <1>4, <2>2 DEF ReadState, tables
    <3> HIDE DEF write
    <3> QED BY <2>1, <3>3, <3>4 DEF GoesOn
  <2>3. CASE ~(Exists(o.p) /\ o.to \in VALID_TRANSITIONS(s))
    BY <1>4, <2>3, NothingLeft DEF ReadState, Raise, GoesOn
  <2> QED BY <2>2, <2>3
<1>5. CASE QueueSelect(w)
  <2> DEFINE insert == [op |-> "queue_insert", p |-> o.p, score |-> o.score]
             update(i) == [op |-> "queue_update", entry |-> i,
                           score |-> o.score]
  <2>1. o \in QueueOp /\ Rest(w) \in Seq(ScriptOp)
    BY <1>5, ScriptLeft, Shapes DEF QueueSelect
  <2>2. insert \in InsertOp /\ insert.p = o.p
    <3> HIDE DEF o
    <3> QED BY <2>1 DEF QueueOp, InsertOp
  <2>3. \A i \in Waiting : <<update(i)>> \o Rest(w) \in Seq(ScriptOp)
    <3> SUFFICES ASSUME NEW i \in Waiting
                 PROVE  <<update(i)>> \o Rest(w) \in Seq(ScriptOp)
      OBVIOUS
    <3>1. i \in Nat \ {0}
      BY DEF Waiting, GateInv, TablesOK
    <3>2. update(i) \in EntryOp
      BY <2>1, <3>1 DEF QueueOp, EntryOp
    <3> HIDE DEF update
    <3>3. <<update(i)>> \in Seq(ScriptOp)
      BY <3>2 DEF ScriptOp
    <3> QED BY <2>1, <3>3, ScriptConcat
  <2>4. /\ UNCHANGED <<row, queue>>
        /\ \/ /\ \A j \in Waiting : queue[j].p # o.p
              /\ Goto(w, <<insert>> \o Rest(w))
           \/ \E i \in Waiting : Goto(w, <<update(i)>> \o Rest(w))
    BY <1>5 DEF QueueSelect, tables
  <2> HIDE DEF insert, update
  <2> QED BY <2>1, <2>2, <2>3, <2>4 DEF GoesOn
<1> QED BY <1>1, <1>2, <1>3, <1>4, <1>5

\* Every other step of a coroutine, and the arrival of a task.
LEMMA OthersGoOn ==
  ASSUME GateInv, RestScripted, NEW w \in Worker,
         \/ WriteState(w) \/ Publish(w) \/ HandleTimers(w)
         \/ QueueInsert(w) \/ QueueUpdate(w) \/ GetTopQueue(w)
         \/ MarkInvited(w) \/ ReadBooked(w) \/ WriteAppointment(w)
         \/ LogDrop(w) \/ PostReaches(w) \/ PostAcked(w)
         \/ DispatchFails(w) \/ CallRaises(w)
         \/ \E t \in Task : Receive(w, t)
  PROVE  \E y \in Seq(ScriptOp) : Goto(w, y)
<1> DEFINE o == Head(todo[w])
<1>1. CASE WriteState(w)
  <2>1. o.p \in Pipeline /\ o.to \in Target /\ Rest(w) \in Seq(ScriptOp)
    BY <1>1, ScriptLeft, Shapes DEF WriteState, WriteOp
  <2>2. OnEntry(o.p, o.to) \o Rest(w) \in Seq(ScriptOp)
    BY <2>1, OnEntryType, ScriptConcat
  <2> QED BY <1>1, <2>2 DEF WriteState
<1>2. CASE \/ Publish(w) \/ HandleTimers(w) \/ QueueInsert(w)
           \/ QueueUpdate(w) \/ MarkInvited(w) \/ WriteAppointment(w)
           \/ LogDrop(w) \/ PostAcked(w)
  BY <1>2, ScriptLeft
     DEF Publish, HandleTimers, QueueInsert, QueueUpdate, MarkInvited,
         WriteAppointment, LogDrop, PostAcked
<1>3. CASE GetTopQueue(w)
  <2>1. o.owner \in Pipeline /\ Rest(w) \in Seq(ScriptOp)
    BY <1>3, ScriptLeft, Shapes DEF GetTopQueue, PullOp
  <2>2. ASSUME NEW i \in Waiting
        PROVE  PullNext(i, queue[i].p, o.owner) \o Rest(w) \in Seq(ScriptOp)
    <3>1. i \in Nat \ {0} /\ queue[i] \in Entry
      BY ElementOfSeq DEF Waiting, GateInv, TablesOK
    <3>2. PullNext(i, queue[i].p, o.owner) \in Seq(ScriptOp)
      BY <2>1, <3>1, PullNextType DEF Entry
    <3> QED BY <2>1, <3>2, ScriptConcat
  <2> QED BY <1>3, <2>1, <2>2 DEF GetTopQueue
<1>4. CASE ReadBooked(w)
  <2> DEFINE appoint == [op |-> "appoint", p |-> o.p, slot |-> row[o.p].slot]
  <2>1. o.p \in Pipeline /\ Rest(w) \in Seq(ScriptOp)
    BY <1>4, ScriptLeft, Shapes DEF ReadBooked, RowOp
  <2>2. row[o.p].slot \in Slot \cup {NoSlot}
    <3>1. row[o.p] \in Row \cup {NoRow}
      BY <2>1 DEF GateInv, TablesOK
    <3> QED BY <3>1 DEF Row, NoRow
  <2>3. appoint \in ApptOp
    <3> HIDE DEF o
    <3> QED BY <2>1, <2>2 DEF ApptOp
  <2>4. \/ Goto(w, <<appoint>> \o Rest(w))
        \/ Goto(w, Rest(w))
    BY <1>4 DEF ReadBooked
  <2> HIDE DEF appoint
  <2>5. <<appoint>> \in Seq(ScriptOp)
    BY <2>3 DEF ScriptOp
  <2> QED BY <2>1, <2>4, <2>5, ScriptConcat
<1>5. CASE PostReaches(w)
  <2> DEFINE ack == [o EXCEPT !.op = "ack"]
  <2>1. o \in CallOp /\ Rest(w) \in Seq(ScriptOp)
    BY <1>5, ScriptLeft, Shapes DEF PostReaches
  <2>2. ack \in CallOp
    <3> HIDE DEF o
    <3> QED BY <2>1 DEF CallOp
  <2>3. Goto(w, <<ack>> \o Rest(w))
    BY <1>5 DEF PostReaches
  <2> HIDE DEF ack
  <2>4. <<ack>> \in Seq(ScriptOp)
    BY <2>2 DEF ScriptOp
  <2> QED BY <2>1, <2>3, <2>4, ScriptConcat
<1>6. CASE DispatchFails(w)
  <2>1. o.owner \in Pipeline \cup {NoPipeline}
    BY <1>6, ScriptLeft, Shapes DEF DispatchFails, CallOp
  <2> QED BY <1>6, <2>1, PlainTypes, Targets, NothingLeft DEF DispatchFails
<1>7. CASE CallRaises(w)
  BY <1>7, NothingLeft DEF CallRaises, Raise
<1>8. CASE \E t \in Task : Receive(w, t)
  BY <1>8, HandlerType, TaskAssumption DEF Receive
<1> QED BY <1>1, <1>2, <1>3, <1>4, <1>5, <1>6, <1>7, <1>8

\* A step is one of some coroutine that goes on, or one that leaves rows and
\* queue alone and takes on nothing.
LEMMA SomeGoesOn ==
  ASSUME GateInv, RestScripted, [Next]_vars
  PROVE  \/ \E w \in Worker : GoesOn(w)
         \/ UNCHANGED <<row, queue>>
              /\ \A v \in Worker : todo'[v] = todo[v] \/ todo'[v] = <<>>
<1>1. ASSUME NEW w \in Worker, Step(w) \/ DispatchFails(w) \/ CallRaises(w)
      PROVE  GoesOn(w)
  BY <1>1, ReadsGoOn, OthersGoOn DEF Step, GoesOn
<1>2. ASSUME NEW w \in Worker, NEW t \in Task, Receive(w, t)
      PROVE  GoesOn(w)
  BY <1>2, OthersGoOn DEF GoesOn
<1>3. CASE UNCHANGED vars \/ ExpireTimer \/ ReportFails \/ Crash
  BY <1>3 DEF vars, ExpireTimer, ReportFails, KeepReport, Crash, tables
<1> QED BY <1>1, <1>2, <1>3 DEF Next

\* Only the insert of a pipeline and the second half of transition() write
\* the table of pipelines.
LEMMA RowStays ==
  ASSUME [Next]_vars
  PROVE  \/ UNCHANGED row
         \/ \E w \in Worker : InsertPipeline(w) \/ WriteState(w)
<1>1. CASE UNCHANGED vars
  BY <1>1 DEF vars
<1>2. ASSUME NEW w \in Worker, Step(w), ~InsertPipeline(w), ~WriteState(w)
      PROVE  UNCHANGED row
  BY <1>2 DEF Step, LookupEmail, ReadForResume, ReadState, Publish,
              HandleTimers, QueueSelect, QueueInsert, QueueUpdate,
              GetTopQueue, MarkInvited, ReadBooked, WriteAppointment, LogDrop,
              PostReaches, PostAcked, tables
<1>3. ASSUME NEW w \in Worker, DispatchFails(w) \/ CallRaises(w)
      PROVE  UNCHANGED row
  BY <1>3 DEF DispatchFails, CallRaises, tables
<1>4. ASSUME NEW w \in Worker, NEW t \in Task, Receive(w, t)
      PROVE  UNCHANGED row
  BY <1>4 DEF Receive, tables
<1>5. ASSUME Crash \/ ExpireTimer \/ ReportFails PROVE UNCHANGED row
  BY <1>5 DEF Crash, ExpireTimer, ReportFails, KeepReport, tables
<1> QED BY <1>1, <1>2, <1>3, <1>4, <1>5 DEF Next

\* The audit log only grows.
LEMMA LogStays ==
  ASSUME [Next]_vars
  PROVE  audit \subseteq audit'
<1>1. CASE UNCHANGED vars
  BY <1>1 DEF vars
<1>2. ASSUME NEW w \in Worker, Step(w), ~WriteState(w)
      PROVE  UNCHANGED audit
  BY <1>2 DEF Step, LookupEmail, InsertPipeline, ReadForResume, ReadState,
              Publish, HandleTimers, QueueSelect, QueueInsert, QueueUpdate,
              GetTopQueue, MarkInvited, ReadBooked, WriteAppointment, LogDrop,
              PostReaches, PostAcked, tables
<1>3. ASSUME NEW w \in Worker, WriteState(w)
      PROVE  audit \subseteq audit'
  BY <1>3 DEF WriteState
<1>4. ASSUME NEW w \in Worker, DispatchFails(w) \/ CallRaises(w)
      PROVE  UNCHANGED audit
  BY <1>4 DEF DispatchFails, CallRaises, tables
<1>5. ASSUME NEW w \in Worker, NEW t \in Task, Receive(w, t)
      PROVE  UNCHANGED audit
  BY <1>5 DEF Receive, tables
<1>6. ASSUME Crash \/ ExpireTimer \/ ReportFails PROVE UNCHANGED audit
  BY <1>6 DEF Crash, ExpireTimer, ReportFails, KeepReport, tables
<1> QED BY <1>1, <1>2, <1>3, <1>4, <1>5, <1>6 DEF Next

\* Appending an entry of a pipeline that has none waiting.
LEMMA AppendWaits ==
  ASSUME NEW q \in Seq(Entry), NEW e \in Entry, NEW r, r = Append(q, e)
  PROVE  /\ DOMAIN r = 1..(Len(q) + 1) /\ r[Len(q) + 1] = e
         /\ Len(q) \in Nat
         /\ \A i \in 1..Len(q) : i \in DOMAIN q /\ r[i] = q[i]
<1> QED BY AppendProperties, LenProperties

\* Every waiting entry was there, about the same pipeline, or an insert has
\* just appended it.
LEMMA WaitingStays ==
  ASSUME GateInv, [Next]_vars, NEW j \in Waiting'
  PROVE  \/ j \in Waiting /\ queue'[j].p = queue[j].p
         \/ \E w \in Worker : /\ QueueInsert(w) /\ j = Len(queue) + 1
                              /\ queue'[j].p = Head(todo[w]).p
<1>1. queue \in Seq(Entry) /\ \A i \in DOMAIN queue : queue[i] \in Entry
  BY ElementOfSeq DEF GateInv, TablesOK
<1>2. CASE UNCHANGED queue
  BY <1>2 DEF Waiting
<1>3. ASSUME NEW w \in Worker, QueueInsert(w)
      PROVE  \/ j \in Waiting /\ queue'[j].p = queue[j].p
             \/ j = Len(queue) + 1 /\ queue'[j].p = Head(todo[w]).p
  <2>1. PICK o \in InsertOp : o = Head(todo[w])
    BY <1>3, Pending, Shapes DEF QueueInsert, GateInv
  <2>2. PICK e : e = [p |-> o.p, score |-> o.score, status |-> "waiting"]
    OBVIOUS
  <2>3. e \in Entry /\ e.p = o.p
    BY <2>2 DEF InsertOp, Entry
  <2>4. queue' = Append(queue, e)
    BY <1>3, <2>1, <2>2 DEF QueueInsert
  <2>5. /\ DOMAIN queue' = 1..(Len(queue) + 1) /\ queue'[Len(queue) + 1] = e
        /\ Len(queue) \in Nat
        /\ \A i \in 1..Len(queue) : i \in DOMAIN queue /\ queue'[i] = queue[i]
    BY <1>1, <2>3, <2>4, AppendWaits
  <2> QED BY <2>1, <2>3, <2>5 DEF Waiting
<1>4. ASSUME NEW w \in Worker, QueueUpdate(w)
      PROVE  j \in Waiting /\ queue'[j].p = queue[j].p
  <2>1. PICK i, c : queue' = [queue EXCEPT ![i].score = c]
    BY <1>4 DEF QueueUpdate
  <2> QED BY <1>1, <2>1 DEF Waiting, Entry
<1>5. ASSUME NEW w \in Worker, MarkInvited(w)
      PROVE  j \in Waiting /\ queue'[j].p = queue[j].p
  <2>1. PICK i : queue' = [queue EXCEPT ![i].status = "invited"]
    BY <1>5 DEF MarkInvited
  <2> QED BY <1>1, <2>1 DEF Waiting, Entry
<1>6. ASSUME NEW w \in Worker, Step(w),
             ~QueueInsert(w), ~QueueUpdate(w), ~MarkInvited(w)
      PROVE  UNCHANGED queue
  BY <1>6 DEF Step, LookupEmail, InsertPipeline, ReadForResume, ReadState,
              WriteState, Publish, HandleTimers, QueueSelect, GetTopQueue,
              ReadBooked, WriteAppointment, LogDrop, PostReaches, PostAcked,
              tables
<1>7. ASSUME NEW w \in Worker, DispatchFails(w) \/ CallRaises(w)
      PROVE  UNCHANGED queue
  BY <1>7 DEF DispatchFails, CallRaises, tables
<1>8. ASSUME NEW w \in Worker, NEW t \in Task, Receive(w, t)
      PROVE  UNCHANGED queue
  BY <1>8 DEF Receive, tables
<1>9. CASE UNCHANGED vars \/ Crash \/ ExpireTimer \/ ReportFails
  BY <1>2, <1>9 DEF vars, Crash, ExpireTimer, ReportFails, KeepReport, tables
<1> QED BY <1>2, <1>3, <1>4, <1>5, <1>6, <1>7, <1>8, <1>9 DEF Next

\* A coroutine that goes on with one operation and a script.
LEMMA OneThenScript ==
  ASSUME NEW o \in Op, NEW y \in Seq(ScriptOp)
  PROVE  /\ <<o>> \o y # <<>>
         /\ Head(<<o>> \o y) = o /\ Tail(<<o>> \o y) = y
<1>1. Seq(ScriptOp) \subseteq Seq(Op)
  BY ScriptsAreOps
<1> HIDE DEF Op, ScriptOp
<1>2. PICK x : x = <<o>> \o y
  OBVIOUS
<1>3. y \in Seq(Op)
  BY <1>1
<1>4. /\ Len(y) \in Nat /\ x \in Seq(Op) /\ x # <<>>
      /\ Len(x) = Len(y) + 1 /\ x[1] = o
      /\ \A i \in 1..Len(y) : x[i + 1] = y[i]
  BY <1>2, <1>3, ConsParts
<1>5. /\ Head(x) = x[1] /\ Tail(x) \in Seq(Op) /\ Len(Tail(x)) = Len(x) - 1
      /\ \A i \in 1..(Len(x) - 1) : Tail(x)[i] = x[i + 1]
  BY <1>4, TailParts
<1>6. Len(Tail(x)) = Len(y) /\ \A i \in 1..Len(y) : Tail(x)[i] = y[i]
  BY <1>4, <1>5
<1>7. Tail(x) = y
  BY <1>3, <1>5, <1>6, SeqEqual
<1> QED BY <1>2, <1>4, <1>5, <1>7

\* What a coroutine comes to is scripted, or was there, or is fresh.
LEMMA NextHead ==
  ASSUME GateInv, RestScripted, [Next]_vars, NEW v \in Worker, todo'[v] # <<>>
  PROVE  /\ Tail(todo'[v]) \in Seq(ScriptOp)
         /\ \/ todo'[v] = todo[v]
            \/ Head(todo'[v]) \in ScriptOp
            \/ /\ UNCHANGED <<row, queue>>
               /\ \/ /\ Head(todo'[v]) \in WriteOp
                     /\ row[Head(todo'[v]).p].state = Head(todo'[v]).from
                  \/ /\ Head(todo'[v]) \in InsertOp
                     /\ \A j \in Waiting : queue[j].p # Head(todo'[v]).p
<1>1. CASE todo'[v] = todo[v]
  BY <1>1 DEF RestScripted, Idle, Rest
<1>2. CASE todo'[v] # todo[v]
  <2>1. PICK w \in Worker : GoesOn(w)
    BY <1>2, SomeGoesOn
  <2>2. w = v /\ \A x : Goto(w, x) => todo'[v] = x
    BY <1>2, <2>1 DEF GoesOn, Goto, GateInv, TodoLogged
  <2>3. CASE \E y \in Seq(ScriptOp) : Goto(w, y)
    <3>1. todo'[v] \in Seq(ScriptOp)
      BY <2>2, <2>3
    <3> HIDE DEF ScriptOp
    <3> QED BY <3>1, HeadTailProperties
  <2>4. \A o \in WriteOp \cup InsertOp, y \in Seq(ScriptOp) :
          todo'[v] = <<o>> \o y =>
            Head(todo'[v]) = o /\ Tail(todo'[v]) = y
    BY OneThenScript DEF Op
  <2> QED BY <2>1, <2>2, <2>3, <2>4 DEF GoesOn
<1> QED BY <1>1, <1>2

\* A scripted operation is neither an insert of a queue entry nor a write.
LEMMA ScriptKinds ==
  \A o \in ScriptOp : o.op \notin {"write", "queue_insert"}
BY DEF ScriptOp, RowOp, ReadOp, EnterOp, QueueOp, EntryOp, PullOp, MarkOp,
       ApptOp, CallOp

\* What follows the next operation is scripted, whoever moves.
LEMMA ScriptedStep ==
  GateInv /\ RestScripted /\ [Next]_vars => RestScripted'
<1> SUFFICES ASSUME GateInv, RestScripted, [Next]_vars,
                    NEW v \in Worker, todo'[v] # <<>>
             PROVE  Tail(todo'[v]) \in Seq(ScriptOp)
  BY DEF RestScripted, Idle, Rest
<1> QED BY NextHead

\* While upserts of one pipeline do not overlap an insert finds none waiting.
LEMMA InsertStep ==
  GateInv /\ RestScripted /\ InsertFindsNone /\ OneUpsert /\ [Next]_vars
    => InsertFindsNone'
<1> SUFFICES ASSUME GateInv, RestScripted, InsertFindsNone, OneUpsert,
                    [Next]_vars, NEW v \in Worker, At(v, "queue_insert")',
                    NEW j \in Waiting'
             PROVE  queue'[j].p # Head(todo'[v]).p
  BY DEF InsertFindsNone
<1>1. todo'[v] # <<>> /\ Head(todo'[v]).op = "queue_insert"
  BY DEF At
<1>2. CASE todo'[v] = todo[v]
  <2>1. At(v, "queue_insert")
    BY <1>1, <1>2 DEF At
  <2>2. CASE j \in Waiting /\ queue'[j].p = queue[j].p
    BY <1>2, <2>1, <2>2 DEF InsertFindsNone
  <2>3. ASSUME NEW w \in Worker, QueueInsert(w),
               queue'[j].p = Head(todo[w]).p
        PROVE  Head(todo[w]).p # Head(todo[v]).p
    <3>1. w # v
      <4> SUFFICES ASSUME w = v PROVE FALSE
        OBVIOUS
      <4>1. todo'[v] = Tail(todo[v]) /\ todo[v] # <<>>
        BY <2>3 DEF QueueInsert, At, Goto, Rest, GateInv, TodoLogged
      <4>2. todo'[v] \in Seq(ScriptOp)
        BY <4>1 DEF RestScripted, Idle, Rest
      <4>3. Head(todo'[v]) \in ScriptOp
        <5> HIDE DEF ScriptOp
        <5> QED BY <1>1, <4>2, HeadTailProperties
      <4> QED BY <1>1, <4>3, ScriptKinds
    <3> QED BY <2>1, <2>3, <3>1 DEF QueueInsert, OneUpsert
  <2> QED BY <1>2, <2>2, <2>3, WaitingStays
<1>3. CASE todo'[v] # todo[v]
  <2>1. /\ UNCHANGED queue
        /\ \A i \in Waiting : queue[i].p # Head(todo'[v]).p
    BY <1>1, <1>3, NextHead, ScriptKinds DEF WriteOp
  <2> QED BY <2>1 DEF Waiting
<1> QED BY <1>2, <1>3
\* While transitions of one pipeline do not overlap a write finds the state
\* that was read.
LEMMA WriteStep ==
  GateInv /\ RestScripted /\ WriteFindsRead /\ OneTransition /\ [Next]_vars
    => WriteFindsRead'
<1> SUFFICES ASSUME GateInv, RestScripted, WriteFindsRead, OneTransition,
                    [Next]_vars, NEW v \in Worker, At(v, "write")'
             PROVE  row'[Head(todo'[v]).p].state = Head(todo'[v]).from
  BY DEF WriteFindsRead
<1>1. todo'[v] # <<>> /\ Head(todo'[v]).op = "write"
  BY DEF At
<1>2. CASE todo'[v] = todo[v]
  <2> DEFINE o == Head(todo[v])
  <2>1. At(v, "write") /\ row[o.p].state = o.from
    BY <1>1, <1>2 DEF At, WriteFindsRead
  <2>2. o \in WriteOp
    BY <2>1, Pending, Shapes DEF GateInv
  <2>3. o.p \in Pipeline /\ Exists(o.p)
    BY <2>1, <2>2 DEF WriteOp, State, Exists
  <2>4. CASE UNCHANGED row
    BY <1>2, <2>1, <2>4
  <2>5. ASSUME NEW w \in Worker, InsertPipeline(w)
        PROVE  row'[o.p] = row[o.p]
    <3>1. PICK p : p = Head(todo[w]).p
      OBVIOUS
    <3>2. UNCHANGED row \/ /\ ~Exists(p)
                           /\ row' = [row EXCEPT ![p] =
                                        [state |-> "EMAIL_RECEIVED",
                                         slot  |-> NoSlot]]
      BY <2>5, <3>1 DEF InsertPipeline
    <3> HIDE DEF o
    <3> QED BY <2>3, <3>2 DEF GateInv, TablesOK
  <2>6. ASSUME NEW w \in Worker, WriteState(w)
        PROVE  row'[o.p] = row[o.p]
    <3>1. w # v
      <4> SUFFICES ASSUME w = v PROVE FALSE
        OBVIOUS
      <4>1. PICK y \in Seq(ScriptOp) : todo'[v] = y
        BY <2>6, OthersGoOn DEF Goto, GateInv, TodoLogged
      <4>2. Head(todo'[v]) \in ScriptOp
        <5> HIDE DEF ScriptOp
        <5> QED BY <1>1, <4>1, HeadTailProperties
      <4> QED BY <1>1, <4>2, ScriptKinds
    <3>2. Head(todo[w]).p # o.p
      BY <2>1, <2>6, <3>1 DEF WriteState, OneTransition
    <3>3. PICK r : row' = [row EXCEPT ![Head(todo[w]).p] = r]
      BY <2>6 DEF WriteState
    <3> HIDE DEF o
    <3> QED BY <2>3, <3>2, <3>3 DEF GateInv, TablesOK
  <2> QED BY <1>2, <2>1, <2>4, <2>5, <2>6, RowStays
<1>3. CASE todo'[v] # todo[v]
  BY <1>1, <1>3, NextHead, ScriptKinds DEF InsertOp
<1> QED BY <1>2, <1>3

\* Nothing is pending at the start.
LEMMA RaceInit == Init => RestScripted /\ InsertFindsNone /\ WriteFindsRead
BY DEF Init, RestScripted, InsertFindsNone, WriteFindsRead, At, Idle

\* However many handlers interleave, and whatever fails or repeats, a
\* pipeline waits in the queue once as long as no two coroutines are between
\* the SELECT and the INSERT of db_queue_upsert about it: that race is the
\* one cause of a second entry.
THEOREM QueuedOnce == Spec => TwiceOnlyByRace
<1>1. InsertFindsNone /\ OneWaitingEntry /\ GateInv /\ [Next]_vars
        => OneWaitingEntry'
  <2> SUFFICES ASSUME InsertFindsNone, OneWaitingEntry, GateInv, [Next]_vars,
                      NEW i \in Waiting', NEW j \in Waiting',
                      queue'[i].p = queue'[j].p
               PROVE  i = j
    BY DEF OneWaitingEntry
  <2>1. CASE /\ i \in Waiting /\ queue'[i].p = queue[i].p
             /\ j \in Waiting /\ queue'[j].p = queue[j].p
    BY <2>1 DEF OneWaitingEntry
  <2>2. ASSUME NEW w \in Worker, QueueInsert(w),
               NEW k \in Waiting', k = Len(queue) + 1,
               queue'[k].p = Head(todo[w]).p,
               NEW l \in Waiting, queue'[l].p = queue[l].p
        PROVE  queue'[k].p # queue'[l].p
    BY <2>2 DEF QueueInsert, InsertFindsNone
  <2> QED BY <2>1, <2>2, WaitingStays
<1>2. Init => OneWaitingEntry
  BY DEF Init, OneWaitingEntry, Waiting
<1> QED BY <1>1, <1>2, Invariant, RaceInit, ScriptedStep, InsertStep, PTL
        DEF Spec, TwiceOnlyByRace

\* However many handlers interleave, and whatever fails or repeats, every
\* move of every pipeline is one the table has as long as no two coroutines
\* are between the SELECT and the UPDATE of transition() about one pipeline:
\* that race is the one cause of an illegal move.
THEOREM MovesAreLegal == Spec /\ []OneTransition => LegalSteps
<1> DEFINE
      A == \A p \in Pipeline :
             row'[p].state # row[p].state =>
               \/ row[p].state = "none" /\ row'[p].state = "EMAIL_RECEIVED"
               \/ row'[p].state \in VALID_TRANSITIONS(row[p].state)
<1>1. ASSUME GateInv, WriteFindsRead, [Next]_vars PROVE A
  <2>1. CASE UNCHANGED row
    BY <2>1
  <2>2. ASSUME NEW w \in Worker, InsertPipeline(w), row' # row PROVE A
    <3>1. PICK p : p = Head(todo[w]).p
      OBVIOUS
    <3>2. /\ ~Exists(p)
          /\ row' = [row EXCEPT ![p] = [state |-> "EMAIL_RECEIVED",
                                        slot  |-> NoSlot]]
      BY <2>2, <3>1 DEF InsertPipeline
    <3> QED BY <1>1, <3>2 DEF Exists, GateInv, TablesOK
  <2>3. ASSUME NEW w \in Worker, WriteState(w) PROVE A
    <3>1. PICK o \in WriteOp : o = Head(todo[w])
      BY <1>1, <2>3, Pending, Shapes DEF WriteState, GateInv
    <3>2. o.to \in VALID_TRANSITIONS(row[o.p].state)
      BY <1>1, <2>3, <3>1 DEF WriteOp, WriteState, WriteFindsRead
    <3>3. PICK slot : row' = [row EXCEPT ![o.p] = [state |-> o.to,
                                                   slot  |-> slot]]
      BY <2>3, <3>1 DEF WriteState
    <3> QED BY <1>1, <3>2, <3>3 DEF GateInv, TablesOK
  <2> QED BY <1>1, <2>1, <2>2, <2>3, RowStays
<1> HIDE DEF A
<1>2. Spec /\ []OneTransition => [][A]_vars
  BY <1>1, Invariant, RaceInit, ScriptedStep, WriteStep, PTL DEF Spec
<1> QED BY <1>2 DEF LegalSteps, A
=====
