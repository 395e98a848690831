----------------------------- MODULE Orchestrator -----------------------------
(***************************************************************************)
(* The orchestrator: StateMachine, the /tasks endpoint, the MCP tools it   *)
(* calls, and what they keep in PostgreSQL and Redis.                      *)
(*                                                                         *)
(* FastAPI runs every POST /tasks as a coroutine of one process, so the    *)
(* handlers of several tasks interleave at their awaits.  todo[w] holds    *)
(* what the coroutine w still has to await; one action below is one        *)
(* awaited call: a statement or transaction on PostgreSQL, a Redis         *)
(* command, or an A2A request.                                             *)
(***************************************************************************)
EXTENDS OrchestratorTasks, FiniteSets

CONSTANTS Worker,    \* the task coroutines that can be in flight at once
          Task,      \* the tasks the other agents send
          Serial,    \* TRUE: a task arrives only when every other coroutine
                     \* is idle or waits for the response to its dispatch
          Faults,    \* what can go wrong
          MaxQueue,  \* bound: rows of priority_queue
          MaxAppts   \* bound: rows of appointment_history

ASSUME TaskAssumption   == Task \subseteq AnyTask
ASSUME SerialAssumption == Serial \in BOOLEAN
ASSUME FaultsAssumption ==
  Faults \subseteq {"io", "unreachable", "crash", "expiry"}
ASSUME BoundsAssumption == MaxQueue \in Nat /\ MaxAppts \in Nat

VARIABLES
  row,      \* pipeline: per row the state and the proposed slot
  queue,    \* priority_queue: entries in the order they entered
  appts,    \* appointment_history
  audit,    \* audit_log rows written with a transition
  dropped,  \* dropped_emails
  timers,   \* Redis: the timer keys that exist
  dlq,      \* Redis: the dead letter list, as the set of its requests
  asked,    \* the requests that reached an agent
  todo      \* per coroutine, the operations still to be awaited

tables == <<row, queue, appts, audit, dropped>>
vars   == <<row, queue, appts, audit, dropped, timers, dlq, asked, todo>>

NoRow == [state |-> "none", slot |-> NoSlot]
Row   == [state : State, slot : Slot \cup {NoSlot}]
Entry == [p : Pipeline, score : Score, status : {"waiting", "invited"}]
Appointment == [id : Nat \ {0}, p : Pipeline, slot : Slot \cup {NoSlot}]
AuditRow == [p : Pipeline, from : State, to : State]
Request  == [agent : Agent, p : Pipeline, slot : Slot \cup {NoSlot}]

TypeOK ==
  /\ row \in [Pipeline -> Row \cup {NoRow}]
  /\ queue \in Seq(Entry)
  /\ appts \subseteq Appointment
  /\ audit \subseteq AuditRow
  /\ dropped \subseteq Pipeline
  /\ timers \subseteq TimerKind \X Pipeline
  /\ dlq \subseteq Request
  /\ asked \subseteq Request
  /\ todo \in [Worker -> Seq(Op)]

Init ==
  /\ row = [p \in Pipeline |-> NoRow]
  /\ queue = <<>>
  /\ appts = {}
  /\ audit = {}
  /\ dropped = {}
  /\ timers = {}
  /\ dlq = {}
  /\ asked = {}
  /\ todo = [w \in Worker |-> <<>>]

Exists(p) == row[p].state # "none"

\* The entries with status 'waiting'.
Waiting == {i \in DOMAIN queue : queue[i].status = "waiting"}

\* Coroutine w awaits an operation of this kind next.
At(w, kind) == todo[w] # <<>> /\ Head(todo[w]).op = kind

\* w goes on with the operations ops; raising an exception ends it.
Goto(w, ops) == todo' = [todo EXCEPT ![w] = ops]
Rest(w)      == Tail(todo[w])
Raise(w)     == Goto(w, <<>>)

---------------------------------------------------------------------------
(* Receiving a task *)

\* An agent reports on p only once it was asked about p, but then it may
\* report again (a retry after a lost response, a second click, the next
\* poll) and differently.
MaySend(t) ==
  \/ Sender(t) = "email_watcher"
  \/ \E r \in asked : r.agent = Sender(t) /\ r.p = t.p

\* Coroutines that may still insert a queue entry.
Enqueuing ==
  {w \in Worker : \E i \in DOMAIN todo[w] :
                    todo[w][i].op \in {"queue_select", "queue_insert"}}

WithinBounds(t) ==
  /\ t.type = "org.scored" =>
       \/ Len(queue) + Cardinality(Enqueuing) < MaxQueue
       \/ Serial /\ \E i \in Waiting : queue[i].p = t.p
  /\ t.type = "rsvp.outcome" => Cardinality(appts) < MaxAppts

Idle(w)   == todo[w] = <<>>
Parked(w) == Idle(w) \/ At(w, "ack")

Receive(w, t) ==
  /\ Idle(w)
  /\ MaySend(t) /\ WithinBounds(t)
  /\ Serial => \A v \in Worker : Parked(v)
  /\ Goto(w, Handler(t))
  /\ UNCHANGED <<tables, timers, dlq, asked>>

---------------------------------------------------------------------------
(* create_pipeline *)

LookupEmail(w) ==
  /\ At(w, "create")
  /\ LET p == Head(todo[w]).p
     IN  Goto(w, IF Exists(p) THEN Rest(w)
                 ELSE <<[op |-> "insert", p |-> p]>> \o Rest(w))
  /\ UNCHANGED <<tables, timers, dlq, asked>>

\* email_id is UNIQUE: the insert of a coroutine that lost the race raises.
InsertPipeline(w) ==
  /\ At(w, "insert")
  /\ LET p == Head(todo[w]).p
     IN  IF Exists(p)
         THEN Raise(w) /\ UNCHANGED row
         ELSE /\ row' = [row EXCEPT ![p] = [state |-> "EMAIL_RECEIVED",
                                            slot  |-> NoSlot]]
              /\ Goto(w, Rest(w))
  /\ UNCHANGED <<queue, appts, audit, dropped, timers, dlq, asked>>

ReadForResume(w) ==
  /\ At(w, "resume")
  /\ LET p == Head(todo[w]).p
     IN  Goto(w, Resume(p, row[p].state))
  /\ UNCHANGED <<tables, timers, dlq, asked>>

---------------------------------------------------------------------------
(* StateMachine.transition *)

\* Mutant: the row must exist, and any state may follow any.
ReadUnvalidated(w) ==
  /\ At(w, "read")
  /\ LET o == Head(todo[w])
     IN  IF Exists(o.p)
         THEN Goto(w, <<[op |-> "write", p |-> o.p,
                         from |-> row[o.p].state,
                         to |-> o.to, slot |-> o.slot]>> \o Rest(w))
         ELSE Raise(w)
  /\ UNCHANGED <<tables, timers, dlq, asked>>

\* The row is read in one statement and validated in memory ...
ReadState(w) ==
  /\ At(w, "read")
  /\ LET o == Head(todo[w])
         s == row[o.p].state
     IN  IF Exists(o.p) /\ o.to \in VALID_TRANSITIONS(s)
         THEN Goto(w, <<[op |-> "write", p |-> o.p, from |-> s,
                         to |-> o.to, slot |-> o.slot]>> \o Rest(w))
         ELSE Raise(w)
  /\ UNCHANGED <<tables, timers, dlq, asked>>

\* What transition() still awaits after the commit.
OnEntry(p, s) ==
  (IF s \in STATE_TO_CHANNEL
   THEN <<[op |-> "publish", p |-> p, to |-> s]>> ELSE <<>>)
  \o (IF TimersSet(s) \cup TimersCancelled(s) # {}
      THEN <<[op |-> "timers", p |-> p, to |-> s]>> ELSE <<>>)

\* ... and written in another: UPDATE ... WHERE id = $1, with no test of
\* the state that was validated.  from_state of the audit row comes from
\* the row the UPDATE returns, which holds the new state already.
WriteState(w) ==
  /\ At(w, "write")
  /\ LET o == Head(todo[w])
     IN  /\ row' = [row EXCEPT
                      ![o.p] = [state |-> o.to,
                                slot  |-> IF o.slot = NoSlot
                                          THEN row[o.p].slot ELSE o.slot]]
         /\ audit' = audit \cup {[p |-> o.p, from |-> row'[o.p].state,
                                  to |-> o.to]}
         /\ Goto(w, OnEntry(o.p, o.to) \o Rest(w))
  /\ UNCHANGED <<queue, appts, dropped, timers, dlq, asked>>

Publish(w) ==
  /\ At(w, "publish")
  /\ Goto(w, Rest(w))
  /\ UNCHANGED <<tables, timers, dlq, asked>>

HandleTimers(w) ==
  /\ At(w, "timers")
  /\ LET o == Head(todo[w])
     IN  timers' = (timers \cup (TimersSet(o.to) \X {o.p}))
                     \ (TimersCancelled(o.to) \X {o.p})
  /\ Goto(w, Rest(w))
  /\ UNCHANGED <<tables, dlq, asked>>

---------------------------------------------------------------------------
(* priority_queue *)

\* Mutant: the SELECT never finds the entry.
SelectBlind(w) ==
  /\ At(w, "queue_select")
  /\ Goto(w, <<[op |-> "queue_insert", p |-> Head(todo[w]).p,
                score |-> Head(todo[w]).score]>> \o Rest(w))
  /\ UNCHANGED <<tables, timers, dlq, asked>>

\* First half of db_queue_upsert: SELECT id of a waiting entry of p.
QueueSelect(w) ==
  /\ At(w, "queue_select")
  /\ LET o    == Head(todo[w])
         mine == {i \in Waiting : queue[i].p = o.p}
     IN  \/ /\ mine = {}
            /\ Goto(w, <<[op |-> "queue_insert", p |-> o.p,
                          score |-> o.score]>> \o Rest(w))
         \/ \E i \in mine :
              Goto(w, <<[op |-> "queue_update", entry |-> i,
                         score |-> o.score]>> \o Rest(w))
  /\ UNCHANGED <<tables, timers, dlq, asked>>

QueueInsert(w) ==
  /\ At(w, "queue_insert")
  /\ queue' = Append(queue, [p      |-> Head(todo[w]).p,
                             score  |-> Head(todo[w]).score,
                             status |-> "waiting"])
  /\ Goto(w, Rest(w))
  /\ UNCHANGED <<row, appts, audit, dropped, timers, dlq, asked>>

QueueUpdate(w) ==
  /\ At(w, "queue_update")
  /\ queue' = [queue EXCEPT ![Head(todo[w]).entry].score = Head(todo[w]).score]
  /\ Goto(w, Rest(w))
  /\ UNCHANGED <<row, appts, audit, dropped, timers, dlq, asked>>

\* ORDER BY priority_score DESC, entered_queue_at ASC LIMIT 1
IsTop(i) ==
  /\ i \in Waiting
  /\ \A j \in Waiting : \/ queue[i].score > queue[j].score
                        \/ queue[i].score = queue[j].score /\ i <= j

GetTopQueue(w) ==
  /\ At(w, "top")
  /\ \/ Waiting = {} /\ Goto(w, Rest(w))
     \/ \E i \in Waiting :
          /\ IsTop(i)
          /\ Goto(w, PullNext(i, queue[i].p, Head(todo[w]).owner) \o Rest(w))
  /\ UNCHANGED <<tables, timers, dlq, asked>>

MarkInvited(w) ==
  /\ At(w, "mark")
  /\ queue' = [queue EXCEPT ![Head(todo[w]).entry].status = "invited"]
  /\ Goto(w, Rest(w))
  /\ UNCHANGED <<row, appts, audit, dropped, timers, dlq, asked>>

---------------------------------------------------------------------------
(* appointment_history and dropped_emails *)

ReadBooked(w) ==
  /\ At(w, "book")
  /\ LET p == Head(todo[w]).p
     IN  Goto(w, IF Exists(p)
                 THEN <<[op |-> "appoint", p |-> p,
                         slot |-> row[p].slot]>> \o Rest(w)
                 ELSE Rest(w))
  /\ UNCHANGED <<tables, timers, dlq, asked>>

WriteAppointment(w) ==
  /\ At(w, "appoint")
  /\ appts' = appts \cup {[id   |-> Cardinality(appts) + 1,
                           p    |-> Head(todo[w]).p,
                           slot |-> Head(todo[w]).slot]}
  /\ Goto(w, Rest(w))
  /\ UNCHANGED <<row, queue, audit, dropped, timers, dlq, asked>>

LogDrop(w) ==
  /\ At(w, "droplog")
  /\ dropped' = dropped \cup {Head(todo[w]).p}
  /\ Goto(w, Rest(w))
  /\ UNCHANGED <<row, queue, appts, audit, timers, dlq, asked>>

---------------------------------------------------------------------------
(* a2a_dispatch: up to three POSTs 15 s apart, see A2ADispatch *)

RequestOf(o) == [agent |-> o.agent, p |-> o.p, slot |-> o.slot]

\* A POST reaches the agent.
PostReaches(w) ==
  /\ At(w, "post")
  /\ asked' = asked \cup {RequestOf(Head(todo[w]))}
  /\ Goto(w, <<[Head(todo[w]) EXCEPT !.op = "ack"]>> \o Rest(w))
  /\ UNCHANGED <<tables, timers, dlq>>

PostAcked(w) ==
  /\ At(w, "ack")
  /\ Goto(w, Rest(w))
  /\ UNCHANGED <<tables, timers, dlq, asked>>

\* Mutant: the request is not kept.
DispatchForgotten(w) ==
  /\ "unreachable" \in Faults
  /\ At(w, "post") \/ At(w, "ack")
  /\ LET o == Head(todo[w])
     IN  Goto(w, IF o.owner = NoPipeline THEN <<>>
                 ELSE Transition(o.owner, "AGENT_UNREACHABLE"))
  /\ UNCHANGED <<tables, timers, dlq, asked>>

\* The attempts are used up, whether or not one of them reached the agent:
\* the request goes to the dead letter list, the handler is abandoned, and
\* receive_task tries to put the pipeline of the task in AGENT_UNREACHABLE.
DispatchFails(w) ==
  /\ "unreachable" \in Faults
  /\ At(w, "post") \/ At(w, "ack")
  /\ LET o == Head(todo[w])
     IN  /\ dlq' = dlq \cup {RequestOf(o)}
         /\ Goto(w, IF o.owner = NoPipeline THEN <<>>
                    ELSE Transition(o.owner, "AGENT_UNREACHABLE"))
  /\ UNCHANGED <<tables, timers, asked>>

\* An agent's dispatch of its report uses up its attempts: the report is in
\* the dead letter list too, under the pipeline the agent was asked about.
KeepReport(r) ==
  /\ "unreachable" \in Faults
  /\ dlq' = dlq \cup {r}
  /\ UNCHANGED <<tables, timers, asked, todo>>

ReportFails == \E r \in asked : KeepReport(r)

---------------------------------------------------------------------------
(* Failures *)

\* An awaited PostgreSQL or Redis call raises: the task ends in HTTP 500.
\* (A call that took effect before it raised is the action that performs
\* it, followed by this one.)  For a dispatch that failed, it is the push
\* to the dead letter list that raises.
CallRaises(w) ==
  /\ "io" \in Faults
  /\ ~Idle(w)
  /\ At(w, "post") \/ At(w, "ack") => "unreachable" \in Faults
  /\ Raise(w)
  /\ UNCHANGED <<tables, timers, dlq, asked>>

\* The process dies and is restarted: every coroutine is lost.
Crash ==
  /\ "crash" \in Faults
  /\ \E w \in Worker : ~Idle(w)
  /\ todo' = [w \in Worker |-> <<>>]
  /\ UNCHANGED <<tables, timers, dlq, asked>>

\* A key reaches its TTL.  Nothing subscribes to expired keys.
ExpireTimer ==
  /\ "expiry" \in Faults
  /\ \E k \in timers : timers' = timers \ {k}
  /\ UNCHANGED <<tables, dlq, asked, todo>>

---------------------------------------------------------------------------
\* A coroutine goes on: what the code does when nothing fails.
Step(w) ==
  \/ LookupEmail(w) \/ InsertPipeline(w) \/ ReadForResume(w)
  \/ ReadState(w) \/ WriteState(w) \/ Publish(w) \/ HandleTimers(w)
  \/ QueueSelect(w) \/ QueueInsert(w) \/ QueueUpdate(w)
  \/ GetTopQueue(w) \/ MarkInvited(w)
  \/ ReadBooked(w) \/ WriteAppointment(w) \/ LogDrop(w)
  \/ PostReaches(w) \/ PostAcked(w)

Next ==
  \/ \E w \in Worker : Step(w) \/ DispatchFails(w) \/ CallRaises(w)
  \/ \E w \in Worker, t \in Task : Receive(w, t)
  \/ ReportFails
  \/ Crash
  \/ ExpireTimer

Spec == Init /\ [][Next]_vars

---------------------------------------------------------------------------
(* Fairness: the event loop runs every coroutine on.  An agent that works   *)
(* while the POST that asks it is open, and comes to a report by every way  *)
(* through its code, reports on a pipeline that waits for it, however often *)
(* the loop was busy when it tried, or its report is in the dead letter     *)
(* list.  An agent that raises is not fair: the POST fails, as a dispatch.  *)
(* The Eligibility Agent returns without a report when there is no EIN, and *)
(* the Prioritizer's report lacks fields its handler requires: neither is   *)
(* fair, nor are the watcher, people, the charity, failures and crashes.    *)

\* The agent a pipeline in state s waits for.
Awaited(s) ==
  CASE s = "DEDUP_CHECK" -> {"dedup_guard"}
    [] s = "VERIFYING" -> {"charity_verifier"}
    [] s = "ELIGIBILITY_CHECK" -> {"eligibility"}
    [] s = "SCORING" -> {"prioritizer"}
    [] s = "FINDING_SLOT" -> {"calendar"}
    [] s \in {"PA_PENDING", "URGENT_ESCALATED_TO_PA"} -> {"pa_notification"}
    [] s = "CONFIRMATION_SENT" -> {"email_composer"}
    [] s = "RSVP_PENDING" -> {"rsvp_monitor"}
    [] OTHER -> {}

Answering == {"dedup_guard", "charity_verifier", "calendar"}

\* Agent g comes to a report on p while p waits for it, and is done with it.
Reply(g, p) ==
  /\ g \in Awaited(row[p].state)
  /\ \/ \E w \in Worker, t \in Task :
          Sender(t) = g /\ t.p = p /\ Receive(w, t)
     \/ \E r \in asked : r.agent = g /\ r.p = p /\ KeepReport(r)

Fairness ==
  /\ \A w \in Worker : WF_vars(Step(w))
  /\ \A g \in Answering, p \in Pipeline : SF_vars(Reply(g, p))

FairSpec == Spec /\ Fairness

===========================================================================
