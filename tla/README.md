# CharityAI in TLA+

CharityAI turns e-mails of charities into visits in a calendar. FastAPI
services (an orchestrator and nine agents) pass one pipeline row per e-mail
through nine gates: classify, deduplicate, verify, check the 90-day rule,
score, find a slot, ask a personal assistant (PA), confirm by e-mail, wait for
the reply. The services talk by `POST /tasks` with retries, keep their tables
in PostgreSQL and their timers, caches, registrations and dead letters in
Redis. This directory specifies the parts where order, failure and
interleaving decide whether that works, checks them with TLC, and proves the
central facts with TLAPS.

Line numbers refer to the repository; `PROJECT.json` maps every definition to
the lines it stands for.

## The parts of the system

| part | state | operations | what makes it correct |
|---|---|---|---|
| Orchestrator state machine (`agents/orchestrator/state_machine.py`, `shared/db.py`) | `pipeline`, `audit_log`, timer keys | `transition`, `create_pipeline`, `_handle_timers`, queue reads | moves follow `VALID_TRANSITIONS`; no gate is skipped; timers agree with rows |
| Orchestrator handlers (`handlers.py`, `main.py`, `mcp_tools.py`) | `priority_queue`, `appointment_history`, `dropped_emails` | eleven task handlers, `receive_task` | agents are asked only behind the gate that justifies it; a booking is recorded once; nobody is stranded |
| A2A transport (`shared/a2a_client.py`, `shared/redis_client.py`) | dead letter list | `dispatch_task`, `_post_with_retry` | done when returned, kept when failed, always ends |
| Dedup Guard | `dropped_emails` sentinels, `urgency_signals` | `process` | urgency survives a merge |
| Charity Verifier | `organizations`, org cache | `verify` | only what some source knows is verified |
| Eligibility Agent | none (reads) | `check` | 90-day window, escalation instead of a drop, an answer unless it has no EIN |
| RSVP Monitor | `rsvp:threads` in Redis, calendar events | `register_thread`, `process_thread`, poll loop | nobody is forgotten, calendar and database agree, every invitation ends |
| Email Watcher | the label UNREAD, the start of the process | `run_once`, `process_message`, classify, extract | no message is marked before it is reported or dropped; a second report has a cause; every message is read in the end |
| Prioritizer | none | `score_and_queue`, the four components | a score in 0..100 whose last clamp cuts nothing; an answer the orchestrator can read |
| Calendar Agent (`slot_finder.py`) | tentative holds | `find_and_hold` | earliest slot, free, in business hours |
| PA Notification | Slack messages, an open dialog | approval and escalation messages, button callbacks | who waits for the PA was asked; what the message shows was decided |
| Email Composer | Gmail | confirmation, rejection | mail only for the decision that was taken, and one |
| LLM routing | — | `complete` with its fallback model | part of the Email Watcher's polls |
| Audit sidecar, demo, deployment scripts | — | — | no protocol state (the sidecar inserts what it hears) |

All handlers are coroutines of one process per service: they interleave at
every `await`, and only there. Everything else that is hard comes from the
network (a POST that was handled can be repeated, or abandoned), from
processes that stop between two awaits, and from deadlines (Redis TTLs, the
24 hours of an invitation). `PROJECT.json` lists the places under `hazards`.

## The modules

    PipelineStates <- OrchestratorTasks <- Orchestrator <- OrchestratorProps
    OrchestratorProps <- MCOrchestrator
                      <- OrchestratorProofs <- OrchestratorSerialProofs
    A2ACall <= A2ADispatch <- MCA2ADispatch     (<= : refinement, <- : EXTENDS)
                           <- A2AProofs
    Payloads <- Gates,  Gates and Scoring  <- MCGates, GatesProofs
    Payloads <- Desk                       <- MCDesk, DeskProofs
    EmailWatcher                           <- MCEmailWatcher, EmailWatcherProofs
    RsvpMonitor                            <- MCRsvpMonitor, RsvpMonitorProofs
    SlotFinder                             <- MCSlotFinder, SlotFinderProofs

**PipelineStates** is the table of states, legal moves, channels and timer
rules. `MODEL_FAILURE` and the states `AGENT_UNREACHABLE` are in it as in the
code: no handler ever asks for the first, and no state allows the second.

**OrchestratorTasks** translates each handler to the sequence of operations it
awaits, since handlers are straight-line code between awaits. The two that
decide on what they read (`handle_email_classified`, `handle_rsvp_outcome`)
end in an operation that appends the rest when it has been read.

**Orchestrator** runs these sequences: `todo[w]` is what coroutine `w` still
awaits, one action executes one statement, Redis command or HTTP request.
`transition()` is two actions, `ReadState` (SELECT and validation) and
`WriteState` (UPDATE and audit row), because other coroutines run between
them. Errors (`CallRaises`), a restart (`Crash`), a dispatch that fails after
its attempts (`DispatchFails`) and an expiring timer (`ExpireTimer`) are
switched on by the constant `Faults`. A task may arrive whenever its sender
was asked about the pipeline, any number of times (`MaySend`): that covers
repeated POSTs, second clicks and later polls.

**OrchestratorProps** states what the orchestrator promises, and the inductive
invariants behind it; **OrchestratorProofs** proves what holds however handlers
interleave, **OrchestratorSerialProofs** what holds when they do not.

**A2ADispatch** is the transport in detail (attempts, timeout, sleep, answers
that arrive late, a push that fails) with agents that may answer anything or
nothing. **A2ACall** is what a caller may rely on: a request reaches the agent
or not, the call returns only after it did, or fails and is kept, or raises out
of the push that should keep it, which took effect or not. The
orchestrator's dispatch (`PostReaches`, `PostAcked`, `DispatchFails`,
`CallRaises`) takes the steps of A2ACall.

**Payloads** is the contract between the agents and the handlers: the fields
each payload model requires and the fields each agent sends. A payload that
misses one is a `ValidationError` before the handler does anything. What each
agent sends is a definition of its own, with the lines that send it; Gates and
Desk take from here which results the orchestrator can read at all.

**EmailWatcher** is gate 1: a poll of the mailbox takes the newest unread
message since the process started, asks a model and its fallback (twice), logs
a drop or reports to the orchestrator, and removes the label. The label is all
it remembers. `POST /poll` runs the same code beside the loop, so polls
interleave wherever they await; Gmail, the network and the process may fail at
each of these places. Mail may arrive for ever: when the numbers of the model
are used up, the newest is given to a new message once its first bearer is no
longer unread and in nobody's hands (`ArriveAnew`).

**Gates** follows the payloads through the Dedup Guard, the Charity Verifier,
the Eligibility Agent and the Prioritizer, for several messages of several
organizations, up to a visit (`Book`) that later checks see: where the
orchestrator model lets agents answer anything, here they compute their answer
from what they are given. Two actions of the verifier cache and store an
organization: `LookupSucceeds`, where some source knows it, and `NameBypass`,
where its name has "red cross" in it and no source is needed
(`verifier.py:189`); the history keeps them apart (`found`, `bypassed`).
`HandleEmailClassified` stands for the handler's
whole way to `DEDUP_CHECK`; the interleavings inside it are Orchestrator's
business.

**Scoring** is the arithmetic of the Prioritizer: four components and the
clamps around them, with the values of `tests/unit/test_phase4.py` as an
assumption of MCGates that TLC evaluates.

**Desk** is one pipeline between the slot and the mailed confirmation: the
orchestrator's handlers, the Slack messages with their buttons and the dialog
for a reason, and the Email Composer. A request stays in `tasks` until its
sender has the answer, so a POST can be repeated while the first is handled.
The decision of the PA is two steps (`ReadDecision`, `HandlePaDecision`), as
in `transition()`. `PADecision` is as `shared/models.py` declares it or, in
other behaviours, has the two names its users expect; without them every
approval and every mail ends in an `AttributeError` and there is little to
check.

**RsvpMonitor** is the last gate with everything it touches: registration in
two steps (row read, Redis write), a poll that works through a snapshot, the
calendar event of each invitation, the orchestrator's two handlers, a charity
that writes what it likes when it likes (a poll may find any reply, also another
than the poll before), the 24-hour limit, crash and repeated POST. The
orchestrator may be cut off between the move to `RSVP_PENDING` and the dispatch
of the registration (`HandlerCut`): no repetition of `email.sent` can finish
that, as the move is illegal then, so its POST ends in the dead letter list.
Google's client answers, refuses with an `HttpError`, which is logged and the
outcome dispatched all the same (`Decide`), or raises something else, which
leaves `process_thread` with the registration in place (`CalendarRaises`), after
the change of the event or before. It is synchronous, so reading a reply,
deciding and changing the event are one action when no await lies between them.

**SlotFinder** is the Calendar Agent: time in ticks, labels of a clock that may
change once, the free/busy window, the hold and the answer. The loop of
`_generate_candidate_slots` is a recursive function from its turns to the
labels `current` takes (`Current`, `Advance`), which keep the offset they
started with; the slots it appends are those of the turns with `IsCandidate`,
and `find_and_hold` takes the first of them that is free (`Chosen`).
`EarliestSlot` and `InHours` compare that with a definition of a slot
by its day, hour and distance from the first hour of the day. All calls to
Google are synchronous, so one search is one action; repeated POSTs, other
pipelines and the executive come between searches. A slot never goes over
midnight (`CalendarAssumption`; by default the last one ends at 17:30 at the
latest).

## What the runs check

| run | instance | properties | result |
|---|---|---|---|
| `concurrent` | 1 pipeline, 2 coroutines, the tasks from e-mail to booking and the early escalation to the PA, handlers interleave freely | `TypeOK`, `GatesPassed`, `RequestsJustified`, `AppointmentsWereBooked` | hold |
| `upsert` | 1 pipeline up to the search for a slot, 2 coroutines, errors, failing dispatches, crashes | `TwiceOnlyByRace` | holds |
| `serial` | 2 pipelines, 2 slots, repeated tasks, escalations early and late, expiring timers | `TimersMatch`, `BookedOnce`, `BookedSlotWasShown`, `NobodyStranded` | hold |
| `dispatch` | 1 pipeline up to the search for a slot, handlers one after the other, all answers of the gates however late, dispatches that fail | `NobodyStranded`, `AutomaticGatesDecide`, `LegalSteps` | hold |
| `race` | 2 coroutines, no faults | `LegalSteps` | violated |
| `invite` | 2 pipelines | `InvitedWasInvited` | violated |
| `a2a` | 2 dispatches, 2 attempts each, one without a pipeline_id | `TypeOK`, `DoneWhenReturned`, `KeptWhenFailed`, `DispatchEnds`, `ImplementsCall` | hold |
| `gates` | 2 messages, 1 or 2 organizations, lost and repeated dispatches, failed upserts, a `dedup.result` or an `org.scored` posted by hand, visits | `TypeOK`, `VerifiedWasFound`, `WindowRespected`, `UrgentNotDropped`, `StuckIsKept` | hold |
| `slots` | 2 pipelines, repeated POSTs, 2 events of up to 2 half slots, days of 4 hours, weeks of 3 days, one change of the clocks | `TypeOK`, `EarliestSlot`, `InHours`, `FreeInWindow` | hold |
| `rsvp` | 1 pipeline invited twice, the poll loop, all faults | `TypeOK`, `PendingIsWatched`, `EventFollowsWhenUncut`, `InvitationEnds` | hold |
| `watcher` | 2 messages and newer ones for ever, the loop and one posted poll, 3 failures of any kind | `TypeOK`, `ReadForAReason`, `SecondReportHasACause`, `UnreadIsHandled` | hold |
| `desk` | 1 pipeline, 2 Slack messages, 2 requests in progress, lost and repeated ones, Slack and Gmail that refuse, tasks by hand | `TypeOK`, `PendingIsAsked`, `ConfirmationIsOnItsWay`, `ApprovedIsDecided`, `MailMatchesDecision`, `SecondMailWasRepeated` | hold |

What the violated ones show:

- `race`: `transition()` validates a state it read and writes without testing
  it again. Two tasks of one pipeline, say two answers of one agent, can
  commit a move the table does not have. `GatesPassed` holds all the same:
  each of the two had its gates behind it.
- `invite`: a cancellation marks the top queue entry `invited` and then asks
  for `NEXT_IN_QUEUE_INVITED`, which only a cancelled pipeline may enter. The
  entry of a pipeline that waits its turn is used up and nobody is invited.

Several properties hold with an exception that names what the code does not
do; each exception is a departure listed below. `StuckIsKept` excepts a
pipeline without an EIN, `PendingIsAsked` a message Slack refused,
`ConfirmationIsOnItsWay` a mail that was not sent, `EventFollowsWhenUncut` a
process that was stopped between an outcome and the end of its registration,
`InvitationEnds` a calendar client that raises for ever, `UnreadIsHandled` mail
that arrives for ever and a message behind one whose report is always refused,
`VerifiedWasFound` the name that passes without a source, `AutomaticGatesDecide`
the two agents whose answer the code does not promise, `TimersMatch` a pipeline
that was escalated, `SecondMailWasRepeated` a repeated request, `TwiceOnlyByRace`
two upserts that overlapped. An exception is the case the property does not
answer for.

### Bounds, and why they are enough

Pipelines share only the queue and the timers, and interact through the queue
alone; two show every interaction of the handlers, while one with two coroutines
shows the races inside `transition()` and `db_queue_upsert`. Errors, failed
dispatches and crashes meet two coroutines in `upsert`; the theorems of
OrchestratorProofs have them everywhere. `MaxQueue` and `MaxAppts` stop new
entries, never the handling of those there are; they allow one more than a
pipeline needs wherever a duplicate could appear (`MaxQueue` is 2 in the runs
about second entries). Cancellations interleaved with other handlers are left to
the theorems; `serial` has them one after the other. One score is enough where
the queue order does not matter to the property. `a2a` has two attempts (a first
and a last one; the code has three): theorem `DispatchImplementsCall` covers any
number. `gates` has two dispatches in progress before one more is repeated or
posted (`MaxTasks`), so the chain of each message and a stale repetition beside
it; one request is lost (`MaxLost`), besides any number that are refused. A
`dedup.result` by hand exists because without it no EIN reaches the eligibility
check at all, and an `org.scored` because the Prioritizer's is refused; they are
what repaired payloads, or the manual requeue of corrected tasks, look like. The
theorems of GatesProofs need none of these bounds. `watcher` has two messages,
as a poll only tells newer from older ones, the newer of which stands for all
that follow, two coroutines, as more of them only list the same message again,
and three failures: one to lose an answer, one to restart, one more at the
second report. `desk` has two Slack messages (a repeated one, or two of
different kinds are the hazard), two requests in progress and one given up.
`slots` lets the search start at every half slot of a working day and in the day
before the weekend, so that windows begin before, in and after the working hours
and contain a weekend, in hours of one slot (two ticks); two events suffice to
fill a window, as one of two halves that starts inside a slot takes two slots.
Its `MaxNow`, `MaxEvents` and `MaxLength` stop the world, not the agent. `rsvp`
has each fault once, Gmail unreachable and the calendar's client raising any
number of times, and two invitations: the hazards are what one poll does to the
next, and one invitation to the next.

Runs without `CHECK_DEADLOCK` are of systems that stop: every dispatch ended,
every visit decided.

### Fairness

- `Orchestrator` (run `dispatch`): the event loop runs each coroutine on (WF).
  The Dedup Guard, the Charity Verifier and the Calendar Agent come to a report
  on every way through their code, while the POST that asks them is open: they
  report in the end, however often the orchestrator was busy when they tried
  (SF), or their dispatch is used up and the report is in the dead letter list
  (`ReportFails`). The Eligibility Agent, which returns without an answer when
  there is no EIN (`eligibility_logic.py:61`), and the Prioritizer, whose report
  the handler refuses (`scorer.py:236`, `models.py:191`), are assumed nothing of:
  `AutomaticGatesDecide` lets a pipeline rest with them. So are the watcher,
  people, the charity, failures and crashes.
- `A2ADispatch`: WF for the caller alone. httpx times out and tenacity wakes
  up by themselves; an agent may hang for ever.
- `EmailWatcher`: the event loop runs `poll_loop` on and every call it makes
  ends by its timeout (WF of the loop's steps). The posted poll, arrivals and
  failures owe nothing: mail may stop or come for ever, and the property says
  which; failures are finitely many by their bound, and it does not depend on
  when they stop.
- `Gates`, `Desk`, `SlotFinder`: none, they have safety properties only.
- `RsvpMonitor`: the poll loop goes on (WF), dispatches end, by
  `DispatchEnds` (WF), and hours pass (WF). Charity, Gmail and the model owe
  nothing.

`RsvpMonitor` assumes two orders of time: an invitation gets 24 hours old, and
a new slot with a new approval takes, longer than the minute a dispatch can
need; and a poll looks at a registration before it is 24 hours old unless the
process was down or its loop died.

## What is proved

Every invariant and every action property that a run finds to hold is also a
theorem, for all values of the constants, the bounds of the runs included. The
assumptions are those named in the modules, which say what the constants are,
and, where a theorem needs one, a hypothesis it states. TLC found each
inductive invariant to hold on its component's run before it was proved.

`OrchestratorProofs`, for every set of pipelines, coroutines, tasks, slots,
scores and faults, whatever interleaves:

- `Invariant`: `Spec => []GateInv`. `GatesPassed` says that each audit row has
  the rows of all earlier gates beside it. It is not inductive: `WriteState`
  adds a row on the strength of a state read by an earlier step. `GateInv`
  adds what the step needs: the state in every row, and the state each pending
  write was validated against (`LoggedOp`), is in the audit log itself. Then a
  legal move raises the gate by at most one over that of a logged state, and
  the log already has the rest. The proof has a lemma for the moves of the
  table, one for the sequences the handlers consist of, and a step per action.
- `GatesAlwaysPassed` (`GatesPassed`), `TypeCorrect` (`TypeOK`).
- `RequestsAlwaysJustified` (`RequestsJustified`), `VisitsWereBooked`
  (`AppointmentsWereBooked`), from `RequestInv`. What justifies a request is a
  move: it is in the audit log, or the same coroutine still makes it before
  (`InOrder`). This is a fact about the handlers as sequences, closed under
  concatenation and under taking the first operation away, so the handlers are
  looked at once and the actions need only the head of a sequence. A fault ends
  a handler and never skips an operation of it, so faults change nothing.
- `QueuedOnce` (`TwiceOnlyByRace`) and `MovesAreLegal` (`LegalSteps`), which
  name the race instead of excluding it. With `[]OneUpsert` (no two coroutines
  between the SELECT and the INSERT of `db_queue_upsert` about one pipeline) no
  pipeline waits twice, and with `[]OneTransition` (the same of the SELECT and
  the UPDATE of `transition()`) every move is legal, whatever else interleaves,
  fails or repeats. The run `race` shows
  what happens without the second.

`OrchestratorSerialProofs`, when a task arrives only while no handler runs
(`Serial`). FastAPI does not promise that: these are statements about the code
of the handlers, what each leaves behind when it is let finish. When handlers
interleave inside `transition()` (run `race`) most of this fails.

- `SerialInvariant`: `Spec => []SerialInv`. One half is the grammar of what a
  coroutine has left (`WellFormed`: what may follow an operation, and what may
  come last); one half ties the next operation to the tables (`Linked`: a write
  finds the state it was validated against, an insert no waiting entry of its
  pipeline, an appointment a booked pipeline without one). `OneBusy` says that
  whoever else runs touches no table any more.
- `VisitsBookedOnce` (`BookedOnce`, from `BookInv`) and `NobodyIsStranded`
  (`NobodyStranded`, from `StrandInv`), without `io` and `crash`: these lose
  the rest of a handler, its booking or its dispatch included, which is what
  the hazards at `handlers.py:253` and `handlers.py:220` are.
- `TimersAlwaysMatch` (`TimersMatch`, from `TimerInv`), likewise: a key that
  is left belongs to a pipeline that was escalated, as `_handle_timers` has no
  rule for the move from a pending approval to the escalation.
- `SlotsWereShown` (`BookedSlotWasShown`, from `ShowInv`), with no fault but
  expiry: the message about a slot that was never sent was shown to nobody.

  Each of the four says what holds until a pending operation is done
  (`Upcoming`); a common lemma (`LossKeeps`) covers the steps that only take an
  operation away.

`A2AProofs`, for any dispatches and any number of attempts:

- `DispatchImplementsCall`: `Spec => ImplementsCall`. The mapping forgets
  where inside its attempts a dispatch is. Its invariant says which dispatches
  have a POST or an answer under way and that these were received (`reached`),
  which is what makes `Return` a step of A2ACall; every other step changes the
  phase as A2ACall does or not at all.
- `DeliveredAtLeastOnce` (`DoneWhenReturned`), `FailedIsKept`
  (`KeptWhenFailed`), `TypeCorrect`, from `DeliveryInv`. That the work is done
  at most once per attempt is not inductive: the count may only include the
  present POST after it was sent (`Sent`), an attempt that sleeps must leave
  one to go, and an answer under way must be to work that was done.

`GatesProofs`, for any messages, organizations and requests in progress, lost
or posted by hand:

- `BehindWasFound`, `WindowHolds`, `UrgentIsKept`, `NobodyIsForgotten` and
  `TypeCorrect`. The invariant `GatesInv` adds to the five properties what a
  task in progress may say about its message (`TaskTrue`): a positive answer of
  the verifier names an EIN that was found or let through by its name, a check
  exists only behind the verifier and with the EIN of the row, its answer
  "eligible" is about a message that was not in `seen`, "ineligible" about one
  that is not urgent. There is one lemma for the moves of a row, one for the
  answers of an agent, one for requests that vanish, and every action is an
  instance of one of them but for the two that write an EIN.
- About Scoring: `ClampCutsNothing`, the sum of the four components is between
  0 and 100 for every answer of the models, so two requests never become equal
  by the last clamp; `WaitingNeverCosts`, the bonus grows with the days in the
  queue and ends at 25.

`DeskProofs`, for any number of Slack messages and requests: `PendingWasAsked`,
`ConfirmationIsComing`, `ApprovedWasDecided`, `MailFollowsDecision`,
`SecondMailHasACause` and `TypeCorrect`. `DeskInv` adds that a click comes from
a message that was sent (`RequestsTrue`), that an approval is asked for only
from `PA_PENDING` on (`Asked`), that, unless two decisions overlapped, at most
one is read at a time and who asks the composer has the decision in the row
(`OneDecision`), and that the composer is asked once unless something was
repeated (`OneMail`).

`EmailWatcherProofs`, for any number of messages, pollers and failures:
`MailIsReadForAReason` (`ReadForAReason`), `SecondReportIsExplained`
(`SecondReportHasACause`) and `TypeCorrect`. `PollsJustified` says that the
decision is on record before the label is touched; `ReportedOnce` that a
message that has not slipped (an error, a restart, a second poll that listed
it) is in the hands of one poll, which has not reported it before.

`RsvpMonitorProofs`, for any number of pipelines and invitations and all faults:
`TypeCorrect`, and, when one poll runs at a time (`OnePoller`: the loop without
`POST /poll` beside it), `NobodyIsLeftOut` (`PendingIsWatched`) and
`CalendarFollows` (`EventFollowsWhenUncut`). The invariant `RsvpInv` says who
may know of which invitation (`KnownTrue`: the list, a registration half done,
the snapshot of a poll), that a poll works on registered pipelines (`WorkTrue`),
and that one which is about to end a watch has told the orchestrator or the dead
letter list (`OutcomeIsKept`); with a second poll `WorkTrue` is false, as one
ends the watch the other works on (the hazard at `rsvp_monitor/main.py:104`).
`HandlerOpen` says that a registration under way has the `email.sent` it came
from beside it, open or in the dead letter list, which is what remains when the
handler between them is cut off. `UncutTrue` is what holds of the calendar until
the first restart or repeated call.

`SlotFinderProofs`, for every calendar, search window, duration, business day
and weekend: `HoldsOverlapNothing` (`FreeInWindow`), `HoldIsEarliest`
(`EarliestSlot`), `TypeCorrect` and, when the business day is a whole number of
slots (`WholeSlots`, true of the defaults), `HoldsInBusinessHours` (`InHours`).
Without `WholeSlots` a slot may end after closing, as the code compares only
the hour of its end (`slot_finder.py:109`). The labels of the loop exist for
every turn, lie on the grid of the day, grow, and pass over no slot
(`NothingBetween`): each by the least turn at which it would fail, so that no
induction rule is needed. Hence every free slot of the window is the one of
some turn (`FreeSlotIsATurn`), and the first free turn is the earliest.

Model-checked only: liveness (`DispatchEnds`, `AutomaticGatesDecide`,
`InvitationEnds`, `UnreadIsHandled`), which is outside the prover, as is
whatever would need `ENABLED`. What the runs `race` and `invite` refute is
refuted there. With several polls at once, the properties of RsvpMonitor but
`TypeOK` are neither claimed nor checked.

## Not modelled, and known departures

- Values on the way to PostgreSQL: `create_pipeline` and `db_write_appointment`
  pass times as strings where asyncpg wants datetimes; in the models this is
  one of the errors an await may raise.
- The foreign key to `organizations` is in Gates, not in Orchestrator.
  `dropped_emails` is a set: the drop log has no key, so repeats add rows that
  nothing reads.
- A late escalation (`PA_PENDING` to `URGENT_ESCALATED_TO_PA`) keeps its
  `pa_timeout` key: `_handle_timers` has no rule for that move. `TimersMatch`
  excepts it.
- `create_pipeline` inserts the organization in a statement of its own before
  the pipeline; Orchestrator leaves that INSERT out, as it touches none of its
  tables, and Gates has it. A `dedup.result` without a `pipeline_id` does nothing
  (`handlers.py:86`, `:93`) and is not sent by the Dedup Guard of the models.
- A `db_queue_upsert` comes before the move it belongs to is validated
  (`handlers.py:161`): a late `org.scored` puts a booked or dropped pipeline back
  in the queue. It waits there once, so `TwiceOnlyByRace` says nothing of it.
- `db_queue_upsert` selects in one statement and inserts in another
  (`mcp_tools.py:125`): two deliveries of `org.scored` that overlap there insert
  two waiting entries. `TwiceOnlyByRace` names that as the only cause.
- The move to `BOOKED` is committed before the visit is inserted
  (`handlers.py:253`). A crash or an error between the two leaves a visit the
  90-day rule never counts, and the repeated task is refused: `BookedOnce` is
  checked, and proved, where no handler is cut off.
- A handler that is cut off between two moves leaves its pipeline in
  `PA_APPROVED`, `SLOT_HELD`, `IN_PRIORITY_QUEUE` or `RSVP_CONFIRMED`, from which
  a repeated task is illegal (`handlers.py:220`).
- An answer of the PA to the message about an earlier slot approves the present
  one (`handlers.py:200`): `pa.decision` names no slot.
- An organization whose name contains "red cross" is verified with confidence
  HIGH and the source `mock_irs`, which was not asked, and is cached
  (`verifier.py:189`): `NameBypass`, and the exception of `VerifiedWasFound`.
- `PADecision` has no `PA_APPROVED` and no `PA_REJECTED`: the approve button
  (`slack_handler.py:114`) and the composer (`email_composer/main.py:88`) raise
  `AttributeError`, so with the enum as it is no click decides and no mail is
  sent. Desk has both enums; Orchestrator takes `email.sent` as coming all the
  same, or nothing after it could be examined.
- Two results do not satisfy the payload models of their handlers and are
  refused with HTTP 500 at every attempt: `org.scored`, which has the score's
  parts under other names, and `email.sent`, without `gmail_message_id`
  (Payloads). `dedup.result` carries neither EIN nor name: the verifier asks
  about nobody and passes the empty EIN on, the Eligibility Agent logs an error
  and answers nothing (`eligibility_logic.py:61`), the pipeline stays in
  `ELIGIBILITY_CHECK` (`MissingEin`).
- `monitor.py` catches `HttpError` and nothing else around the calendar's client
  (lines 269 and 284). A missing token file, a refresh that fails or a broken
  connection raises out of `process_thread`: `run_once` logs it, no outcome is
  dispatched, and the next poll does the same. While that lasts no visit ends,
  neither by a reply nor by the timeout: the exception of `InvitationEnds`.
- A composer that dies between the mail and `email.sent` is in Desk and not in
  RsvpMonitor, where a confirmation that was mailed is reported.
- A restart between the accepted outcome and the end of its registration
  leaves a booked visit on the watch list, and its event is deleted when the
  registration is 24 hours old (`EventFollowsOutcome`, the strong form of
  `EventFollowsWhenUncut`, does not hold).
- The dialog that asks for the reason of a rejection is submitted as an event
  without `actions`, which `handle_action` ignores: no rejection reaches the
  orchestrator from Slack. An escalation that is approved shows "APPROVED"
  although no move from `URGENT_ESCALATED_TO_PA` exists and the decision is
  refused; `ApprovedIsDecided` speaks of requests for approval only.
- A composer slower than the POST that asks it sends a mail for each attempt;
  the approval's two moves in `handle_pa_decision` are one step of Desk, and
  two in Orchestrator.
- `WindowRespected` speaks of visits made before the check is asked for. A visit
  is counted only once it is booked, weeks after its check: two messages of one
  organization that are both checked before either is booked both become visits.
- The Email Watcher's report has no `pipeline_id`: when it is given up nothing
  enters the dead letter list. A restart sets a new `_START_TIME`, and what was
  unread before it is never listed again; `maxResults=1` lists the newest first
  and a poll is an interval long and whatever its models need, so mail that keeps
  arriving starves what is older, and a message whose report is
  always refused keeps the older ones waiting without any; an
  exception other than `HttpError`, or an answer without `is_charity`, ends
  `poll_loop`; when both models fail the message counts as no charity's.
- `LLM_PROVIDER` has no effect on the agents, which build `OllamaRouter` themselves,
  other than README.md:55-60 says. `compute_queue_bonus` is called with zero
  days only, and by no weekly job.
- The first candidate of a search is the first hour of its first day, also when
  the search starts later that day (`slot_finder.py:85`). What lies before
  `timeMin` is not in the free/busy answer and counts as free, so a search in
  the afternoon may hold a slot that another pipeline holds already:
  `FreeInWindow` needs its condition. When the clocks change before the slot,
  the labels keep the old offset and slots lie an hour off: `InHours` needs
  `Steady`.
- Read while modelling, without a run of their own, as each would restate one
  line: no code listens to the expiry of `pa_timeout`, so the automatic
  approval of `redis_channels.py:57` never comes; a repeated
  request holds a second slot, and the first is released by nobody
  (`slot_finder.py:208`); audit rows have `from_state = to_state` (`db.py:171`);
  `AGENT_UNREACHABLE` is legal from nowhere (`main.py:134`);
  `URGENT_ESCALATED_TO_PA` has no decision that leaves it; `NO_SLOTS_REQUEUE`
  is never retried; the duplicate hash is stored under a key that is never
  looked up (`dedup_logic.py:185`); a merged duplicate goes on
  (`handlers.py:84`); signals merged after the eligibility check are lost
  (`dedup_logic.py:83`); yes-words are looked for before no-words, as substrings
  (`monitor.py:215`); the confirmation is sent outside the thread that is
  watched (`composer.py:65`); a timed-out invitation is cancelled and not
  escalated to the PA (`rsvp_monitor/main.py:14`); a Redis error ends the poll
  loop (`monitor.py:429`). The models do what the code does.
- A second poller in the run of RsvpMonitor (`POST /poll` next to the loop) is
  in the module (`Poller`) and too large for its run; a timer's expiry nobody
  listens to, a decision no move exists for, and a loop that a Redis error
  ended have no property, as nothing follows them in the code.
- The audit sidecar subscribes and inserts: no state between two messages, and
  nothing reads its rows. LLM prompts, texts, mail layout, telemetry, the demo
  and the deployment scripts carry no protocol state. `llm.py` is used by no
  agent.

## Plan

1. *(done)* PipelineStates, OrchestratorTasks, Orchestrator with runs and
   `GateInv`; A2ADispatch with its refinement; RsvpMonitor; Gates;
   SlotFinder.
2. *(done)* EmailWatcher; Desk (PA Notification and Email Composer with the
   handlers around them); Payloads; Gates up to a visit, with the Prioritizer
   and Scoring; the proofs of A2ADispatch, Gates and EmailWatcher.
3. *(done)* The proofs of the orchestrator's handlers one after the other, of
   Desk, RsvpMonitor and SlotFinder, and of `SecondReportHasACause`: every
   invariant and every action property that a run finds to hold is a theorem.
4. Proofs that are left: that the calls of Orchestrator (`PostReaches`,
   `PostAcked`, `DispatchFails`, `CallRaises`) take the steps of A2ACall; what
   of `PendingIsWatched` survives a second poller; lemmas about the orders of
   time that `RsvpMonitor` assumes.
5. Holds composed with the orchestrator: which holds are released, and by whom,
   when a pipeline is asked about twice, rejected or cancelled.

New components join a run that asks the same question, or replace one that is
answered.
