----------------------------- MODULE EmailWatcher -----------------------------
(***************************************************************************)
(* Gate 1: the poll of the mailbox.  A poll takes the newest unread        *)
(* message since the process started, asks models whether it is a          *)
(* charity's and what it says, and reports it to the orchestrator, logs it *)
(* or drops it; the label UNREAD is all it remembers.  Gmail's client is   *)
(* synchronous: a poll can only be interleaved where it awaits a model,    *)
(* the database or the orchestrator.                                       *)
(***************************************************************************)
EXTENDS Naturals, Sequences, FiniteSets

CONSTANTS
  Messages,      \* bound: messages at a time, numbered in the order of
                 \* their arrival; the last number is used again and again
  Poller,        \* the coroutines that poll
  Loop,          \* the one that is poll_loop; POST /poll starts the others
  MaxTrouble     \* bound: failures of Gmail, the network or the process

Email == 1 .. Messages

NoEmail == 0

ASSUME WatcherAssumption ==
  /\ Messages \in Nat
  /\ Loop \in Poller
  /\ MaxTrouble \in Nat

VARIABLES
  refused,   \* the messages whose report does not fit the payload model of
             \* the orchestrator, say with a confidence over 1
  arrived,   \* how many messages have arrived
  unread,    \* those with the label UNREAD
  start,     \* how many had arrived at _START_TIME
  alive,     \* poll_loop runs
  poll,      \* what each coroutine awaits, and about which message
  pipeline,  \* the messages the orchestrator has a pipeline for
  log,       \* the messages in dropped_emails
  dropped,   \* history: the messages a poll decided to drop
  reports,   \* history: how many polls reported a message, up to two
  slip,      \* history: the messages reported and not marked by one poll, or
             \* listed by two at once
  trouble    \* how many failures there were

mail == <<arrived, unread, start>>
history == <<dropped, reports, slip>>
vars == <<refused, mail, alive, poll, pipeline, log, history, trouble>>

\* The models for a task in the order complete() tries them.  The agents use
\* OllamaRouter whatever LLM_PROVIDER says.
Route(task) == IF task = "classify" THEN <<"phi3", "mistral">>
               ELSE <<"mistral", "llama3">>

Idle == [at |-> "idle", msg |-> NoEmail, model |-> 0, reached |-> FALSE]

TypeOK ==
  /\ refused \subseteq Email
  /\ arrived \in 0 .. Messages /\ unread \subseteq 1 .. arrived
  /\ start \in 0 .. arrived
  /\ alive \in BOOLEAN
  /\ poll \in [Poller -> {Idle} \cup
       [at : {"classify", "extract", "log", "post"}, msg : Email,
        model : 0 .. 2, reached : BOOLEAN]]
  /\ \A p \in Poller :
       poll[p].at \in {"classify", "extract"} =>
         poll[p].model \in 1 .. Len(Route(poll[p].at))
  /\ pipeline \subseteq Email /\ log \subseteq Email
  /\ dropped \subseteq Email /\ slip \subseteq Email
  /\ reports \in [Email -> 0 .. 2]
  /\ trouble \in 0 .. MaxTrouble

Init ==
  /\ refused \in SUBSET Email
  /\ arrived = 0 /\ unread = {} /\ start = 0
  /\ alive = TRUE
  /\ poll = [p \in Poller |-> Idle]
  /\ pipeline = {} /\ log = {}
  /\ dropped = {} /\ reports = [m \in Email |-> 0] /\ slip = {}
  /\ trouble = 0

Trouble == trouble < MaxTrouble /\ trouble' = trouble + 1

\* What q = is:unread after:_START_TIME finds.
Listed == {m \in unread : m > start}

Holds(p, m) == poll[p].msg = m

\* Some poll reported m and has not marked it yet.
Slipped(p) == {m \in Email : Holds(p, m) /\ poll[p].reached}

\* The label is removed; an HttpError is ignored, and the poll goes on as if
\* it had been.
MarkAsRead(m) ==
  \/ unread' = unread \ {m} /\ UNCHANGED <<slip, trouble>>
  \/ Trouble /\ slip' = slip \cup {m} /\ UNCHANGED unread

---------------------------------------------------------------------------
(* poller.py: run_once, process_message *)

\* maxResults = 1, and Gmail lists the newest first.  When Gmail cannot be
\* asked, or the message not fetched, the poll ends and nothing changed.
List(p) ==
  /\ poll[p] = Idle /\ (p = Loop => alive)
  /\ \E m \in Listed :
       /\ \A n \in Listed : n <= m
       /\ poll' = [poll EXCEPT ![p] = [at |-> "classify", msg |-> m,
                                       model |-> 1, reached |-> FALSE]]
       /\ slip' = slip \cup
            {n \in {m} : \E q \in Poller \ {p} : Holds(q, n)}
  /\ UNCHANGED <<refused, mail, alive, pipeline, log, dropped, reports,
                 trouble>>

\* Not a charity: marked as read without a record, and the poll is over.
Discard(p) ==
  /\ dropped' = dropped \cup {poll[p].msg}
  /\ MarkAsRead(poll[p].msg)
  /\ poll' = [poll EXCEPT ![p] = Idle]
  /\ UNCHANGED <<refused, arrived, start, alive, pipeline, log, reports>>

GoTo(p, at) ==
  /\ poll' = [poll EXCEPT ![p] =
                [at |-> at, msg |-> poll[p].msg, reached |-> FALSE,
                 model |-> IF at = "extract" THEN 1 ELSE 0]]
  /\ UNCHANGED <<refused, mail, alive, pipeline, log, reports, slip, trouble>>

\* classifier.py: a model says yes; or no, or something that is no JSON.
Classify(p) ==
  /\ poll[p].at = "classify"
  /\ \/ GoTo(p, "extract") /\ UNCHANGED dropped
     \/ Discard(p)

\* extractor.py: EIN, name and reason are there, or one is missing, also
\* because the answer is no JSON.
Extract(p) ==
  /\ poll[p].at = "extract"
  /\ \/ GoTo(p, "post") /\ UNCHANGED dropped
     \/ GoTo(p, "log") /\ dropped' = dropped \cup {poll[p].msg}

\* Mutant: there is always another model.
NoLastModel(p) ==
  /\ poll[p].at \in {"classify", "extract"}
  /\ poll' = [poll EXCEPT ![p].model = @ + 1]
  /\ UNCHANGED <<refused, mail, alive, pipeline, log, history, trouble>>

\* _call returns nothing: complete() asks the next model, and after the last
\* one raises ModelFailureError, which the classifier takes for a no and the
\* extractor for an answer without fields.
ModelFails(p) ==
  /\ poll[p].at \in {"classify", "extract"}
  /\ \/ /\ poll[p].model < Len(Route(poll[p].at))
        /\ poll' = [poll EXCEPT ![p].model = @ + 1]
        /\ UNCHANGED <<refused, mail, alive, pipeline, log, history, trouble>>
     \/ /\ poll[p].model = Len(Route(poll[p].at))
        /\ \/ poll[p].at = "classify" /\ Discard(p)
           \/ /\ poll[p].at = "extract" /\ GoTo(p, "log")
              /\ dropped' = dropped \cup {poll[p].msg}

\* Mutant: a message without the fields is never marked.
LogUnmarked(p) ==
  /\ poll[p].at = "log"
  /\ log' = log \cup {poll[p].msg}
  /\ poll' = [poll EXCEPT ![p] = Idle]
  /\ UNCHANGED <<refused, mail, alive, pipeline, dropped, reports, slip,
                 trouble>>

\* _log_drop inserts a row, or logs that it could not; the message is marked
\* in both cases.
LogDrop(p) ==
  /\ poll[p].at = "log"
  /\ log' = log \cup {poll[p].msg} \/ UNCHANGED log
  /\ MarkAsRead(poll[p].msg)
  /\ poll' = [poll EXCEPT ![p] = Idle]
  /\ UNCHANGED <<refused, arrived, start, alive, pipeline, dropped, reports>>

\* The orchestrator handles the report: a pipeline unless there is one.
Reach(p) ==
  /\ poll[p].at = "post" /\ ~ poll[p].reached
  /\ poll[p].msg \notin refused
  /\ pipeline' = pipeline \cup {poll[p].msg}
  /\ poll' = [poll EXCEPT ![p].reached = TRUE]
  /\ reports' = [reports EXCEPT ![poll[p].msg] = IF @ = 2 THEN 2 ELSE @ + 1]
  /\ UNCHANGED <<refused, mail, alive, log, dropped, slip, trouble>>

\* Mutant: the message is never marked.
AnsweredUnmarked(p) ==
  /\ poll[p].at = "post" /\ poll[p].reached
  /\ poll' = [poll EXCEPT ![p] = Idle]
  /\ UNCHANGED <<refused, mail, alive, pipeline, log, history, trouble>>

Answered(p) ==
  /\ poll[p].at = "post" /\ poll[p].reached
  /\ MarkAsRead(poll[p].msg)
  /\ poll' = [poll EXCEPT ![p] = Idle]
  /\ UNCHANGED <<refused, arrived, start, alive, pipeline, log, dropped,
                 reports>>

\* Mutant: a message that could not be reported is marked all the same.
GivenUpMarked(p) ==
  /\ poll[p].at = "post"
  /\ \/ poll[p].msg \in refused /\ UNCHANGED <<slip, trouble>>
     \/ /\ poll[p].msg \notin refused /\ Trouble
        /\ slip' = slip \cup Slipped(p)
  /\ unread' = unread \ {poll[p].msg}
  /\ poll' = [poll EXCEPT ![p] = Idle]
  /\ UNCHANGED <<refused, arrived, start, alive, pipeline, log, dropped,
                 reports>>

\* A2ADispatchError, after the report was refused at every attempt, never
\* arrived, or was handled and the answers lost.  There is no pipeline_id,
\* so the dead letter list gets nothing: the label is all there is.
GivenUp(p) ==
  /\ poll[p].at = "post"
  /\ \/ poll[p].msg \in refused /\ UNCHANGED <<slip, trouble>>
     \/ /\ poll[p].msg \notin refused /\ Trouble
        /\ slip' = slip \cup Slipped(p)
  /\ poll' = [poll EXCEPT ![p] = Idle]
  /\ UNCHANGED <<refused, mail, alive, pipeline, log, dropped, reports>>

\* An exception nobody catches, from Gmail's client (only HttpError is
\* caught) or from an answer without is_charity, leaves run_once: poll_loop
\* is over.
Escapes(p) ==
  /\ (poll[p] = Idle => p = Loop /\ alive)
  /\ Trouble
  /\ alive' = (alive /\ p # Loop)
  /\ slip' = slip \cup Slipped(p)
  /\ poll' = [poll EXCEPT ![p] = Idle]
  /\ UNCHANGED <<refused, mail, pipeline, log, dropped, reports>>

---------------------------------------------------------------------------
(* The world *)

ArriveNext ==
  /\ arrived < Messages
  /\ arrived' = arrived + 1 /\ unread' = unread \cup {arrived'}
  /\ UNCHANGED <<refused, start, alive, poll, pipeline, log, history,
                 trouble>>

\* Mail never ends: when the message with the last number was read, and no
\* poll is at work on it, a newer one gets its number, and what was on record
\* under this number is about a message of the past.
ArriveAnew ==
  LET m == Messages IN
  /\ m \in (1 .. arrived) \ unread
  /\ \A p \in Poller : ~ Holds(p, m)
  /\ unread' = unread \cup {m}
  /\ start' = IF start = m THEN m - 1 ELSE start
  /\ refused' \in {refused \ {m}, refused \cup {m}}
  /\ pipeline' = pipeline \ {m} /\ log' = log \ {m}
  /\ dropped' = dropped \ {m} /\ slip' = slip \ {m}
  /\ reports' = [reports EXCEPT ![m] = 0]
  /\ UNCHANGED <<arrived, alive, poll, trouble>>

Arrive == ArriveNext \/ ArriveAnew

\* main.py, lifespan: the process ends and starts again.
Restart ==
  /\ Trouble
  /\ start' = arrived /\ alive' = TRUE
  /\ poll' = [p \in Poller |-> Idle]
  /\ slip' = slip \cup UNION {Slipped(p) : p \in Poller}
  /\ UNCHANGED <<refused, arrived, unread, pipeline, log, dropped, reports>>

Step(p) ==
  \/ List(p) \/ Classify(p) \/ Extract(p) \/ ModelFails(p) \/ LogDrop(p)
  \/ Reach(p) \/ Answered(p) \/ GivenUp(p)

Next ==
  \/ \E p \in Poller : Step(p) \/ Escapes(p)
  \/ Arrive \/ Restart

\* The event loop runs poll_loop on, every call to a model or to the
\* orchestrator ends by its timeout; whoever posts to /poll owes nothing.
Spec == Init /\ [][Next]_vars /\ WF_vars(Step(Loop))

---------------------------------------------------------------------------
(* Properties *)

\* A message loses the label UNREAD only when the orchestrator has it or a
\* poll decided to drop it, whatever failed and however many polls worked on
\* it: a report that was given up is kept by nothing but the label
\* (process_message).
ReadForAReason ==
  \A m \in (1 .. arrived) \ unread : m \in pipeline \cup dropped

\* Two polls report one message only if the first could not mark it, lost
\* the answer or was cut short, or the other listed it meanwhile.
SecondReportHasACause == \A m \in Email : reports[m] = 2 => m \in slip

\* The message is behind one whose report will always be refused.
Behind(m) == \E n \in Listed \cap refused : n >= m

\* "Fetch and process all unread Gmail messages once." (poller.py:223): every
\* message is read in the end, unless the process starts again before,
\* poll_loop dies, or a message that cannot be reported is listed before it,
\* or is it.
AllUnreadHandled ==
  \A m \in Email :
    m \in Listed ~> m \notin Listed \/ Behind(m) \/ ~ alive

\* That is so when mail ever stops coming: one message a poll, and the newest
\* one, leaves the others behind as long as newer ones come (run_once).
UnreadIsHandled == []<><<Arrive>>_vars \/ AllUnreadHandled
=============================================================================
