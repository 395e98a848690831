----------------------------- MODULE A2ADispatch -----------------------------
(***************************************************************************)
(* shared/a2a_client.py: dispatch_task posts a task to an agent up to      *)
(* MAX_ATTEMPTS times.  A POST that is not answered within the timeout is  *)
(* abandoned by the caller, not by the agent: the agent goes on with it,   *)
(* next to the POST that follows, and its late answer goes nowhere.        *)
(***************************************************************************)
EXTENDS Naturals, FiniteSets

CONSTANTS Call, Keyed, MAX_ATTEMPTS

ASSUME CallAssumption == Keyed \subseteq Call
ASSUME AttemptsAssumption == MAX_ATTEMPTS \in Nat \ {0}

VARIABLES
  pc,        \* per dispatch, where dispatch_task is
  attempt,   \* per dispatch, the number of the present POST
  working,   \* the POSTs an agent has received and not finished
  answers,   \* the responses on their way
  reached,   \* the dispatches of which some POST was received
  handled,   \* per dispatch, how often the agent did the work
  dlq        \* the dead letter list

vars == <<pc, attempt, working, answers, reached, handled, dlq>>

Post == Call \X (1..MAX_ATTEMPTS)

\* "ok": a JSON object that is an A2AResponse, whatever its status says.
Answer == [post : Post, kind : {"ok", "http_error", "unreadable"}]

TypeOK ==
  /\ pc \in [Call -> {"idle", "posting", "waiting", "sleeping", "pushing",
                      "returned", "failed", "lost"}]
  /\ attempt \in [Call -> 0..MAX_ATTEMPTS]
  /\ working \subseteq Post
  /\ answers \subseteq Answer
  /\ reached \subseteq Call
  /\ handled \in [Call -> Nat]
  /\ dlq \subseteq Call

Init ==
  /\ pc = [c \in Call |-> "idle"]
  /\ attempt = [c \in Call |-> 0]
  /\ working = {}
  /\ answers = {}
  /\ reached = {}
  /\ handled = [c \in Call |-> 0]
  /\ dlq = {}

Goto(c, from, to) == pc[c] = from /\ pc' = [pc EXCEPT ![c] = to]

---------------------------------------------------------------------------
(* The caller *)

Dispatch(c) ==
  /\ Goto(c, "idle", "posting")
  /\ attempt' = [attempt EXCEPT ![c] = 1]
  /\ UNCHANGED <<working, answers, reached, handled, dlq>>

Send(c) ==
  /\ Goto(c, "posting", "waiting")
  /\ working' = working \cup {<<c, attempt[c]>>}
  /\ reached' = reached \cup {c}
  /\ UNCHANGED <<attempt, answers, handled, dlq>>

\* Mutant: no stop=, the POST is repeated for ever.
NeverStops(c, from) ==
  /\ Goto(c, from, "sleeping")
  /\ UNCHANGED <<attempt, working, reached, handled, dlq>>

\* Mutant: each failed attempt is pushed to the dead letter list.
PushEachAttempt(c, from) ==
  /\ Goto(c, from, IF attempt[c] < MAX_ATTEMPTS THEN "sleeping"
                   ELSE "pushing")
  /\ dlq' = dlq \cup ({c} \cap Keyed)
  /\ UNCHANGED <<attempt, working, reached, handled>>

\* An attempt ended in httpx.RequestError or httpx.HTTPStatusError: sleep
\* and try again, until the attempts are used up.
AttemptFails(c, from) ==
  /\ Goto(c, from, IF attempt[c] < MAX_ATTEMPTS THEN "sleeping"
                   ELSE "pushing")
  /\ UNCHANGED <<attempt, working, reached, handled, dlq>>

ConnectFails(c) == AttemptFails(c, "posting") /\ UNCHANGED answers

\* Mutant: the client has no timeout.
NoTimeout(c) == FALSE /\ AttemptFails(c, "waiting") /\ UNCHANGED answers

Timeout(c) == AttemptFails(c, "waiting") /\ UNCHANGED answers

\* The answer to the present POST; the connections of earlier ones are
\* closed.
Answered(c, kind) ==
  /\ [post |-> <<c, attempt[c]>>, kind |-> kind] \in answers
  /\ answers' = answers \ {[post |-> <<c, attempt[c]>>, kind |-> kind]}

ErrorStatus(c) == Answered(c, "http_error") /\ AttemptFails(c, "waiting")

Return(c) ==
  /\ Answered(c, "ok")
  /\ Goto(c, "waiting", "returned")
  /\ UNCHANGED <<attempt, working, reached, handled, dlq>>

\* No JSON, or no A2AResponse: not one of the errors that are retried.
Unreadable(c) ==
  /\ Answered(c, "unreadable")
  /\ Goto(c, "waiting", "pushing")
  /\ UNCHANGED <<attempt, working, reached, handled, dlq>>

\* Mutant: the attempts are not counted.
RetryUncounted(c) ==
  /\ Goto(c, "sleeping", "posting")
  /\ UNCHANGED <<attempt, working, answers, reached, handled, dlq>>

Retry(c) ==
  /\ Goto(c, "sleeping", "posting")
  /\ attempt' = [attempt EXCEPT ![c] = @ + 1]
  /\ UNCHANGED <<working, answers, reached, handled, dlq>>

\* Mutant: whatever went wrong, the request is kept only for errors of the
\* last attempt.
PushForgotten(c) ==
  /\ Goto(c, "pushing", "failed")
  /\ dlq' = dlq \cup (IF attempt[c] = MAX_ATTEMPTS THEN {c} \cap Keyed
                      ELSE {})
  /\ UNCHANGED <<attempt, working, answers, reached, handled>>

Push(c) ==
  /\ Goto(c, "pushing", "failed")
  /\ dlq' = dlq \cup ({c} \cap Keyed)
  /\ UNCHANGED <<attempt, working, answers, reached, handled>>

\* rpush raises, before it took effect or after; what leaves dispatch_task is
\* no A2ADispatchError.
PushFails(c) ==
  /\ c \in Keyed
  /\ Goto(c, "pushing", "lost")
  /\ dlq' \in {dlq, dlq \cup {c}}
  /\ UNCHANGED <<attempt, working, answers, reached, handled>>

---------------------------------------------------------------------------
(* The agent *)

\* It does the work, or a part of it before an error, and answers.
Handle(p, kind) ==
  /\ p \in working
  /\ working' = working \ {p}
  /\ handled' = [handled EXCEPT ![p[1]] = @ + 1]
  /\ answers' = answers \cup {[post |-> p, kind |-> kind]}
  /\ UNCHANGED <<pc, attempt, reached, dlq>>

\* The agent dies with the POST, or its answer does.
Drop(p) ==
  /\ p \in working
  /\ working' = working \ {p}
  /\ UNCHANGED <<pc, attempt, answers, reached, handled, dlq>>

---------------------------------------------------------------------------
CallerStep(c) ==
  \/ Send(c) \/ ConnectFails(c) \/ Timeout(c) \/ ErrorStatus(c)
  \/ Return(c) \/ Unreadable(c) \/ Retry(c) \/ Push(c) \/ PushFails(c)

Next ==
  \/ \E c \in Call : Dispatch(c) \/ CallerStep(c)
  \/ \E p \in working :
       \/ \E k \in {"ok", "http_error", "unreadable"} : Handle(p, k)
       \/ Drop(p)

\* The caller's timeouts and sleeps end by themselves; the agent may do
\* nothing for ever.
Spec == Init /\ [][Next]_vars /\ \A c \in Call : WF_vars(CallerStep(c))

---------------------------------------------------------------------------
(* What it promises *)

Ended == {"returned", "failed", "lost"}

\* An agent does the work of a dispatch at most once per POST, and a
\* dispatch that returned had it done: at-least-once delivery, at most
\* MAX_ATTEMPTS times (_post_with_retry).
DoneWhenReturned ==
  \A c \in Call :
    /\ handled[c] + Cardinality({p \in working : p[1] = c}) <= attempt[c]
    /\ pc[c] = "returned" => handled[c] > 0

\* A dispatch that failed is kept in the dead letter list, and what the list
\* holds is never work known to be done or still being tried: its dispatch
\* failed, or raised out of the push itself
\* ("Push to dead letter queue for manual requeue", dispatch_task).
KeptWhenFailed ==
  \A c \in Keyed :
    /\ pc[c] = "failed" => c \in dlq
    /\ c \in dlq => pc[c] \in {"failed", "lost"}

\* Every dispatch ends, whatever the agent does.
DispatchEnds ==
  \A c \in Call : pc[c] = "posting" ~> pc[c] \in Ended

---------------------------------------------------------------------------
(* The caller sees an A2ACall. *)

Phase(s) == IF s \in Ended \cup {"idle"} THEN s ELSE "pending"

Abstract == INSTANCE A2ACall WITH phase <- [c \in Call |-> Phase(pc[c])]

\* dispatch_task with its retries implements the one step at a time call
\* the handlers are modelled with.
ImplementsCall == Abstract!Spec
=============================================================================
