--------------------------------- MODULE Desk ---------------------------------
(***************************************************************************)
(* One pipeline between the found slot and the mailed confirmation: the    *)
(* orchestrator asks the PA by a Slack message, a click or a task posted   *)
(* by hand decides, the Email Composer mails.  Pipelines share nothing     *)
(* here.  A request stays in tasks until its sender has the answer.        *)
(***************************************************************************)
EXTENDS Naturals, FiniteSets, Payloads

CONSTANTS
  MaxDm,    \* bound: Slack messages about the pipeline
  MaxTasks, \* bound: requests in progress before one more is posted by hand,
            \* clicked or repeated
  MaxLost,  \* bound: kept requests when one more is given up
  ByHand,   \* TRUE: somebody posts tasks to the orchestrator and composer
  Faults    \* "lost": a request is given up, "repeat": a POST is repeated,
            \* "slack": Slack refuses a call, "gmail": Gmail does, or the
            \* row has no contact_email

ASSUME DeskAssumption ==
  /\ {MaxDm, MaxTasks, MaxLost} \subseteq Nat /\ ByHand \in BOOLEAN
  /\ Faults \subseteq {"lost", "repeat", "slack", "gmail"}

VARIABLES
  members,  \* the names of PADecision
  state,    \* current_state of the row
  dm,       \* the Slack messages: what they ask, and what they show now
  modal,    \* the message whose dialog asks for a reason, or 0
  mails,    \* how many mails of each kind were sent, up to two
  dead,     \* the dead letter list
  tasks,    \* the requests in progress
  read,     \* the decisions the orchestrator has found to be legal
  snag      \* history: what was refused and only logged, whether a request
            \* to the composer was repeated, and two decisions overlapped

vars == <<members, state, dm, modal, mails, dead, tasks, read, snag>>

\* PADecision as shared/models.py declares it, and with the two names that
\* slack_handler.py and email_composer/main.py use as well.  As it is, each
\* use of these raises AttributeError, HTTP 500 to the sender, and nothing
\* behind it runs; with them the rest of the code can be examined.
Declared == {"APPROVED", "REJECTED", "AUTO_APPROVED"}
Used == Declared \cup {"PA_APPROVED", "PA_REJECTED"}

Dm == 1 .. MaxDm
NoDm == [asks |-> "nothing", shows |-> "nothing"]

\* ask and escalate go to PA Notification, compose to the Email Composer,
\* the others to the orchestrator; from is the message that was clicked.
Task ==
  [type : {"ask", "escalate", "pa.decision", "compose", "email.sent"},
   decision : {"none", "approved", "rejected"}, from : {0} \cup Dm,
   whole : BOOLEAN]

TypeOK ==
  /\ members \in {Declared, Used}
  /\ state \in {"ELIGIBILITY_CHECK", "URGENT_ESCALATED_TO_PA",
                "FINDING_SLOT", "PA_PENDING", "PA_REJECTED",
                "CONFIRMATION_SENT", "RSVP_PENDING"}
  /\ dm \in [Dm -> {NoDm} \cup
                   [asks : {"approval", "exception"},
                    shows : {"buttons", "approved", "error"}]]
  /\ modal \in {0} \cup Dm
  /\ mails \in [{"confirmation", "rejection"} -> 0 .. 2]
  /\ dead \subseteq Task /\ tasks \subseteq Task
  /\ read \subseteq {t \in Task : t.type = "pa.decision"}
  /\ snag \subseteq {"unasked", "unmailed", "repeated", "overlap"}

Init ==
  /\ members \in {Declared, Used}
  /\ state \in {"ELIGIBILITY_CHECK", "FINDING_SLOT"}
  /\ dm = [d \in Dm |-> NoDm] /\ modal = 0
  /\ mails = [k \in {"confirmation", "rejection"} |-> 0]
  /\ dead = {} /\ tasks = {} /\ read = {} /\ snag = {}

Post(type, decision, from) ==
  [type |-> type, decision |-> decision, from |-> from,
   whole |-> (type \in ResultType => Accepted(type))]

Room == Cardinality(tasks) < MaxTasks

\* The receiver of t dispatches new and logs what was refused; then the
\* sender of t has its answer, or its POST timed out and is repeated.
Take(t, new, refused) ==
  \/ /\ tasks' = (tasks \ {t}) \cup new
     /\ snag' = snag \cup refused
  \/ /\ "repeat" \in Faults /\ Room
     /\ tasks' = tasks \cup new
     /\ snag' = snag \cup refused \cup
          {r \in {"repeated"} : t.type = "compose"}

\* slack_handler.py, _update_message: the buttons make way for the text,
\* unless Slack refuses.
Show(d, text) ==
  \/ dm' = IF d = 0 THEN dm ELSE [dm EXCEPT ![d].shows = text]
  \/ /\ "slack" \in Faults
     /\ UNCHANGED dm

---------------------------------------------------------------------------
(* Orchestrator: handlers.py *)

HandleSlotFound ==
  /\ state = "FINDING_SLOT"
  /\ state' = "PA_PENDING"
  /\ tasks' = tasks \cup {Post("ask", "none", 0)}
  /\ UNCHANGED <<members, read, dm, modal, mails, dead, snag>>

HandleEligibilityResult ==
  /\ state = "ELIGIBILITY_CHECK"
  /\ state' = "URGENT_ESCALATED_TO_PA"
  /\ tasks' = tasks \cup {Post("escalate", "none", 0)}
  /\ UNCHANGED <<members, read, dm, modal, mails, dead, snag>>

\* _handle_approve changes the message when it has an answer.
Answered(t) ==
  IF t \in tasks /\ t \notin tasks' THEN Show(t.from, "approved")
                                   ELSE UNCHANGED dm

\* Mutant: the state is not validated.
ReadAnyTime(t) ==
  /\ t.type = "pa.decision" /\ t \notin read
  /\ Cardinality(read) < MaxTasks
  /\ read' = read \cup {t}
  /\ snag' = snag \cup {r \in {"overlap"} : read # {}}
  /\ UNCHANGED <<members, state, dm, modal, mails, dead, tasks>>

\* transition() reads and validates the state, and commits when other
\* handlers may have run.
ReadDecision(t) ==
  /\ t.type = "pa.decision" /\ t \notin read
  /\ state = "PA_PENDING" /\ Cardinality(read) < MaxTasks
  /\ read' = read \cup {t}
  /\ snag' = snag \cup {r \in {"overlap"} : read # {}}
  /\ UNCHANGED <<members, state, dm, modal, mails, dead, tasks>>

\* Mutant: the name of the decision becomes the state.
DecisionAsState(decision) ==
  IF decision = "rejected" THEN "REJECTED" ELSE "CONFIRMATION_SENT"

Decided(decision) ==
  IF decision = "rejected" THEN "PA_REJECTED" ELSE "CONFIRMATION_SENT"

\* An approval makes two moves, here in one step, and asks the composer; a
\* rejection does not.
HandlePaDecision(t) ==
  /\ t \in read
  /\ read' = read \ {t}
  /\ state' = Decided(t.decision)
  /\ Take(t, {Post("compose", "approved", 0) :
                d \in {t.decision} \ {"rejected"}}, {})
  /\ Answered(t)
  /\ UNCHANGED <<members, modal, mails, dead>>

HandleEmailSent(t) ==
  /\ t.type = "email.sent" /\ t.whole
  /\ state = "CONFIRMATION_SENT"
  /\ state' = "RSVP_PENDING"
  /\ Take(t, {}, {})
  /\ UNCHANGED <<members, read, dm, modal, mails, dead>>

\* The move is not a legal one: status "error", an answer like any other.
Reject(t) ==
  /\ \/ t.type = "pa.decision" /\ state # "PA_PENDING" /\ t \notin read
     \/ t.type = "email.sent" /\ t.whole /\ state # "CONFIRMATION_SENT"
  /\ tasks' = tasks \ {t}
  /\ Answered(t)
  /\ UNCHANGED <<members, read, state, modal, mails, dead, snag>>

---------------------------------------------------------------------------
(* PA Notification: notifier.py, slack_handler.py *)

\* The message is sent, or Slack refuses and the task is accepted all the
\* same.
Notify(t, asks) ==
  /\ \/ /\ \E d \in Dm :
             /\ dm[d] = NoDm /\ \A e \in 1 .. d - 1 : dm[e] # NoDm
             /\ dm' = [dm EXCEPT ![d] = [asks |-> asks,
                                         shows |-> "buttons"]]
        /\ Take(t, {}, {})
     \/ "slack" \in Faults /\ UNCHANGED dm /\ Take(t, {}, {"unasked"})
  /\ UNCHANGED <<members, read, state, modal, mails, dead>>

SendApprovalDm(t) == t.type = "ask" /\ Notify(t, "approval")

SendEscalationDm(t) == t.type = "escalate" /\ Notify(t, "exception")

\* Mutant: the message is changed before the dispatch.
ShownFirst(d) ==
  /\ "PA_APPROVED" \in members
  /\ dm[d].shows = "buttons" /\ Room
  /\ tasks' = tasks \cup {Post("pa.decision", "approved", d)}
  /\ dm' = [dm EXCEPT ![d].shows = "approved"]
  /\ UNCHANGED <<members, read, state, modal, mails, dead, snag>>

Approve(d) ==
  /\ "PA_APPROVED" \in members
  /\ dm[d].shows = "buttons" /\ Room
  /\ tasks' = tasks \cup {Post("pa.decision", "approved", d)}
  /\ UNCHANGED <<members, read, state, dm, modal, mails, dead, snag>>

\* A click always has a trigger_id.
OpenRejectionModal(d) ==
  /\ dm[d].shows = "buttons"
  /\ modal' = d
  /\ UNCHANGED <<members, read, state, dm, mails, dead, tasks, snag>>

\* The submitted dialog comes without actions: handle_action returns.
SubmitModal ==
  /\ modal # 0
  /\ modal' = 0
  /\ UNCHANGED <<members, read, state, dm, mails, dead, tasks, snag>>

---------------------------------------------------------------------------
(* Email Composer: main.py, composer.py.  The text is drafted by a model or *)
(* taken from a template.                                                   *)

Mail(t, decision, kind) ==
  /\ t.type = "compose" /\ "PA_APPROVED" \in members
  /\ t.decision = decision
  /\ \/ /\ mails' = [mails EXCEPT ![kind] = IF @ = 2 THEN 2 ELSE @ + 1]
        /\ Take(t, {Post("email.sent", decision, 0)}, {})
     \/ /\ "gmail" \in Faults
        /\ UNCHANGED mails /\ Take(t, {}, {"unmailed"})
  /\ UNCHANGED <<members, read, state, dm, modal, dead>>

SendConfirmation(t) == Mail(t, "approved", "confirmation")

SendRejection(t) == Mail(t, "rejected", "rejection")

---------------------------------------------------------------------------
(* Transport and world *)

Keep(t) == tasks' = tasks \ {t} /\ dead' = dead \cup {t}

\* HTTP 500 at every attempt: a payload that is not whole, or a name that
\* PADecision does not have.
Refuse(t) ==
  /\ \/ ~ t.whole
     \/ t.type = "compose" /\ "PA_APPROVED" \notin members
  /\ Keep(t)
  /\ UNCHANGED <<members, read, state, dm, modal, mails, snag>>

\* Mutant: the request is not kept.
LoseUnkept(t) ==
  /\ "lost" \in Faults /\ Cardinality(dead) < MaxLost
  /\ tasks' = tasks \ {t}
  /\ Show(t.from, "error")
  /\ UNCHANGED <<members, read, state, modal, mails, dead, snag>>

\* A request is given up; a click shows that.
Lose(t) ==
  /\ "lost" \in Faults /\ Cardinality(dead) < MaxLost
  /\ Keep(t)
  /\ Show(t.from, "error")
  /\ UNCHANGED <<members, read, state, modal, mails, snag>>

\* The dead letter list is for manual requeue.
Requeue(t) ==
  /\ ByHand /\ Room
  /\ dead' = dead \ {t}
  /\ tasks' = tasks \cup {[type |-> t.type, decision |-> t.decision,
                          from |-> 0, whole |-> t.whole]}
  /\ snag' = snag \cup {r \in {"repeated"} : t.type = "compose"}
  /\ UNCHANGED <<members, read, state, dm, modal, mails>>

\* POST /tasks takes a decision, a sent confirmation, or the request for a
\* rejection from anybody.
PostByHand ==
  /\ ByHand /\ Room
  /\ \/ \E decision \in {"approved", "rejected"} :
          tasks' = tasks \cup {Post("pa.decision", decision, 0)}
     \/ /\ state = "CONFIRMATION_SENT"
        /\ tasks' = tasks \cup {[type |-> "email.sent",
                                decision |-> "approved", from |-> 0,
                                whole |-> TRUE]}
     \/ /\ state = "PA_REJECTED"
        /\ tasks' = tasks \cup {Post("compose", "rejected", 0)}
  /\ UNCHANGED <<members, read, state, dm, modal, mails, dead, snag>>

Next ==
  \/ HandleSlotFound \/ HandleEligibilityResult \/ PostByHand \/ SubmitModal
  \/ \E d \in Dm : Approve(d) \/ OpenRejectionModal(d)
  \/ \E t \in tasks :
       \/ ReadDecision(t) \/ HandleEmailSent(t) \/ Reject(t)
       \/ SendApprovalDm(t) \/ SendEscalationDm(t)
       \/ SendConfirmation(t) \/ SendRejection(t)
       \/ Refuse(t) \/ Lose(t)
  \/ \E t \in read : HandlePaDecision(t)
  \/ \E t \in dead : Requeue(t)

Spec == Init /\ [][Next]_vars

---------------------------------------------------------------------------
(* Properties *)

Kept(types) == \E t \in tasks \cup dead : t.type \in types

\* A pipeline in PA_PENDING has a message with buttons, or a request or
\* decision about it is in progress or kept; the one exception is a message
\* that Slack refused, which notifier.py only logs.
PendingIsAsked ==
  state = "PA_PENDING" =>
    \/ \E d \in Dm : dm[d].shows = "buttons"
    \/ Kept({"ask", "pa.decision"}) \/ read # {}
    \/ "unasked" \in snag

\* A pipeline in CONFIRMATION_SENT will be confirmed, or a request that
\* would is kept; the one exception is a mail that was not sent, which
\* composer.py only logs.
ConfirmationIsOnItsWay ==
  state = "CONFIRMATION_SENT" =>
    Kept({"compose", "email.sent"}) \/ "unmailed" \in snag

\* Slack says "APPROVED" under a request for approval only when the decision
\* has been taken, with however many messages, clicks, tasks by hand and
\* refusals (_handle_approve).
ApprovedIsDecided ==
  \A d \in Dm :
    dm[d].asks = "approval" /\ dm[d].shows = "approved" =>
      state # "PA_PENDING"

\* Nobody gets a confirmation whose pipeline was not approved, or was
\* rejected, nor the other way round, unless two decisions overlapped
\* (email_composer/main.py).
MailMatchesDecision ==
  "overlap" \notin snag =>
    /\ mails["confirmation"] > 0 =>
         state \in {"CONFIRMATION_SENT", "RSVP_PENDING"}
    /\ mails["rejection"] > 0 => state = "PA_REJECTED"

\* A second confirmation is mailed only when the POST to the composer was
\* repeated or two decisions overlapped inside transition(), never because
\* the PA had two messages or clicked again.
SecondMailWasRepeated ==
  mails["confirmation"] = 2 => snag \cap {"repeated", "overlap"} # {}
=============================================================================

