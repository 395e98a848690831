------------------------------ MODULE DeskProofs ------------------------------
(***************************************************************************)
(* What the PA and the charity see agrees with the pipeline, for any       *)
(* number of Slack messages, requests in progress and failures.            *)
(***************************************************************************)
EXTENDS Desk, TLAPS

---------------------------------------------------------------------------
(* The inductive invariant *)

Requests == tasks \cup dead

Messages ==
  [Dm -> {NoDm} \cup [asks : {"approval", "exception"},
                      shows : {"buttons", "approved", "error"}]]

\* Only a click has a message it came from, which was sent, and a composer
\* is asked for a decision.
RequestsTrue ==
  \A t \in Requests :
    /\ t.from # 0 => t.type = "pa.decision" /\ dm[t.from] # NoDm
    /\ t.type = "compose" => t.whole /\ t.decision \in {"approved", "rejected"}

\* The states from the first request for approval on; none of them is left.
AfterAsking == {"PA_PENDING", "PA_REJECTED", "CONFIRMATION_SENT",
                "RSVP_PENDING"}

Confirmed == {"CONFIRMATION_SENT", "RSVP_PENDING"}

Asked ==
  /\ Kept({"ask"}) => state \in AfterAsking
  /\ \A d \in Dm : dm[d].asks = "approval" => state \in AfterAsking

\* Unless two decisions overlapped: at most one is read, and read while the
\* PA is waited for; whoever asks the composer has the decision in the row.
OneDecision ==
  "overlap" \notin snag =>
    /\ \A a, b \in read : a = b
    /\ read # {} => state = "PA_PENDING"
    /\ \A t \in Requests : t.type = "compose" =>
         /\ t.decision = "approved" => state \in Confirmed
         /\ t.decision = "rejected" => state = "PA_REJECTED"

Confirms(t) == t.type = "compose" /\ t.decision = "approved"

\* Unless something was repeated: the composer is asked once, and no more
\* when it has mailed.
OneMail ==
  snag \cap {"repeated", "overlap"} = {} =>
    /\ mails["confirmation"] <= 1
    /\ mails["confirmation"] = 1 => \A t \in Requests : ~ Confirms(t)
    /\ \A t \in tasks \cap dead : ~ Confirms(t)

DeskInv ==
  /\ TypeOK /\ RequestsTrue /\ Asked /\ OneDecision /\ OneMail
  /\ PendingIsAsked /\ ConfirmationIsOnItsWay /\ ApprovedIsDecided
  /\ MailMatchesDecision

LEMMA MailsBound == DeskInv => SecondMailWasRepeated
BY DEF DeskInv, OneMail, SecondMailWasRepeated

---------------------------------------------------------------------------
(* What the helpers do *)

LEMMA PostType ==
  ASSUME NEW type \in {"ask", "escalate", "pa.decision", "compose",
                       "email.sent"},
         NEW decision \in {"none", "approved", "rejected"},
         NEW from \in {0} \cup Dm
  PROVE  /\ Post(type, decision, from) \in Task
         /\ Post(type, decision, from).type = type
         /\ Post(type, decision, from).decision = decision
         /\ Post(type, decision, from).from = from
         /\ type = "compose" => Post(type, decision, from).whole
BY DEF Post, Task, Accepted, ResultType

LEMMA TakeKeeps ==
  ASSUME NEW t \in tasks, NEW new, NEW refused, Take(t, new, refused)
  PROVE  /\ tasks' \subseteq tasks \cup new
         /\ (tasks \ {t}) \cup new \subseteq tasks'
         /\ snag \subseteq snag' /\ refused \subseteq snag'
         /\ snag' \subseteq snag \cup refused \cup {"repeated"}
         /\ t \in tasks' => t \in new \/ t.type # "compose"
                              \/ "repeated" \in snag'
BY DEF Take

\* A message changes only what it shows.
LEMMA ShowKeeps ==
  ASSUME DeskInv, NEW d \in {0} \cup Dm, NEW text \in {"approved", "error"},
         d # 0 => dm[d] # NoDm, Show(d, text)
  PROVE  /\ dm' \in Messages
         /\ \A e \in Dm : e # d => dm'[e] = dm[e]
         /\ \A e \in Dm : dm'[e].asks = dm[e].asks
         /\ \A e \in Dm : dm'[e] = dm[e] \/ dm'[e].shows = text
         /\ d = 0 => dm' = dm
<1> DEFINE Sent == [asks : {"approval", "exception"},
                    shows : {"buttons", "approved", "error"}]
<1>1. dm \in [Dm -> {NoDm} \cup Sent]
  BY DEF DeskInv, TypeOK
<1>2. CASE dm' = dm
  BY <1>1, <1>2 DEF Messages
<1>3. CASE d # 0 /\ dm' = [dm EXCEPT ![d].shows = text]
  <2>1. d \in Dm /\ dm[d] \in Sent
    BY <1>1, <1>3
  <2>2. \A e \in Dm : dm'[e] = IF e = d THEN [dm[d] EXCEPT !.shows = text]
                                       ELSE dm[e]
    BY <1>1, <1>3
  <2>3. [dm[d] EXCEPT !.shows = text] \in Sent
    BY <2>1
  <2>4. /\ [dm[d] EXCEPT !.shows = text].asks = dm[d].asks
        /\ [dm[d] EXCEPT !.shows = text].shows = text
    BY <2>1
  <2>5. dm' \in [Dm -> {NoDm} \cup Sent]
    BY <1>1, <1>3, <2>1, <2>3
  <2> QED
    BY <1>3, <2>1, <2>2, <2>4, <2>5 DEF Messages
<1> QED
  BY <1>2, <1>3 DEF Show

---------------------------------------------------------------------------
(* The steps that leave the state of the row, the decisions read and the   *)
(* mails alone                                                             *)

\* Requests come and go: a new one is true and asks for no approval, does
\* not confirm and is no rejection; what a message asks stays.
Quiet(new) ==
  /\ UNCHANGED members /\ UNCHANGED state /\ UNCHANGED read
  /\ UNCHANGED mails
  /\ tasks' \subseteq Task /\ dead' \subseteq Task
  /\ modal' \in {0} \cup Dm
  /\ dm' \in Messages
  /\ snag \subseteq snag'
  /\ snag' \subseteq {"unasked", "unmailed", "repeated", "overlap"}
  /\ "overlap" \in snag' => "overlap" \in snag
  /\ Requests' \subseteq Requests \cup new
  /\ \A u \in new :
       /\ u.type \notin {"ask", "compose"}
       /\ u.from # 0 => u.type = "pa.decision" /\ dm'[u.from] # NoDm
  /\ \A d \in Dm : dm[d] # NoDm => dm'[d].asks = dm[d].asks
  /\ \A d \in Dm : dm'[d].asks = "approval" =>
       dm[d].asks = "approval" \/ state \in AfterAsking
  /\ snag' \cap {"repeated", "overlap"} = {} =>
       \A t \in tasks' \cap dead' : Confirms(t) => t \in tasks \cap dead

LEMMA RequestsMove ==
  ASSUME DeskInv, NEW new, Quiet(new)
  PROVE  /\ TypeOK' /\ RequestsTrue' /\ Asked' /\ OneDecision' /\ OneMail'
         /\ MailMatchesDecision'
<1>1. TypeOK'
  BY DEF Quiet, DeskInv, TypeOK, Messages
<1>2. \A d \in Dm : dm[d] # NoDm => dm'[d] # NoDm
  BY DEF Quiet, DeskInv, TypeOK, NoDm, Messages
<1>3. \A t \in Requests : t \in Task
  BY DEF Quiet, DeskInv, TypeOK, Requests
<1>4. RequestsTrue'
  <2>1. ASSUME NEW t \in Requests'
        PROVE  /\ t.from # 0 => t.type = "pa.decision" /\ dm'[t.from] # NoDm
               /\ t.type = "compose" =>
                    t.whole /\ t.decision \in {"approved", "rejected"}
    <3>1. t \in Requests \cup new
      BY <2>1 DEF Quiet
    <3>2. CASE t \in new
      BY <3>2 DEF Quiet
    <3>3. CASE t \in Requests
      <4>1. t.from \in {0} \cup Dm
        BY <1>3, <3>3 DEF Task
      <4> QED BY <1>2, <3>3, <4>1 DEF DeskInv, RequestsTrue
    <3> QED BY <3>1, <3>2, <3>3
  <2> QED
    BY <2>1 DEF RequestsTrue
<1>5. Asked'
  BY DEF Quiet, DeskInv, Asked, Kept, Requests
<1>6. OneDecision'
  BY DEF Quiet, DeskInv, OneDecision, Requests
<1>7. OneMail'
  BY DEF Quiet, DeskInv, OneMail, Confirms, Requests
<1>8. MailMatchesDecision'
  BY DEF Quiet, DeskInv, MailMatchesDecision
<1> QED
  BY <1>1, <1>4, <1>5, <1>6, <1>7, <1>8

\* The rest of the invariant is about what is asked and on its way.
LEMMA QuietInv ==
  ASSUME DeskInv, NEW new, Quiet(new),
         PendingIsAsked', ConfirmationIsOnItsWay', ApprovedIsDecided'
  PROVE  DeskInv'
BY RequestsMove DEF DeskInv

\* What holds of a request in progress or kept.
LEMMA RequestIs ==
  ASSUME DeskInv, NEW t \in Requests
  PROVE  /\ t \in Task
         /\ t.from \in {0} \cup Dm
         /\ t.from # 0 => t.type = "pa.decision" /\ dm[t.from] # NoDm
         /\ t.type = "compose" =>
              t.whole /\ t.decision \in {"approved", "rejected"}
<1>1. t \in Task
  BY DEF DeskInv, TypeOK, Requests
<1> QED
  BY <1>1 DEF DeskInv, RequestsTrue, Task

LEMMA ApproveKeeps ==
  ASSUME DeskInv, NEW d \in Dm, Approve(d)
  PROVE  DeskInv'
<1> DEFINE u == Post("pa.decision", "approved", d)
<1>1. /\ u \in Task /\ u.type = "pa.decision" /\ u.from = d
  BY PostType DEF Dm
<1>2. /\ tasks' = tasks \cup {u} /\ dm[d] # NoDm
      /\ UNCHANGED <<members, read, state, dm, modal, mails, dead, snag>>
  BY DEF Approve, NoDm
<1> HIDE DEF u
<1>3. Quiet({u})
  BY <1>1, <1>2
     DEF Quiet, DeskInv, TypeOK, Messages, Requests, Confirms
<1>4. PendingIsAsked' /\ ConfirmationIsOnItsWay' /\ ApprovedIsDecided'
  BY <1>2
     DEF DeskInv, PendingIsAsked, ConfirmationIsOnItsWay, ApprovedIsDecided,
         Kept
<1> QED
  BY <1>3, <1>4, QuietInv

\* The dialog for a reason changes nothing but itself.
LEMMA ModalKeeps ==
  ASSUME DeskInv, (\E d \in Dm : OpenRejectionModal(d)) \/ SubmitModal
  PROVE  DeskInv'
<1>1. /\ modal' \in {0} \cup Dm
      /\ UNCHANGED <<members, read, state, dm, mails, dead, tasks, snag>>
  BY DEF OpenRejectionModal, SubmitModal
<1>2. Quiet({})
  BY <1>1 DEF Quiet, DeskInv, TypeOK, Messages, Requests
<1>3. PendingIsAsked' /\ ConfirmationIsOnItsWay' /\ ApprovedIsDecided'
  BY <1>1
     DEF DeskInv, PendingIsAsked, ConfirmationIsOnItsWay, ApprovedIsDecided,
         Kept
<1> QED
  BY <1>2, <1>3, QuietInv

\* A message is sent for a request, or Slack refuses it.
LEMMA NotifyKeeps ==
  ASSUME DeskInv, NEW t \in tasks, NEW asks \in {"approval", "exception"},
         \/ t.type = "ask" /\ asks = "approval"
         \/ t.type = "escalate" /\ asks = "exception",
         Notify(t, asks)
  PROVE  DeskInv'
<1>1. UNCHANGED <<members, read, state, modal, mails, dead>>
  BY DEF Notify
<1>2. asks = "approval" => state \in AfterAsking
  BY RequestIs DEF DeskInv, Asked, Kept, Requests
<1>3. ASSUME NEW d \in Dm, dm[d] = NoDm,
             dm' = [dm EXCEPT ![d] = [asks |-> asks, shows |-> "buttons"]],
             Take(t, {}, {})
      PROVE  DeskInv'
  <2>1. /\ tasks' \subseteq tasks /\ tasks \ {t} \subseteq tasks'
        /\ snag \subseteq snag' /\ snag' \subseteq snag \cup {"repeated"}
    BY <1>3, TakeKeeps
  <2>2. /\ dm' \in Messages
        /\ dm'[d] = [asks |-> asks, shows |-> "buttons"]
        /\ \A e \in Dm : e # d => dm'[e] = dm[e]
    BY <1>3 DEF DeskInv, TypeOK, Messages
  <2>3. Quiet({})
    BY <1>1, <1>2, <1>3, <2>1, <2>2 DEF Quiet, DeskInv, TypeOK, Requests
  <2>4. PendingIsAsked'
    BY <2>2 DEF PendingIsAsked
  <2>5. ConfirmationIsOnItsWay'
    BY <1>1, <2>1 DEF DeskInv, ConfirmationIsOnItsWay, Kept
  <2>6. ApprovedIsDecided'
    BY <1>1, <2>2 DEF DeskInv, ApprovedIsDecided
  <2> QED
    BY <2>3, <2>4, <2>5, <2>6, QuietInv
<1>4. CASE dm' = dm /\ Take(t, {}, {"unasked"})
  <2>1. /\ tasks' \subseteq tasks /\ tasks \ {t} \subseteq tasks'
        /\ snag \subseteq snag' /\ "unasked" \in snag'
        /\ snag' \subseteq snag \cup {"unasked", "repeated"}
    BY <1>4, TakeKeeps
  <2>2. Quiet({})
    BY <1>1, <1>4, <2>1 DEF Quiet, DeskInv, TypeOK, Messages, Requests
  <2>3. PendingIsAsked'
    BY <2>1 DEF PendingIsAsked
  <2>4. ConfirmationIsOnItsWay'
    BY <1>1, <2>1 DEF DeskInv, ConfirmationIsOnItsWay, Kept
  <2>5. ApprovedIsDecided'
    BY <1>1, <1>4 DEF DeskInv, ApprovedIsDecided
  <2> QED
    BY <2>2, <2>3, <2>4, <2>5, QuietInv
<1> QED
  BY <1>3, <1>4 DEF Notify

\* Answered is Show when the sender has its answer.
LEMMA AnsweredKeeps ==
  ASSUME DeskInv, NEW t \in Requests, Answered(t)
  PROVE  /\ dm' \in Messages
         /\ \A e \in Dm : dm'[e].asks = dm[e].asks
         /\ \A e \in Dm : dm'[e] = dm[e] \/ dm'[e].shows = "approved"
         /\ t.from = 0 => dm' = dm
<1>1. CASE dm' = dm
  BY <1>1 DEF DeskInv, TypeOK, Messages
<1>2. CASE Show(t.from, "approved")
  <2>1. t.from \in {0} \cup Dm /\ (t.from # 0 => dm[t.from] # NoDm)
    BY RequestIs
  <2> QED
    BY <1>2, <2>1, ShowKeeps
<1> QED
  BY <1>1, <1>2 DEF Answered

\* A move that is not legal is answered and forgotten.
LEMMA RejectKeeps ==
  ASSUME DeskInv, NEW t \in tasks, Reject(t)
  PROVE  DeskInv'
<1>1. /\ tasks' = tasks \ {t} /\ Answered(t)
      /\ UNCHANGED <<members, read, state, modal, mails, dead, snag>>
      /\ \/ t.type = "pa.decision" /\ state # "PA_PENDING"
         \/ t.type = "email.sent" /\ state # "CONFIRMATION_SENT"
  BY DEF Reject
<1>2. t \in Requests /\ (t.from # 0 => t.type = "pa.decision")
  BY RequestIs DEF Requests
<1>3. /\ dm' \in Messages
      /\ \A e \in Dm : dm'[e].asks = dm[e].asks
      /\ \A e \in Dm : dm'[e] = dm[e] \/ dm'[e].shows = "approved"
      /\ t.from = 0 => dm' = dm
  BY <1>1, <1>2, AnsweredKeeps
<1>4. Quiet({})
  BY <1>1, <1>3 DEF Quiet, DeskInv, TypeOK, Requests
<1>5. PendingIsAsked'
  <2>1. CASE t.type = "pa.decision"
    BY <1>1, <2>1 DEF PendingIsAsked
  <2>2. CASE t.type = "email.sent"
    <3>1. dm' = dm
      BY <1>2, <1>3, <2>2
    <3> QED
      BY <1>1, <2>2, <3>1 DEF DeskInv, PendingIsAsked, Kept
  <2> QED
    BY <1>1, <2>1, <2>2
<1>6. ConfirmationIsOnItsWay'
  BY <1>1 DEF DeskInv, ConfirmationIsOnItsWay, Kept
<1>7. ApprovedIsDecided'
  <2>1. CASE t.type = "pa.decision"
    BY <1>1, <2>1 DEF ApprovedIsDecided
  <2>2. CASE t.type = "email.sent"
    <3>1. dm' = dm
      BY <1>2, <1>3, <2>2
    <3> QED
      BY <1>1, <3>1 DEF DeskInv, ApprovedIsDecided
  <2> QED
    BY <1>1, <2>1, <2>2
<1> QED
  BY <1>4, <1>5, <1>6, <1>7, QuietInv

\* A request that is refused or given up is kept; a click shows an error.
LEMMA KeepKeeps ==
  ASSUME DeskInv, NEW t \in tasks, Keep(t),
         UNCHANGED <<members, read, state, modal, mails, snag>>,
         dm' = dm \/ Show(t.from, "error")
  PROVE  DeskInv'
<1>1. tasks' = tasks \ {t} /\ dead' = dead \cup {t}
  BY DEF Keep
<1>2. /\ t \in Requests
      /\ t.from \in {0} \cup Dm
      /\ t.from # 0 => t.type = "pa.decision" /\ dm[t.from] # NoDm
  BY RequestIs DEF Requests
<1>3. /\ dm' \in Messages
      /\ \A e \in Dm : dm'[e].asks = dm[e].asks
      /\ \A e \in Dm : dm'[e] = dm[e] \/ dm'[e].shows = "error"
      /\ t.from = 0 => dm' = dm
  <2>1. CASE dm' = dm
    BY <2>1 DEF DeskInv, TypeOK, Messages
  <2>2. CASE Show(t.from, "error")
    BY <1>2, <2>2, ShowKeeps
  <2> QED
    BY <2>1, <2>2
<1>4. Quiet({})
  BY <1>1, <1>3 DEF Quiet, DeskInv, TypeOK, Requests
<1>5. PendingIsAsked'
  <2>1. CASE t.from = 0
    BY <1>1, <1>3, <2>1 DEF DeskInv, PendingIsAsked, Kept
  <2>2. CASE t.from # 0
    BY <1>1, <1>2, <2>2 DEF PendingIsAsked, Kept
  <2> QED
    BY <2>1, <2>2
<1>6. ConfirmationIsOnItsWay'
  BY <1>1 DEF DeskInv, ConfirmationIsOnItsWay, Kept
<1>7. ApprovedIsDecided'
  BY <1>3 DEF DeskInv, ApprovedIsDecided
<1> QED
  BY <1>4, <1>5, <1>6, <1>7, QuietInv

\* A request put back by hand is the same without its click.
LEMMA RequeueKeeps ==
  ASSUME DeskInv, NEW t \in dead, Requeue(t)
  PROVE  DeskInv'
<1>1. PICK u : u = [type |-> t.type, decision |-> t.decision, from |-> 0,
                    whole |-> t.whole]
  OBVIOUS
<1>2. /\ dead' = dead \ {t} /\ tasks' = tasks \cup {u}
      /\ snag' = snag \cup {r \in {"repeated"} : t.type = "compose"}
      /\ UNCHANGED <<members, read, state, dm, modal, mails>>
  BY <1>1 DEF Requeue
<1>3. /\ t \in Task
      /\ t.from # 0 => t.type = "pa.decision"
  BY RequestIs DEF Requests
<1>4. /\ u \in Task /\ u.type = t.type /\ u.from = 0
      /\ t.from = 0 => u = t
  BY <1>1, <1>3 DEF Task
<1>5. t.type = "compose" <=> "repeated" \in {r \in {"repeated"} :
                                              t.type = "compose"}
  OBVIOUS
<1>6. Quiet({u} \ {t})
  <2>1. \A v \in {u} \ {t} : v.type \notin {"ask", "compose"} /\ v.from = 0
    BY <1>3, <1>4
  <2>2. Requests' \subseteq Requests \cup ({u} \ {t})
    BY <1>2 DEF Requests
  <2>3. snag' \cap {"repeated", "overlap"} = {} =>
          \A v \in tasks' \cap dead' : Confirms(v) => v \in tasks \cap dead
    BY <1>2, <1>4, <1>5 DEF Confirms
  <2> QED
    BY <1>2, <1>4, <2>1, <2>2, <2>3 DEF Quiet, DeskInv, TypeOK, Messages
<1>7. PendingIsAsked' /\ ConfirmationIsOnItsWay' /\ ApprovedIsDecided'
  BY <1>2, <1>4
     DEF DeskInv, PendingIsAsked, ConfirmationIsOnItsWay, ApprovedIsDecided,
         Kept
<1> QED
  BY <1>6, <1>7, QuietInv

\* Two of the tasks by hand are decisions and reports.
LEMMA PostKeeps ==
  ASSUME DeskInv, NEW u \in Task, u.type \in {"pa.decision", "email.sent"},
         u.from = 0, tasks' = tasks \cup {u},
         UNCHANGED <<members, read, state, dm, modal, mails, dead, snag>>
  PROVE  DeskInv'
<1>1. Quiet({u})
  BY DEF Quiet, DeskInv, TypeOK, Messages, Requests, Confirms
<1>2. PendingIsAsked' /\ ConfirmationIsOnItsWay' /\ ApprovedIsDecided'
  BY DEF DeskInv, PendingIsAsked, ConfirmationIsOnItsWay, ApprovedIsDecided,
         Kept
<1> QED
  BY <1>1, <1>2, QuietInv

\* The third asks for a rejection that was decided.
LEMMA PostRejectionKeeps ==
  ASSUME DeskInv, state = "PA_REJECTED",
         tasks' = tasks \cup {Post("compose", "rejected", 0)},
         UNCHANGED <<members, read, state, dm, modal, mails, dead, snag>>
  PROVE  DeskInv'
<1>1. PICK u : u = Post("compose", "rejected", 0)
  OBVIOUS
<1>2. /\ u \in Task /\ u.type = "compose" /\ u.decision = "rejected"
      /\ u.from = 0 /\ u.whole
  BY <1>1, PostType
<1>3. tasks' = tasks \cup {u}
  BY <1>1
<1>4. TypeOK'
  BY <1>2, <1>3 DEF DeskInv, TypeOK
<1>5. RequestsTrue'
  BY <1>2, <1>3 DEF DeskInv, RequestsTrue, Requests
<1>6. Asked'
  BY <1>2, <1>3 DEF DeskInv, Asked, Kept
<1>7. OneDecision'
  BY <1>2, <1>3 DEF DeskInv, OneDecision, Requests
<1>8. OneMail'
  BY <1>2, <1>3 DEF DeskInv, OneMail, Requests, Confirms
<1>9. /\ PendingIsAsked' /\ ConfirmationIsOnItsWay' /\ ApprovedIsDecided'
      /\ MailMatchesDecision'
  BY <1>2, <1>3
     DEF DeskInv, PendingIsAsked, ConfirmationIsOnItsWay, ApprovedIsDecided,
         MailMatchesDecision, Kept
<1> QED
  BY <1>4, <1>5, <1>6, <1>7, <1>8, <1>9 DEF DeskInv

LEMMA PostByHandKeeps ==
  ASSUME DeskInv, PostByHand
  PROVE  DeskInv'
<1>1. UNCHANGED <<members, read, state, dm, modal, mails, dead, snag>>
  BY DEF PostByHand
<1>2. ASSUME NEW decision \in {"approved", "rejected"},
             tasks' = tasks \cup {Post("pa.decision", decision, 0)}
      PROVE  DeskInv'
  <2>1. /\ Post("pa.decision", decision, 0) \in Task
        /\ Post("pa.decision", decision, 0).type = "pa.decision"
        /\ Post("pa.decision", decision, 0).from = 0
    BY PostType
  <2> QED
    BY <1>1, <1>2, <2>1, PostKeeps
<1>3. CASE tasks' = tasks \cup {[type |-> "email.sent",
                                decision |-> "approved", from |-> 0,
                                whole |-> TRUE]}
  <2>1. PICK u : u = [type |-> "email.sent", decision |-> "approved",
                      from |-> 0, whole |-> TRUE]
    OBVIOUS
  <2>2. u \in Task /\ u.type = "email.sent" /\ u.from = 0
    BY <2>1 DEF Task
  <2> QED
    BY <1>1, <1>3, <2>1, <2>2, PostKeeps
<1>4. CASE /\ state = "PA_REJECTED"
           /\ tasks' = tasks \cup {Post("compose", "rejected", 0)}
  BY <1>1, <1>4, PostRejectionKeeps
<1> QED
  BY <1>2, <1>3, <1>4 DEF PostByHand

---------------------------------------------------------------------------
(* The steps that mail, decide and move the row                            *)

\* The mail is sent, at the first request for it, and reported.
LEMMA SentKeeps ==
  ASSUME DeskInv, NEW t \in tasks, NEW decision \in {"approved", "rejected"},
         NEW kind \in {"confirmation", "rejection"},
         kind = "confirmation" <=> decision = "approved",
         t.type = "compose", t.decision = decision,
         mails' = [mails EXCEPT ![kind] = IF @ = 2 THEN 2 ELSE @ + 1],
         Take(t, {Post("email.sent", decision, 0)}, {}),
         UNCHANGED <<members, read, state, dm, modal, dead>>
  PROVE  DeskInv'
<1>1. PICK u : u = Post("email.sent", decision, 0)
  OBVIOUS
<1>2. u \in Task /\ u.type = "email.sent" /\ u.from = 0
  BY <1>1, PostType
<1>3. /\ tasks' \subseteq tasks \cup {u} /\ (tasks \ {t}) \cup {u} \subseteq tasks'
      /\ snag \subseteq snag' /\ snag' \subseteq snag \cup {"repeated"}
      /\ t \in tasks' => t \in {u} \/ t.type # "compose" \/ "repeated" \in snag'
  BY <1>1, TakeKeeps
<1>4. t \in tasks' => "repeated" \in snag'
  BY <1>2, <1>3
<1>5. /\ mails' \in [{"confirmation", "rejection"} -> 0 .. 2]
      /\ mails'[kind] = IF mails[kind] = 2 THEN 2 ELSE mails[kind] + 1
      /\ \A k \in {"confirmation", "rejection"} :
           k # kind => mails'[k] = mails[k]
      /\ mails \in [{"confirmation", "rejection"} -> 0 .. 2]
  BY DEF DeskInv, TypeOK
<1>6. TypeOK'
  BY <1>2, <1>3, <1>5 DEF DeskInv, TypeOK
<1>7. RequestsTrue'
  BY <1>2, <1>3 DEF DeskInv, RequestsTrue, Requests
<1>8. Asked'
  BY <1>2, <1>3 DEF DeskInv, Asked, Kept
<1>9. OneDecision'
  BY <1>2, <1>3 DEF DeskInv, OneDecision, Requests
<1>10. OneMail'
  <2> SUFFICES ASSUME snag' \cap {"repeated", "overlap"} = {} PROVE OneMail'
    BY DEF OneMail
  <2>1. /\ mails["confirmation"] <= 1
        /\ mails["confirmation"] = 1 => \A v \in Requests : ~ Confirms(v)
        /\ \A v \in tasks \cap dead : ~ Confirms(v)
    BY <1>3 DEF DeskInv, OneMail
  <2>2. \A v \in tasks' \cap dead : ~ Confirms(v)
    BY <1>2, <1>3, <2>1 DEF Confirms
  <2>3. CASE kind = "rejection"
    <3>1. mails'["confirmation"] = mails["confirmation"]
      BY <1>5, <2>3
    <3>2. \A v \in Requests' : Confirms(v) => v \in Requests
      BY <1>2, <1>3 DEF Requests, Confirms
    <3> QED
      BY <2>1, <2>2, <3>1, <3>2 DEF OneMail
  <2>4. CASE kind = "confirmation"
    <3>1. Confirms(t) /\ t \in Requests
      BY <2>4 DEF Confirms, Requests
    <3>2. mails["confirmation"] = 0 /\ mails'["confirmation"] = 1
      BY <1>5, <2>1, <2>4, <3>1
    <3>3. ASSUME NEW v \in Requests, Confirms(v)
          PROVE  v = t
      <4>1. /\ v \in Task /\ v.type = "compose" /\ v.decision = "approved"
            /\ v.from = 0 /\ v.whole = TRUE
        BY <3>3, RequestIs DEF Confirms, Task
      <4>2. /\ t \in Task /\ t.type = "compose" /\ t.decision = "approved"
            /\ t.from = 0 /\ t.whole = TRUE
        BY <3>1, RequestIs DEF Confirms, Task
      <4> QED
        BY <4>1, <4>2 DEF Task
    <3>4. t \notin dead /\ t \notin tasks'
      BY <1>4, <2>1, <3>1
    <3>5. \A v \in Requests' : ~ Confirms(v)
      BY <1>2, <1>3, <3>3, <3>4 DEF Requests, Confirms
    <3> QED
      BY <2>2, <3>2, <3>5 DEF OneMail
  <2> QED
    BY <2>3, <2>4
<1>11. PendingIsAsked'
  BY <1>3 DEF DeskInv, PendingIsAsked, Kept
<1>12. ConfirmationIsOnItsWay'
  BY <1>2, <1>3 DEF ConfirmationIsOnItsWay, Kept
<1>13. ApprovedIsDecided'
  BY DEF DeskInv, ApprovedIsDecided
<1>14. MailMatchesDecision'
  <2>1. t \in Requests
    BY DEF Requests
  <2>2. "overlap" \notin snag' =>
          IF kind = "confirmation" THEN state \in Confirmed
                                   ELSE state = "PA_REJECTED"
    BY <1>3, <2>1 DEF DeskInv, OneDecision
  <2> QED
    BY <1>3, <1>5, <2>2 DEF DeskInv, MailMatchesDecision, Confirmed
<1> QED
  BY <1>6, <1>7, <1>8, <1>9, <1>10, <1>11, <1>12, <1>13, <1>14 DEF DeskInv

\* A mail that is not sent is only logged.
LEMMA MailKeeps ==
  ASSUME DeskInv, NEW t \in tasks, NEW decision \in {"approved", "rejected"},
         NEW kind \in {"confirmation", "rejection"},
         kind = "confirmation" <=> decision = "approved",
         Mail(t, decision, kind)
  PROVE  DeskInv'
<1>1. /\ t.type = "compose" /\ t.decision = decision
      /\ UNCHANGED <<members, read, state, dm, modal, dead>>
  BY DEF Mail
<1>2. CASE /\ mails' = [mails EXCEPT ![kind] = IF @ = 2 THEN 2 ELSE @ + 1]
           /\ Take(t, {Post("email.sent", decision, 0)}, {})
  BY <1>1, <1>2, SentKeeps
<1>3. CASE UNCHANGED mails /\ Take(t, {}, {"unmailed"})
  <2>1. /\ tasks' \subseteq tasks /\ tasks \ {t} \subseteq tasks'
        /\ snag \subseteq snag' /\ "unmailed" \in snag'
        /\ snag' \subseteq snag \cup {"unmailed", "repeated"}
    BY <1>3, TakeKeeps
  <2>2. Quiet({})
    BY <1>1, <1>3, <2>1 DEF Quiet, DeskInv, TypeOK, Messages, Requests
  <2>3. PendingIsAsked' /\ ConfirmationIsOnItsWay' /\ ApprovedIsDecided'
    BY <1>1, <2>1
       DEF DeskInv, PendingIsAsked, ConfirmationIsOnItsWay, ApprovedIsDecided,
           Kept
  <2> QED
    BY <2>2, <2>3, QuietInv
<1> QED
  BY <1>2, <1>3 DEF Mail

\* Nothing was asked before the row gets to the PA.
LEMMA EarlyNothing ==
  ASSUME DeskInv, state \notin AfterAsking
  PROVE  /\ ~ Kept({"ask"})
         /\ \A d \in Dm : dm[d].asks # "approval"
         /\ "overlap" \notin snag =>
              /\ read = {} /\ mails["confirmation"] = 0
              /\ mails["rejection"] = 0
              /\ \A t \in Requests : t.type # "compose"
<1>1. ~ Kept({"ask"}) /\ \A d \in Dm : dm[d].asks # "approval"
  BY DEF DeskInv, Asked
<1>2. ASSUME "overlap" \notin snag
      PROVE  /\ read = {}
             /\ \A t \in Requests : t.type # "compose"
  BY <1>2 DEF DeskInv, OneDecision, RequestsTrue, AfterAsking, Confirmed
<1>3. ASSUME "overlap" \notin snag
      PROVE  mails["confirmation"] = 0 /\ mails["rejection"] = 0
  <2>1. /\ mails["confirmation"] \in 0 .. 2
        /\ mails["rejection"] \in 0 .. 2
    BY DEF DeskInv, TypeOK
  <2> QED
    BY <1>3, <2>1 DEF DeskInv, MailMatchesDecision, AfterAsking
<1> QED
  BY <1>1, <1>2, <1>3

\* The PA is asked for the slot, or for the exception.
LEMMA AskKeeps ==
  ASSUME DeskInv, HandleSlotFound \/ HandleEligibilityResult
  PROVE  DeskInv'
<1>1. PICK u : \/ /\ HandleSlotFound /\ u = Post("ask", "none", 0)
               \/ /\ HandleEligibilityResult /\ u = Post("escalate", "none", 0)
  OBVIOUS
<1>2. /\ u \in Task /\ u.type \in {"ask", "escalate"} /\ u.from = 0
      /\ \/ state' = "PA_PENDING" /\ u.type = "ask"
         \/ state' = "URGENT_ESCALATED_TO_PA" /\ u.type = "escalate"
  BY <1>1, PostType DEF HandleSlotFound, HandleEligibilityResult
<1>3. /\ tasks' = tasks \cup {u}
      /\ state \in {"ELIGIBILITY_CHECK", "FINDING_SLOT"}
      /\ UNCHANGED <<members, read, dm, modal, mails, dead, snag>>
  BY <1>1 DEF HandleSlotFound, HandleEligibilityResult
<1>4. /\ ~ Kept({"ask"})
      /\ \A d \in Dm : dm[d].asks # "approval"
      /\ "overlap" \notin snag =>
           /\ read = {} /\ mails["confirmation"] = 0
           /\ mails["rejection"] = 0
           /\ \A t \in Requests : t.type # "compose"
  BY <1>3, EarlyNothing DEF AfterAsking
<1>5. TypeOK'
  BY <1>2, <1>3 DEF DeskInv, TypeOK
<1>6. RequestsTrue'
  BY <1>2, <1>3 DEF DeskInv, RequestsTrue, Requests
<1>7. Asked'
  BY <1>2, <1>3, <1>4 DEF Asked, Kept, AfterAsking
<1>8. OneDecision'
  BY <1>2, <1>3, <1>4 DEF OneDecision, Requests
<1>9. OneMail'
  BY <1>2, <1>3 DEF DeskInv, OneMail, Requests, Confirms
<1>10. PendingIsAsked'
  BY <1>2, <1>3 DEF PendingIsAsked, Kept
<1>11. ConfirmationIsOnItsWay' /\ ApprovedIsDecided'
  BY <1>2, <1>3, <1>4 DEF ConfirmationIsOnItsWay, ApprovedIsDecided
<1>12. MailMatchesDecision'
  BY <1>3, <1>4 DEF MailMatchesDecision
<1> QED
  BY <1>5, <1>6, <1>7, <1>8, <1>9, <1>10, <1>11, <1>12 DEF DeskInv

\* A decision found to be legal is read beside others, or alone.
LEMMA ReadKeeps ==
  ASSUME DeskInv, NEW t \in tasks, ReadDecision(t)
  PROVE  DeskInv'
<1>1. /\ t.type = "pa.decision" /\ state = "PA_PENDING"
      /\ read' = read \cup {t}
      /\ snag' = snag \cup {r \in {"overlap"} : read # {}}
      /\ UNCHANGED <<members, state, dm, modal, mails, dead, tasks>>
  BY DEF ReadDecision
<1>2. /\ snag \subseteq snag' /\ snag' \subseteq snag \cup {"overlap"}
      /\ "overlap" \notin snag' => read = {}
  BY <1>1
<1>3. t \in Task
  BY DEF DeskInv, TypeOK
<1>4. TypeOK'
  BY <1>1, <1>2, <1>3 DEF DeskInv, TypeOK
<1>5. RequestsTrue' /\ Asked'
  BY <1>1 DEF DeskInv, RequestsTrue, Asked, Requests, Kept
<1>6. OneDecision'
  BY <1>1, <1>2 DEF DeskInv, OneDecision, Requests
<1>7. OneMail'
  BY <1>1, <1>2 DEF DeskInv, OneMail, Requests, Confirms
<1>8. PendingIsAsked' /\ ConfirmationIsOnItsWay' /\ ApprovedIsDecided'
  BY <1>1
     DEF PendingIsAsked, ConfirmationIsOnItsWay, DeskInv, ApprovedIsDecided
<1>9. MailMatchesDecision'
  BY <1>1, <1>2 DEF DeskInv, MailMatchesDecision
<1> QED
  BY <1>4, <1>5, <1>6, <1>7, <1>8, <1>9 DEF DeskInv

\* The decision is committed; an approval asks the composer.
LEMMA DecisionKeeps ==
  ASSUME DeskInv, NEW t \in read, HandlePaDecision(t)
  PROVE  DeskInv'
<1>1. PICK u : u = Post("compose", "approved", 0)
  OBVIOUS
<1>2. /\ u \in Task /\ u.type = "compose" /\ u.decision = "approved"
      /\ u.from = 0 /\ u.whole
  BY <1>1, PostType
<1>3. PICK new : new = {u : d \in {t.decision} \ {"rejected"}}
  OBVIOUS
<1>4. /\ new \subseteq {u}
      /\ t.decision = "rejected" => new = {}
      /\ t.decision # "rejected" => new = {u}
  BY <1>3
<1>5. /\ read' = read \ {t} /\ state' = Decided(t.decision)
      /\ Take(t, new, {}) /\ Answered(t)
      /\ UNCHANGED <<members, modal, mails, dead>>
  BY <1>1, <1>3 DEF HandlePaDecision
<1>6. t \in Task /\ t.type = "pa.decision"
  BY DEF DeskInv, TypeOK
<1>7. /\ tasks' \subseteq tasks \cup new
      /\ (tasks \ {t}) \cup new \subseteq tasks'
      /\ snag \subseteq snag' /\ snag' \subseteq snag \cup {"repeated"}
  BY <1>5 DEF Take
<1>8. /\ t.decision = "rejected" => state' = "PA_REJECTED"
      /\ t.decision # "rejected" => state' = "CONFIRMATION_SENT"
  BY <1>5 DEF Decided
<1>9. /\ dm' \in Messages
      /\ \A e \in Dm : dm'[e].asks = dm[e].asks
  <2>1. CASE t \in tasks
    BY <1>5, <2>1, AnsweredKeeps DEF Requests
  <2>2. CASE t \notin tasks
    BY <1>5, <2>2 DEF Answered, DeskInv, TypeOK, Messages
  <2> QED
    BY <2>1, <2>2
<1>10. "overlap" \notin snag =>
         /\ state = "PA_PENDING" /\ read' = {}
         /\ mails["confirmation"] = 0 /\ mails["rejection"] = 0
         /\ \A v \in Requests : v.type # "compose"
  <2> SUFFICES ASSUME "overlap" \notin snag
               PROVE  /\ state = "PA_PENDING" /\ read' = {}
                      /\ mails["confirmation"] = 0 /\ mails["rejection"] = 0
                      /\ \A v \in Requests : v.type # "compose"
    OBVIOUS
  <2>1. state = "PA_PENDING" /\ read' = {}
    BY <1>5 DEF DeskInv, OneDecision
  <2>2. /\ mails["confirmation"] \in 0 .. 2
        /\ mails["rejection"] \in 0 .. 2
    BY DEF DeskInv, TypeOK
  <2>3. mails["confirmation"] = 0 /\ mails["rejection"] = 0
    BY <2>1, <2>2 DEF DeskInv, MailMatchesDecision
  <2>4. \A v \in Requests : v.type # "compose"
    BY <2>1 DEF DeskInv, OneDecision, RequestsTrue, Confirmed
  <2> QED
    BY <2>1, <2>3, <2>4
<1>11. TypeOK'
  BY <1>2, <1>4, <1>5, <1>7, <1>8, <1>9 DEF DeskInv, TypeOK, Messages
<1>12. \A e \in Dm : dm[e] # NoDm => dm'[e] # NoDm
  BY <1>9 DEF DeskInv, TypeOK, NoDm
<1>13. RequestsTrue'
  <2>1. ASSUME NEW v \in Requests'
        PROVE  /\ v.from # 0 => v.type = "pa.decision" /\ dm'[v.from] # NoDm
               /\ v.type = "compose" =>
                    v.whole /\ v.decision \in {"approved", "rejected"}
    <3>1. v \in Requests \cup {u}
      BY <1>4, <1>5, <1>7, <2>1 DEF Requests
    <3>2. CASE v = u
      BY <1>2, <3>2
    <3>3. CASE v \in Requests
      BY <1>12, <3>3, RequestIs
    <3> QED BY <3>1, <3>2, <3>3
  <2> QED
    BY <2>1 DEF RequestsTrue
<1>14. Asked'
  BY <1>2, <1>8 DEF Asked, AfterAsking
<1>15. OneDecision'
  BY <1>2, <1>4, <1>5, <1>7, <1>8, <1>10
     DEF OneDecision, Requests, Confirmed
<1>16. OneMail'
  BY <1>2, <1>4, <1>5, <1>7, <1>10 DEF OneMail, Requests, Confirms
<1>17. PendingIsAsked'
  BY <1>8 DEF PendingIsAsked
<1>18. ConfirmationIsOnItsWay'
  BY <1>2, <1>4, <1>7, <1>8 DEF ConfirmationIsOnItsWay, Kept
<1>19. ApprovedIsDecided'
  BY <1>8 DEF ApprovedIsDecided
<1>20. MailMatchesDecision'
  BY <1>5, <1>7, <1>10 DEF MailMatchesDecision
<1> QED
  BY <1>11, <1>13, <1>14, <1>15, <1>16, <1>17, <1>18, <1>19, <1>20
     DEF DeskInv

\* The mailed confirmation moves the row on.
LEMMA EmailSentKeeps ==
  ASSUME DeskInv, NEW t \in tasks, HandleEmailSent(t)
  PROVE  DeskInv'
<1>1. /\ t.type = "email.sent" /\ state = "CONFIRMATION_SENT"
      /\ state' = "RSVP_PENDING" /\ Take(t, {}, {})
      /\ UNCHANGED <<members, read, dm, modal, mails, dead>>
  BY DEF HandleEmailSent
<1>2. /\ tasks' \subseteq tasks /\ tasks \ {t} \subseteq tasks'
      /\ snag \subseteq snag' /\ snag' \subseteq snag \cup {"repeated"}
  BY <1>1, TakeKeeps
<1>3. TypeOK'
  BY <1>1, <1>2 DEF DeskInv, TypeOK
<1>4. RequestsTrue' /\ Asked'
  BY <1>1, <1>2 DEF DeskInv, RequestsTrue, Asked, Requests, Kept, AfterAsking
<1>5. OneDecision'
  BY <1>1, <1>2 DEF DeskInv, OneDecision, Requests, Confirmed
<1>6. OneMail'
  BY <1>1, <1>2 DEF DeskInv, OneMail, Requests, Confirms
<1>7. PendingIsAsked' /\ ConfirmationIsOnItsWay' /\ ApprovedIsDecided'
  BY <1>1 DEF PendingIsAsked, ConfirmationIsOnItsWay, ApprovedIsDecided
<1>8. MailMatchesDecision'
  BY <1>1, <1>2 DEF DeskInv, MailMatchesDecision
<1> QED
  BY <1>3, <1>4, <1>5, <1>6, <1>7, <1>8 DEF DeskInv

---------------------------------------------------------------------------
(* The theorems *)

LEMMA DeskInit == Init => DeskInv
<1> SUFFICES ASSUME Init PROVE DeskInv
  OBVIOUS
<1>1. /\ tasks = {} /\ dead = {} /\ read = {} /\ snag = {}
      /\ state \in {"ELIGIBILITY_CHECK", "FINDING_SLOT"}
      /\ \A d \in Dm : dm[d] = NoDm
      /\ mails["confirmation"] = 0 /\ mails["rejection"] = 0
  BY DEF Init
<1>2. TypeOK
  BY DEF Init, TypeOK
<1>3. RequestsTrue /\ OneMail /\ OneDecision
  BY <1>1 DEF RequestsTrue, OneMail, OneDecision, Requests
<1>4. Asked /\ ApprovedIsDecided
  BY <1>1 DEF Asked, Kept, ApprovedIsDecided, NoDm
<1>5. PendingIsAsked /\ ConfirmationIsOnItsWay /\ MailMatchesDecision
  BY <1>1 DEF PendingIsAsked, ConfirmationIsOnItsWay, MailMatchesDecision
<1> QED
  BY <1>2, <1>3, <1>4, <1>5 DEF DeskInv

\* One case per action.
LEMMA DeskStep == DeskInv /\ [Next]_vars => DeskInv'
<1> SUFFICES ASSUME DeskInv, [Next]_vars PROVE DeskInv'
  OBVIOUS
<1>1. CASE HandleSlotFound \/ HandleEligibilityResult
  BY <1>1, AskKeeps
<1>2. CASE PostByHand
  BY <1>2, PostByHandKeeps
<1>3. CASE (\E d \in Dm : OpenRejectionModal(d)) \/ SubmitModal
  BY <1>3, ModalKeeps
<1>4. ASSUME NEW d \in Dm, Approve(d) PROVE DeskInv'
  BY <1>4, ApproveKeeps
<1>5. ASSUME NEW t \in tasks, ReadDecision(t) PROVE DeskInv'
  BY <1>5, ReadKeeps
<1>6. ASSUME NEW t \in tasks, HandleEmailSent(t) PROVE DeskInv'
  BY <1>6, EmailSentKeeps
<1>7. ASSUME NEW t \in tasks, Reject(t) PROVE DeskInv'
  BY <1>7, RejectKeeps
<1>8. ASSUME NEW t \in tasks, SendApprovalDm(t) \/ SendEscalationDm(t)
      PROVE  DeskInv'
  <2>1. CASE t.type = "ask" /\ Notify(t, "approval")
    BY <2>1, NotifyKeeps
  <2>2. CASE t.type = "escalate" /\ Notify(t, "exception")
    BY <2>2, NotifyKeeps
  <2> QED
    BY <1>8, <2>1, <2>2 DEF SendApprovalDm, SendEscalationDm
<1>9. ASSUME NEW t \in tasks, SendConfirmation(t) \/ SendRejection(t)
      PROVE  DeskInv'
  <2>1. CASE Mail(t, "approved", "confirmation")
    BY <2>1, MailKeeps
  <2>2. CASE Mail(t, "rejected", "rejection")
    BY <2>2, MailKeeps
  <2> QED
    BY <1>9, <2>1, <2>2 DEF SendConfirmation, SendRejection
<1>10. ASSUME NEW t \in tasks, Refuse(t) PROVE DeskInv'
  BY <1>10, KeepKeeps DEF Refuse
<1>11. ASSUME NEW t \in tasks, Lose(t) PROVE DeskInv'
  BY <1>11, KeepKeeps DEF Lose
<1>12. ASSUME NEW t \in read, HandlePaDecision(t) PROVE DeskInv'
  BY <1>12, DecisionKeeps
<1>13. ASSUME NEW t \in dead, Requeue(t) PROVE DeskInv'
  BY <1>13, RequeueKeeps
<1>14. CASE UNCHANGED vars
  <2>1. /\ UNCHANGED members /\ UNCHANGED state /\ UNCHANGED dm
        /\ UNCHANGED modal /\ UNCHANGED mails /\ UNCHANGED dead
        /\ UNCHANGED tasks /\ UNCHANGED read /\ UNCHANGED snag
    BY <1>14 DEF vars
  <2>2. Quiet({})
    BY <2>1 DEF Quiet, DeskInv, TypeOK, Messages, Requests
  <2>3. PendingIsAsked' /\ ConfirmationIsOnItsWay' /\ ApprovedIsDecided'
    BY <2>1
       DEF DeskInv, PendingIsAsked, ConfirmationIsOnItsWay, ApprovedIsDecided,
           Kept
  <2> QED
    BY <2>2, <2>3, QuietInv
<1> QED
  BY <1>1, <1>2, <1>3, <1>4, <1>5, <1>6, <1>7, <1>8, <1>9, <1>10, <1>11,
     <1>12, <1>13, <1>14
     DEF Next

\* The invariant holds in every reachable state.
LEMMA DeskInvariant == Spec => []DeskInv
BY DeskInit, DeskStep, PTL DEF Spec

\* Requests, messages and decisions keep their types, for any number of
\* messages and requests.
THEOREM TypeCorrect == Spec => []TypeOK
<1>1. DeskInv => TypeOK
  BY DEF DeskInv
<1> QED
  BY <1>1, DeskInvariant, PTL

\* Whoever waits for the PA was asked, or Slack refused the message
\* (send_approval_dm): no lost or repeated request, click or decision by hand
\* leaves a pipeline in PA_PENDING that nobody was told of.
THEOREM PendingWasAsked == Spec => []PendingIsAsked
<1>1. DeskInv => PendingIsAsked
  BY DEF DeskInv
<1> QED
  BY <1>1, DeskInvariant, PTL

\* An approved pipeline's confirmation is on its way, or kept, or Gmail
\* refused it (handle_pa_decision and send_confirmation).
THEOREM ConfirmationIsComing == Spec => []ConfirmationIsOnItsWay
<1>1. DeskInv => ConfirmationIsOnItsWay
  BY DEF DeskInv
<1> QED
  BY <1>1, DeskInvariant, PTL

\* Slack never says "APPROVED" while the pipeline still waits for the
\* decision (_handle_approve).
THEOREM ApprovedWasDecided == Spec => []ApprovedIsDecided
<1>1. DeskInv => ApprovedIsDecided
  BY DEF DeskInv
<1> QED
  BY <1>1, DeskInvariant, PTL

\* The mail a charity gets is the one for the decision taken, as long as no
\* two decisions overlap in transition() (email_composer/main.py).
THEOREM MailFollowsDecision == Spec => []MailMatchesDecision
<1>1. DeskInv => MailMatchesDecision
  BY DEF DeskInv
<1> QED
  BY <1>1, DeskInvariant, PTL

\* A second confirmation is mailed only when a request to the composer was
\* repeated or two decisions overlapped.
THEOREM SecondMailHasACause == Spec => []SecondMailWasRepeated
BY MailsBound, DeskInvariant, PTL
=============================================================================
