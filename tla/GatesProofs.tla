----------------------------- MODULE GatesProofs -----------------------------
(***************************************************************************)
(* The promises of the automatic gates, for any messages, organizations,   *)
(* tasks in progress and lost requests, and the bounds of the score, for   *)
(* every answer of the model and every wait.                               *)
(***************************************************************************)
EXTENDS Gates, Scoring, TLAPS

USE DEF Known, vouched

---------------------------------------------------------------------------
(* The inductive invariant *)

\* What the tasks in progress may say about their message.
TaskTrue(t) ==
  /\ t.ein \in {org[t.email], NoEin}
  /\ t.type = "email.classified" => t.ein = org[t.email]
  /\ t.type = "org.verified" =>
       /\ t.says \in {"verified", "unverified"}
       /\ t.says = "verified" => t.ein \in Known
  /\ t.type \in {"check", "eligibility.result"} =>
       row[t.email].state \in Behind /\ row[t.email].ein = t.ein
  /\ t.type = "eligibility.result" =>
       /\ t.ein # NoEin
       /\ t.says \in {"eligible", "escalate", "ineligible"}
       /\ t.says = "eligible" => t.email \notin seen
       /\ t.says = "ineligible" => t.email \notin urgent

TasksTrue == \A t \in tasks : TaskTrue(t)

\* The signals of a message are in its row, the organization of a message
\* in seen has a visit, and nobody is behind the eligibility check without
\* an EIN.
RowsTrue ==
  /\ \A m \in urgent : row[m].state # "none" => row[m].signals
  /\ \A m \in seen : org[m] \in appts /\ row[m].state \in Behind
  /\ \A m \in Email :
       row[m].state \in Behind \ {"ELIGIBILITY_CHECK"} => row[m].ein # NoEin
  /\ cache \subseteq Known

GatesInv ==
  /\ TypeOK /\ TasksTrue /\ RowsTrue
  /\ VerifiedWasFound /\ WindowRespected /\ UrgentNotDropped /\ StuckIsKept

---------------------------------------------------------------------------
(* What the helpers do *)

LEMMA PostType ==
  ASSUME NEW type \in TaskKind, NEW m \in Email, NEW ein \in Key,
         NEW says \in {"none", "clean", "merged", "duplicate", "verified",
                       "unverified", "eligible", "escalate", "ineligible"}
  PROVE  /\ Post(type, m, ein, says) \in Task
         /\ Post(type, m, ein, says).type = type
         /\ Post(type, m, ein, says).email = m
         /\ Post(type, m, ein, says).ein = ein
         /\ Post(type, m, ein, says).says = says
BY DEF Post, Task, Accepted

LEMMA TakeKeeps ==
  ASSUME NEW t \in tasks, NEW new, Take(t, new)
  PROVE  /\ tasks' \subseteq tasks \cup new
         /\ (tasks \ {t}) \cup new \subseteq tasks'
         /\ dead' = dead
BY DEF Take

\* What StuckIsKept says of one message.
WorkedOn(m) ==
  row[m].state \in {"DEDUP_CHECK", "VERIFYING", "ELIGIBILITY_CHECK",
                   "SCORING"} =>
    \E k \in Moves(row[m].state) :
      \/ \E t \in tasks : t.email = m /\ t.type = k
      \/ <<m, k>> \in dead
      \/ k = "check" /\ row[m].ein = NoEin

LEMMA StuckDef == StuckIsKept <=> \A m \in Email : WorkedOn(m)
BY DEF StuckIsKept, WorkedOn

\* A message whose row stays, and none of whose tasks ended.
LEMMA StaysWorkedOn ==
  ASSUME GatesInv, NEW m \in Email,
         row'[m].state = row[m].state, row'[m].ein = row[m].ein,
         dead \subseteq dead',
         \A u \in tasks : u.email = m => u \in tasks'
  PROVE  WorkedOn(m)'
<1>1. WorkedOn(m)
  BY StuckDef DEF GatesInv
<1>2. Moves(row[m].state)' = Moves(row[m].state)
  BY DEF Moves
<1> QED
  BY <1>1, <1>2 DEF WorkedOn

\* The part of the invariant that does not depend on the tasks.
RowPart == RowsTrue /\ VerifiedWasFound /\ WindowRespected /\ UrgentNotDropped

LEMMA RowsStay ==
  ASSUME GatesInv, UNCHANGED <<input, row, appts, seen>>,
         Known \subseteq Known', cache' \subseteq Known'
  PROVE  RowPart'
BY DEF GatesInv, RowPart, RowsTrue, VerifiedWasFound, WindowRespected,
       UrgentNotDropped, input

\* A move of one row, into Behind from Behind and with an EIN only, into
\* Scored only when the message was not in seen, and to the drop only when
\* it is not urgent.
LEMMA RowMoves ==
  ASSUME GatesInv, NEW m \in Email, NEW s \in State \ {"none"},
         row' = [row EXCEPT ![m].state = s], row[m].state # "none",
         s \in Behind <=> row[m].state \in Behind,
         s \in Behind => row[m].ein # NoEin,
         s \in Scored => m \notin seen,
         s = "DROPPED_WITHIN_90_DAYS" => m \notin urgent,
         UNCHANGED <<input, vouched, seen, cache>>, appts \subseteq appts'
  PROVE  /\ RowPart'
         /\ row' \in [Email -> [state : State, ein : Key,
                              signals : BOOLEAN]]
<1>1. row \in [Email -> [state : State, ein : Key, signals : BOOLEAN]]
  BY DEF GatesInv, TypeOK
<1>2. \A n \in Email : row'[n].signals = row[n].signals
                      /\ row'[n].ein = row[n].ein
                      /\ row'[n].state = IF n = m THEN s ELSE row[n].state
  BY <1>1
<1>3. row' \in [Email -> [state : State, ein : Key, signals : BOOLEAN]]
  BY <1>1
<1>4. RowsTrue'
  BY <1>2 DEF GatesInv, RowsTrue, TypeOK, input
<1>5. VerifiedWasFound' /\ WindowRespected' /\ UrgentNotDropped'
  BY <1>2 DEF GatesInv, VerifiedWasFound, WindowRespected, UrgentNotDropped,
              TypeOK, input
<1> QED
  BY <1>3, <1>4, <1>5 DEF RowPart

\* The tasks there are stay true while rows leave Behind nowhere, keep their
\* EIN there, and enter seen before.
LEMMA OldTasks ==
  ASSUME GatesInv, UNCHANGED input, Known \subseteq Known',
         \A m \in Email : row[m].state \in Behind =>
           /\ row'[m].state \in Behind /\ row'[m].ein = row[m].ein
           /\ m \in seen' => m \in seen
  PROVE  \A t \in tasks : TaskTrue(t)'
BY DEF GatesInv, TypeOK, Task, TasksTrue, TaskTrue, input

\* The same when one row moves.
LEMMA OldTasksMove ==
  ASSUME GatesInv, NEW m \in Email, NEW s \in State,
         row' = [row EXCEPT ![m].state = s],
         row[m].state \in Behind => s \in Behind,
         UNCHANGED <<input, vouched, seen>>
  PROVE  \A t \in tasks : TaskTrue(t)'
<1>1. \A n \in Email : row'[n].ein = row[n].ein
                      /\ row'[n].state = IF n = m THEN s ELSE row[n].state
  BY DEF GatesInv, TypeOK
<1> QED
  BY <1>1, OldTasks


\* A task is taken: what it leaves is true when the old and the new ones are.
LEMMA TakeTasks ==
  ASSUME GatesInv, NEW t \in tasks, NEW new \in SUBSET Task, Take(t, new),
         \A u \in tasks : TaskTrue(u)', \A u \in new : TaskTrue(u)'
  PROVE  /\ TasksTrue' /\ tasks' \subseteq Task
         /\ dead' \subseteq Email \X TaskKind
BY TakeKeeps DEF GatesInv, TypeOK, TasksTrue

\* The others are worked on as before.
LEMMA TakeStuck ==
  ASSUME GatesInv, NEW t \in tasks, NEW new, Take(t, new),
         \A m \in Email \ {t.email} :
           row'[m].state = row[m].state /\ row'[m].ein = row[m].ein,
         WorkedOn(t.email)'
  PROVE  StuckIsKept'
<1>1. ASSUME NEW m \in Email, m # t.email PROVE WorkedOn(m)'
  BY <1>1, TakeKeeps, StaysWorkedOn
<1>2. ASSUME NEW m \in Email PROVE WorkedOn(m)'
  BY <1>1, <1>2
<1> QED
  BY <1>2 DEF StuckIsKept, WorkedOn

\* The receiver of t moves nothing and answers with u, which moves what t
\* would have led to.
LEMMA AnswerStuck ==
  ASSUME GatesInv, NEW t \in tasks, NEW u, Take(t, {u}), u.email = t.email,
         \A m \in Email :
           row'[m].state = row[m].state /\ row'[m].ein = row[m].ein,
         \A s \in {"DEDUP_CHECK", "VERIFYING", "ELIGIBILITY_CHECK",
                   "SCORING"} :
           t.type \in Moves(s) => u.type \in Moves(s)
  PROVE  StuckIsKept'
<1> DEFINE m == t.email
<1>1. m \in Email /\ WorkedOn(m)
  BY StuckDef DEF GatesInv, TypeOK, Task
<1>2. Moves(row[m].state)' = Moves(row[m].state)
  BY <1>1 DEF Moves
<1>3. WorkedOn(m)'
  BY <1>1, <1>2, TakeKeeps DEF WorkedOn
<1> QED
  BY <1>3, TakeStuck

---------------------------------------------------------------------------
(* One lemma per action *)

LEMMA TaskParts ==
  ASSUME GatesInv, NEW t \in tasks
  PROVE  /\ t.email \in Email /\ t.ein \in Key /\ t.type \in TaskKind
         /\ org[t.email] \in Key /\ TaskTrue(t)
         /\ row[t.email].state \in State
         /\ row \in [Email -> [state : State, ein : Key, signals : BOOLEAN]]
BY DEF GatesInv, TypeOK, Task, TasksTrue, Key

LEMMA StepHandleEmailClassified ==
  ASSUME GatesInv, NEW m \in Email, HandleEmailClassified(m)
  PROVE  GatesInv'
<1> DEFINE u == Post("email.classified", m, org[m], "none")
<1>1. /\ u \in Task /\ u.type = "email.classified" /\ u.email = m
      /\ u.ein = org[m] /\ org[m] \in Key
  BY PostType DEF GatesInv, TypeOK, TaskKind, Key
<1>2. row \in [Email -> [state : State, ein : Key, signals : BOOLEAN]]
  BY DEF GatesInv, TypeOK
<1>3. \A n \in Email :
        row'[n] = IF n = m THEN [state |-> "DEDUP_CHECK", ein |-> org[m],
                                 signals |-> m \in urgent]
                           ELSE row[n]
  BY <1>2 DEF HandleEmailClassified
<1>4. TypeOK'
  BY <1>1, <1>2, <1>3
  DEF HandleEmailClassified, GatesInv, TypeOK, input, State, Key
<1>5. m \notin seen /\ row[m].state = "none" /\ "none" \notin Behind
      /\ "DEDUP_CHECK" \notin Behind
  BY DEF HandleEmailClassified, GatesInv, RowsTrue, Behind, Scored
<1>6. RowPart'
  BY <1>3, <1>5
  DEF HandleEmailClassified, RowPart, GatesInv, RowsTrue, VerifiedWasFound,
      WindowRespected, UrgentNotDropped, TypeOK, input, Scored, Behind
<1>7. TasksTrue'
  <2>1. \A t \in tasks : TaskTrue(t)'
    BY <1>3, <1>5, OldTasks DEF HandleEmailClassified, input
  <2>2. \A v \in {u} : TaskTrue(v)'
    BY <1>1 DEF HandleEmailClassified, TaskTrue, input
  <2>3. tasks' = tasks \cup {u}
    BY DEF HandleEmailClassified
  <2> HIDE DEF u
  <2> QED
    BY <2>1, <2>2, <2>3 DEF TasksTrue
<1>8. StuckIsKept'
  <2>1. ASSUME NEW n \in Email, n # m PROVE WorkedOn(n)'
    BY <1>3, <2>1, StaysWorkedOn DEF HandleEmailClassified
  <2>2. row'[m].state = "DEDUP_CHECK" /\ u \in tasks'
    BY <1>3 DEF HandleEmailClassified
  <2>3. Moves(row[m].state)' = {"email.classified", "dedup.result"}
    BY <2>2 DEF Moves
  <2>4. WorkedOn(m)'
    <3> HIDE DEF u
    <3> QED
      BY <1>1, <2>2, <2>3 DEF WorkedOn
  <2> QED
    BY <2>1, <2>4 DEF StuckIsKept, WorkedOn
<1> QED
  BY <1>4, <1>6, <1>7, <1>8 DEF GatesInv, RowPart

\* A handler of the orchestrator moves the row of t and hands on new tasks.
LEMMA StepMove ==
  ASSUME GatesInv, NEW t \in tasks, NEW s \in State \ {"none"},
         NEW new \in SUBSET Task, Take(t, new),
         row' = [row EXCEPT ![t.email].state = s],
         row[t.email].state # "none",
         s \in Behind <=> row[t.email].state \in Behind,
         s \in Behind => row[t.email].ein # NoEin,
         s \in Scored => t.email \notin seen,
         s = "DROPPED_WITHIN_90_DAYS" => t.email \notin urgent,
         \A u \in new : TaskTrue(u)',
         s \in {"DEDUP_CHECK", "VERIFYING", "ELIGIBILITY_CHECK", "SCORING"}
           => \E u \in new : u.email = t.email /\ u.type \in Moves(s),
         UNCHANGED <<input, appts, organizations, cache, dropped, vouched,
                     seen>>
  PROVE  GatesInv'
<1> DEFINE m == t.email
<1>1. m \in Email /\ row \in [Email -> [state : State, ein : Key,
                                       signals : BOOLEAN]]
  BY TaskParts
<1>2. /\ RowPart'
      /\ row' \in [Email -> [state : State, ein : Key, signals : BOOLEAN]]
  BY <1>1, RowMoves
<1>3. \A u \in tasks : TaskTrue(u)'
  BY <1>1, OldTasksMove
<1>4. /\ TasksTrue' /\ tasks' \subseteq Task
      /\ dead' \subseteq Email \X TaskKind
  BY <1>3, TakeTasks
<1>5. TypeOK'
  BY <1>2, <1>4 DEF GatesInv, TypeOK, input
<1>6. row'[m].state = s
      /\ \A n \in Email \ {m} : row'[n].state = row[n].state
                             /\ row'[n].ein = row[n].ein
  BY <1>1
<1>7. WorkedOn(m)'
  <2>1. Moves(row[m].state)' = Moves(s)
    BY <1>6 DEF Moves
  <2> QED
    BY <1>6, <2>1, TakeKeeps DEF WorkedOn
<1>8. StuckIsKept'
  BY <1>6, <1>7, TakeStuck
<1> QED
  BY <1>2, <1>4, <1>5, <1>8 DEF GatesInv, RowPart


LEMMA StepHandleDedupResult ==
  ASSUME GatesInv, NEW t \in tasks, HandleDedupResult(t)
  PROVE  GatesInv'
<1>1. row[t.email].state = "DEDUP_CHECK"
  BY DEF HandleDedupResult, Move
<1>2. CASE t.says = "duplicate"
  BY <1>1, <1>2, StepMove
  DEF HandleDedupResult, Move, State, Behind, Scored
<1>3. CASE t.says # "duplicate"
  <2> DEFINE u == Post("verify", t.email, t.ein, "none")
  <2>1. u \in Task /\ u.type = "verify" /\ u.email = t.email /\ u.ein = t.ein
    BY TaskParts, PostType DEF TaskKind
  <2>2. \A v \in {u} : TaskTrue(v)'
    BY <2>1, TaskParts DEF TaskTrue, HandleDedupResult, input
  <2>3. u.type \in Moves("VERIFYING")
    BY <2>1 DEF Moves
  <2>4. /\ Take(t, {u}) /\ row' = [row EXCEPT ![t.email].state = "VERIFYING"]
        /\ UNCHANGED <<input, appts, organizations, cache, dropped, vouched,
                       seen>>
    BY <1>3 DEF HandleDedupResult, Move
  <2> HIDE DEF u
  <2>5. {u} \in SUBSET Task
        /\ \E v \in {u} : v.email = t.email /\ v.type \in Moves("VERIFYING")
    BY <2>1, <2>3
  <2>6. /\ "VERIFYING" \in State \ {"none"} /\ "VERIFYING" \notin Scored
        /\ "VERIFYING" \notin Behind /\ row[t.email].state \notin Behind
    BY <1>1 DEF State, Behind, Scored
  <2> QED
    BY <1>1, <2>2, <2>4, <2>5, <2>6, StepMove
<1> QED
  BY <1>2, <1>3

LEMMA StepHandleOrgVerified ==
  ASSUME GatesInv, NEW t \in tasks, HandleOrgVerified(t)
  PROVE  GatesInv'
<1> DEFINE m == t.email
           u == Post("check", t.email, t.ein, "none")
<1>1. CASE t.says = "unverified"
  <2>1. /\ row[m].state = "VERIFYING" /\ Take(t, {})
        /\ row' = [row EXCEPT ![m].state = "DROPPED_NOT_VERIFIED"]
        /\ UNCHANGED <<input, appts, organizations, cache, dropped, vouched,
                       seen>>
    BY <1>1 DEF HandleOrgVerified, Move
  <2>2. /\ "DROPPED_NOT_VERIFIED" \in State \ {"none"}
        /\ "DROPPED_NOT_VERIFIED" \notin Behind \cup Scored
        /\ row[m].state \notin Behind
    BY <2>1 DEF State, Behind, Scored
  <2>3. {} \in SUBSET Task /\ \A v \in {} : TaskTrue(v)'
    OBVIOUS
  <2> QED
    BY <2>1, <2>2, <2>3, StepMove
<1>2. CASE t.says = "verified"
  <2>1. /\ t.ein \in Known /\ m \in Email /\ t.ein \in Key /\ TaskTrue(t)
        /\ row \in [Email -> [state : State, ein : Key, signals : BOOLEAN]]
    BY <1>2, TaskParts DEF HandleOrgVerified, TaskTrue
  <2>2. /\ row[m].state = "VERIFYING" /\ Take(t, {u})
        /\ row' = [row EXCEPT ![m].state = "ELIGIBILITY_CHECK",
                              ![m].ein = t.ein]
        /\ seen' = seen \cup {n \in {m} : org[n] \in appts}
        /\ UNCHANGED <<input, appts, organizations, cache, dropped, vouched>>
    BY <1>2 DEF HandleOrgVerified
  <2>3. \A n \in Email :
          /\ row'[n].state = IF n = m THEN "ELIGIBILITY_CHECK"
                                      ELSE row[n].state
          /\ row'[n].ein = IF n = m THEN t.ein ELSE row[n].ein
          /\ row'[n].signals = row[n].signals
    BY <2>1, <2>2
  <2>4. row' \in [Email -> [state : State, ein : Key, signals : BOOLEAN]]
    BY <2>1, <2>2 DEF State
  <2>5. "VERIFYING" \notin Behind /\ "ELIGIBILITY_CHECK" \in Behind
        /\ "ELIGIBILITY_CHECK" \notin Scored
    BY DEF Behind, Scored
  <2>6. RowPart'
    <3>1. RowsTrue'
      <4>1. ASSUME NEW n \in urgent', row'[n].state # "none"
            PROVE  row'[n].signals
        BY <2>2, <2>3, <4>1 DEF GatesInv, RowsTrue, TypeOK, input
      <4>2. ASSUME NEW n \in seen'
            PROVE  org'[n] \in appts' /\ row'[n].state \in Behind
        BY <2>1, <2>2, <2>3, <2>5 DEF GatesInv, RowsTrue, TypeOK, input
      <4>3. ASSUME NEW n \in Email,
                   row'[n].state \in Behind \ {"ELIGIBILITY_CHECK"}
            PROVE  row'[n].ein # NoEin
        BY <2>3, <4>3 DEF GatesInv, RowsTrue
      <4> QED
        BY <2>2, <4>1, <4>2, <4>3 DEF GatesInv, RowsTrue, Behind
    <3>2. VerifiedWasFound'
      BY <2>1, <2>2, <2>3 DEF GatesInv, VerifiedWasFound
    <3>3. WindowRespected'
      BY <2>1, <2>2, <2>3, <2>5 DEF GatesInv, WindowRespected, TypeOK
    <3>4. UrgentNotDropped'
      BY <2>2, <2>3 DEF GatesInv, UrgentNotDropped, TypeOK, input
    <3> QED
      BY <3>1, <3>2, <3>3, <3>4 DEF RowPart
  <2>7. \A v \in tasks : TaskTrue(v)'
    BY <2>1, <2>2, <2>3, <2>5, OldTasks
  <2>8. u \in Task /\ u.type = "check" /\ u.email = m /\ u.ein = t.ein
    BY <2>1, PostType DEF TaskKind
  <2>9. \A v \in {u} : TaskTrue(v)'
    BY <2>1, <2>2, <2>3, <2>5, <2>8 DEF TaskTrue, input
  <2> HIDE DEF u
  <2>10. /\ TasksTrue' /\ tasks' \subseteq Task
         /\ dead' \subseteq Email \X TaskKind
    BY <2>2, <2>7, <2>8, <2>9, TakeTasks
  <2>11. TypeOK'
    BY <2>1, <2>2, <2>4, <2>10 DEF GatesInv, TypeOK, input
  <2>12. WorkedOn(m)'
    <3>1. Moves(row[m].state)' = Moves("ELIGIBILITY_CHECK")
      BY <2>1, <2>3 DEF Moves
    <3>2. u \in tasks' /\ "check" \in Moves("ELIGIBILITY_CHECK")
      BY <2>2, TakeKeeps DEF Moves
    <3> QED
      BY <2>8, <3>1, <3>2 DEF WorkedOn
  <2>13. StuckIsKept'
    BY <2>2, <2>3, <2>12, TakeStuck
  <2> QED
    BY <2>6, <2>10, <2>11, <2>13 DEF GatesInv, RowPart
<1> QED
  BY <1>1, <1>2 DEF HandleOrgVerified

LEMMA StepHandleEligibilityResult ==
  ASSUME GatesInv, NEW t \in tasks, HandleEligibilityResult(t)
  PROVE  GatesInv'
<1>1. /\ row[t.email].state = "ELIGIBILITY_CHECK" /\ TaskTrue(t)
      /\ row[t.email].ein # NoEin
      /\ t.email \in Email /\ t.ein \in Key
      /\ t.says \in {"eligible", "escalate", "ineligible"}
      /\ UNCHANGED <<input, appts, organizations, cache, dropped, vouched,
                     seen>>
  BY TaskParts DEF HandleEligibilityResult, Move, TaskTrue
<1>2. CASE t.says = "eligible"
  <2> DEFINE u == Post("score", t.email, t.ein, "none")
  <2>1. u \in Task /\ u.type = "score" /\ u.email = t.email /\ u.ein = t.ein
    BY <1>1, PostType DEF TaskKind
  <2>2. \A v \in {u} : TaskTrue(v)'
    BY <1>1, <2>1 DEF TaskTrue, input
  <2>3. u.type \in Moves("SCORING")
    BY <2>1 DEF Moves
  <2>4. Take(t, {u}) /\ row' = [row EXCEPT ![t.email].state = "SCORING"]
    <3>1. {Post("score", m, t.ein, "none") :
             m \in {n \in {t.email} : t.says = "eligible"}} = {u}
      BY <1>2
    <3> HIDE DEF u
    <3> QED
      BY <1>2, <3>1 DEF HandleEligibilityResult, Move
  <2>5. t.email \notin seen
    BY <1>2, <1>1 DEF HandleEligibilityResult, TaskTrue
  <2> HIDE DEF u
  <2>6. {u} \in SUBSET Task
        /\ \E v \in {u} : v.email = t.email /\ v.type \in Moves("SCORING")
    BY <2>1, <2>3
  <2>7. /\ "SCORING" \in State \ {"none"}
        /\ "SCORING" \in Behind /\ row[t.email].state \in Behind
    BY <1>1 DEF State, Behind, Scored
  <2> QED
    BY <1>1, <2>2, <2>4, <2>5, <2>6, <2>7, StepMove
<1>3. CASE t.says # "eligible"
  <2> DEFINE s == IF t.says = "escalate" THEN "URGENT_ESCALATED_TO_PA"
                                        ELSE "DROPPED_WITHIN_90_DAYS"
  <2>1. Take(t, {}) /\ row' = [row EXCEPT ![t.email].state = s]
    <3>1. {Post("score", m, t.ein, "none") :
             m \in {n \in {t.email} : t.says = "eligible"}} = {}
      BY <1>3
    <3> QED
      BY <1>1, <1>3, <3>1 DEF HandleEligibilityResult, Move
  <2>2. t.says = "ineligible" => t.email \notin urgent
    BY <1>1 DEF HandleEligibilityResult, TaskTrue
  <2>3. /\ s \in State \ {"none"} /\ s \in Behind /\ s \notin Scored
        /\ row[t.email].state \in Behind
        /\ s \notin {"DEDUP_CHECK", "VERIFYING", "ELIGIBILITY_CHECK",
                     "SCORING"}
    BY <1>1 DEF State, Behind, Scored
  <2>4. s = "DROPPED_WITHIN_90_DAYS" => t.email \notin urgent
    BY <1>1, <1>3, <2>2
  <2> HIDE DEF s
  <2>5. {} \in SUBSET Task /\ \A v \in {} : TaskTrue(v)'
    OBVIOUS
  <2> QED
    BY <1>1, <2>1, <2>3, <2>4, <2>5, StepMove
<1> QED
  BY <1>1, <1>2, <1>3

LEMMA StepHandleOrgScored ==
  ASSUME GatesInv, NEW t \in tasks, HandleOrgScored(t)
  PROVE  GatesInv'
<1>1. /\ row[t.email].state = "SCORING" /\ Take(t, {})
      /\ row' = [row EXCEPT ![t.email].state = "FINDING_SLOT"]
      /\ UNCHANGED <<input, appts, organizations, cache, dropped, vouched,
                     seen>>
  BY DEF HandleOrgScored, Move
<1>2. /\ "FINDING_SLOT" \in State \ {"none"}
      /\ "FINDING_SLOT" \in Behind /\ row[t.email].state \in Behind
      /\ row[t.email].state \in Scored
  BY <1>1 DEF State, Behind, Scored
<1>3. t.email \notin seen /\ row[t.email].ein # NoEin
  BY <1>1, <1>2, TaskParts DEF GatesInv, WindowRespected, RowsTrue
<1>4. {} \in SUBSET Task /\ \A v \in {} : TaskTrue(v)'
  OBVIOUS
<1> QED
  BY <1>1, <1>2, <1>3, <1>4, StepMove

\* A request that nobody will answer any more, kept or without effect.
LEMMA StepGone ==
  ASSUME GatesInv, NEW t \in tasks, tasks' = tasks \ {t},
         UNCHANGED <<input, tables>>,
         dead \subseteq dead', dead' \subseteq Email \X TaskKind,
         \/ <<t.email, t.type>> \in dead'
         \/ t.type \notin Moves(row[t.email].state)
         \/ row[t.email].state \notin {"DEDUP_CHECK", "VERIFYING",
                                      "ELIGIBILITY_CHECK", "SCORING"}
         \/ t.type = "check" /\ t.ein = NoEin
  PROVE  GatesInv'
<1> DEFINE m == t.email
<1>1. m \in Email /\ WorkedOn(m) /\ TaskTrue(t)
  BY TaskParts, StuckDef DEF GatesInv
<1>2. TypeOK'
  BY DEF GatesInv, TypeOK, input, tables
<1>3. RowPart' /\ \A u \in tasks : TaskTrue(u)'
  BY RowsStay, OldTasks DEF GatesInv, RowsTrue, input, tables
<1>4. TasksTrue'
  BY <1>3 DEF TasksTrue
<1>5. Moves(row[m].state)' = Moves(row[m].state)
  BY DEF Moves, tables
<1>6. WorkedOn(m)'
  <2>1. t.type = "check" /\ t.ein = NoEin /\ "check" \in Moves(row[m].state)
          => row[m].ein = NoEin
    BY <1>1 DEF TaskTrue
  <2> QED
    BY <1>1, <1>5, <2>1 DEF WorkedOn, tables
<1>7. ASSUME NEW n \in Email, n # m PROVE WorkedOn(n)'
  BY <1>7, StaysWorkedOn DEF tables
<1>8. StuckIsKept'
  BY <1>6, <1>7 DEF StuckIsKept, WorkedOn
<1> QED
  BY <1>2, <1>3, <1>4, <1>8 DEF GatesInv, RowPart

LEMMA StepRefuse ==
  ASSUME GatesInv, NEW t \in tasks, Refuse(t)
  PROVE  GatesInv'
<1>1. dead' \subseteq Email \X TaskKind
  BY TaskParts DEF Refuse, GatesInv, TypeOK
<1> QED
  BY <1>1, StepGone DEF Refuse

LEMMA StepLose ==
  ASSUME GatesInv, NEW t \in tasks, Lose(t)
  PROVE  GatesInv'
<1>1. dead' \subseteq Email \X TaskKind
  BY TaskParts DEF Lose, GatesInv, TypeOK
<1> QED
  BY <1>1, StepGone DEF Lose

LEMMA StepReject ==
  ASSUME GatesInv, NEW t \in tasks, Reject(t)
  PROVE  GatesInv'
<1>1. \/ t.type \notin Moves(row[t.email].state)
      \/ row[t.email].state \notin {"DEDUP_CHECK", "VERIFYING",
                                   "ELIGIBILITY_CHECK", "SCORING"}
  BY DEF Reject, Moves
<1> QED
  BY <1>1, StepGone DEF Reject, GatesInv, TypeOK

LEMMA StepNothing ==
  ASSUME GatesInv, UNCHANGED vars
  PROVE  GatesInv'
<1>1. TypeOK'
  BY DEF GatesInv, TypeOK, vars, input, tables
<1>2. RowPart' /\ \A u \in tasks : TaskTrue(u)'
  BY RowsStay, OldTasks DEF GatesInv, RowsTrue, vars, input, tables
<1>3. TasksTrue'
  BY <1>2 DEF TasksTrue, vars
<1>4. \A m \in Email : WorkedOn(m)'
  BY StaysWorkedOn DEF vars, tables
<1>5. StuckIsKept'
  BY <1>4 DEF StuckIsKept, WorkedOn
<1> QED
  BY <1>1, <1>2, <1>3, <1>5 DEF GatesInv, RowPart

LEMMA StepMissingEin ==
  ASSUME GatesInv, NEW t \in tasks, MissingEin(t)
  PROVE  GatesInv'
<1>1. CASE tasks' = tasks \ {t}
  BY <1>1, StepGone DEF MissingEin, Take, GatesInv, TypeOK
<1>2. CASE tasks' = tasks
  BY <1>2, StepNothing DEF MissingEin, Take, vars
<1> QED
  BY <1>1, <1>2 DEF MissingEin, Take

\* An agent answers t with u, and leaves the rows but for signals.
LEMMA StepAnswer ==
  ASSUME GatesInv, NEW t \in tasks, NEW u \in Task, Take(t, {u}),
         u.email = t.email, TaskTrue(u)',
         \A s \in {"DEDUP_CHECK", "VERIFYING", "ELIGIBILITY_CHECK",
                   "SCORING"} :
           t.type \in Moves(s) => u.type \in Moves(s),
         row' \in [Email -> [state : State, ein : Key, signals : BOOLEAN]],
         \A n \in Email :
           /\ row'[n].state = row[n].state
           /\ row'[n].ein = row[n].ein
           /\ row[n].signals => row'[n].signals,
         UNCHANGED <<input, appts, seen>>,
         Known \subseteq Known', Known' \subseteq Key, cache' \subseteq Known',
         organizations' \subseteq Key,
         dropped' \subseteq [email_id : {"_hash_"} \X Email, hash : Ein]
  PROVE  GatesInv'
<1>1. RowPart'
  <2>1. urgent' = urgent /\ org' = org /\ urgent \subseteq Email
        /\ seen \subseteq Email /\ seen' = seen /\ appts' = appts
    BY DEF GatesInv, TypeOK, input
  <2>2. ASSUME NEW m \in urgent, row'[m].state # "none"
        PROVE  row'[m].signals
    BY <2>1, <2>2 DEF GatesInv, RowsTrue
  <2>3. ASSUME NEW m \in seen
        PROVE  org[m] \in appts /\ row'[m].state \in Behind
    BY <2>1 DEF GatesInv, RowsTrue
  <2>4. RowsTrue'
    <3>1. \A m \in Email : row'[m].state \in Behind \ {"ELIGIBILITY_CHECK"}
            => row'[m].ein # NoEin
      BY DEF GatesInv, RowsTrue
    <3> QED
      BY <2>1, <2>2, <2>3, <3>1 DEF RowsTrue, Behind
  <2>5. VerifiedWasFound'
    BY DEF GatesInv, VerifiedWasFound
  <2>6. WindowRespected' /\ UrgentNotDropped'
    BY <2>1 DEF GatesInv, WindowRespected, UrgentNotDropped
  <2> QED
    BY <2>4, <2>5, <2>6 DEF RowPart
<1>2. \A v \in tasks : TaskTrue(v)'
  BY OldTasks DEF GatesInv, RowsTrue
<1>3. \A v \in {u} : TaskTrue(v)'
  OBVIOUS
<1>4. /\ TasksTrue' /\ tasks' \subseteq Task
      /\ dead' \subseteq Email \X TaskKind
  BY <1>2, <1>3, TakeTasks
<1>5. TypeOK'
  BY <1>4 DEF GatesInv, TypeOK, input
<1>6. StuckIsKept'
  BY AnswerStuck
<1> QED
  BY <1>1, <1>4, <1>5, <1>6 DEF GatesInv, RowPart

LEMMA StepMerge ==
  ASSUME GatesInv, NEW t \in tasks, NEW n \in Email, Merge(t, n)
  PROVE  GatesInv'
<1> DEFINE u == Post("dedup.result", t.email, NoEin, "merged")
<1>1. /\ u \in Task /\ u.type = "dedup.result" /\ u.email = t.email
      /\ u.ein = NoEin
  BY TaskParts, PostType DEF TaskKind, Key
<1>2. TaskTrue(u)'
  BY <1>1 DEF TaskTrue
<1>3. \A s \in {"DEDUP_CHECK", "VERIFYING", "ELIGIBILITY_CHECK", "SCORING"} :
        t.type \in Moves(s) => u.type \in Moves(s)
  BY <1>1 DEF Merge, Moves
<1>4. Take(t, {u})
  BY DEF Merge, Verdict
<1>5. row \in [Email -> [state : State, ein : Key, signals : BOOLEAN]]
  BY DEF GatesInv, TypeOK
<1>6. row' = [row EXCEPT ![n].signals = row[n].signals \/ t.email \in urgent]
  BY DEF Merge
<1>7. row' \in [Email -> [state : State, ein : Key, signals : BOOLEAN]]
  BY <1>5, <1>6
<1>8. \A k \in Email :
        /\ row'[k].state = row[k].state
        /\ row'[k].ein = row[k].ein
        /\ row[k].signals => row'[k].signals
  BY <1>5, <1>6
<1> HIDE DEF u
<1> QED
  BY <1>1, <1>2, <1>3, <1>4, <1>7, <1>8, StepAnswer
  DEF Merge, GatesInv, TypeOK, RowsTrue

LEMMA StepPass ==
  ASSUME GatesInv, NEW t \in tasks, Pass(t)
  PROVE  GatesInv'
<1>0. PICK says \in {"duplicate", "clean"} :
        Take(t, Verdict(t.email, says))
  BY DEF Pass
<1> DEFINE u == Post("dedup.result", t.email, NoEin, says)
<1>1. /\ u \in Task /\ u.type = "dedup.result" /\ u.email = t.email
      /\ u.ein = NoEin
  BY TaskParts, PostType DEF TaskKind, Key
<1>4. Take(t, {u})
  BY <1>0 DEF Verdict
<1> HIDE DEF u
<1>2. TaskTrue(u)'
  BY <1>1 DEF TaskTrue
<1>3. \A s \in {"DEDUP_CHECK", "VERIFYING", "ELIGIBILITY_CHECK", "SCORING"} :
        t.type \in Moves(s) => u.type \in Moves(s)
  BY <1>1 DEF Pass, Moves
<1>5. dropped' \subseteq [email_id : {"_hash_"} \X Email, hash : Ein]
  <2>1. t.email \in Email /\ t.ein \in Ein
    BY TaskParts DEF Pass, TaskTrue, GatesInv, TypeOK
  <2> QED
    BY <2>1 DEF Pass, GatesInv, TypeOK
<1> QED
  BY <1>1, <1>2, <1>3, <1>4, <1>5, StepAnswer
  DEF Pass, GatesInv, TypeOK, RowsTrue

\* The Charity Verifier answers with what it was asked about.
LEMMA VerifierAnswer ==
  ASSUME GatesInv, NEW t \in tasks, t.type = "verify",
         NEW says \in {"verified", "unverified"},
         Take(t, Verified(t, says)), UNCHANGED <<input, row, appts, seen>>,
         Known \subseteq Known', Known' \subseteq Key, cache' \subseteq Known',
         organizations' \subseteq Key, dropped' = dropped,
         says = "verified" => t.ein \in Known'
  PROVE  GatesInv'
<1> DEFINE u == Post("org.verified", t.email, t.ein, says)
<1>1. /\ u \in Task /\ u.type = "org.verified" /\ u.email = t.email
      /\ u.ein = t.ein /\ u.says = says
  BY TaskParts, PostType DEF TaskKind
<1>2. Take(t, {u})
  BY DEF Verified
<1> HIDE DEF u
<1>3. TaskTrue(u)'
  BY <1>1, TaskParts DEF TaskTrue, input
<1>4. \A s \in {"DEDUP_CHECK", "VERIFYING", "ELIGIBILITY_CHECK", "SCORING"} :
        t.type \in Moves(s) => u.type \in Moves(s)
  BY <1>1 DEF Moves
<1> QED
  BY <1>1, <1>2, <1>3, <1>4, StepAnswer DEF GatesInv, TypeOK

LEMMA StepVerifier ==
  ASSUME GatesInv, NEW t \in tasks,
         \/ CacheHit(t) \/ LookupSucceeds(t)
         \/ NameBypass(t) \/ LookupFails(t)
  PROVE  GatesInv'
<1>0. t.ein \in Key /\ Known \subseteq Key /\ organizations \subseteq Key
      /\ cache \subseteq Known
  BY TaskParts DEF GatesInv, TypeOK, RowsTrue
<1>1. CASE CacheHit(t)
  BY <1>0, <1>1, VerifierAnswer DEF CacheHit, tables
<1>2. CASE LookupSucceeds(t) \/ NameBypass(t)
  <2>1. /\ Known' = Known \cup {t.ein} /\ cache' = cache \cup {t.ein}
        /\ found \subseteq found' /\ found' \subseteq Key
        /\ bypassed \subseteq bypassed' /\ bypassed' \subseteq Key
        /\ organizations' \subseteq organizations \cup {t.ein}
    BY <1>0, <1>2 DEF LookupSucceeds, NameBypass, Vouch, GatesInv, TypeOK
  <2> QED
    BY <1>0, <1>2, <2>1, VerifierAnswer DEF LookupSucceeds, NameBypass, Vouch
<1>3. CASE LookupFails(t)
  BY <1>0, <1>3, VerifierAnswer DEF LookupFails, tables
<1> QED
  BY <1>1, <1>2, <1>3

LEMMA StepCheck ==
  ASSUME GatesInv, NEW t \in tasks, Check(t)
  PROVE  GatesInv'
<1>1. PICK says \in {"eligible", "escalate", "ineligible"} :
        says = Eligibility(t)
  BY DEF Eligibility
<1> DEFINE u == Post("eligibility.result", t.email, t.ein, says)
<1>2. /\ u \in Task /\ u.type = "eligibility.result" /\ u.email = t.email
      /\ u.ein = t.ein /\ u.says = says
  BY TaskParts, PostType DEF TaskKind
<1>3. Take(t, {u})
  BY <1>1 DEF Check
<1> HIDE DEF u
<1>4. /\ t.email \in Email /\ t.ein = org[t.email]
      /\ row[t.email].state \in Behind /\ row[t.email].ein = t.ein
      /\ row[t.email].state # "none"
  BY TaskParts DEF Check, TaskTrue, Behind, Scored
<1>5. says = "eligible" => t.email \notin seen
  BY <1>1, <1>4 DEF Eligibility, GatesInv, RowsTrue
<1>6. says = "ineligible" => t.email \notin urgent
  BY <1>1, <1>4 DEF Eligibility, GatesInv, RowsTrue
<1>7. TaskTrue(u)'
  BY <1>2, <1>4, <1>5, <1>6 DEF Check, TaskTrue, input, tables
<1>8. \A s \in {"DEDUP_CHECK", "VERIFYING", "ELIGIBILITY_CHECK", "SCORING"} :
        t.type \in Moves(s) => u.type \in Moves(s)
  BY <1>2 DEF Check, Moves
<1> QED
  BY <1>2, <1>3, <1>7, <1>8, StepAnswer
  DEF Check, tables, GatesInv, TypeOK, RowsTrue

LEMMA StepScore ==
  ASSUME GatesInv, NEW t \in tasks, Score(t)
  PROVE  GatesInv'
<1> DEFINE u == Post("org.scored", t.email, t.ein, "none")
<1>1. /\ u \in Task /\ u.type = "org.scored" /\ u.email = t.email
      /\ u.ein = t.ein
  BY TaskParts, PostType DEF TaskKind
<1>2. Take(t, {u})
  BY DEF Score
<1> HIDE DEF u
<1>3. TaskTrue(u)'
  BY <1>1, TaskParts DEF Score, TaskTrue, input
<1>4. \A s \in {"DEDUP_CHECK", "VERIFYING", "ELIGIBILITY_CHECK", "SCORING"} :
        t.type \in Moves(s) => u.type \in Moves(s)
  BY <1>1 DEF Score, Moves
<1> QED
  BY <1>1, <1>2, <1>3, <1>4, StepAnswer
  DEF Score, tables, GatesInv, TypeOK, RowsTrue

LEMMA StepBook ==
  ASSUME GatesInv, NEW m \in Email, Book(m)
  PROVE  GatesInv'
<1>1. /\ row[m].state = "FINDING_SLOT"
      /\ row' = [row EXCEPT ![m].state = "BOOKED"]
      /\ appts' = appts \cup {row[m].ein}
      /\ UNCHANGED <<input, organizations, cache, dropped, vouched, seen, dead,
                     tasks>>
  BY DEF Book, Move
<1>2. /\ "BOOKED" \in State \ {"none"} /\ "BOOKED" \in Behind
      /\ row[m].state \in Behind /\ row[m].state \in Scored
  BY <1>1 DEF State, Behind, Scored
<1>3. m \notin seen /\ row[m].ein # NoEin
  BY <1>1, <1>2 DEF GatesInv, WindowRespected, RowsTrue
<1>4. /\ RowPart'
      /\ row' \in [Email -> [state : State, ein : Key, signals : BOOLEAN]]
  BY <1>1, <1>2, <1>3, RowMoves
<1>5. TasksTrue'
  BY <1>1, <1>2, OldTasksMove DEF TasksTrue
<1>6. row \in [Email -> [state : State, ein : Key, signals : BOOLEAN]]
  BY DEF GatesInv, TypeOK
<1>7. StuckIsKept'
  <2>1. ASSUME NEW n \in Email, n # m PROVE WorkedOn(n)'
    BY <1>1, <1>6, <2>1, StaysWorkedOn
  <2>2. WorkedOn(m)'
    BY <1>1, <1>6 DEF WorkedOn
  <2> QED
    BY <2>1, <2>2 DEF StuckIsKept, WorkedOn
<1>8. TypeOK'
  BY <1>1, <1>3, <1>4, <1>6 DEF GatesInv, TypeOK, Key, input
<1> QED
  BY <1>4, <1>5, <1>7, <1>8 DEF GatesInv, RowPart

LEMMA StepPostByHand ==
  ASSUME GatesInv, NEW m \in Email, NEW says \in {"clean", "duplicate"},
         PostByHand(m, says)
  PROVE  GatesInv'
<1>1. org[m] \in Key
  BY DEF GatesInv, TypeOK, Key
<1>2. PICK u \in Task :
        /\ tasks' = tasks \cup {u}
        /\ u.type \in {"dedup.result", "org.scored"}
        /\ u.email = m /\ u.ein = org[m]
  <2>1. CASE tasks' = tasks \cup {Post("dedup.result", m, org[m], says)}
    BY <1>1, <2>1, PostType DEF TaskKind
  <2> DEFINE scored == [type |-> "org.scored", email |-> m, ein |-> org[m],
                        says |-> "none", whole |-> TRUE]
  <2>2. CASE tasks' = tasks \cup {scored}
    <3>1. /\ scored \in Task /\ scored.type = "org.scored"
          /\ scored.email = m /\ scored.ein = org[m]
      BY <1>1 DEF Task, TaskKind
    <3> HIDE DEF scored
    <3> QED
      BY <2>2, <3>1
  <2> QED
    BY <2>1, <2>2 DEF PostByHand
<1>3. UNCHANGED <<input, tables, dead>>
  BY DEF PostByHand
<1>4. TypeOK'
  BY <1>2, <1>3 DEF GatesInv, TypeOK, input, tables
<1>5. RowPart' /\ \A v \in tasks : TaskTrue(v)'
  BY <1>3, RowsStay, OldTasks DEF GatesInv, RowsTrue, input, tables
<1>6. \A v \in {u} : TaskTrue(v)'
  BY <1>2, <1>3 DEF TaskTrue, input
<1>7. TasksTrue'
  BY <1>2, <1>5, <1>6 DEF TasksTrue
<1>8. \A n \in Email : WorkedOn(n)'
  BY <1>2, <1>3, StaysWorkedOn DEF tables
<1>9. StuckIsKept'
  BY <1>8 DEF StuckIsKept, WorkedOn
<1> QED
  BY <1>4, <1>5, <1>7, <1>9 DEF GatesInv, RowPart

---------------------------------------------------------------------------
(* The theorems *)

LEMMA InitGates == Init => GatesInv
BY DEF Init, GatesInv, TypeOK, TasksTrue, RowsTrue, VerifiedWasFound,
       WindowRespected, UrgentNotDropped, StuckIsKept, Key, State, Behind,
       Scored

LEMMA NextGates == GatesInv /\ [Next]_vars => GatesInv'
<1> SUFFICES ASSUME GatesInv, [Next]_vars PROVE GatesInv'
  OBVIOUS
<1>1. ASSUME NEW t \in tasks, Agent(t) PROVE GatesInv'
  BY <1>1, StepHandleDedupResult, StepHandleOrgVerified,
     StepHandleEligibilityResult, StepHandleOrgScored, StepRefuse,
     StepReject, StepPass, StepMerge, StepVerifier, StepMissingEin,
     StepCheck, StepScore
  DEF Agent
<1> QED
  BY <1>1, StepHandleEmailClassified, StepBook, StepPostByHand, StepLose,
     StepNothing
  DEF Next

\* The inductive invariant of the gates.
LEMMA Invariant == Spec => []GatesInv
BY InitGates, NextGates, PTL DEF Spec

\* Rows, tasks and tables keep their types, and a booked visit has an EIN,
\* for any number of messages and organizations (handlers.py).
THEOREM TypeCorrect == Spec => []TypeOK
BY Invariant, PTL DEF GatesInv

\* Nobody gets behind the Charity Verifier under an EIN that no lookup ever
\* found and that never came with a name the verifier lets through, whatever
\* is cached, repeated or posted by hand (verify, synthesize_confidence).
THEOREM BehindWasFound == Spec => []VerifiedWasFound
BY Invariant, PTL DEF GatesInv

\* Whoever had a visit when the check was asked for is never scored
\* (eligibility_logic.check).
THEOREM WindowHolds == Spec => []WindowRespected
BY Invariant, PTL DEF GatesInv

\* A message that was urgent when it came is not dropped by the window,
\* whatever was merged into its row (eligibility_logic.py:81).
THEOREM UrgentIsKept == Spec => []UrgentNotDropped
BY Invariant, PTL DEF GatesInv

\* A pipeline in an automatic gate is being worked on, or the request that
\* would move it is in the dead letter list, or it has no EIN to be checked
\* (a2a_client.py, "dead letter fallback").
THEOREM NobodyIsForgotten == Spec => []StuckIsKept
BY Invariant, PTL DEF GatesInv

---------------------------------------------------------------------------
(* The bounds of the score                                                 *)


\* A set of points has a highest one: it needs no induction, as there are
\* six possible points.
LEMMA UrgencyRange ==
  ASSUME NEW points \in SUBSET SignalPoints
  PROVE  compute_urgency_score(points) \in 0 .. 25
<1>1. CASE points = {}
  BY <1>1 DEF compute_urgency_score
<1>2. CASE points # {}
  <2>1. \E max \in points : \A p \in points : p <= max
    <3>0. \A p \in points : p \in {25, 20, 15, 12, 10, 0}
      BY DEF SignalPoints, URGENCY_SCORES
    <3>1. CASE 25 \in points
      BY <3>0, <3>1
    <3>2. CASE 25 \notin points /\ 20 \in points
      BY <3>0, <3>2
    <3>3. CASE points \cap {25, 20} = {} /\ 15 \in points
      BY <3>0, <3>3
    <3>4. CASE points \cap {25, 20, 15} = {} /\ 12 \in points
      BY <3>0, <3>4
    <3>5. CASE points \cap {25, 20, 15, 12} = {} /\ 10 \in points
      BY <3>0, <3>5
    <3>6. CASE points \cap {25, 20, 15, 12, 10} = {}
      BY <1>2, <3>0, <3>6
    <3> QED
      BY <3>1, <3>2, <3>3, <3>4, <3>5, <3>6
  <2> DEFINE top == CHOOSE max \in points : \A p \in points : p <= max
  <2>2. top \in points
    BY <2>1
  <2>3. compute_urgency_score(points) = Least(top, 25)
    BY <1>2 DEF compute_urgency_score
  <2>4. \A p \in points : p \in 0 .. 25
    BY DEF SignalPoints, URGENCY_SCORES
  <2> HIDE DEF top
  <2>5. top \in 0 .. 25
    BY <2>2, <2>4
  <2> QED
    BY <2>3, <2>5 DEF Least
<1> QED
  BY <1>1, <1>2

LEMMA ModelRange ==
  ASSUME NEW answer \in Answer
  PROVE  ModelScore(answer) \in 0 .. 25
<1>1. CASE answer = <<>>
  BY <1>1 DEF ModelScore
<1>2. CASE answer # <<>>
  <2>1. PICK n \in Int : answer = <<n>>
    BY <1>2 DEF Answer
  <2>2. ModelScore(answer) = Clamp(n, 25)
    BY <1>2, <2>1 DEF ModelScore
  <2> QED
    BY <2>2 DEF Clamp, Least
<1> QED
  BY <1>1, <1>2

LEMMA BonusRange ==
  ASSUME NEW days \in Int
  PROVE  compute_queue_bonus(days) \in 0 .. 25
<1>1. CASE days <= 0
  BY <1>1 DEF compute_queue_bonus
<1>2. CASE days > 0
  <2> DEFINE weeks == days \div 7
  <2>1. weeks \in Nat
    BY <1>2
  <2>2. Least(weeks * 5, 25) \in 0 .. 25
    BY <2>1 DEF Least
  <2> QED
    BY <1>2, <2>2 DEF compute_queue_bonus
<1> QED
  BY <1>1, <1>2

\* The components stay in their ranges whatever the model answers, so the
\* clamp at the end of score_and_queue never takes a point away: two requests
\* with different sums keep different scores.
THEOREM ClampCutsNothing ==
  ASSUME NEW points \in SUBSET SignalPoints, NEW high_cause \in BOOLEAN,
         NEW impact \in Answer,
         NEW reputation \in Answer, NEW days \in Int
  PROVE  /\ Total(points, high_cause, impact, reputation, days) \in 0 .. 100
         /\ Total(points, high_cause, impact, reputation, days)
              = Sum(points, high_cause, impact, reputation, days)
<1>1. compute_urgency_score(points) \in 0 .. 25
  BY UrgencyRange
<1>2. compute_impact_score(impact) \in 0 .. 25
  BY ModelRange DEF compute_impact_score
<1>3. compute_reputation_score(high_cause, reputation) \in 0 .. 25
  BY ModelRange DEF compute_reputation_score
<1>4. compute_queue_bonus(days) \in 0 .. 25
  BY BonusRange
<1> DEFINE sum == Sum(points, high_cause, impact, reputation, days)
<1>5. sum \in 0 .. 100
  BY <1>1, <1>2, <1>3, <1>4 DEF Sum
<1>6. Clamp(sum, 100) = sum
  <2> HIDE DEF sum
  <2> QED
    BY <1>5 DEF Clamp, Least
<1> QED
  BY <1>5, <1>6 DEF Total

\* Waiting never costs points, and five weeks make up for 25 (the docstring
\* of compute_queue_bonus): a request cannot fall behind one that scored the
\* same and came later.
THEOREM WaitingNeverCosts ==
  ASSUME NEW days \in Int, NEW later \in Int, days <= later
  PROVE  /\ compute_queue_bonus(days) <= compute_queue_bonus(later)
         /\ later >= 35 => compute_queue_bonus(later) = 25
<1>1. CASE days <= 0
  BY <1>1, BonusRange DEF compute_queue_bonus, Least
<1>2. CASE days > 0
  <2> DEFINE m == days \div 7
             n == later \div 7
  <2>1. m \in Nat /\ n \in Nat /\ m <= n
    BY <1>2
  <2>2. later >= 35 => n >= 5
    BY <1>2
  <2>3. compute_queue_bonus(days) = Least(m * 5, 25)
    BY <1>2 DEF compute_queue_bonus
  <2>4. compute_queue_bonus(later) = Least(n * 5, 25)
    BY <1>2 DEF compute_queue_bonus
  <2> HIDE DEF m, n
  <2> QED
    BY <2>1, <2>2, <2>3, <2>4 DEF Least
<1> QED
  BY <1>1, <1>2
=============================================================================
