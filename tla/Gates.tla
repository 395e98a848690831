-------------------------------- MODULE Gates --------------------------------
(***************************************************************************)
(* The automatic gates as they are wired: which payload the orchestrator's *)
(* handlers hand to the Dedup Guard, the Charity Verifier, the Eligibility *)
(* Agent and the Prioritizer, and what these read, write and answer.       *)
(* Module Orchestrator lets the agents answer anything; here they answer   *)
(* what their code does with what they are given.                          *)
(***************************************************************************)
EXTENDS Naturals, FiniteSets, Payloads

CONSTANTS
  Email,      \* messages, each with a pipeline of its own once received
  Ein,        \* the organizations that write
  ByHand,     \* TRUE: somebody posts results to the orchestrator
  MaxTasks,   \* bound: dispatches in progress before another is posted by
              \* hand or repeated
  MaxLost,    \* bound: requests in the dead letter list before another is
              \* lost
  Faults      \* "lost": a dispatch ends in the dead letter list, "repeat":
              \* a POST is repeated, "upsert": _upsert_org fails

NoEin == ""

ASSUME GatesAssumption ==
  /\ NoEin \notin Ein
  /\ ByHand \in BOOLEAN /\ MaxTasks \in Nat /\ MaxLost \in Nat
  /\ Faults \subseteq {"lost", "repeat", "upsert"}

VARIABLES
  org,            \* whose EIN the Email Watcher extracted
  urgent,         \* the messages with signals in ESCALATION_SIGNALS
  row,            \* per message, its pipeline: current_state, ein, and
                  \* whether urgency_signals has such a signal
  appts,          \* the EINs with a visit in the last 90 days
  organizations,  \* the EINs of the organizations table
  cache,          \* the EINs of the org cache in Redis
  dropped,        \* the hash sentinels in dropped_emails
  found,          \* history: the EINs a lookup succeeded for
  bypassed,       \* history: the EINs that came with a name nobody looks up
  seen,           \* history: the messages whose organization had a visit
                  \* when the Eligibility Agent was asked about it
  dead,           \* the dead letter list: message and type of each request
  tasks           \* the dispatches in progress

input == <<org, urgent>>
vouched == <<found, bypassed>>
tables == <<row, appts, organizations, cache, dropped, vouched, seen>>
vars == <<input, tables, dead, tasks>>

Key == Ein \cup {NoEin}

State == {"none", "DEDUP_CHECK", "VERIFYING", "ELIGIBILITY_CHECK", "SCORING",
          "FINDING_SLOT", "BOOKED", "URGENT_ESCALATED_TO_PA",
          "DROPPED_DUPLICATE", "DROPPED_NOT_VERIFIED",
          "DROPPED_WITHIN_90_DAYS"}

TaskKind == {"email.classified", "dedup.result", "verify", "org.verified",
             "check", "eligibility.result", "score", "org.scored"}

\* type names the task and its receiver, ein is the one in the payload;
\* whole: the payload has what its receiver requires.
Task ==
  [type : TaskKind, email : Email, ein : Key, whole : BOOLEAN,
   says : {"none", "clean", "merged", "duplicate", "verified", "unverified",
           "eligible", "escalate", "ineligible"}]

TypeOK ==
  /\ org \in [Email -> Ein] /\ urgent \subseteq Email /\ appts \subseteq Ein
  /\ row \in [Email -> [state : State, ein : Key, signals : BOOLEAN]]
  /\ organizations \subseteq Key /\ cache \subseteq Key
  /\ dropped \subseteq [email_id : {"_hash_"} \X Email, hash : Ein]
  /\ found \subseteq Key /\ bypassed \subseteq Key /\ seen \subseteq Email
  /\ dead \subseteq Email \X TaskKind
  /\ tasks \subseteq Task

Init ==
  /\ org \in [Email -> Ein] /\ urgent \in SUBSET Email
  /\ appts \in SUBSET Ein
  /\ row = [m \in Email |-> [state |-> "none", ein |-> NoEin,
                             signals |-> FALSE]]
  /\ organizations = appts
  /\ cache = {} /\ dropped = {} /\ found = {} /\ bypassed = {} /\ seen = {}
  /\ dead = {} /\ tasks = {}

Post(type, m, ein, says) ==
  [type |-> type, email |-> m, ein |-> ein, says |-> says,
   whole |-> (type \in ResultType => Accepted(type))]

Room == Cardinality(tasks) < MaxTasks

\* The receiver of t dispatches new before it answers; the POST of t may be
\* repeated all the same.
Take(t, new) ==
  /\ UNCHANGED dead
  /\ \/ tasks' = (tasks \ {t}) \cup new
     \/ "repeat" \in Faults /\ Room /\ tasks' = tasks \cup new

Move(m, from, to) ==
  /\ row[m].state \in from
  /\ row' = [row EXCEPT ![m].state = to]

---------------------------------------------------------------------------
(* Orchestrator: handlers.py *)

\* create_pipeline inserts the organization too, and the moves of the
\* handler end in DEDUP_CHECK.
HandleEmailClassified(m) ==
  /\ row[m].state = "none"
  /\ row' = [row EXCEPT ![m] = [state |-> "DEDUP_CHECK", ein |-> org[m],
                                signals |-> m \in urgent]]
  /\ organizations' = organizations \cup {org[m]}
  /\ tasks' = tasks \cup {Post("email.classified", m, org[m], "none")}
  /\ UNCHANGED <<input, appts, cache, dropped, vouched, seen, dead>>

\* Only an exact duplicate is dropped: a merged one goes on.
HandleDedupResult(t) ==
  /\ t.type = "dedup.result"
  /\ \/ /\ t.says = "duplicate"
        /\ Move(t.email, {"DEDUP_CHECK"}, "DROPPED_DUPLICATE")
        /\ Take(t, {})
     \/ /\ t.says # "duplicate"
        /\ Move(t.email, {"DEDUP_CHECK"}, "VERIFYING")
        /\ Take(t, {Post("verify", t.email, t.ein, "none")})
  /\ UNCHANGED <<input, appts, organizations, cache, dropped, vouched, seen>>

\* The payload's EIN replaces the one of the row, which must exist.
HandleOrgVerified(t) ==
  /\ t.type = "org.verified"
  /\ \/ /\ t.says = "unverified"
        /\ Move(t.email, {"VERIFYING"}, "DROPPED_NOT_VERIFIED")
        /\ UNCHANGED seen
        /\ Take(t, {})
     \/ /\ t.says = "verified"
        /\ t.ein \in organizations
        /\ row[t.email].state = "VERIFYING"
        /\ row' = [row EXCEPT ![t.email].state = "ELIGIBILITY_CHECK",
                              ![t.email].ein = t.ein]
        /\ seen' = seen \cup {m \in {t.email} : org[m] \in appts}
        /\ Take(t, {Post("check", t.email, t.ein, "none")})
  /\ UNCHANGED <<input, appts, organizations, cache, dropped, vouched>>

HandleEligibilityResult(t) ==
  /\ t.type = "eligibility.result"
  /\ Move(t.email, {"ELIGIBILITY_CHECK"},
          CASE t.says = "eligible" -> "SCORING"
            [] t.says = "escalate" -> "URGENT_ESCALATED_TO_PA"
            [] t.says = "ineligible" -> "DROPPED_WITHIN_90_DAYS")
  /\ Take(t, {Post("score", m, t.ein, "none") :
                m \in {n \in {t.email} : t.says = "eligible"}})
  /\ UNCHANGED <<input, appts, organizations, cache, dropped, vouched, seen>>

\* The handler goes on to the search for a slot; the queue and the calendar
\* are the business of other modules.
HandleOrgScored(t) ==
  /\ t.type = "org.scored" /\ t.whole
  /\ Move(t.email, {"SCORING"}, "FINDING_SLOT")
  /\ Take(t, {})
  /\ UNCHANGED <<input, appts, organizations, cache, dropped, vouched, seen>>

\* The payload model of the handler is not satisfied, or the row may not
\* name an organization that is not there: HTTP 500 at every attempt.
Refuse(t) ==
  /\ \/ ~ t.whole
     \/ /\ t.type = "org.verified" /\ t.says = "verified"
        /\ row[t.email].state = "VERIFYING" /\ t.ein \notin organizations
  /\ tasks' = tasks \ {t}
  /\ dead' = dead \cup {<<t.email, t.type>>}
  /\ UNCHANGED <<input, tables>>

\* The move is not a legal one: answered with status "error", which is an
\* answer like any other to the sender.
Reject(t) ==
  /\ t.whole
  /\ \/ t.type = "dedup.result" /\ row[t.email].state # "DEDUP_CHECK"
     \/ t.type = "org.verified" /\ row[t.email].state # "VERIFYING"
     \/ /\ t.type = "eligibility.result"
        /\ row[t.email].state # "ELIGIBILITY_CHECK"
     \/ t.type = "org.scored" /\ row[t.email].state # "SCORING"
  /\ tasks' = tasks \ {t}
  /\ UNCHANGED <<input, tables, dead>>

\* The later gates, up to the visit that handle_rsvp_outcome records.
Book(m) ==
  /\ Move(m, {"FINDING_SLOT"}, "BOOKED")
  /\ appts' = appts \cup {row[m].ein}
  /\ UNCHANGED <<input, organizations, cache, dropped, vouched, seen, dead,
                 tasks>>

---------------------------------------------------------------------------
(* Dedup Guard: dedup_logic.py *)

Active == {"DEDUP_CHECK", "VERIFYING", "ELIGIBILITY_CHECK", "SCORING",
           "FINDING_SLOT"}

\* Messages of one organization with one reason have one hash.  The
\* sentinels are looked up by the id of a message, and are stored under
\* another.
HashDuplicate(m) ==
  \E d \in dropped, n \in Email \ {m} :
    d.hash = org[m] /\ d.email_id = n /\ row[n].state # "none"

Verdict(m, says) == {Post("dedup.result", m, NoEin, says)}

\* Mutant: the signals of the row are replaced.
MergeReplaces(t, n) ==
  /\ t.type = "email.classified"
  /\ n # t.email /\ row[n].state \in Active /\ row[n].ein = t.ein
  /\ row' = [row EXCEPT ![n].signals = t.email \in urgent]
  /\ Take(t, Verdict(t.email, "merged"))
  /\ UNCHANGED <<input, appts, organizations, cache, dropped, vouched, seen>>

Merge(t, n) ==
  /\ t.type = "email.classified"
  /\ ~ HashDuplicate(t.email)
  /\ n # t.email /\ row[n].state \in Active /\ row[n].ein = t.ein
  /\ row' = [row EXCEPT ![n].signals = @ \/ t.email \in urgent]
  /\ Take(t, Verdict(t.email, "merged"))
  /\ UNCHANGED <<input, appts, organizations, cache, dropped, vouched, seen>>

\* Mutant: the sentinel is stored under the id of the message.
SentinelUnprefixed(t) ==
  /\ t.type = "email.classified"
  /\ \A n \in Email \ {t.email} :
       ~ (row[n].state \in Active /\ row[n].ein = t.ein)
  /\ dropped' = dropped \cup {[email_id |-> t.email, hash |-> t.ein]}
  /\ Take(t, Verdict(t.email, "clean"))
  /\ UNCHANGED <<input, row, appts, organizations, cache, vouched, seen>>

Pass(t) ==
  /\ t.type = "email.classified"
  /\ \/ HashDuplicate(t.email)
     \/ \A n \in Email \ {t.email} :
          ~ (row[n].state \in Active /\ row[n].ein = t.ein)
  /\ dropped' = dropped \cup
       IF HashDuplicate(t.email) THEN {}
       ELSE {[email_id |-> <<"_hash_", t.email>>, hash |-> t.ein]}
  /\ Take(t, Verdict(t.email, IF HashDuplicate(t.email) THEN "duplicate"
                              ELSE "clean"))
  /\ UNCHANGED <<input, row, appts, organizations, cache, vouched, seen>>

---------------------------------------------------------------------------
(* Charity Verifier: verifier.py *)

Verified(t, says) == {Post("org.verified", t.email, t.ein, says)}

CacheHit(t) ==
  /\ t.type = "verify"
  /\ t.ein \in cache
  /\ Take(t, Verified(t, "verified"))
  /\ UNCHANGED <<input, tables>>

\* What the verifier takes for verified is cached and stored.
Vouch(t) ==
  /\ t.type = "verify"
  /\ t.ein \notin cache
  /\ cache' = cache \cup {t.ein}
  /\ \/ organizations' = organizations \cup {t.ein}
     \/ "upsert" \in Faults /\ UNCHANGED organizations
  /\ Take(t, Verified(t, "verified"))
  /\ UNCHANGED <<input, row, appts, dropped, seen>>

\* Some source knows the organization, or, asked without an EIN and a name,
\* any.
LookupSucceeds(t) ==
  /\ Vouch(t)
  /\ found' = found \cup {t.ein} /\ UNCHANGED bypassed

\* No source knows it, but its name has "red cross" in it: a bypass for a
\* test.  A payload without an EIN has no name either.
NameBypass(t) ==
  /\ t.ein # NoEin
  /\ Vouch(t)
  /\ bypassed' = bypassed \cup {t.ein} /\ UNCHANGED found

\* Mutant: the cache is written before the result is looked at.
CachedUnverified(t) ==
  /\ t.type = "verify"
  /\ t.ein \notin cache
  /\ cache' = cache \cup {t.ein}
  /\ Take(t, Verified(t, "unverified"))
  /\ UNCHANGED <<input, row, appts, organizations, dropped, vouched, seen>>

LookupFails(t) ==
  /\ t.type = "verify"
  /\ t.ein \notin cache
  /\ Take(t, Verified(t, "unverified"))
  /\ UNCHANGED <<input, tables>>

---------------------------------------------------------------------------
(* Eligibility Agent: eligibility_logic.py.  A visit booked between its    *)
(* two queries is as good as one booked after both, and signals merged     *)
(* between them as good as signals merged before both.                     *)

\* Without an EIN the task is accepted and nothing is done.
MissingEin(t) ==
  /\ t.type = "check"
  /\ t.ein = NoEin
  /\ Take(t, {})
  /\ UNCHANGED <<input, tables>>

\* Mutant: urgency is looked at before the count.
UrgencyFirst(t) ==
  IF row[t.email].signals THEN "eligible"
  ELSE IF t.ein \notin appts THEN "eligible" ELSE "ineligible"

Eligibility(t) ==
  IF t.ein \notin appts THEN "eligible"
  ELSE IF row[t.email].signals THEN "escalate" ELSE "ineligible"

Check(t) ==
  /\ t.type = "check"
  /\ t.ein # NoEin
  /\ Take(t, {Post("eligibility.result", t.email, t.ein, Eligibility(t))})
  /\ UNCHANGED <<input, tables>>

---------------------------------------------------------------------------
(* Prioritizer: scorer.py *)

\* The four components of the score are module Scoring's.
Score(t) ==
  /\ t.type = "score"
  /\ Take(t, {Post("org.scored", t.email, t.ein, "none")})
  /\ UNCHANGED <<input, tables>>

---------------------------------------------------------------------------
(* The world *)

\* Mutant: the request is not kept.
LoseUnkept(t) ==
  /\ "lost" \in Faults /\ Cardinality(dead) < MaxLost
  /\ tasks' = tasks \ {t}
  /\ UNCHANGED <<input, tables, dead>>

\* A dispatch is given up: the request is in the dead letter list.
Lose(t) ==
  /\ "lost" \in Faults /\ Cardinality(dead) < MaxLost
  /\ tasks' = tasks \ {t}
  /\ dead' = dead \cup {<<t.email, t.type>>}
  /\ UNCHANGED <<input, tables>>

\* POST /tasks takes a result from anybody: a dedup.result, whose payload is
\* handed on (a merged one like a clean one), and an org.scored with the
\* fields its handler requires; in another state they are refused.
PostByHand(m, says) ==
  /\ ByHand /\ Room
  /\ \/ /\ row[m].state = "DEDUP_CHECK"
        /\ tasks' = tasks \cup {Post("dedup.result", m, org[m], says)}
     \/ /\ row[m].state = "SCORING" /\ says = "clean"
        /\ tasks' = tasks \cup {[type |-> "org.scored", email |-> m,
                                ein |-> org[m], says |-> "none",
                                whole |-> TRUE]}
  /\ UNCHANGED <<input, tables, dead>>

Agent(t) ==
  \/ HandleDedupResult(t) \/ HandleOrgVerified(t)
  \/ HandleEligibilityResult(t) \/ HandleOrgScored(t) \/ Refuse(t)
  \/ Reject(t)
  \/ Pass(t) \/ \E n \in Email : Merge(t, n)
  \/ CacheHit(t) \/ LookupSucceeds(t) \/ NameBypass(t) \/ LookupFails(t)
  \/ MissingEin(t) \/ Check(t) \/ Score(t)

Next ==
  \/ \E m \in Email :
       \/ HandleEmailClassified(m) \/ Book(m)
       \/ \E s \in {"clean", "duplicate"} : PostByHand(m, s)
  \/ \E t \in tasks : Agent(t) \/ Lose(t)

Spec == Init /\ [][Next]_vars

---------------------------------------------------------------------------
(* Properties *)

Scored == {"SCORING", "FINDING_SLOT", "BOOKED"}

Behind == Scored \cup {"ELIGIBILITY_CHECK", "URGENT_ESCALATED_TO_PA",
                       "DROPPED_WITHIN_90_DAYS"}

Known == found \cup bypassed

\* Whoever is behind the Charity Verifier was found, under the EIN of its
\* row, by some lookup, or came with this EIN and a name the verifier lets
\* through: neither the cache nor a repeated or hand-made task lets anybody
\* else through (verify, synthesize_confidence).
VerifiedWasFound ==
  \A m \in Email : row[m].state \in Behind => row[m].ein \in Known

\* An organization that has a visit when the check of its message is asked
\* for is not scored, by whatever way its EIN went through the payloads and
\* whichever of its other messages made the visit (eligibility_logic.check).
\* A visit booked later is not seen: two messages may both be checked first.
WindowRespected == \A m \in seen : row[m].state \notin Scored

\* A message that was urgent when it came is not dropped for the visit its
\* organization had, whatever was merged into its row before ("Ineligible +
\* urgency -> PA decides", eligibility_logic.py:81).
UrgentNotDropped ==
  \A m \in urgent : row[m].state # "DROPPED_WITHIN_90_DAYS"

\* The tasks that can move a pipeline on from a state.
Moves(s) ==
  CASE s = "DEDUP_CHECK" -> {"email.classified", "dedup.result"}
    [] s = "VERIFYING" -> {"verify", "org.verified"}
    [] s = "ELIGIBILITY_CHECK" -> {"check", "eligibility.result"}
    [] s = "SCORING" -> {"score", "org.scored"}

\* A pipeline that stands in an automatic gate is being worked on, or one of
\* the requests that could move it is in the dead letter list (a2a_client.py:
\* "dead letter fallback"); the one exception is a check without an EIN,
\* which is accepted and forgotten (eligibility_logic.py:61).
StuckIsKept ==
  \A m \in Email :
    row[m].state \in {"DEDUP_CHECK", "VERIFYING", "ELIGIBILITY_CHECK",
                     "SCORING"} =>
      \E k \in Moves(row[m].state) :
        \/ \E t \in tasks : t.email = m /\ t.type = k
        \/ <<m, k>> \in dead
        \/ k = "check" /\ row[m].ein = NoEin
=============================================================================
