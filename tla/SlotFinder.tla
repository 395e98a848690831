------------------------------ MODULE SlotFinder ------------------------------
(***************************************************************************)
(* agents/calendar_agent/slot_finder.py: the search for a slot and the     *)
(* tentative hold.  Time is counted in ticks; the clocks may change once.  *)
(* All calls to Google are synchronous: no other request is handled from   *)
(* the free/busy query to the hold.                                        *)
(***************************************************************************)
EXTENDS Integers, FiniteSets, FiniteSetsExt

CONSTANTS
  Pipeline,
  Hour, Day, Week,         \* ticks of an hour and a day, days of a week
  Weekend,                 \* the days of the week without slots
  GCAL_SLOT_MIN_DAYS, GCAL_SLOT_MAX_DAYS, GCAL_APPT_DURATION,
  GCAL_SLOT_START_HOUR, GCAL_SLOT_END_HOUR,
  Change, Delta,           \* from tick Change on the clocks are Delta ahead
  MaxNow,                  \* bound: how long the system runs
  MaxEvents,               \* bound: events in the calendar
  MaxLength                \* bound: how long an event of the executive is

ASSUME CalendarAssumption ==
  /\ {Hour, Day, Week, GCAL_SLOT_MIN_DAYS, GCAL_SLOT_MAX_DAYS,
      GCAL_APPT_DURATION} \subseteq Nat \ {0}
  /\ {GCAL_SLOT_START_HOUR, GCAL_SLOT_END_HOUR, MaxNow, MaxLength}
       \subseteq Nat
  /\ {Change, Delta} \subseteq Int
  /\ GCAL_SLOT_MIN_DAYS < GCAL_SLOT_MAX_DAYS
  /\ GCAL_SLOT_START_HOUR < GCAL_SLOT_END_HOUR
  /\ GCAL_SLOT_END_HOUR * Hour + GCAL_APPT_DURATION <= Day
  /\ Day % Hour = 0
  /\ MaxLength <= Week * Day

VARIABLES
  now,
  events,   \* the executive's calendar, holds included
  asked,    \* the POSTs not yet handled
  told      \* per pipeline, what the orchestrator was told last

vars == <<now, events, asked, told>>

NoSlot == -1
Tick == 0..(MaxNow + (GCAL_SLOT_MAX_DAYS + Week) * Day)
Owner == Pipeline \cup {"executive"}
Event == [start : Tick, end : Tick, owner : Owner]

TypeOK ==
  /\ now \in 0..MaxNow
  /\ events \subseteq Event
  /\ asked \subseteq Pipeline
  /\ told \in [Pipeline -> {"nothing", "slot_found", "no_slots", "error"}]

Init ==
  /\ now = 0
  /\ events = {}
  /\ asked = Pipeline
  /\ told = [p \in Pipeline |-> "nothing"]

---------------------------------------------------------------------------
(* Clocks *)

Ahead(t) == IF t >= Change THEN Delta ELSE 0

HourOf(label) == (label % Day) \div Hour
DayOf(label) == (label \div Day) % Week
NextDay(label, hour) == (label \div Day + 1) * Day + hour * Hour

---------------------------------------------------------------------------
(* _generate_candidate_slots: the labels it steps through keep the offset  *)
(* that was in force at from.                                              *)

\* Mutant: weekends are not skipped.
SevenDays(label) ==
  HourOf(label) >= GCAL_SLOT_END_HOUR

\* The step leads to the first slot of the next day.
Skipped(label) ==
  \/ DayOf(label) \in Weekend
  \/ HourOf(label) >= GCAL_SLOT_END_HOUR

Advance(label) ==
  IF Skipped(label) THEN NextDay(label, GCAL_SLOT_START_HOUR)
  ELSE label + GCAL_APPT_DURATION

\* Every turn of the loop takes current ahead by a tick at least.
Turn == 0..((GCAL_SLOT_MAX_DAYS - GCAL_SLOT_MIN_DAYS + 1) * Day)

\* The labels of the loop, turn by turn.  The day of from is not past at
\* from, which is days ahead of now: the code's test for that never holds.
\* No label is before the first hour: a day starts there and no slot goes
\* over midnight.
Current(from) ==
  LET first == ((from + Ahead(from)) \div Day) * Day
                 + GCAL_SLOT_START_HOUR * Hour
      current[n \in Turn] ==
        IF n = 0 THEN first ELSE Advance(current[n - 1])
  IN  current

SlotAt(label, from) ==
  LET start == label - Ahead(from)
  IN  [start |-> start, end |-> start + GCAL_APPT_DURATION]

\* What the loop appends for a label.
IsCandidate(label, from, to) ==
  LET s == SlotAt(label, from) IN
  /\ s.start < to
  /\ ~ Skipped(label)
  /\ HourOf(s.end + Ahead(s.end)) <= GCAL_SLOT_END_HOUR

Overlap(s, b) == ~ (s.end <= b.start \/ s.start >= b.end)

\* Mutant: a slot beside a busy range is not free.
NotBeside(s, busy) ==
  \A b \in busy : s.end < b.start \/ s.start > b.end

\* Mutant: only the start of a busy range counts.
StartsOnly(s, busy) ==
  \A b \in busy : ~ (s.start <= b.start /\ b.start < s.end)

IsFree(s, busy) == \A b \in busy : ~ Overlap(s, b)

---------------------------------------------------------------------------
(* find_and_hold *)

SearchStart == now + GCAL_SLOT_MIN_DAYS * Day
SearchEnd   == now + GCAL_SLOT_MAX_DAYS * Day

\* What Google says is busy between timeMin and timeMax.
FreeBusy == {e \in events : e.start < SearchEnd /\ e.end > SearchStart}

\* The turns of the candidates that are free.
FreeTurns ==
  LET current == Current(SearchStart) IN
  {n \in Turn : /\ IsCandidate(current[n], SearchStart, SearchEnd)
                /\ IsFree(SlotAt(current[n], SearchStart), FreeBusy)}

\* The first of them.
Chosen(free) == SlotAt(Current(SearchStart)[Min(free)], SearchStart)

\* The orchestrator is told unless the dispatch fails; the POST that asked
\* was handled and may be repeated all the same.
Answer(p, what) ==
  /\ told' \in {told, [told EXCEPT ![p] = what]}
  /\ asked' \in {asked, asked \ {p}}
  /\ UNCHANGED now

HoldEvent(p, s) == [start |-> s.start, end |-> s.end, owner |-> p]

\* Mutant: that nothing was chosen is not noticed.
HoldAnyway(p) ==
  /\ p \in asked
  /\ LET s == IF FreeTurns = {} THEN [start |-> NoSlot, end |-> NoSlot]
              ELSE Chosen(FreeTurns)
     IN  events' = events \cup {HoldEvent(p, s)}
  /\ Answer(p, "slot_found")

\* Hold the first free candidate.
Hold(p) ==
  /\ p \in asked
  /\ LET free == FreeTurns IN
       /\ free # {}
       /\ events' = events \cup {HoldEvent(p, Chosen(free))}
  /\ Answer(p, "slot_found")

NoSlots(p) ==
  /\ p \in asked
  /\ FreeTurns = {}
  /\ Answer(p, "no_slots")
  /\ UNCHANGED events

\* No token, or Google refuses the query or the event: calendar.no_slots
\* with the error for its reason.
GoogleFails(p) ==
  /\ p \in asked
  /\ Answer(p, "error")
  /\ UNCHANGED events

---------------------------------------------------------------------------
(* The world *)

\* The executive uses the calendar too.
Enter(t, u) ==
  /\ Cardinality(events) < MaxEvents
  /\ events' = events \cup {[start |-> t, end |-> u, owner |-> "executive"]}
  /\ UNCHANGED <<now, asked, told>>

\* An event is deleted; a hold that way is released.
Delete(e) ==
  /\ events' = events \ {e}
  /\ UNCHANGED <<now, asked, told>>

Later ==
  /\ now < MaxNow
  /\ now' = now + 1
  /\ UNCHANGED <<events, asked, told>>

Next ==
  \/ \E p \in Pipeline :
       \/ Cardinality(events) < MaxEvents /\ Hold(p)
       \/ NoSlots(p) \/ GoogleFails(p)
  \/ \E t \in now..SearchEnd : \E u \in (t + 1)..(t + MaxLength) : Enter(t, u)
  \/ \E e \in events : Delete(e)
  \/ Later

Spec == Init /\ [][Next]_vars

---------------------------------------------------------------------------
(* Properties.  A search is the step that adds a hold or tells that there  *)
(* is none.                                                                *)

Held == {e \in events' \ events : e.owner # "executive"}

\* The clocks do not change between now and the last slot.
Steady == Ahead(now) = Ahead(SearchEnd + Day)

\* The slots as the agent's documentation has them: of the duration, on
\* working days, within the hours, one after the other from the first hour,
\* and inside the search window.
Slot(s) ==
  LET l == s.start + Ahead(s.start) IN
  /\ s.end = s.start + GCAL_APPT_DURATION
  /\ DayOf(l) \notin Weekend
  /\ (l % Day) >= GCAL_SLOT_START_HOUR * Hour
  /\ (l % Day) + GCAL_APPT_DURATION <= GCAL_SLOT_END_HOUR * Hour
  /\ ((l % Day) - GCAL_SLOT_START_HOUR * Hour) % GCAL_APPT_DURATION = 0

InWindow(s) == SearchStart <= s.start /\ s.end <= SearchEnd

FreeSlots ==
  {s \in {[start |-> t, end |-> t + GCAL_APPT_DURATION] : t \in Tick} :
     Slot(s) /\ InWindow(s) /\ \A e \in events : ~ Overlap(s, e)}

\* No free slot of the window is passed over: a hold is not later than any
\* of them, and with one of them there is no "no_slots" (find_and_hold
\* takes the first free candidate, "Picks the EARLIEST available slot",
\* slot_finder.py:7).
EarliestSlot ==
  [][Steady =>
       /\ \A h \in Held : \A s \in FreeSlots : h.start <= s.start
       /\ (\E p \in Pipeline : told'[p] = "no_slots" /\ told[p] # "no_slots")
            => FreeSlots = {}]_vars

\* A hold is a slot of the working week, within the hours, whatever day and
\* hour the search is made, unless the clocks change meanwhile
\* (_generate_candidate_slots).
InHours ==
  [][Steady => \A h \in Held : Slot([start |-> h.start, end |-> h.end])]_vars

\* A hold inside the search window overlaps nothing in the calendar, other
\* holds included (_is_free on what the free/busy query returns).  Outside it,
\* earlier on the first day or over the end of the window, it may.
FreeInWindow ==
  [][\A h \in Held : InWindow(h) => \A e \in events : ~ Overlap(h, e)]_vars
=============================================================================
