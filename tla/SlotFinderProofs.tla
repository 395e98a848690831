--------------------------- MODULE SlotFinderProofs ---------------------------
(***************************************************************************)
(* The search finds the earliest free slot, for every calendar, window,    *)
(* duration and business day.                                              *)
(***************************************************************************)
EXTENDS SlotFinder, WellFoundedInduction, TLAPS

---------------------------------------------------------------------------
(* Numbers *)

\* A set of naturals has a least element.
LEMMA LeastOf ==
  ASSUME NEW T \in SUBSET Nat, T # {}
  PROVE  \E x \in T : \A y \in T : x <= y
<1>1. PICK R : R = OpToRel(<, Nat)
  OBVIOUS
<1>2. IsWellFoundedOn(R, Nat)
  BY <1>1, NatLessThanWellFounded
<1>3. PICK x \in T : \A y \in T : ~ (<<y, x>> \in R)
  BY <1>2, WFMin
<1>4. \A y \in T : ~ (y < x)
  BY <1>1, <1>3 DEF OpToRel
<1> QED
  BY <1>4

LEMMA OrderedProducts ==
  ASSUME NEW a \in Int, NEW b \in Int, NEW c \in Nat, a <= b
  PROVE  a * c <= b * c
  OBVIOUS

LEMMA Division ==
  ASSUME NEW d \in Nat \ {0}, NEW l \in Int
  PROVE  /\ l \div d \in Int /\ l % d \in Int
         /\ 0 <= l % d /\ l % d < d
         /\ l = (l \div d) * d + (l % d)
  OBVIOUS

LEMMA DivisionIs ==
  ASSUME NEW d \in Nat \ {0}, NEW q \in Int, NEW r \in Int, 0 <= r, r < d
  PROVE  (q * d + r) \div d = q /\ (q * d + r) % d = r
<1> DEFINE l == q * d + r
<1>1. l \in Int
  OBVIOUS
<1>2. /\ l \div d \in Int /\ l % d \in Int /\ 0 <= l % d /\ l % d < d
      /\ l = (l \div d) * d + (l % d)
  BY <1>1, Division
<1>3. l \div d <= q
  <2> SUFFICES ASSUME q + 1 <= l \div d PROVE FALSE
    BY <1>2
  <2>1. (q + 1) * d <= (l \div d) * d
    BY <1>2, OrderedProducts
  <2> QED
    BY <1>2, <2>1
<1>4. q <= l \div d
  <2> SUFFICES ASSUME l \div d + 1 <= q PROVE FALSE
    BY <1>2
  <2>1. (l \div d + 1) * d <= q * d
    BY <1>2, OrderedProducts
  <2> QED
    BY <1>2, <2>1
<1> QED
  BY <1>2, <1>3, <1>4

---------------------------------------------------------------------------
(* The business day *)

Opening == GCAL_SLOT_START_HOUR * Hour
Closing == GCAL_SLOT_END_HOUR * Hour
LastTurn == (GCAL_SLOT_MAX_DAYS - GCAL_SLOT_MIN_DAYS + 1) * Day

LEMMA Hours ==
  /\ Day \in Nat \ {0} /\ Hour \in Nat \ {0} /\ Week \in Nat \ {0}
  /\ GCAL_APPT_DURATION \in Nat \ {0}
  /\ Opening \in Nat /\ Closing \in Nat /\ Opening < Closing
  /\ Closing + GCAL_APPT_DURATION <= Day
  /\ Change \in Int /\ Delta \in Int
<1>1. /\ Hour \in Nat \ {0}
      /\ GCAL_SLOT_START_HOUR \in Nat /\ GCAL_SLOT_END_HOUR \in Nat
      /\ GCAL_SLOT_START_HOUR + 1 <= GCAL_SLOT_END_HOUR
  BY CalendarAssumption
<1>2. Opening \in Nat /\ Closing \in Nat
  BY <1>1 DEF Opening, Closing
<1>3. (GCAL_SLOT_START_HOUR + 1) * Hour <= GCAL_SLOT_END_HOUR * Hour
  BY <1>1, OrderedProducts
<1>4. Opening < Closing
  BY <1>1, <1>3 DEF Opening, Closing
<1> QED
  BY <1>2, <1>4, CalendarAssumption DEF Closing

LEMMA TurnIs == LastTurn \in Nat /\ Turn = 0..LastTurn
  BY CalendarAssumption DEF LastTurn, Turn

\* The hour of a label says how its time of the day compares.
LEMMA HourOfIs ==
  ASSUME NEW l \in Int
  PROVE  /\ HourOf(l) >= GCAL_SLOT_END_HOUR <=> l % Day >= Closing
         /\ l % Day <= Closing => HourOf(l) <= GCAL_SLOT_END_HOUR
<1> DEFINE r == l % Day
           h == r \div Hour
<1>1. Hour \in Nat \ {0} /\ Day \in Nat \ {0} /\ GCAL_SLOT_END_HOUR \in Nat
  BY Hours, CalendarAssumption
<1>2. r \in Int /\ 0 <= r
  BY <1>1, Division
<1>3. /\ h \in Int /\ r % Hour \in Int /\ 0 <= r % Hour /\ r % Hour < Hour
      /\ r = h * Hour + (r % Hour)
  BY <1>1, <1>2, Division
<1>4. HourOf(l) = h
  BY DEF HourOf
<1> HIDE DEF r, h
<1>5. ASSUME h >= GCAL_SLOT_END_HOUR PROVE r >= Closing
  <2>1. GCAL_SLOT_END_HOUR * Hour <= h * Hour
    BY <1>1, <1>3, <1>5, OrderedProducts
  <2>2. h * Hour \in Int /\ GCAL_SLOT_END_HOUR * Hour \in Int
    BY <1>1, <1>3
  <2> QED
    BY <1>3, <2>1, <2>2 DEF Closing
<1>6. ASSUME h + 1 <= GCAL_SLOT_END_HOUR PROVE r < Closing
  <2>1. (h + 1) * Hour <= GCAL_SLOT_END_HOUR * Hour
    BY <1>1, <1>3, <1>6, OrderedProducts
  <2> QED
    BY <1>1, <1>3, <2>1 DEF Closing
<1>7. ASSUME GCAL_SLOT_END_HOUR + 1 <= h PROVE r > Closing
  <2>1. (GCAL_SLOT_END_HOUR + 1) * Hour <= h * Hour
    BY <1>1, <1>3, <1>7, OrderedProducts
  <2> QED
    BY <1>1, <1>3, <2>1 DEF Closing
<1>8. Closing \in Nat
  BY Hours
<1>9. /\ h >= GCAL_SLOT_END_HOUR <=> r >= Closing
      /\ r <= Closing => h <= GCAL_SLOT_END_HOUR
  BY <1>1, <1>2, <1>3, <1>5, <1>6, <1>7, <1>8
<1> QED
  BY <1>4, <1>9 DEF r

\* A label a whole number of slots after the opening of its day.
OnGrid(l) ==
  /\ l \in Int
  /\ \E k \in Nat : l % Day = Opening + k * GCAL_APPT_DURATION

LEMMA OpeningIsOnGrid ==
  ASSUME NEW q \in Int
  PROVE  /\ q * Day + Opening \in Int /\ OnGrid(q * Day + Opening)
         /\ (q * Day + Opening) \div Day = q
         /\ (q * Day + Opening) % Day = Opening
<1>1. (q * Day + Opening) \div Day = q /\ (q * Day + Opening) % Day = Opening
  BY Hours, DivisionIs
<1>2. q * Day + Opening \in Int
  BY Hours
<1>3. Opening = Opening + 0 * GCAL_APPT_DURATION
  BY Hours
<1> QED
  BY <1>1, <1>2, <1>3 DEF OnGrid

LEMMA NextDayIs ==
  ASSUME NEW l \in Int
  PROVE  NextDay(l, GCAL_SLOT_START_HOUR) = (l \div Day + 1) * Day + Opening
  BY DEF NextDay, Opening

\* A turn leads to a later label, to the next slot or the next opening.
LEMMA AdvanceIs ==
  ASSUME NEW l, OnGrid(l)
  PROVE  OnGrid(Advance(l)) /\ Advance(l) \in Int /\ l + 1 <= Advance(l)
<1> DEFINE q == l \div Day
           r == l % Day
<1>1. l \in Int /\ q \in Int /\ r \in Int /\ 0 <= r /\ r < Day
      /\ l = q * Day + r
  BY Hours, Division DEF OnGrid
<1>2. PICK k \in Nat : r = Opening + k * GCAL_APPT_DURATION
  BY DEF OnGrid
<1> HIDE DEF q, r
<1>3. CASE Skipped(l)
  <2>1. Advance(l) = (q + 1) * Day + Opening
    BY <1>1, <1>3, NextDayIs DEF Advance, q
  <2>2. q + 1 \in Int
    BY <1>1
  <2>3. l + 1 <= (q + 1) * Day + Opening
    BY <1>1, Hours
  <2> QED
    BY <2>1, <2>2, <2>3, OpeningIsOnGrid
<1>4. CASE ~ Skipped(l)
  <2>1. Advance(l) = l + GCAL_APPT_DURATION
    BY <1>4 DEF Advance
  <2>2. r < Closing
    BY <1>1, <1>4, HourOfIs, Hours DEF Skipped, HourOf, r
  <2>3. PICK e : e = r + GCAL_APPT_DURATION
    OBVIOUS
  <2>4. e \in Int /\ 0 <= e /\ e < Day
    BY <1>1, <2>2, <2>3, Hours
  <2>5. (q * Day + e) % Day = e
    BY <1>1, <2>4, Hours, DivisionIs
  <2>6. l + GCAL_APPT_DURATION = q * Day + e
    BY <1>1, <2>3, Hours
  <2>7. k + 1 \in Nat /\ e = Opening + (k + 1) * GCAL_APPT_DURATION
    BY <1>2, <2>3, Hours
  <2>8. l + GCAL_APPT_DURATION \in Int
    BY <1>1, Hours
  <2>9. (l + GCAL_APPT_DURATION) % Day
          = Opening + (k + 1) * GCAL_APPT_DURATION
    BY <2>5, <2>6, <2>7
  <2>10. OnGrid(l + GCAL_APPT_DURATION)
    BY <2>7, <2>8, <2>9 DEF OnGrid
  <2> QED
    BY <1>1, <2>1, <2>10, Hours
<1> QED
  BY <1>3, <1>4

---------------------------------------------------------------------------
(* The labels of the loop                                                  *)

First(from) == ((from + Ahead(from)) \div Day) * Day + Opening

Labels(first, f, N) ==
  f = [n \in 0..N |-> IF n = 0 THEN first ELSE Advance(f[n - 1])]

\* A loop of any number of turns has its labels: a least number of turns
\* without them would be one more than a number with them.
LEMMA LabelsExist ==
  ASSUME NEW first, NEW N \in Nat
  PROVE  \E f : Labels(first, f, N)
<1> DEFINE T == {n \in Nat : \A f : ~ Labels(first, f, n)}
<1> SUFFICES T = {}
  OBVIOUS
<1> SUFFICES ASSUME T # {} PROVE FALSE
  OBVIOUS
<1>1. PICK n \in T : \A m \in T : n <= m
  BY LeastOf
<1>2. n # 0
  <2>1. PICK f : f = [i \in 0..0 |-> first]
    OBVIOUS
  <2>2. f = [i \in 0..0 |-> IF i = 0 THEN first ELSE Advance(f[i - 1])]
    BY <2>1
  <2>3. Labels(first, f, 0)
    BY <2>2 DEF Labels
  <2> QED
    BY <2>3
<1>3. n \in Nat /\ n - 1 \in Nat /\ n - 1 \notin T
  BY <1>1, <1>2
<1>4. PICK f : Labels(first, f, n - 1)
  BY <1>3
<1>5. /\ \A i \in 0..(n - 1) :
           f[i] = IF i = 0 THEN first ELSE Advance(f[i - 1])
  BY <1>4 DEF Labels
<1>6. PICK g : g = [i \in 0..n |-> IF i = n THEN Advance(f[n - 1]) ELSE f[i]]
  OBVIOUS
<1>7. \A i \in 0..n : g[i] = IF i = 0 THEN first ELSE Advance(g[i - 1])
  <2> SUFFICES ASSUME NEW i \in 0..n
               PROVE  g[i] = IF i = 0 THEN first ELSE Advance(g[i - 1])
    OBVIOUS
  <2>1. CASE i = n
    BY <1>2, <1>3, <1>6, <2>1
  <2>2. CASE i # n
    <3>1. i \in 0..(n - 1) /\ g[i] = f[i]
      BY <1>3, <1>6, <2>2
    <3>2. i # 0 => i - 1 \in 0..n /\ i - 1 # n
      BY <1>3, <2>2
    <3>3. i # 0 => g[i - 1] = f[i - 1]
      BY <1>6, <3>2
    <3> QED
      BY <1>5, <3>1, <3>3
  <2> QED
    BY <2>1, <2>2
<1>8. g = [i \in 0..n |-> IF i = 0 THEN first ELSE Advance(g[i - 1])]
  BY <1>6, <1>7
<1> QED
  BY <1>1, <1>8 DEF Labels

LEMMA CurrentIs ==
  ASSUME NEW from
  PROVE  /\ Current(from)[0] = First(from)
         /\ \A n \in 1..LastTurn :
              Current(from)[n] = Advance(Current(from)[n - 1])
<1> DEFINE first == First(from)
<1>1. Current(from) = CHOOSE f :
        f = [n \in Turn |-> IF n = 0 THEN first ELSE Advance(f[n - 1])]
  BY DEF Current, First, Opening
<1>2. Turn = 0..LastTurn /\ LastTurn \in Nat
  BY TurnIs
<1>3. Labels(first, Current(from), LastTurn)
  BY <1>1, <1>2, LabelsExist DEF Labels
<1> HIDE DEF first
<1>4. \A n \in 0..LastTurn :
        Current(from)[n] = IF n = 0 THEN first
                           ELSE Advance(Current(from)[n - 1])
  BY <1>3 DEF Labels
<1> QED
  BY <1>2, <1>4 DEF first

LEMMA AheadIs ==
  ASSUME NEW t \in Int
  PROVE  Ahead(t) \in Int
  BY Hours DEF Ahead

LEMMA FirstIs ==
  ASSUME NEW from \in Int
  PROVE  /\ First(from) \in Int /\ OnGrid(First(from))
         /\ from + Ahead(from) - Day < First(from)
         /\ First(from) <= from + Ahead(from) + Opening
<1> DEFINE l == from + Ahead(from)
           q == l \div Day
<1>1. l \in Int
  BY AheadIs
<1>2. q \in Int /\ l % Day \in Int /\ 0 <= l % Day /\ l % Day < Day
      /\ l = q * Day + (l % Day)
  BY <1>1, Hours, Division
<1>3. First(from) = q * Day + Opening
  BY DEF First
<1> HIDE DEF l, q
<1>4. First(from) \in Int /\ OnGrid(First(from))
  BY <1>2, <1>3, OpeningIsOnGrid
<1>5. l - Day < First(from) /\ First(from) <= l + Opening
  BY <1>1, <1>2, <1>3, Hours
<1> QED
  BY <1>4, <1>5, AheadIs, Hours DEF l

\* Labels are on the grid, and each is later than the one before.
LEMMA LabelsAre ==
  ASSUME NEW from \in Int, NEW n \in Turn
  PROVE  /\ OnGrid(Current(from)[n]) /\ Current(from)[n] \in Int
         /\ First(from) + n <= Current(from)[n]
<1> DEFINE c == Current(from)
           T == {i \in Turn : ~ (OnGrid(c[i]) /\ First(from) + i <= c[i])}
<1>1. Turn = 0..LastTurn /\ LastTurn \in Nat
  BY TurnIs
<1>2. First(from) \in Int /\ OnGrid(First(from))
  BY FirstIs
<1>3. /\ c[0] = First(from)
      /\ \A i \in 1..LastTurn : c[i] = Advance(c[i - 1])
  BY CurrentIs
<1> HIDE DEF c
<1>4. T = {}
  <2> SUFFICES ASSUME T # {} PROVE FALSE
    OBVIOUS
  <2>1. T \in SUBSET Nat
    BY <1>1
  <2>2. PICK i \in T : \A j \in T : i <= j
    BY <2>1, LeastOf
  <2>3. i # 0
    BY <1>2, <1>3, <2>2
  <2>4. i \in 1..LastTurn /\ i - 1 \in Turn /\ i - 1 \notin T
    BY <1>1, <2>2, <2>3
  <2>5. OnGrid(c[i - 1]) /\ First(from) + (i - 1) <= c[i - 1]
    BY <2>4
  <2>6. OnGrid(c[i]) /\ c[i] \in Int /\ c[i - 1] + 1 <= c[i]
    BY <1>3, <2>4, <2>5, AdvanceIs
  <2>7. First(from) + i <= c[i]
    BY <1>2, <2>4, <2>5, <2>6 DEF OnGrid
  <2> QED
    BY <2>2, <2>6, <2>7
<1>5. OnGrid(c[n]) /\ First(from) + n <= c[n]
  BY <1>4
<1> QED
  BY <1>5 DEF OnGrid, c

LEMMA LabelsGrow ==
  ASSUME NEW from \in Int, NEW m \in Turn, NEW n \in Turn, m <= n
  PROVE  Current(from)[m] <= Current(from)[n]
<1> DEFINE c == Current(from)
           T == {i \in Turn : m <= i /\ ~ (c[m] <= c[i])}
<1>1. Turn = 0..LastTurn /\ LastTurn \in Nat
  BY TurnIs
<1>2. \A i \in Turn : OnGrid(c[i]) /\ c[i] \in Int
  BY LabelsAre
<1>3. \A i \in 1..LastTurn : c[i] = Advance(c[i - 1])
  BY CurrentIs
<1> HIDE DEF c
<1>4. T = {}
  <2> SUFFICES ASSUME T # {} PROVE FALSE
    OBVIOUS
  <2>1. T \in SUBSET Nat
    BY <1>1
  <2>2. PICK i \in T : \A j \in T : i <= j
    BY <2>1, LeastOf
  <2>3. i # m
    BY <1>2, <2>2
  <2>4. i \in 1..LastTurn /\ i - 1 \in Turn /\ i - 1 \notin T /\ m <= i - 1
    BY <1>1, <2>2, <2>3
  <2>5. c[m] <= c[i - 1]
    BY <2>4
  <2>6. c[i] \in Int /\ c[i - 1] + 1 <= c[i]
    BY <1>2, <1>3, <2>4, AdvanceIs
  <2>7. c[m] <= c[i]
    BY <1>2, <2>4, <2>5, <2>6
  <2> QED
    BY <2>2, <2>7
<1> QED
  BY <1>4 DEF c

---------------------------------------------------------------------------
(* No slot of the business day is passed over                              *)

\* The label of a slot as the documentation has it.
SlotLabel(l) ==
  /\ DayOf(l) \notin Weekend
  /\ Opening <= l % Day
  /\ (l % Day) + GCAL_APPT_DURATION <= Closing
  /\ ((l % Day) - Opening) % GCAL_APPT_DURATION = 0

\* Two times of the day on the grid, less than a slot apart, are one.
LEMMA GridIsApart ==
  ASSUME NEW k \in Nat, NEW r \in Int,
         NEW d \in Nat \ {0}, NEW o \in Nat,
         (r - o) % d = 0, o + k * d <= r, r < o + k * d + d
  PROVE  r = o + k * d
<1> DEFINE j == (r - o) \div d
<1>1. r - o \in Int
  OBVIOUS
<1>2. j \in Int /\ r - o = j * d + ((r - o) % d)
  BY <1>1, Division
<1> HIDE DEF j
<1>3. r - o = j * d /\ j * d \in Int /\ k * d \in Int
  BY <1>2
<1>4. ~ (k + 1 <= j)
  <2> SUFFICES ASSUME k + 1 <= j PROVE FALSE
    OBVIOUS
  <2>1. (k + 1) * d <= j * d
    BY <1>2, OrderedProducts
  <2>2. (k + 1) * d = k * d + d
    OBVIOUS
  <2> QED
    BY <1>3, <2>1, <2>2
<1>5. ~ (j + 1 <= k)
  <2> SUFFICES ASSUME j + 1 <= k PROVE FALSE
    OBVIOUS
  <2>1. (j + 1) * d <= k * d
    BY <1>2, OrderedProducts
  <2>2. (j + 1) * d = j * d + d
    BY <1>2
  <2> QED
    BY <1>3, <2>1, <2>2
<1>6. j = k
  BY <1>2, <1>4, <1>5
<1> QED
  BY <1>3, <1>6

LEMMA NothingBetween ==
  ASSUME NEW l, OnGrid(l), NEW t \in Int, SlotLabel(t),
         l <= t, t < Advance(l)
  PROVE  t = l
<1> DEFINE q == l \div Day
           r == l % Day
           p == t \div Day
           s == t % Day
<1>1. /\ l \in Int /\ q \in Int /\ r \in Int /\ 0 <= r /\ r < Day
      /\ l = q * Day + r
  BY Hours, Division DEF OnGrid
<1>2. p \in Int /\ s \in Int /\ 0 <= s /\ s < Day /\ t = p * Day + s
  BY Hours, Division
<1>3. PICK k \in Nat : r = Opening + k * GCAL_APPT_DURATION
  BY DEF OnGrid
<1>4. /\ p % Week \notin Weekend /\ Opening <= s
      /\ s + GCAL_APPT_DURATION <= Closing
      /\ (s - Opening) % GCAL_APPT_DURATION = 0
  BY DEF SlotLabel, DayOf
<1>5. Skipped(l) <=> q % Week \in Weekend \/ r >= Closing
  BY <1>1, HourOfIs DEF Skipped, DayOf
<1>6. Skipped(l) => Advance(l) = (q + 1) * Day + Opening
  BY <1>1, NextDayIs DEF Advance
<1>7. ~ Skipped(l) => Advance(l) = l + GCAL_APPT_DURATION
  BY DEF Advance
<1> HIDE DEF q, r, p, s
<1>8. q <= p
  <2> SUFFICES ASSUME p + 1 <= q PROVE FALSE
    BY <1>1, <1>2
  <2>1. (p + 1) * Day <= q * Day
    BY <1>1, <1>2, Hours, OrderedProducts
  <2>2. (p + 1) * Day = p * Day + Day /\ p * Day \in Int /\ q * Day \in Int
    BY <1>1, <1>2, Hours
  <2> QED
    BY <1>1, <1>2, <2>1, <2>2, Hours
<1>9. p = q
  <2> SUFFICES ASSUME q + 1 <= p PROVE FALSE
    BY <1>1, <1>2, <1>8
  <2>1. (q + 1) * Day <= p * Day
    BY <1>1, <1>2, Hours, OrderedProducts
  <2>2. (q + 1) * Day = q * Day + Day /\ p * Day \in Int /\ q * Day \in Int
    BY <1>1, <1>2, Hours
  <2>3. (q + 1) * Day + Opening <= t
    BY <1>1, <1>2, <1>4, <2>1, <2>2, Hours
  <2>4. ~ Skipped(l)
    BY <1>1, <1>2, <1>6, <2>2, <2>3, Hours
  <2>5. r < Closing /\ t < l + GCAL_APPT_DURATION
    BY <1>1, <1>5, <1>7, <2>4, Hours
  <2> QED
    BY <1>1, <1>2, <2>2, <2>3, <2>5, Hours
<1>10. r <= s
  BY <1>1, <1>2, <1>9, Hours
<1>11. ~ Skipped(l)
  BY <1>1, <1>2, <1>4, <1>5, <1>9, <1>10, Hours
<1>12. s < r + GCAL_APPT_DURATION
  BY <1>1, <1>2, <1>7, <1>9, <1>11, Hours
<1>13. s = r
  BY <1>2, <1>3, <1>4, <1>10, <1>12, Hours, GridIsApart
<1> QED
  BY <1>1, <1>2, <1>9, <1>13

LEMMA SlotsAreVisited ==
  ASSUME NEW from \in Int, NEW t \in Int, SlotLabel(t),
         First(from) <= t, t < First(from) + LastTurn
  PROVE  \E n \in Turn : Current(from)[n] = t
<1> DEFINE c == Current(from)
           T == {n \in Turn : t < c[n]}
<1>1. Turn = 0..LastTurn /\ LastTurn \in Nat
  BY TurnIs
<1>2. /\ c[0] = First(from)
      /\ \A i \in 1..LastTurn : c[i] = Advance(c[i - 1])
  BY CurrentIs
<1>3. \A n \in Turn : /\ OnGrid(c[n]) /\ c[n] \in Int
                      /\ First(from) + n <= c[n]
  BY LabelsAre
<1>4. First(from) \in Int
  BY FirstIs
<1> HIDE DEF c
<1>5. LastTurn \in T
  BY <1>1, <1>3, <1>4
<1>6. T \in SUBSET Nat
  BY <1>1
<1>7. PICK n \in T : \A m \in T : n <= m
  BY <1>5, <1>6, LeastOf
<1>8. n # 0
  BY <1>2, <1>4, <1>7
<1>9. n \in 1..LastTurn /\ n - 1 \in Turn /\ n - 1 \notin T
  BY <1>1, <1>7, <1>8
<1>10. c[n - 1] <= t /\ t < Advance(c[n - 1])
  BY <1>2, <1>3, <1>7, <1>9
<1>11. c[n - 1] = t
  BY <1>3, <1>9, <1>10, NothingBetween
<1> QED
  BY <1>9, <1>11 DEF c

---------------------------------------------------------------------------
(* The search                                                              *)

SearchTrue ==
  /\ now \in 0..MaxNow
  /\ events \subseteq [start : Int, end : Int, owner : Owner]

LEMMA WindowIs ==
  ASSUME now \in 0..MaxNow
  PROVE  /\ now \in Int /\ SearchStart \in Int /\ SearchEnd \in Int
         /\ now + Day <= SearchStart
         /\ SearchEnd + Day = SearchStart + LastTurn
         /\ 0 <= SearchStart /\ SearchStart < SearchEnd
         /\ SearchEnd <= MaxNow + GCAL_SLOT_MAX_DAYS * Day
<1>1. /\ GCAL_SLOT_MIN_DAYS \in Nat /\ 1 <= GCAL_SLOT_MIN_DAYS
      /\ GCAL_SLOT_MAX_DAYS \in Nat
      /\ GCAL_SLOT_MIN_DAYS + 1 <= GCAL_SLOT_MAX_DAYS
      /\ Day \in Nat \ {0} /\ MaxNow \in Nat
  BY CalendarAssumption
<1>2. now \in Int /\ 0 <= now /\ now <= MaxNow
  BY <1>1
<1>3. 1 * Day <= GCAL_SLOT_MIN_DAYS * Day
  BY <1>1, OrderedProducts
<1>4. (GCAL_SLOT_MIN_DAYS + 1) * Day <= GCAL_SLOT_MAX_DAYS * Day
  BY <1>1, OrderedProducts
<1>5. /\ GCAL_SLOT_MIN_DAYS * Day \in Int /\ GCAL_SLOT_MAX_DAYS * Day \in Int
      /\ 1 * Day = Day
      /\ (GCAL_SLOT_MIN_DAYS + 1) * Day = GCAL_SLOT_MIN_DAYS * Day + Day
      /\ LastTurn = GCAL_SLOT_MAX_DAYS * Day - GCAL_SLOT_MIN_DAYS * Day + Day
  BY <1>1 DEF LastTurn
<1> QED
  BY <1>1, <1>2, <1>3, <1>4, <1>5 DEF SearchStart, SearchEnd

\* The first free turn has a free candidate.
LEMMA ChosenIs ==
  ASSUME now \in 0..MaxNow, FreeTurns # {}
  PROVE  \E n \in FreeTurns :
           /\ \A m \in FreeTurns : n <= m
           /\ Chosen(FreeTurns) = SlotAt(Current(SearchStart)[n], SearchStart)
<1>1. FreeTurns \subseteq Turn /\ Turn \subseteq Nat
  BY TurnIs DEF FreeTurns
<1>2. \E n \in FreeTurns : \A m \in FreeTurns : n <= m
  BY <1>1, LeastOf
<1>3. /\ Min(FreeTurns) \in FreeTurns
      /\ \A m \in FreeTurns : Min(FreeTurns) <= m
  BY <1>2 DEF Min
<1> QED
  BY <1>3 DEF Chosen

\* What a turn has for a slot.
LEMMA SlotAtIs ==
  ASSUME now \in 0..MaxNow, NEW n \in Turn, NEW s,
         s = SlotAt(Current(SearchStart)[n], SearchStart)
  PROVE  /\ s.start \in Int /\ s.end = s.start + GCAL_APPT_DURATION
         /\ s.end \in Int /\ s.start < s.end
         /\ s.start = Current(SearchStart)[n] - Ahead(SearchStart)
         /\ now < s.start
<1> DEFINE l == Current(SearchStart)[n]
<1>1. SearchStart \in Int /\ now \in Int /\ now + Day <= SearchStart
  BY WindowIs
<1>2. l \in Int /\ First(SearchStart) + n <= l /\ n \in Nat
  BY <1>1, LabelsAre, TurnIs
<1>3. /\ First(SearchStart) \in Int /\ Ahead(SearchStart) \in Int
      /\ SearchStart + Ahead(SearchStart) - Day < First(SearchStart)
  BY <1>1, FirstIs, AheadIs
<1>4. s.start = l - Ahead(SearchStart) /\ s.end = s.start + GCAL_APPT_DURATION
  BY DEF SlotAt
<1> HIDE DEF l
<1>5. now < l - Ahead(SearchStart)
  BY <1>1, <1>2, <1>3, Hours
<1> QED
  BY <1>2, <1>3, <1>4, <1>5, Hours DEF l

\* A search step holds the slot of the first free turn.
LEMMA HoldIs ==
  ASSUME now \in 0..MaxNow, NEW p, Hold(p)
  PROVE  \E n \in Turn : \E s :
           /\ s = SlotAt(Current(SearchStart)[n], SearchStart)
           /\ n \in FreeTurns /\ \A m \in FreeTurns : n <= m
           /\ events' = events \cup {HoldEvent(p, s)}
<1>1. FreeTurns # {} /\ events' = events \cup {HoldEvent(p, Chosen(FreeTurns))}
  BY DEF Hold
<1>2. PICK n \in FreeTurns :
        /\ \A m \in FreeTurns : n <= m
        /\ Chosen(FreeTurns) = SlotAt(Current(SearchStart)[n], SearchStart)
  BY <1>1, ChosenIs
<1>3. n \in Turn
  BY DEF FreeTurns
<1> QED
  BY <1>1, <1>2, <1>3

---------------------------------------------------------------------------
(* Types, and what a step holds                                            *)

LEMMA TypeStep == TypeOK /\ [Next]_vars => TypeOK'
<1> SUFFICES ASSUME TypeOK, [Next]_vars PROVE TypeOK'
  OBVIOUS
<1>1. /\ MaxNow \in Nat /\ MaxLength \in Nat /\ GCAL_SLOT_MAX_DAYS \in Nat
      /\ MaxLength <= Week * Day
      /\ GCAL_APPT_DURATION <= Day /\ GCAL_APPT_DURATION \in Nat
      /\ Day \in Nat \ {0} /\ Week \in Nat \ {0}
  BY CalendarAssumption, Hours
<1>2. /\ GCAL_SLOT_MAX_DAYS * Day \in Nat /\ Week * Day \in Nat
      /\ (GCAL_SLOT_MAX_DAYS + Week) * Day
           = GCAL_SLOT_MAX_DAYS * Day + Week * Day
  BY <1>1
<1>3. Day <= Week * Day
  <2>1. 1 * Day <= Week * Day
    BY <1>1, OrderedProducts
  <2> QED
    BY <1>1, <2>1
<1>4. now \in 0..MaxNow
  BY DEF TypeOK
<1>5. /\ SearchEnd \in Int /\ SearchEnd <= MaxNow + GCAL_SLOT_MAX_DAYS * Day
  BY <1>4, WindowIs
<1>6. ASSUME NEW t \in Int, 0 <= t, t <= SearchEnd + Week * Day
      PROVE  t \in Tick
  BY <1>1, <1>2, <1>5, <1>6 DEF Tick
<1>7. ASSUME NEW p \in Pipeline,
             NEW what \in {"slot_found", "no_slots", "error"},
             Answer(p, what), events' \subseteq Event
      PROVE  TypeOK'
  BY <1>7 DEF Answer, TypeOK
<1>8. ASSUME NEW p \in Pipeline, Hold(p)
      PROVE  TypeOK'
  <2>1. PICK n \in Turn : \E s :
           /\ s = SlotAt(Current(SearchStart)[n], SearchStart)
           /\ n \in FreeTurns /\ \A m \in FreeTurns : n <= m
           /\ events' = events \cup {HoldEvent(p, s)}
    BY <1>4, <1>8, HoldIs
  <2>2. PICK s :
           /\ s = SlotAt(Current(SearchStart)[n], SearchStart)
           /\ n \in FreeTurns
           /\ events' = events \cup {HoldEvent(p, s)}
    BY <2>1
  <2>3. /\ s.start \in Int /\ s.end = s.start + GCAL_APPT_DURATION
        /\ s.end \in Int /\ now < s.start
    BY <1>4, <2>2, SlotAtIs
  <2>4. s.start < SearchEnd
    BY <2>2 DEF FreeTurns, IsCandidate
  <2>5. s.start \in Tick /\ s.end \in Tick
    BY <1>1, <1>2, <1>3, <1>4, <1>5, <1>6, <2>3, <2>4
  <2>6. HoldEvent(p, s) \in Event
    BY <2>5 DEF HoldEvent, Event, Owner
  <2>7. events' \subseteq Event
    BY <2>2, <2>6 DEF TypeOK
  <2> QED
    BY <1>7, <1>8, <2>7 DEF Hold
<1>9. ASSUME NEW p \in Pipeline, NoSlots(p) \/ GoogleFails(p)
      PROVE  TypeOK'
  BY <1>7, <1>9 DEF NoSlots, GoogleFails, TypeOK
<1>10. ASSUME NEW t \in now..SearchEnd, NEW u \in (t + 1)..(t + MaxLength),
              Enter(t, u)
       PROVE  TypeOK'
  <2>1. t \in Int /\ u \in Int /\ now <= t /\ t <= SearchEnd
    BY <1>1, <1>4, <1>5
  <2>2. t \in Tick /\ u \in Tick
    BY <1>1, <1>2, <1>4, <1>5, <1>6, <2>1
  <2>3. [start |-> t, end |-> u, owner |-> "executive"] \in Event
    BY <2>2 DEF Event, Owner
  <2> QED
    BY <1>10, <2>3 DEF Enter, TypeOK
<1>11. ASSUME NEW e \in events, Delete(e)
       PROVE  TypeOK'
  BY <1>11 DEF Delete, TypeOK
<1>12. CASE Later
  BY <1>1, <1>12 DEF Later, TypeOK
<1>13. CASE UNCHANGED vars
  BY <1>13 DEF vars, TypeOK
<1> QED
  BY <1>8, <1>9, <1>10, <1>11, <1>12, <1>13 DEF Next

\* A hold is the slot of the first free turn.
LEMMA HeldIs ==
  ASSUME TypeOK, Next, NEW h \in Held
  PROVE  \E n \in FreeTurns : \E s :
           /\ n \in Turn /\ \A m \in FreeTurns : n <= m
           /\ s = SlotAt(Current(SearchStart)[n], SearchStart)
           /\ h.start = s.start /\ h.end = s.end
<1>1. ASSUME NEW p \in Pipeline, Hold(p)
      PROVE  \E n \in FreeTurns : \E s :
               /\ n \in Turn /\ \A m \in FreeTurns : n <= m
               /\ s = SlotAt(Current(SearchStart)[n], SearchStart)
               /\ h.start = s.start /\ h.end = s.end
  <2>1. now \in 0..MaxNow
    BY DEF TypeOK
  <2>2. PICK n \in Turn : \E s :
           /\ s = SlotAt(Current(SearchStart)[n], SearchStart)
           /\ n \in FreeTurns /\ \A m \in FreeTurns : n <= m
           /\ events' = events \cup {HoldEvent(p, s)}
    BY <1>1, <2>1, HoldIs
  <2>3. PICK s :
           /\ s = SlotAt(Current(SearchStart)[n], SearchStart)
           /\ n \in FreeTurns /\ \A m \in FreeTurns : n <= m
           /\ events' = events \cup {HoldEvent(p, s)}
    BY <2>2
  <2>4. h = HoldEvent(p, s)
    BY <2>3 DEF Held
  <2>5. h.start = s.start /\ h.end = s.end
    BY <2>4 DEF HoldEvent
  <2> QED
    BY <2>3, <2>5
<1>2. ASSUME NEW t, NEW u, Enter(t, u)
      PROVE  FALSE
  <2>1. h = [start |-> t, end |-> u, owner |-> "executive"]
    BY <1>2 DEF Enter, Held
  <2> QED
    BY <2>1 DEF Held
<1>3. \A p : NoSlots(p) \/ GoogleFails(p) => FALSE
  BY DEF NoSlots, GoogleFails, Held
<1>4. \A e : Delete(e) => FALSE
  BY DEF Delete, Held
<1>5. ~ Later
  BY DEF Later, Held
<1> QED
  BY <1>1, <1>2, <1>3, <1>4, <1>5 DEF Next

\* Nobody is told "no_slots" while a turn is free.
LEMMA NoSlotsIs ==
  ASSUME TypeOK, Next, NEW p \in Pipeline,
         told'[p] = "no_slots", told[p] # "no_slots"
  PROVE  FreeTurns = {}
<1>1. ASSUME NEW q \in Pipeline, NEW what, Answer(q, what)
      PROVE  what = "no_slots"
  BY <1>1 DEF Answer, TypeOK
<1>2. ASSUME NEW q \in Pipeline, Hold(q) \/ GoogleFails(q)
      PROVE  FALSE
  <2>1. Answer(q, "slot_found") \/ Answer(q, "error")
    BY <1>2 DEF Hold, GoogleFails
  <2> QED
    BY <1>1, <2>1
<1>3. \A t, u : ~ Enter(t, u)
  BY DEF Enter
<1>4. (\A e : ~ Delete(e)) /\ ~ Later
  BY DEF Delete, Later
<1>5. PICK q \in Pipeline : NoSlots(q)
  BY <1>2, <1>3, <1>4 DEF Next
<1> QED
  BY <1>5 DEF NoSlots

---------------------------------------------------------------------------
(* While the clocks do not change                                          *)

LEMMA SteadyIs ==
  ASSUME TypeOK, Steady, NEW t \in Int, now <= t, t <= SearchEnd + Day
  PROVE  Ahead(t) = Ahead(SearchStart)
<1>1. /\ now \in Int /\ SearchStart \in Int /\ SearchEnd \in Int
      /\ now + Day <= SearchStart /\ SearchStart < SearchEnd
  BY WindowIs DEF TypeOK
<1>2. Day \in Nat \ {0} /\ Change \in Int /\ Delta \in Int
  BY Hours
<1> QED
  BY <1>1, <1>2 DEF Steady, Ahead

LEMMA DaysInOrder ==
  ASSUME NEW l \in Int, NEW t \in Int, l <= t
  PROVE  l \div Day <= t \div Day
<1> DEFINE q == l \div Day
           p == t \div Day
<1>1. /\ q \in Int /\ l % Day \in Int /\ 0 <= l % Day
      /\ l = q * Day + (l % Day)
      /\ p \in Int /\ t % Day \in Int /\ t % Day < Day
      /\ t = p * Day + (t % Day)
  BY Hours, Division
<1> HIDE DEF q, p
<1> SUFFICES ASSUME p + 1 <= q PROVE FALSE
  BY <1>1 DEF q, p
<1>2. (p + 1) * Day <= q * Day
  BY <1>1, Hours, OrderedProducts
<1>3. (p + 1) * Day = p * Day + Day /\ p * Day \in Int /\ q * Day \in Int
  BY <1>1, Hours
<1> QED
  BY <1>1, <1>2, <1>3, Hours

\* A free slot of the window is the candidate of a free turn.
LEMMA FreeSlotIsATurn ==
  ASSUME TypeOK, Steady, NEW s \in FreeSlots
  PROVE  \E n \in FreeTurns :
           n \in Turn /\ SlotAt(Current(SearchStart)[n], SearchStart) = s
<1> DEFINE off == Ahead(SearchStart)
<1>1. PICK t \in Tick : s = [start |-> t, end |-> t + GCAL_APPT_DURATION]
  BY DEF FreeSlots
<1>2. Slot(s) /\ InWindow(s) /\ \A e \in events : ~ Overlap(s, e)
  BY DEF FreeSlots
<1>3. /\ now \in Int /\ SearchStart \in Int /\ SearchEnd \in Int
      /\ now + Day <= SearchStart /\ SearchEnd + Day = SearchStart + LastTurn
      /\ now \in 0..MaxNow
  BY WindowIs DEF TypeOK
<1>4. off \in Int /\ t \in Int
  BY <1>1, <1>3, AheadIs, CalendarAssumption DEF Tick
<1>5. /\ GCAL_APPT_DURATION \in Nat \ {0} /\ Day \in Nat \ {0}
      /\ GCAL_APPT_DURATION <= Day /\ Opening \in Nat /\ Closing \in Nat
      /\ Closing < Day
  BY Hours
<1>6. SearchStart <= t /\ t + GCAL_APPT_DURATION <= SearchEnd
  BY <1>1, <1>2 DEF InWindow
<1>7. Ahead(t) = off /\ Ahead(t + GCAL_APPT_DURATION) = off
  BY <1>3, <1>4, <1>5, <1>6, SteadyIs
<1> HIDE DEF off
<1>8. PICK l : l = t + off
  OBVIOUS
<1>9. l \in Int /\ SlotLabel(l)
  BY <1>1, <1>2, <1>4, <1>7, <1>8 DEF Slot, SlotLabel, Opening, Closing
<1>10. First(SearchStart) <= l
  <2>1. SearchStart + off \in Int /\ SearchStart + off <= l
    BY <1>3, <1>4, <1>6, <1>8
  <2>2. (SearchStart + off) \div Day <= l \div Day
    BY <1>9, <2>1, DaysInOrder
  <2>3. /\ l \div Day \in Int /\ l % Day \in Int
        /\ l = (l \div Day) * Day + (l % Day)
        /\ (SearchStart + off) \div Day \in Int
    BY <1>5, <1>9, <2>1, Division
  <2>4. ((SearchStart + off) \div Day) * Day <= (l \div Day) * Day
    BY <1>5, <2>2, <2>3, OrderedProducts
  <2>5. Opening <= l % Day
    BY <1>9 DEF SlotLabel
  <2>6. First(SearchStart) = ((SearchStart + off) \div Day) * Day + Opening
    BY DEF First, off
  <2>7. /\ (l \div Day) * Day \in Int
        /\ ((SearchStart + off) \div Day) * Day \in Int
    BY <1>5, <2>3
  <2> QED
    BY <1>5, <2>3, <2>4, <2>5, <2>6, <2>7
<1>11. l < First(SearchStart) + LastTurn
  <2>1. /\ First(SearchStart) \in Int
        /\ SearchStart + off - Day < First(SearchStart)
    BY <1>3, FirstIs DEF off
  <2>2. LastTurn \in Nat
    BY TurnIs
  <2> QED
    BY <1>3, <1>4, <1>5, <1>6, <1>8, <2>1, <2>2
<1>12. PICK n \in Turn : Current(SearchStart)[n] = l
  BY <1>3, <1>9, <1>10, <1>11, SlotsAreVisited
<1>13. SlotAt(l, SearchStart) = s
  BY <1>1, <1>4, <1>8 DEF SlotAt, off
<1>14. /\ l % Day \in Int /\ 0 <= l % Day /\ l % Day < Day
       /\ (l % Day) + GCAL_APPT_DURATION <= Closing
       /\ l = (l \div Day) * Day + (l % Day) /\ l \div Day \in Int
  BY <1>5, <1>9, Division DEF SlotLabel
<1>15. ~ Skipped(l)
  <2>1. ~ (l % Day >= Closing)
    BY <1>5, <1>14
  <2> QED
    BY <1>9, <2>1, HourOfIs DEF Skipped, SlotLabel
<1>16. HourOf(s.end + Ahead(s.end)) <= GCAL_SLOT_END_HOUR
  <2>1. PICK e : e = (l % Day) + GCAL_APPT_DURATION
    OBVIOUS
  <2>2. e \in Int /\ 0 <= e /\ e < Day /\ e <= Closing
    BY <1>5, <1>14, <2>1
  <2>3. ((l \div Day) * Day + e) % Day = e
    BY <1>5, <1>14, <2>2, DivisionIs
  <2>4. /\ s.end + Ahead(s.end) = l + GCAL_APPT_DURATION
        /\ l + GCAL_APPT_DURATION \in Int
    BY <1>1, <1>4, <1>5, <1>7, <1>8, <1>9
  <2>5. l + GCAL_APPT_DURATION = (l \div Day) * Day + e
    BY <1>5, <1>14, <2>1
  <2> QED
    BY <2>2, <2>3, <2>4, <2>5, HourOfIs
<1>17. IsCandidate(l, SearchStart, SearchEnd)
  BY <1>1, <1>3, <1>4, <1>5, <1>6, <1>13, <1>15, <1>16 DEF IsCandidate
<1>18. IsFree(SlotAt(l, SearchStart), FreeBusy)
  BY <1>2, <1>13 DEF IsFree, FreeBusy
<1>19. n \in FreeTurns
  BY <1>12, <1>17, <1>18 DEF FreeTurns
<1> QED
  BY <1>12, <1>13, <1>19

---------------------------------------------------------------------------
(* Theorems *)

LEMMA TypeInvariant == Spec => []TypeOK
<1>1. Init => TypeOK
  <2>1. MaxNow \in Nat
    BY CalendarAssumption
  <2> QED
    BY <2>1 DEF Init, TypeOK
<1> QED
  BY <1>1, TypeStep, PTL DEF Spec

\* Holds and events stay within the time the model counts, and nobody is
\* told anything but an outcome.
THEOREM TypeCorrect == Spec => []TypeOK
  BY TypeInvariant

\* A hold inside the window overlaps nothing, in any calendar and through
\* any change of the clocks (_is_free on what the query returns).
THEOREM HoldsOverlapNothing == Spec => FreeInWindow
<1> DEFINE A == \A h \in Held : InWindow(h) =>
                  \A e \in events : ~ Overlap(h, e)
<1>1. TypeOK /\ [Next]_vars => [A]_vars
  <2> SUFFICES ASSUME TypeOK, Next, NEW h \in Held, InWindow(h),
                      NEW e \in events
               PROVE  ~ Overlap(h, e)
    OBVIOUS
  <2>1. PICK n \in FreeTurns : \E s :
           /\ n \in Turn /\ \A m \in FreeTurns : n <= m
           /\ s = SlotAt(Current(SearchStart)[n], SearchStart)
           /\ h.start = s.start /\ h.end = s.end
    BY HeldIs
  <2>2. PICK s :
           /\ n \in Turn
           /\ s = SlotAt(Current(SearchStart)[n], SearchStart)
           /\ h.start = s.start /\ h.end = s.end
    BY <2>1
  <2>3. s.start \in Int /\ s.end \in Int
    BY <2>2, SlotAtIs DEF TypeOK
  <2>4. \A b \in FreeBusy : ~ Overlap(s, b)
    BY <2>1, <2>2 DEF FreeTurns, IsFree
  <2>5. e.start \in Int /\ e.end \in Int
    BY CalendarAssumption DEF TypeOK, Event, Tick
  <2>6. SearchStart \in Int /\ SearchEnd \in Int
    BY WindowIs DEF TypeOK
  <2>7. SearchStart <= s.start /\ s.end <= SearchEnd
    BY <2>2 DEF InWindow
  <2>8. ~ Overlap(s, e)
    BY <2>3, <2>4, <2>5, <2>6, <2>7 DEF FreeBusy, Overlap
  <2> QED
    BY <2>2, <2>8 DEF Overlap
<1> HIDE DEF A
<1>2. Spec => [][A]_vars
  BY <1>1, TypeInvariant, PTL DEF Spec
<1> QED
  BY <1>2 DEF FreeInWindow, A

\* The hold is the first free slot of the documentation's slots, and with
\* one of them there is no "no_slots", in any calendar, for any window and
\* any business day, as long as the clocks do not change (find_and_hold).
THEOREM HoldIsEarliest == Spec => EarliestSlot
<1> DEFINE A == Steady =>
      /\ \A h \in Held : \A s \in FreeSlots : h.start <= s.start
      /\ (\E p \in Pipeline : told'[p] = "no_slots" /\ told[p] # "no_slots")
           => FreeSlots = {}
<1>1. TypeOK /\ [Next]_vars => [A]_vars
  <2> SUFFICES ASSUME TypeOK, Next, Steady PROVE A
    OBVIOUS
  <2>1. ASSUME NEW h \in Held, NEW f \in FreeSlots
        PROVE  h.start <= f.start
    <3>1. PICK n \in FreeTurns : \E s :
             /\ n \in Turn /\ \A m \in FreeTurns : n <= m
             /\ s = SlotAt(Current(SearchStart)[n], SearchStart)
             /\ h.start = s.start /\ h.end = s.end
      BY HeldIs
    <3>2. PICK s :
             /\ n \in Turn /\ \A m \in FreeTurns : n <= m
             /\ s = SlotAt(Current(SearchStart)[n], SearchStart)
             /\ h.start = s.start
      BY <3>1
    <3>3. PICK m \in FreeTurns :
             m \in Turn /\ SlotAt(Current(SearchStart)[m], SearchStart) = f
      BY FreeSlotIsATurn
    <3>4. n <= m
      BY <3>2, <3>3
    <3>5. now \in 0..MaxNow /\ SearchStart \in Int
      BY WindowIs DEF TypeOK
    <3>6. Current(SearchStart)[n] <= Current(SearchStart)[m]
      BY <3>2, <3>3, <3>4, <3>5, LabelsGrow
    <3>7. /\ s.start = Current(SearchStart)[n] - Ahead(SearchStart)
          /\ f.start = Current(SearchStart)[m] - Ahead(SearchStart)
          /\ s.start \in Int /\ f.start \in Int
      BY <3>2, <3>3, <3>5, SlotAtIs
    <3>8. /\ Current(SearchStart)[n] \in Int /\ Current(SearchStart)[m] \in Int
          /\ Ahead(SearchStart) \in Int
      BY <3>2, <3>3, <3>5, LabelsAre, AheadIs
    <3> QED
      BY <3>2, <3>6, <3>7, <3>8
  <2>2. ASSUME NEW p \in Pipeline, told'[p] = "no_slots", told[p] # "no_slots"
        PROVE  FreeSlots = {}
    BY <2>2, NoSlotsIs, FreeSlotIsATurn
  <2> QED
    BY <2>1, <2>2
<1> HIDE DEF A
<1>2. Spec => [][A]_vars
  BY <1>1, TypeInvariant, PTL DEF Spec
<1> QED
  BY <1>2 DEF EarliestSlot, A

\* The business day is a whole number of slots, as with the defaults, 4 hours
\* of half hours.  Otherwise a slot may end after closing: the code compares
\* the hour of its end alone (slot_finder.py:109).
WholeSlots ==
  ((GCAL_SLOT_END_HOUR - GCAL_SLOT_START_HOUR) * Hour) % GCAL_APPT_DURATION = 0

\* A slot that starts before closing ends before closing.
LEMMA SlotFits ==
  ASSUME WholeSlots, NEW l, OnGrid(l), l % Day < Closing
  PROVE  (l % Day) + GCAL_APPT_DURATION <= Closing
<1> DEFINE r == l % Day
           d == GCAL_APPT_DURATION
           j == (Closing - Opening) \div d
<1>1. /\ d \in Nat \ {0} /\ Opening \in Nat /\ Closing \in Nat
      /\ GCAL_SLOT_START_HOUR \in Int /\ GCAL_SLOT_END_HOUR \in Int
      /\ Hour \in Nat
  BY Hours, CalendarAssumption
<1>2. (GCAL_SLOT_END_HOUR - GCAL_SLOT_START_HOUR) * Hour = Closing - Opening
  BY <1>1 DEF Closing, Opening
<1>3. (Closing - Opening) % d = 0
  BY <1>2 DEF WholeSlots
<1>4. j \in Int /\ Closing - Opening = j * d
  <2>1. Closing - Opening \in Int
    BY <1>1
  <2>2. j \in Int /\ Closing - Opening = j * d + ((Closing - Opening) % d)
    BY <1>1, <2>1, Division
  <2>3. j * d \in Int
    BY <1>1, <2>2
  <2> QED
    BY <1>3, <2>2, <2>3
<1>5. PICK k \in Nat : r = Opening + k * d
  BY DEF OnGrid
<1> HIDE DEF j, d
<1>6. j * d \in Int /\ k * d \in Int /\ (k + 1) * d = k * d + d
  BY <1>1, <1>4, <1>5
<1>7. k + 1 <= j
  <2> SUFFICES ASSUME j <= k PROVE FALSE
    BY <1>4
  <2>1. j * d <= k * d
    BY <1>1, <1>4, OrderedProducts
  <2> QED
    BY <1>1, <1>4, <1>5, <1>6, <2>1
<1>8. (k + 1) * d <= j * d
  BY <1>1, <1>4, <1>7, OrderedProducts
<1>9. r + d <= Closing
  BY <1>1, <1>4, <1>5, <1>6, <1>8
<1> QED
  BY <1>9 DEF d

\* While the clocks do not change, a hold is a slot of the working week,
\* provided that the business day is a whole number of slots: only the hour
\* of a slot's end is compared with the closing hour, so that slots of 45
\* minutes could end after it (_generate_candidate_slots).
THEOREM HoldsInBusinessHours == WholeSlots => (Spec => InHours)
<1> SUFFICES ASSUME WholeSlots PROVE Spec => InHours
  OBVIOUS
<1> DEFINE A == Steady =>
                  \A h \in Held : Slot([start |-> h.start, end |-> h.end])
<1>1. TypeOK /\ [Next]_vars => [A]_vars
  <2> SUFFICES ASSUME TypeOK, Next, Steady, NEW h \in Held
               PROVE  Slot([start |-> h.start, end |-> h.end])
    OBVIOUS
  <2>1. PICK n \in FreeTurns : \E s :
           /\ n \in Turn /\ \A m \in FreeTurns : n <= m
           /\ s = SlotAt(Current(SearchStart)[n], SearchStart)
           /\ h.start = s.start /\ h.end = s.end
    BY HeldIs
  <2>2. PICK s :
           /\ n \in Turn
           /\ s = SlotAt(Current(SearchStart)[n], SearchStart)
           /\ h.start = s.start /\ h.end = s.end
    BY <2>1
  <2>3. /\ now \in 0..MaxNow /\ now \in Int
        /\ SearchStart \in Int /\ SearchEnd \in Int
    BY WindowIs DEF TypeOK
  <2>4. /\ s.start \in Int /\ s.end = s.start + GCAL_APPT_DURATION
        /\ s.start = Current(SearchStart)[n] - Ahead(SearchStart)
        /\ now < s.start
    BY <2>2, <2>3, SlotAtIs
  <2>5. /\ s.start < SearchEnd /\ ~ Skipped(Current(SearchStart)[n])
    BY <2>1, <2>2 DEF FreeTurns, IsCandidate
  <2>6. Ahead(s.start) = Ahead(SearchStart)
    <3>1. now <= s.start /\ s.start <= SearchEnd + Day
      BY <2>3, <2>4, <2>5, Hours
    <3> QED
      BY <2>4, <3>1, SteadyIs
  <2>7. PICK l : l = Current(SearchStart)[n]
    OBVIOUS
  <2>8. OnGrid(l) /\ l \in Int
    BY <2>2, <2>3, <2>7, LabelsAre
  <2>9. s.start + Ahead(s.start) = l
    BY <2>3, <2>4, <2>6, <2>7, <2>8, AheadIs
  <2>10. /\ DayOf(l) \notin Weekend /\ l % Day < Closing
         /\ l % Day \in Int
    BY <2>5, <2>7, <2>8, HourOfIs, Hours, Division DEF Skipped
  <2>11. (l % Day) + GCAL_APPT_DURATION <= Closing
    BY <2>8, <2>10, SlotFits
  <2>12. PICK k \in Nat : l % Day = Opening + k * GCAL_APPT_DURATION
    BY <2>8 DEF OnGrid
  <2>13. /\ (l % Day) >= Opening
         /\ ((l % Day) - Opening) % GCAL_APPT_DURATION = 0
    <3>1. (k * GCAL_APPT_DURATION + 0) % GCAL_APPT_DURATION = 0
      BY Hours, DivisionIs
    <3>2. /\ (l % Day) - Opening = k * GCAL_APPT_DURATION
          /\ k * GCAL_APPT_DURATION \in Nat
          /\ k * GCAL_APPT_DURATION + 0 = k * GCAL_APPT_DURATION
      BY <2>10, <2>12, Hours
    <3> QED
      BY <2>10, <3>1, <3>2, Hours
  <2> QED
    BY <2>2, <2>4, <2>9, <2>10, <2>11, <2>13 DEF Slot, Opening, Closing
<1> HIDE DEF A
<1>2. Spec => [][A]_vars
  BY <1>1, TypeInvariant, PTL DEF Spec
<1> QED
  BY <1>2 DEF InHours, A
=============================================================================
