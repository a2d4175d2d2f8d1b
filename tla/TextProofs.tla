----------------------------- MODULE TextProofs -----------------------------
(***************************************************************************)
(* What the modules of MCText say, for every value of their constants:      *)
(* daily events run by the wall clock, once a day, in every zone whose      *)
(* clock is changed by a day at most (Calendar); an answer of the LLM is    *)
(* read as it was sent, whatever chunks it comes in (Stream); a line of     *)
(* commands does what a shell would do (Shell).                             *)
(***************************************************************************)
EXTENDS Calendar, Stream, Shell, FiniteSetTheorems, SequenceTheorems, WellFoundedInduction, TLAPS

-----------------------------------------------------------------------------
(* Days and the time in them.                                              *)

LEMMA DayIsPositive == Day \in Nat /\ Day > 0
BY CalendarAssumption

LEMMA DaysAreInstants == ASSUME NEW d \in Int PROVE d * Day \in Int
BY DayIsPositive

\* Of two days the earlier one is over when the later one begins.
LEMMA DaysApart == ASSUME NEW d \in Int, NEW e \in Int, d < e PROVE d * Day + Day <= e * Day
<1> DEFINE n == e - d - 1
<1>1. n \in Nat /\ e = d + 1 + n
  OBVIOUS
<1> HIDE DEF n
<1>2. n * Day \in Nat
  BY <1>1, DayIsPositive
<1>3. (d + 1 + n) * Day = d * Day + Day + n * Day
  BY <1>1, DayIsPositive
<1>4. d * Day \in Int
  BY DaysAreInstants
<1> QED
  BY <1>1, <1>2, <1>3, <1>4, DayIsPositive

\* An instant is a day and a time in it.
LEMMA DayAndTime ==
  ASSUME NEW x \in Int
  PROVE  /\ x \div Day \in Int /\ x % Day \in 0..Day - 1
         /\ x = (x \div Day) * Day + (x % Day)
BY DayIsPositive

\* There is one way to write it so.
LEMMA DayAndTimeOf ==
  ASSUME NEW d \in Int, NEW h \in 0..Day - 1, NEW x \in Int, x = d * Day + h
  PROVE  x \div Day = d /\ x % Day = h
<1> DEFINE q == x \div Day
           r == x % Day
           first == q * Day
           other == d * Day
<1>1. q \in Int /\ r \in 0..Day - 1 /\ x = first + r /\ x = other + h
  BY DayAndTime
<1>2. q < d => first + Day <= other
  BY <1>1, DaysApart
<1>3. d < q => other + Day <= first
  BY <1>1, DaysApart
<1>4. first \in Int /\ other \in Int
  BY <1>1, DaysAreInstants
<1>5. q = d => first = other
  OBVIOUS
<1> HIDE DEF q, r, first, other
<1>6. q = d
  BY <1>1, <1>2, <1>3, <1>4, DayIsPositive
<1>7. r = h
  BY <1>1, <1>4, <1>5, <1>6, DayIsPositive
<1> QED
  BY <1>6, <1>7 DEF q, r

-----------------------------------------------------------------------------
(* The guess and its corrections.                                          *)

LEMMA Offsets ==
  ASSUME NEW z \in Zones
  PROVE  /\ z.before \in Int /\ z.after \in Int /\ z.at \in Int
         /\ z.after - z.before <= Day /\ z.before - z.after <= Day
         /\ \A t \in Int : Offset(t, z) = IF t < z.at THEN z.before ELSE z.after
<1>1. z \in [before : (1 - Day)..(Day - 1), after : (1 - Day)..(Day - 1), at : Int]
  BY CalendarAssumption
<1>2. z.after - z.before \in (-Day)..Day
  BY CalendarAssumption
<1> QED
  BY <1>1, <1>2, DayIsPositive DEF Offset

\* The clock leaves out what it would show at the instant.
LeavesOut(target, z) == z.before < z.after /\ z.at + z.before <= target /\ target < z.at + z.after

\* The clock shows the target at the instant; or it leaves it out, and the
\* instant is where one of the two offsets puts it.
Lands(instant, target, z) ==
  /\ instant \in Int
  /\ \/ instant + Offset(instant, z) = target
     \/ LeavesOut(target, z) /\ instant \in {target - z.before, target - z.after}

LEMMA FourCorrections ==
  ASSUME NEW z \in Zones, NEW day \in Int, NEW t \in Int
  PROVE  Lands(zonedDateFromParts(day, t, z), day * Day + t, z)
<1>1. day * Day \in Int
  BY DaysAreInstants
<1> DEFINE target == day * Day + t
           C(guess) == target - Offset(guess, z)
<1>2. zonedDateFromParts(day, t, z) = C(C(C(C(target))))
  BY DEF zonedDateFromParts
<1>3. target \in Int
  BY <1>1
<1> HIDE DEF target
<1>4. \A guess \in Int : C(guess) = target - (IF guess < z.at THEN z.before ELSE z.after) /\ C(guess) \in Int
  BY <1>3, Offsets
<1> HIDE DEF C
<1>5. C(target) \in Int /\ C(C(target)) \in Int /\ C(C(C(target))) \in Int /\ C(C(C(C(target)))) \in Int
  BY <1>3, <1>4
<1>6. Lands(C(C(C(C(target)))), target, z)
  BY <1>3, <1>4, <1>5, Offsets DEF Lands, LeavesOut
<1> QED
  BY <1>2, <1>6 DEF target

-----------------------------------------------------------------------------
(* What a zone's clock shows.                                              *)

ShownAt(t, z, h) == getZonedParts(t, z).time = h
DayAt(t, z) == getZonedParts(t, z).day

LEMMA ShownTimes ==
  ASSUME NEW z \in Zones, NEW t \in Int
  PROVE  /\ DayAt(t, z) \in Int
         /\ DayAt(t, z) * Day <= t + Offset(t, z) /\ t + Offset(t, z) < (DayAt(t, z) + 1) * Day
         /\ \A h : ShownAt(t, z, h) => t + Offset(t, z) = DayAt(t, z) * Day + h
<1> DEFINE x == t + Offset(t, z)
           q == x \div Day
           r == x % Day
<1>1. x \in Int
  BY Offsets
<1> HIDE DEF x
<1>2. q \in Int /\ r \in 0..Day - 1 /\ x = q * Day + r
  BY <1>1, DayAndTime
<1>3. DayAt(t, z) = q /\ \A h : ShownAt(t, z, h) => h = r
  BY DEF DayAt, ShownAt, getZonedParts, x
<1> HIDE DEF q, r
<1>4. q * Day \in Int /\ (q + 1) * Day = q * Day + Day
  BY <1>2, DaysAreInstants, DayIsPositive
<1>5. q * Day <= x /\ x < (q + 1) * Day
  BY <1>2, <1>4, DayIsPositive
<1> QED
  BY <1>2, <1>3, <1>5 DEF x

LEMMA Landed ==
  ASSUME NEW z \in Zones, NEW d \in Int, NEW h \in 0..Day - 1, NEW t \in Int,
         t + Offset(t, z) = d * Day + h
  PROVE  ShownAt(t, z, h) /\ DayAt(t, z) = d
<1> DEFINE x == t + Offset(t, z)
<1>1. x \in Int /\ x = d * Day + h
  BY Offsets
<1> HIDE DEF x
<1>2. x \div Day = d /\ x % Day = h
  BY <1>1, DayAndTimeOf
<1> QED
  BY <1>2 DEF x, DayAt, ShownAt, getZonedParts

\* What the clock shows at some instant it does not leave out.
LEMMA ShownNotSkipped ==
  ASSUME NEW z \in Zones, NEW t \in Int, NEW target, t + Offset(t, z) = target
  PROVE  ~LeavesOut(target, z)
BY Offsets DEF LeavesOut

\* InGap and DayBeginsTwice for any zone and time.
LeftOut(z, h) ==
  z.before < z.after /\ \E n \in 0..(Shift(z) - 1) : (z.at + z.before + n) % Day = h

BeginsTwice(z) ==
  z.after < z.before /\ (z.at + z.after) \div Day # (z.at + z.before - 1) \div Day

LEMMA SkippedLeftOut ==
  ASSUME NEW z \in Zones, NEW d \in Int, NEW h \in 0..Day - 1, LeavesOut(d * Day + h, z)
  PROVE  LeftOut(z, h)
<1> DEFINE x == d * Day + h
           n == x - (z.at + z.before)
<1>1. x \in Int
  BY DaysAreInstants
<1>2. x % Day = h
  BY <1>1, DayAndTimeOf
<1>3. LeavesOut(x, z)
  OBVIOUS
<1> HIDE DEF x
<1>4. n \in 0..(Shift(z) - 1) /\ z.at + z.before + n = x
  BY <1>1, <1>3, Offsets DEF LeavesOut, Shift
<1> QED
  BY <1>2, <1>3, <1>4 DEF LeftOut, LeavesOut

-----------------------------------------------------------------------------
(* The runs of two days.                                                   *)

\* The instants of a day's run and of the target differ by an offset.
LEMMA RunOfDay ==
  ASSUME NEW z \in Zones, NEW d \in Int, NEW h \in Int
  PROVE  LET g == zonedDateFromParts(d, h, z)
         IN  g \in Int /\ (g = d * Day + h - z.before \/ g = d * Day + h - z.after)
<1> DEFINE m == d * Day
           g == zonedDateFromParts(d, h, z)
<1>1. m \in Int
  BY DaysAreInstants
<1>2. Lands(g, m + h, z)
  BY FourCorrections
<1> HIDE DEF m, g
<1>3. g \in Int /\ (g = m + h - z.before \/ g = m + h - z.after)
  BY <1>1, <1>2, Offsets DEF Lands
<1> QED
  BY <1>3 DEF m, g

LEMMA ShiftIs ==
  ASSUME NEW z \in Zones
  PROVE  /\ Shift(z) \in 0..Day
         /\ z.after - z.before \in (-Shift(z))..Shift(z) /\ z.before - z.after \in (-Shift(z))..Shift(z)
BY Offsets, DayIsPositive DEF Shift

\* From the run of a day to that of a later one it is a day or more, but for
\* the shift; to that of the next, a day and the shift or less.
LEMMA RunsApart ==
  ASSUME NEW z \in Zones, NEW d \in Int, NEW e \in Int, d < e, NEW h \in Int
  PROVE  /\ zonedDateFromParts(e, h, z) - zonedDateFromParts(d, h, z) >= Day - Shift(z)
         /\ e = d + 1 => zonedDateFromParts(e, h, z) - zonedDateFromParts(d, h, z) <= Day + Shift(z)
<1> DEFINE of(x) == zonedDateFromParts(x, h, z)
           m == d * Day
           n == e * Day
<1>1. /\ of(d) \in Int /\ (of(d) = m + h - z.before \/ of(d) = m + h - z.after)
      /\ of(e) \in Int /\ (of(e) = n + h - z.before \/ of(e) = n + h - z.after)
  BY RunOfDay
<1>2. m \in Int /\ n \in Int /\ m + Day <= n
  BY DaysAreInstants, DaysApart
<1>3. e = d + 1 => n = m + Day
  BY DayIsPositive
<1> HIDE DEF m, n, of
<1>4. of(e) - of(d) >= Day - Shift(z) /\ (e = d + 1 => of(e) - of(d) <= Day + Shift(z))
  BY <1>1, <1>2, <1>3, ShiftIs, Offsets, DayIsPositive
<1> QED
  BY <1>4 DEF of

-----------------------------------------------------------------------------
(* The first run ahead.                                                    *)

\* The run of the k-th day from the one of an instant on is the next; those of
\* the days before have been.
NextFrom(n, s, z, h, k) ==
  /\ k \in Nat /\ n = zonedDateFromParts(DayAt(s, z) + k, h, z)
  /\ \A j \in 0..k - 1 : zonedDateFromParts(DayAt(s, z) + j, h, z) <= s

\* The run of the day after tomorrow lies ahead.
LEMMA InTwoDays ==
  ASSUME NEW z \in Zones, NEW s \in Int, NEW h \in 0..Day - 1
  PROVE  zonedDateFromParts(DayAt(s, z) + 2, h, z) > s
<1> DEFINE today == DayAt(s, z)
           n == zonedDateFromParts(today + 2, h, z)
           m == (today + 1) * Day
<1>1. today \in Int /\ s + Offset(s, z) < m /\ m \in Int
  BY ShownTimes, DaysAreInstants
<1>2. (today + 2) * Day = m + Day
  BY <1>1, DayIsPositive
<1>3. n \in Int /\ (n = (today + 2) * Day + h - z.before \/ n = (today + 2) * Day + h - z.after)
  BY <1>1, RunOfDay
<1> HIDE DEF today, n, m
<1>4. n \in Int /\ (n = m + Day + h - z.before \/ n = m + Day + h - z.after)
  BY <1>2, <1>3
<1>5. n > s
  BY <1>1, <1>4, Offsets, DayIsPositive
<1> QED
  BY <1>5 DEF n, today

\* The run that is next shows the time, or the clock leaves the time out.
LEMMA NextShows ==
  ASSUME NEW z \in Zones, NEW d \in Int, NEW h \in 0..Day - 1,
         NEW n, n = zonedDateFromParts(d, h, z)
  PROVE  /\ n \in Int
         /\ \/ ShownAt(n, z, h) /\ DayAt(n, z) = d
            \/ LeavesOut(d * Day + h, z) /\ LeftOut(z, h) /\ n - z.at \in (-Shift(z))..Shift(z)
<1> DEFINE x == d * Day + h
<1>1. x \in Int /\ Lands(n, x, z)
  BY FourCorrections, DaysAreInstants
<1>2. CASE n + Offset(n, z) = x
  BY <1>1, <1>2, Landed DEF Lands
<1>3. CASE LeavesOut(x, z) /\ n \in {x - z.before, x - z.after}
  <2>1. LeftOut(z, h)
    BY <1>3, SkippedLeftOut
  <2> HIDE DEF x
  <2>2. n - z.at \in (-Shift(z))..Shift(z)
    BY <1>1, <1>3, Offsets DEF LeavesOut, Shift
  <2> QED
    BY <1>1, <1>3, <2>1, <2>2 DEF Lands, x
<1> QED
  BY <1>1, <1>2, <1>3 DEF Lands

\* Tomorrow's run lies ahead when today's has been, unless the clock leaves out
\* its time or begins a day twice.
LEMMA TomorrowAhead ==
  ASSUME NEW z \in Zones, NEW s \in Int, NEW h \in 0..Day - 1
  PROVE  zonedDateFromParts(DayAt(s, z) + 1, h, z) > s \/ LeftOut(z, h) \/ BeginsTwice(z)
<1> DEFINE today == DayAt(s, z)
           n == zonedDateFromParts(today + 1, h, z)
           m == (today + 1) * Day
           x == m + h
<1>1. today \in Int /\ s + Offset(s, z) < m /\ m \in Int
  BY ShownTimes, DaysAreInstants
<1>2. Lands(n, x, z)
  BY <1>1, FourCorrections
<1>3. CASE LeavesOut(x, z)
  BY <1>1, <1>3, SkippedLeftOut
<1>4. CASE n + Offset(n, z) = x /\ n <= s
  <2> DEFINE early == z.at + z.after
             late == z.at + z.before - 1
             p == early \div Day
             q == late \div Day
  <2> HIDE DEF m, n
  <2>1. z.after < z.before /\ early < m /\ m <= late /\ early \in Int /\ late \in Int
    BY <1>1, <1>2, <1>4, Offsets, DayIsPositive DEF Lands
  <2>2. /\ p \in Int /\ p * Day <= early
        /\ q \in Int /\ late < q * Day + Day
    <3> HIDE DEF early, late
    <3>1. p \in Int /\ q \in Int /\ early % Day \in 0..Day - 1 /\ late % Day \in 0..Day - 1
          /\ early = p * Day + (early % Day) /\ late = q * Day + (late % Day)
      BY <2>1, DayAndTime
    <3>2. p * Day \in Int /\ q * Day \in Int
      BY <3>1, DaysAreInstants
    <3> HIDE DEF p, q
    <3> QED
      BY <2>1, <3>1, <3>2, DayIsPositive
  <2>3. p # q
    <3>1. SUFFICES ASSUME p = q PROVE FALSE
      OBVIOUS
    <3> HIDE DEF early, late, p, q
    <3>2. p < today + 1 => p * Day + Day <= m
      BY <1>1, <2>2, DaysApart DEF m
    <3>3. today + 1 < p => m + Day <= p * Day
      BY <1>1, <2>2, DaysApart DEF m
    <3>4. p = today + 1 => p * Day = m
      BY DEF m
    <3>5. p * Day \in Int
      BY <2>2, DaysAreInstants
    <3> HIDE DEF today
    <3> QED
      BY <1>1, <2>1, <2>2, <3>1, <3>2, <3>3, <3>4, <3>5, DayIsPositive
  <2> QED
    BY <2>1, <2>3 DEF BeginsTwice
<1>5. n \in Int
  BY <1>2 DEF Lands
<1> QED
  BY <1>2, <1>3, <1>4, <1>5 DEF Lands

\* No time of the day is passed over: one that the clock shows before the next
\* run is of the day of that run, or of a day on which it was shown before.
LEMMA NonePassedOver ==
  ASSUME NEW z \in Zones, NEW s \in Int, NEW h \in 0..Day - 1, NEW n, NEW k, NextFrom(n, s, z, h, k),
         NEW t \in s + 1..n - 1, ShownAt(t, z, h)
  PROVE  \/ DayAt(t, z) = DayAt(n, z)
         \/ \E u \in (s - 2 * Day)..(s + 2 * Day) : u <= s /\ ShownAt(u, z, h) /\ DayAt(u, z) = DayAt(t, z)
<1> DEFINE today == DayAt(s, z)
           d == DayAt(t, z)
           m == d * Day
           g == zonedDateFromParts(d, h, z)
<1>1. k \in Nat /\ today \in Int /\ n = zonedDateFromParts(today + k, h, z) /\ n \in Int
  BY ShownTimes, NextShows DEF NextFrom
<1>2. t \in Int /\ d \in Int /\ m \in Int /\ t + Offset(t, z) = m + h
  BY <1>1, ShownTimes, DaysAreInstants
<1>3. g \in Int /\ g + Offset(g, z) = m + h
  BY <1>2, FourCorrections, ShownNotSkipped DEF Lands
<1>4. ShownAt(g, z, h) /\ DayAt(g, z) = d
  BY <1>2, <1>3, Landed
<1>5. CASE g <= s
  <2> HIDE DEF m, g
  <2>1. g \in (s - 2 * Day)..(s + 2 * Day)
    BY <1>1, <1>2, <1>3, <1>5, Offsets, DayIsPositive
  <2> QED
    BY <1>4, <1>5, <2>1
<1>6. CASE g > s /\ d < today
  <2> DEFINE u == m + h - z.before
             v == today * Day
  <2>1. v \in Int /\ m + Day <= v /\ v <= s + Offset(s, z)
    BY <1>1, <1>2, <1>6, ShownTimes, DaysAreInstants, DaysApart
  <2> HIDE DEF m, v, today, d, g
  <2>2. u \in Int /\ u \in (s - 2 * Day)..(s + 2 * Day) /\ u <= s /\ u + Offset(u, z) = m + h
    BY <1>1, <1>2, <1>6, <2>1, Offsets, DayIsPositive
  <2> HIDE DEF u
  <2>3. ShownAt(u, z, h) /\ DayAt(u, z) = d
    BY <1>2, <2>2, Landed DEF m
  <2> QED
    BY <2>2, <2>3 DEF d
<1>7. CASE g > s /\ today <= d /\ d < today + k
  <2>1. d - today \in 0..k - 1 /\ today + (d - today) = d
    BY <1>1, <1>2, <1>7
  <2>2. zonedDateFromParts(today + (d - today), h, z) <= s
    BY <2>1 DEF NextFrom
  <2> QED
    BY <1>1, <1>3, <1>7, <2>1, <2>2
<1>8. CASE d = today + k
  BY <1>1, <1>4, <1>8
<1>9. CASE today + k < d
  <2> DEFINE v == (today + k) * Day
  <2>1. v \in Int /\ v + Day <= m
    BY <1>1, <1>2, <1>9, DaysAreInstants, DaysApart
  <2>2. n = v + h - z.before \/ n = v + h - z.after
    BY <1>1, RunOfDay
  <2> HIDE DEF m, v
  <2> QED
    BY <1>1, <1>2, <2>1, <2>2, Offsets, DayIsPositive
<1> QED
  BY <1>1, <1>2, <1>3, <1>5, <1>6, <1>7, <1>8, <1>9

\* RunsByTheWallClock for a run n that was computed at s.
ByTheWallClock(n, s, z, h) ==
  /\ n > s \/ LeftOut(z, h) \/ BeginsTwice(z)
  /\ ShownAt(n, z, h) \/ (LeftOut(z, h) /\ n - z.at \in (-Shift(z))..Shift(z))
  /\ \A t \in (s + 1)..(n - 1) : ShownAt(t, z, h) =>
       \/ DayAt(t, z) = DayAt(n, z)
       \/ \E u \in (s - 2 * Day)..(s + 2 * Day) : u <= s /\ ShownAt(u, z, h) /\ DayAt(u, z) = DayAt(t, z)

LEMMA NextByTheWallClock ==
  ASSUME NEW z \in Zones, NEW s \in Int, NEW h \in 0..Day - 1, NEW n, NEW k, NextFrom(n, s, z, h, k),
         n > s \/ k = 1
  PROVE  ByTheWallClock(n, s, z, h)
<1>1. k \in Nat /\ DayAt(s, z) \in Int /\ n = zonedDateFromParts(DayAt(s, z) + k, h, z)
  BY ShownTimes DEF NextFrom
<1>2. n > s \/ LeftOut(z, h) \/ BeginsTwice(z)
  BY <1>1, TomorrowAhead
<1>3. ShownAt(n, z, h) \/ (LeftOut(z, h) /\ n - z.at \in (-Shift(z))..Shift(z))
  BY <1>1, NextShows
<1> QED
  BY <1>2, <1>3, NonePassedOver DEF ByTheWallClock

\* ADayApart for a run n that was computed at s, after one at l.
DayBetween(l, n, s, z) ==
  /\ n - l >= Day - Shift(z)
  /\ s < l + Day - Shift(z) => n - l <= Day + Shift(z)

LEMMA NextADayApart ==
  ASSUME NEW z \in Zones, NEW s \in Int, NEW h \in 0..Day - 1, NEW n, NEW k, NextFrom(n, s, z, h, k), n > s,
         NEW e \in Int, NEW l, l = zonedDateFromParts(e, h, z), l <= s
  PROVE  DayBetween(l, n, s, z)
<1> DEFINE today == DayAt(s, z)
           f == today + k
<1>1. /\ k \in Nat /\ today \in Int /\ f \in Int /\ n = zonedDateFromParts(f, h, z) /\ n \in Int
      /\ l \in Int /\ Shift(z) \in 0..Day
  BY ShownTimes, NextShows, ShiftIs DEF NextFrom
<1>2. e < f
  <2>1. f # e
    BY <1>1
  <2>2. ~(f < e)
    <3>1. SUFFICES ASSUME f < e PROVE FALSE
      OBVIOUS
    <3>2. l - n >= Day - Shift(z)
      BY <1>1, <3>1, RunsApart
    <3> QED
      BY <1>1, <3>2, DayIsPositive
  <2> QED
    BY <1>1, <2>1, <2>2
<1>3. n - l >= Day - Shift(z) /\ (f = e + 1 => n - l <= Day + Shift(z))
  BY <1>1, <1>2, RunsApart
<1>4. ASSUME f # e + 1 PROVE ~(s < l + Day - Shift(z))
  <2>1. CASE today <= e + 1
    <3>1. e + 1 - today \in 0..k - 1 /\ today + (e + 1 - today) = e + 1
      BY <1>1, <1>2, <1>4, <2>1
    <3>2. zonedDateFromParts(today + (e + 1 - today), h, z) <= s
      BY <3>1 DEF NextFrom
    <3>3. zonedDateFromParts(e + 1, h, z) - l >= Day - Shift(z) /\ zonedDateFromParts(e + 1, h, z) \in Int
      BY RunsApart, NextShows
    <3> QED
      BY <1>1, <3>1, <3>2, <3>3, DayIsPositive
  <2>2. CASE e + 1 < today
    <3> DEFINE m == e * Day
               v == today * Day
    <3>1. m \in Int /\ v \in Int /\ v <= s + Offset(s, z)
      BY <1>1, ShownTimes, DaysAreInstants
    <3>2. (e + 1) * Day + Day <= v
      BY <1>1, <2>2, DaysApart
    <3>3. (e + 1) * Day = m + Day
      BY DayIsPositive
    <3>4. l = m + h - z.before \/ l = m + h - z.after
      BY RunOfDay
    <3> HIDE DEF m, v, today
    <3> QED
      BY <1>1, <3>1, <3>2, <3>3, <3>4, ShiftIs, Offsets, DayIsPositive
  <2> QED
    BY <1>1, <2>1, <2>2
<1> QED
  BY <1>3, <1>4 DEF DayBetween

-----------------------------------------------------------------------------
(* What the code computes is the first run ahead.                          *)

LEMMA InitialRun ==
  ASSUME now \in Int, NEW z \in Zones, NEW h \in 0..Day - 1
  PROVE  \E k \in {0, 1} : /\ NextFrom(computeInitialNextRun(h, z), now, z, h, k)
                           /\ computeInitialNextRun(h, z) > now \/ k = 1
<1> DEFINE at(d) == zonedDateFromParts(d, h, z)
           today == DayAt(now, z)
<1>1. /\ today \in Int /\ today + 0 = today /\ at(today) \in Int
      /\ computeInitialNextRun(h, z) = IF at(today) > now THEN at(today) ELSE at(today + 1)
  BY ShownTimes, NextShows DEF computeInitialNextRun, DayAt
<1> HIDE DEF at, today
<1>2. CASE at(today) > now
  <2>1. NextFrom(computeInitialNextRun(h, z), now, z, h, 0)
    BY <1>1, <1>2 DEF NextFrom, at, today
  <2> QED
    BY <1>1, <1>2, <2>1
<1>3. CASE ~(at(today) > now)
  <2>1. \A j \in 0..1 - 1 : at(today + j) <= now
    BY <1>1, <1>3
  <2>2. NextFrom(computeInitialNextRun(h, z), now, z, h, 1)
    BY <1>1, <1>3, <2>1 DEF NextFrom, at, today
  <2> QED
    BY <2>2
<1> QED
  BY <1>2, <1>3

LEMMA AdvancedRun ==
  ASSUME now \in Int, zone \in Zones, time \in 0..Day - 1
  PROVE  advanceEventSchedule > now /\ \E k \in Nat : NextFrom(advanceEventSchedule, now, zone, time, k)
<1> DEFINE at(k) == zonedDateFromParts(DayAt(now, zone) + k, time, zone)
           ahead == {k \in 0..3 : at(k) > now}
           first == CHOOSE k \in ahead : \A other \in ahead : k <= other
<1>1. advanceEventSchedule = at(first)
  BY DEF advanceEventSchedule, DayAt
<1>2. \A k \in 0..3 : at(k) \in Int
  BY ShownTimes, NextShows
<1>3. at(2) > now
  BY InTwoDays
<1> HIDE DEF at
<1>4. \E k \in ahead : \A other \in ahead : k <= other
  <2>1. CASE at(0) > now
    BY <2>1
  <2>2. CASE ~(at(0) > now) /\ at(1) > now
    BY <2>2
  <2>3. CASE ~(at(0) > now) /\ ~(at(1) > now)
    BY <1>3, <2>3
  <2> QED
    BY <2>1, <2>2, <2>3
<1>5. first \in ahead /\ \A other \in ahead : first <= other
  BY <1>4
<1> HIDE DEF first
<1>6. first \in Nat /\ at(first) > now
  BY <1>5
<1>7. \A j \in 0..first - 1 : at(j) <= now
  BY <1>2, <1>5
<1>8. NextFrom(at(first), now, zone, time, first)
  BY <1>6, <1>7 DEF NextFrom, at
<1> QED
  BY <1>1, <1>6, <1>8

-----------------------------------------------------------------------------
(* The specification.                                                      *)

\* The next run is that of a day, and the properties hold of it.
CalendarInv ==
  /\ now \in Int /\ zone \in Zones /\ time \in 0..(Day - 1)
  /\ \E d \in Int : next = zonedDateFromParts(d, time, zone)
  /\ RunsByTheWallClock
  /\ ADayApart

LEMMA WallClock == RunsByTheWallClock <=> ByTheWallClock(next, set, zone, time)
BY DEF RunsByTheWallClock, ByTheWallClock, InGap, LeftOut, DayBeginsTwice, BeginsTwice, Shows, ShownAt,
       LocalDay, DayAt

LEMMA Apart == ADayApart <=> (last # -1 => DayBetween(last, next, set, zone))
BY DEF ADayApart, DayBetween

LEMMA CalendarInitially == CalendarInit => CalendarInv
<1> SUFFICES ASSUME CalendarInit PROVE CalendarInv
  OBVIOUS
<1>1. /\ now \in Int /\ zone \in Zones /\ time \in 0..(Day - 1)
      /\ next = computeInitialNextRun(time, zone) /\ set = now /\ last = -1
  BY DayIsPositive DEF CalendarInit
<1>2. PICK k \in {0, 1} : NextFrom(next, now, zone, time, k) /\ (next > now \/ k = 1)
  BY <1>1, InitialRun
<1>3. RunsByTheWallClock
  BY <1>1, <1>2, NextByTheWallClock, WallClock
<1>4. \E d \in Int : next = zonedDateFromParts(d, time, zone)
  BY <1>1, <1>2, ShownTimes DEF NextFrom
<1> QED
  BY <1>1, <1>3, <1>4, Apart DEF CalendarInv

LEMMA CalendarStep == CalendarInv /\ [CalendarNext]_calendarVars => CalendarInv'
<1> SUFFICES ASSUME CalendarInv, [CalendarNext]_calendarVars PROVE CalendarInv'
  OBVIOUS
<1>1. /\ now \in Int /\ zone \in Zones /\ time \in 0..(Day - 1)
      /\ RunsByTheWallClock /\ ADayApart
  BY DEF CalendarInv
<1>2. PICK d \in Int : next = zonedDateFromParts(d, time, zone)
  BY DEF CalendarInv
<1>3. RunsByTheWallClock' <=> ByTheWallClock(next', set', zone', time')
  BY DEF RunsByTheWallClock, ByTheWallClock, InGap, LeftOut, DayBeginsTwice, BeginsTwice, Shows, ShownAt,
         LocalDay, DayAt
<1>4. ADayApart' <=> (last' # -1 => DayBetween(last', next', set', zone'))
  BY DEF ADayApart, DayBetween
<1>5. CASE /\ now' \in Int /\ UNCHANGED <<zone, time, next, set, last>>
  BY <1>1, <1>2, <1>3, <1>4, <1>5, WallClock, Apart DEF CalendarInv
<1>6. CASE Tick
  BY <1>1, <1>5, <1>6 DEF Tick
<1>7. CASE Fire
  <2>1. /\ next <= now /\ next' = advanceEventSchedule /\ set' = now /\ last' = next
        /\ now' = now /\ zone' = zone /\ time' = time
    BY <1>7 DEF Fire
  <2>2. PICK k \in Nat : NextFrom(next', now, zone, time, k)
    BY <1>1, <2>1, AdvancedRun
  <2>3. next' > now
    BY <1>1, <2>1, AdvancedRun
  <2>4. ByTheWallClock(next', now, zone, time)
    BY <1>1, <2>2, <2>3, NextByTheWallClock
  <2>5. DayBetween(next, next', now, zone)
    BY <1>1, <1>2, <2>1, <2>2, <2>3, NextADayApart
  <2>6. \E e \in Int : next' = zonedDateFromParts(e, time, zone)
    BY <1>1, <2>2, ShownTimes DEF NextFrom
  <2> QED
    BY <1>1, <1>3, <1>4, <2>1, <2>4, <2>5, <2>6 DEF CalendarInv
<1>8. ASSUME NEW z \in Zones, UpdateTimezone(z) PROVE CalendarInv'
  <2>1. /\ zone' = z /\ next' = computeInitialNextRun(time, z) /\ set' = now /\ last' = -1
        /\ now' = now /\ time' = time
    BY <1>8 DEF UpdateTimezone
  <2>2. PICK k \in {0, 1} : NextFrom(next', now, z, time, k) /\ (next' > now \/ k = 1)
    BY <1>1, <2>1, InitialRun
  <2>3. ByTheWallClock(next', now, z, time)
    BY <1>1, <2>2, NextByTheWallClock
  <2>4. \E e \in Int : next' = zonedDateFromParts(e, time, z)
    BY <1>1, <2>2, ShownTimes DEF NextFrom
  <2> QED
    BY <1>1, <1>3, <1>4, <2>1, <2>3, <2>4 DEF CalendarInv
<1> QED
  BY <1>1, <1>5, <1>6, <1>7, <1>8 DEF CalendarNext, calendarVars

LEMMA CalendarInductive == CalendarSpec => []CalendarInv
BY CalendarInitially, CalendarStep, PTL DEF CalendarSpec

\* Whatever zones there are whose clocks are changed by a day at most, at
\* whatever instants event-check comes and the time zone is changed, an event is
\* set to the first time ahead at which the clock of its zone shows its time
\* (events.ts:361-583).
THEOREM RunsByTheWallClockHolds == CalendarSpec => []RunsByTheWallClock
<1>1. CalendarInv => RunsByTheWallClock
  BY DEF CalendarInv
<1> QED
  BY <1>1, CalendarInductive, PTL

\* From one run of an event to the next it is a day, give or take the shift of
\* the clock, or more when event-check is late (events.ts:415-443).
THEOREM ADayApartHolds == CalendarSpec => []ADayApart
<1>1. CalendarInv => ADayApart
  BY DEF CalendarInv
<1> QED
  BY <1>1, CalendarInductive, PTL

-----------------------------------------------------------------------------
(* Recursive functions of numbers.                                         *)

\* A set of numbers that is not empty has a first one.
LEMMA FirstOf ==
  ASSUME NEW S \in SUBSET Nat, S # {}
  PROVE  \E n \in S : n = 0 \/ (n - 1 \in Nat /\ n - 1 \notin S)
<1>1. PICK n \in S : \A m \in S : <<m, n>> \notin OpToRel(<, Nat)
  BY NatLessThanWellFounded, WFMin
<1>2. \A m \in S : ~(m < n)
  BY <1>1 DEF OpToRel
<1>3. n \in Nat
  OBVIOUS
<1> QED
  BY <1>2, <1>3

\* There is a function that begins with a value and goes on by a step.
Closed(N, D, base, step) == N \in Nat /\ base \in D /\ \A x \in D, n \in 1..N : step[<<x, n>>] \in D

Recursive(f, N, D, base, step) ==
  f \in [0..N -> D] /\ f[0] = base /\ \A n \in 1..N : f[n] = step[<<f[n - 1], n>>]

LEMMA Recursion ==
  ASSUME NEW N, NEW D, NEW base, NEW step, Closed(N, D, base, step)
  PROVE  \E f : Recursive(f, N, D, base, step)
<1> USE DEF Closed, Recursive
<1> DEFINE Goes(f, m) == f[0] = base /\ \A n \in 1..m : f[n] = step[<<f[n - 1], n>>]
           Bad == {m \in 0..N : \A f \in [0..m -> D] : ~Goes(f, m)}
<1>1. Bad = {}
  <2> SUFFICES ASSUME Bad # {} PROVE FALSE
    OBVIOUS
  <2>1. PICK m \in Bad : m = 0 \/ (m - 1 \in Nat /\ m - 1 \notin Bad)
    <3>1. Bad \in SUBSET Nat
      OBVIOUS
    <3> HIDE DEF Bad
    <3> QED
      BY <3>1, FirstOf
  <2>2. CASE m = 0
    <3> DEFINE g == [n \in 0..0 |-> base]
    <3>1. g \in [0..0 -> D] /\ Goes(g, 0)
      OBVIOUS
    <3> QED
      BY <2>1, <2>2, <3>1
  <2>3. CASE m # 0
    <3>1. m \in 1..N /\ m - 1 \in 0..N /\ m \notin 0..m - 1
      BY <2>1, <2>3
    <3>2. PICK f \in [0..m - 1 -> D] : Goes(f, m - 1)
      BY <2>1, <2>3, <3>1
    <3> DEFINE g == [n \in 0..m |-> IF n = m THEN step[<<f[m - 1], m>>] ELSE f[n]]
    <3>3. f[m - 1] \in D /\ step[<<f[m - 1], m>>] \in D
      BY <3>1, <3>2
    <3>4. \A n \in 0..m - 1 : g[n] = f[n] /\ f[n] \in D
      BY <3>1, <3>2
    <3>5. g[m] = step[<<f[m - 1], m>>]
      BY <3>1
    <3>6. g \in [0..m -> D]
      BY <3>1, <3>3, <3>4
    <3> HIDE DEF g
    <3>7. ASSUME NEW n \in 1..m PROVE g[n] = step[<<g[n - 1], n>>]
      <4>1. CASE n = m
        <5>1. g[m - 1] = f[m - 1]
          BY <3>1, <3>4
        <5> QED
          BY <3>5, <4>1, <5>1
      <4>2. CASE n # m
        <5>1. n \in 1..m - 1 /\ n \in 0..m - 1 /\ n - 1 \in 0..m - 1
          BY <3>1, <4>2
        <5> QED
          BY <3>2, <3>4, <5>1
      <4> QED
        BY <4>1, <4>2
    <3>8. Goes(g, m)
      BY <3>1, <3>2, <3>4, <3>7
    <3> QED
      BY <2>1, <3>6, <3>8
  <2> QED
    BY <2>2, <2>3
<1> QED
  BY <1>1


\* What holds at 0 and goes from each number to the next holds up to a bound.
LEMMA UpTo ==
  ASSUME NEW N \in Nat, NEW S, 0 \in S, \A n \in 1..N : n - 1 \in S => n \in S
  PROVE  \A n \in 0..N : n \in S
<1> DEFINE Bad == {n \in 0..N : n \notin S}
<1>1. Bad = {}
  <2> SUFFICES ASSUME Bad # {} PROVE FALSE
    OBVIOUS
  <2>1. PICK n \in Bad : n = 0 \/ (n - 1 \in Nat /\ n - 1 \notin Bad)
    <3>1. Bad \in SUBSET Nat
      OBVIOUS
    <3> HIDE DEF Bad
    <3> QED
      BY <3>1, FirstOf
  <2>2. n \in 1..N /\ n - 1 \in S
    BY <2>1
  <2> QED
    BY <2>1, <2>2
<1> QED
  BY <1>1

-----------------------------------------------------------------------------
(* Numbers in their order.                                                 *)

Grow(before, m, S) == IF m \in S THEN Append(before, m) ELSE before

LEMMA GrowIs ==
  ASSUME NEW S, NEW m \in Nat, NEW before \in Seq(Nat)
  PROVE  Grow(before, m, S) \in Seq(Nat)
BY AppendProperties DEF Grow

LEMMA InOrderIs ==
  ASSUME NEW S, NEW n \in Nat
  PROVE  \E up \in [0..n -> Seq(Nat)] :
           /\ up[0] = Grow(<<>>, 0, S) /\ InOrder(S, n) = up[n]
           /\ \A m \in 1..n : up[m] = Grow(up[m - 1], m, S)
<1> DEFINE D == Seq(Nat)
           base == Grow(<<>>, 0, S)
           step == [x \in D \X (1..n) |-> Grow(x[1], x[2], S)]
           Is(f) == f = [m \in 0..n |->
                           LET before == IF m = 0 THEN <<>> ELSE f[m - 1]
                           IN IF m \in S THEN Append(before, m) ELSE before]
           Goes(f) == f = [m \in 0..n |-> IF m = 0 THEN base ELSE Grow(f[m - 1], m, S)]
           g == CHOOSE f : Is(f)
<1>1. InOrder(S, n) = g[n]
  BY Zenon DEF InOrder
<1>2. base \in D
  BY GrowIs, EmptySeq
<1>3. \A x \in D, m \in 1..n : step[<<x, m>>] = Grow(x, m, S) /\ Grow(x, m, S) \in D
  <2> SUFFICES ASSUME NEW x \in D, NEW m \in 1..n
               PROVE  step[<<x, m>>] = Grow(x, m, S) /\ Grow(x, m, S) \in D
    OBVIOUS
  <2>1. Grow(x, m, S) \in D
    BY GrowIs
  <2> HIDE DEF D
  <2>2. step[<<x, m>>] = Grow(x, m, S)
    OBVIOUS
  <2> QED
    BY <2>1, <2>2
<1>4. \A h : Is(h) <=> Goes(h)
  <2> SUFFICES ASSUME NEW h
               PROVE  \A m \in 0..n :
                        (LET before == IF m = 0 THEN <<>> ELSE h[m - 1]
                         IN IF m \in S THEN Append(before, m) ELSE before) =
                        IF m = 0 THEN base ELSE Grow(h[m - 1], m, S)
    OBVIOUS
  <2> SUFFICES ASSUME NEW m \in 0..n
               PROVE  (LET before == IF m = 0 THEN <<>> ELSE h[m - 1]
                       IN IF m \in S THEN Append(before, m) ELSE before) =
                      IF m = 0 THEN base ELSE Grow(h[m - 1], m, S)
    OBVIOUS
  <2> QED
    BY Zenon DEF Grow
<1> HIDE DEF step, base, D
<1>5. PICK f \in [0..n -> D] : f[0] = base /\ \A m \in 1..n : f[m] = step[<<f[m - 1], m>>]
  <2>1. Closed(n, D, base, step)
    BY <1>2, <1>3 DEF Closed
  <2>2. PICK f : Recursive(f, n, D, base, step)
    BY <2>1, Recursion
  <2> QED
    BY <2>2 DEF Recursive
<1>6. \A m \in 1..n : m - 1 \in 0..n
  OBVIOUS
<1>7. Goes(f)
  <2>1. \A m \in 1..n : f[m] = Grow(f[m - 1], m, S)
    BY <1>3, <1>5, <1>6
  <2>2. \A m \in 0..n : f[m] = IF m = 0 THEN base ELSE Grow(f[m - 1], m, S)
    BY <1>5, <2>1
  <2> QED
    BY <1>5, <2>2
<1>8. Goes(g)
  <2> HIDE DEF Is, Goes
  <2>1. \E h : Is(h)
    BY <1>4, <1>7
  <2>2. Is(g)
    BY <2>1
  <2> QED
    BY <1>4, <2>2
<1> HIDE DEF g
<1>9. g[0] = base /\ \A m \in 1..n : g[m] = Grow(g[m - 1], m, S)
  BY <1>6, <1>8
<1>10. \A m \in 0..n : g[m] \in D
  <2> DEFINE T == {m \in 0..n : g[m] \in D}
  <2>1. 0 \in T
    BY <1>2, <1>9
  <2>2. ASSUME NEW m \in 1..n, m - 1 \in T PROVE m \in T
    <3>1. g[m - 1] \in D
      BY <2>2
    <3>2. g[m] \in D
      BY <1>3, <1>9, <3>1
    <3> QED
      BY <3>2
  <2> HIDE DEF T
  <2>3. \A m \in 0..n : m \in T
    BY <2>1, <2>2, UpTo
  <2> QED
    BY <2>3 DEF T
<1>11. g \in [0..n -> D]
  BY <1>8, <1>10
<1> QED
  BY <1>1, <1>9, <1>11 DEF D, base

\* Numbers beyond n make no difference, and n comes last.
LEMMA InOrderStep ==
  ASSUME NEW S, NEW T, NEW n \in Nat \ {0}, \A m \in 0..n - 1 : m \in S <=> m \in T
  PROVE  InOrder(S, n) = Grow(InOrder(T, n - 1), n, S)
<1>1. PICK a \in [0..n -> Seq(Nat)] :
        /\ a[0] = Grow(<<>>, 0, S) /\ InOrder(S, n) = a[n]
        /\ \A m \in 1..n : a[m] = Grow(a[m - 1], m, S)
  BY InOrderIs
<1>2. PICK b \in [0..n - 1 -> Seq(Nat)] :
        /\ b[0] = Grow(<<>>, 0, T) /\ InOrder(T, n - 1) = b[n - 1]
        /\ \A m \in 1..n - 1 : b[m] = Grow(b[m - 1], m, T)
  <2>1. n - 1 \in Nat
    OBVIOUS
  <2> QED
    BY <2>1, InOrderIs
<1>3. \A m \in 0..n - 1 : a[m] = b[m]
  <2> DEFINE E == {m \in 0..n - 1 : a[m] = b[m]}
  <2>1. 0 \in E
    BY <1>1, <1>2 DEF Grow
  <2>2. ASSUME NEW m \in 1..n - 1, m - 1 \in E PROVE m \in E
    <3>1. a[m - 1] = b[m - 1] /\ (m \in S <=> m \in T) /\ m \in 1..n
      BY <2>2
    <3>2. a[m] = b[m]
      BY <1>1, <1>2, <3>1, Zenon DEF Grow
    <3> QED
      BY <3>2
  <2> HIDE DEF E
  <2>3. n - 1 \in Nat
    OBVIOUS
  <2>4. \A m \in 0..n - 1 : m \in E
    BY <2>1, <2>2, <2>3, UpTo
  <2> QED
    BY <2>4 DEF E
<1>4. a[n] = Grow(a[n - 1], n, S)
  BY <1>1
<1>5. a[n - 1] = b[n - 1]
  BY <1>3
<1> QED
  BY <1>1, <1>2, <1>4, <1>5

\* What is in order are numbers of the set.
LEMMA InOrderOf ==
  ASSUME NEW S, NEW n \in Nat
  PROVE  InOrder(S, n) \in Seq(Nat) /\ \A c \in DOMAIN InOrder(S, n) : InOrder(S, n)[c] \in S \cap (0..n)
<1>1. PICK a \in [0..n -> Seq(Nat)] :
        /\ a[0] = Grow(<<>>, 0, S) /\ InOrder(S, n) = a[n]
        /\ \A m \in 1..n : a[m] = Grow(a[m - 1], m, S)
  BY InOrderIs
<1> DEFINE R == S \cap (0..n)
           T == {m \in 0..n : a[m] \in Seq(R)}
<1>0. \A m \in 0..n : m \in S => m \in R
  OBVIOUS
<1>9. \A x \in R : x \in S \cap (0..n)
  OBVIOUS
<1> HIDE DEF R
<1>2. ASSUME NEW s \in Seq(R), NEW m \in 0..n PROVE Grow(s, m, S) \in Seq(R)
  BY <1>0, AppendProperties DEF Grow
<1>3. 0 \in T
  <2>1. <<>> \in Seq(R) /\ 0 \in 0..n
    OBVIOUS
  <2>2. a[0] \in Seq(R)
    BY <1>1, <1>2, <2>1
  <2> QED
    BY <2>1, <2>2
<1>4. ASSUME NEW m \in 1..n, m - 1 \in T PROVE m \in T
  <2>1. a[m - 1] \in Seq(R) /\ m \in 0..n
    BY <1>4
  <2>2. Grow(a[m - 1], m, S) \in Seq(R)
    BY <1>2, <2>1
  <2>3. a[m] \in Seq(R)
    BY <1>1, <2>2
  <2> QED
    BY <2>1, <2>3
<1> HIDE DEF T
<1>5. n \in T
  <2>1. \A m \in 0..n : m \in T
    BY <1>3, <1>4, UpTo
  <2> QED
    BY <2>1
<1>6. InOrder(S, n) \in Seq(R)
  BY <1>1, <1>5 DEF T
<1>7. \A c \in DOMAIN InOrder(S, n) : InOrder(S, n)[c] \in R
  BY <1>6, ElementOfSeq
<1>8. InOrder(S, n) \in Seq(Nat)
  BY <1>1
<1> QED
  BY <1>7, <1>8, <1>9

-----------------------------------------------------------------------------
(* What the first n events of a provider say.                              *)

Begins(ev, n, i) == \E m \in 1..n : ev[m].index = i
AsText(ev, P, n, i) == P # "openai" /\ \E m \in 1..n : ev[m].type = "start_text" /\ ev[m].index = i
TextOf(ev, P, n) ==
  {m \in 1..n : ev[m].type = "text" \/ (ev[m].type = "delta" /\ AsText(ev, P, n, ev[m].index))}
ThoughtOf(ev, n) == {m \in 1..n : ev[m].type = "thinking"}
UsageOf(ev, n) == {m \in 1..n : ev[m].type = "usage"}
ArgsOf(ev, n, i) == {m \in 1..n : ev[m].index = i /\ ev[m].type \in {"call", "delta"}}
Over(ev, n) == \E m \in 1..n : ev[m].type = "[DONE]"

CallAt(ev, P, n, i) ==
  IF ~Begins(ev, n, i) THEN NoCall
  ELSE IF AsText(ev, P, n, i) THEN [kind |-> "text", id |-> None, args |-> <<>>]
  ELSE [kind |-> "tool_use", id |-> i, args |-> InOrder(ArgsOf(ev, n, i), n)]

CallsOf(ev, P, n) == [i \in Index |-> CallAt(ev, P, n, i)]

Said(ev, P, n) ==
  [text |-> InOrder(TextOf(ev, P, n), n), thinking |-> InOrder(ThoughtOf(ev, n), n),
   calls |-> CallsOf(ev, P, n), usage |-> Latest(UsageOf(ev, n)), done |-> Over(ev, n)]

\* Nothing but the first n events counts.
LEMMA SaidAgain ==
  ASSUME NEW ev, NEW fv, NEW P, NEW n, \A m \in 1..n : ev[m] = fv[m]
  PROVE  Said(ev, P, n) = Said(fv, P, n)
<1>1. \A i : Begins(ev, n, i) <=> Begins(fv, n, i)
  BY DEF Begins
<1>2. \A i : AsText(ev, P, n, i) <=> AsText(fv, P, n, i)
  BY DEF AsText
<1>3. TextOf(ev, P, n) = TextOf(fv, P, n)
  BY <1>2 DEF TextOf
<1>4. ThoughtOf(ev, n) = ThoughtOf(fv, n) /\ UsageOf(ev, n) = UsageOf(fv, n)
  BY DEF ThoughtOf, UsageOf
<1>5. \A i : ArgsOf(ev, n, i) = ArgsOf(fv, n, i)
  BY DEF ArgsOf
<1>6. Over(ev, n) = Over(fv, n)
  BY Zenon DEF Over
<1>7. \A i \in Index : CallAt(ev, P, n, i) = CallAt(fv, P, n, i)
  BY <1>1, <1>2, <1>5, Zenon DEF CallAt
<1>8. CallsOf(ev, P, n) = CallsOf(fv, P, n)
  BY <1>7, Zenon DEF CallsOf
<1> QED
  BY <1>3, <1>4, <1>6, <1>8, Zenon DEF Said

LEMMA SaidBegins ==
  ASSUME NEW ev, NEW P
  PROVE  Said(ev, P, 0) = EmptyResponse
<1>1. /\ TextOf(ev, P, 0) = {} /\ ThoughtOf(ev, 0) = {} /\ UsageOf(ev, 0) = {} /\ Over(ev, 0) = FALSE
      /\ \A i : ~Begins(ev, 0, i)
  BY DEF TextOf, ThoughtOf, UsageOf, Over, Begins
<1>2. InOrder({}, 0) = <<>>
  BY InOrderIs DEF Grow
<1>3. Latest({}) = 0
  BY DEF Latest
<1>4. CallsOf(ev, P, 0) = [i \in Index |-> NoCall]
  BY <1>1, Zenon DEF CallsOf, CallAt
<1> QED
  BY <1>1, <1>2, <1>3, <1>4, Zenon DEF Said, EmptyResponse

\* What a provider sends: a chunk of a call after the call's first names it with
\* its id or not, a block is begun once and added to when it has been begun.
EventOK(ev, P, m) ==
  LET e == ev[m] IN
  /\ IF P = "openai"
     THEN \/ e.type \in {"text", "thinking", "usage", "[DONE]"} /\ e.index = None
          \/ e.type = "call" /\ e.index \in Index /\ (e.id = e.index \/ (e.id = None /\ Begins(ev, m - 1, e.index)))
     ELSE \/ e.type = "usage" /\ e.index = None
          \/ e.type \in {"start_text", "start_tool_use"} /\ e.index \in Index /\ e.id = e.index /\ ~Begins(ev, m - 1, e.index)
          \/ e.type = "delta" /\ e.index \in Index /\ Begins(ev, m - 1, e.index)

\* The next event: what is said without regard to its type.
LEMMA SaidNext ==
  ASSUME NEW ev, NEW P, NEW n \in Nat \ {0}
  PROVE  /\ \A i : Begins(ev, n, i) <=> Begins(ev, n - 1, i) \/ ev[n].index = i
         /\ \A i : AsText(ev, P, n, i) <=> AsText(ev, P, n - 1, i) \/ (P # "openai" /\ ev[n].type = "start_text" /\ ev[n].index = i)
         /\ Over(ev, n) <=> Over(ev, n - 1) \/ ev[n].type = "[DONE]"
         /\ InOrder(ThoughtOf(ev, n), n) = Grow(InOrder(ThoughtOf(ev, n - 1), n - 1), n, ThoughtOf(ev, n))
         /\ n \in ThoughtOf(ev, n) <=> ev[n].type = "thinking"
         /\ \A i : InOrder(ArgsOf(ev, n, i), n) = Grow(InOrder(ArgsOf(ev, n - 1, i), n - 1), n, ArgsOf(ev, n, i))
         /\ \A i : n \in ArgsOf(ev, n, i) <=> ev[n].index = i /\ ev[n].type \in {"call", "delta"}
         /\ Latest(UsageOf(ev, n)) = IF ev[n].type = "usage" THEN n ELSE Latest(UsageOf(ev, n - 1))
<1>1. 1..n = (1..n - 1) \cup {n}
  OBVIOUS
<1>2. \A i : Begins(ev, n, i) <=> Begins(ev, n - 1, i) \/ ev[n].index = i
  BY <1>1 DEF Begins
<1>3. \A i : AsText(ev, P, n, i) <=> AsText(ev, P, n - 1, i) \/ (P # "openai" /\ ev[n].type = "start_text" /\ ev[n].index = i)
  BY <1>1 DEF AsText
<1>4. Over(ev, n) <=> Over(ev, n - 1) \/ ev[n].type = "[DONE]"
  BY <1>1 DEF Over
<1>5. /\ n \in ThoughtOf(ev, n) <=> ev[n].type = "thinking"
      /\ InOrder(ThoughtOf(ev, n), n) = Grow(InOrder(ThoughtOf(ev, n - 1), n - 1), n, ThoughtOf(ev, n))
  <2>1. n \in ThoughtOf(ev, n) <=> ev[n].type = "thinking"
    BY DEF ThoughtOf
  <2>2. \A m \in 0..n - 1 : m \in ThoughtOf(ev, n) <=> m \in ThoughtOf(ev, n - 1)
    BY DEF ThoughtOf
  <2> QED
    BY <2>1, <2>2, InOrderStep
<1>6. ASSUME NEW i
      PROVE  /\ n \in ArgsOf(ev, n, i) <=> ev[n].index = i /\ ev[n].type \in {"call", "delta"}
             /\ InOrder(ArgsOf(ev, n, i), n) = Grow(InOrder(ArgsOf(ev, n - 1, i), n - 1), n, ArgsOf(ev, n, i))
  <2>1. n \in ArgsOf(ev, n, i) <=> ev[n].index = i /\ ev[n].type \in {"call", "delta"}
    BY DEF ArgsOf
  <2>2. \A m \in 0..n - 1 : m \in ArgsOf(ev, n, i) <=> m \in ArgsOf(ev, n - 1, i)
    BY DEF ArgsOf
  <2> QED
    BY <2>1, <2>2, InOrderStep
<1>7. Latest(UsageOf(ev, n)) = IF ev[n].type = "usage" THEN n ELSE Latest(UsageOf(ev, n - 1))
  <2>1. CASE ev[n].type = "usage"
    <3>1. n \in UsageOf(ev, n) /\ \A o \in UsageOf(ev, n) : o \in Nat /\ o <= n
      BY <2>1 DEF UsageOf
    <3> QED
      BY <2>1, <3>1 DEF Latest
  <2>2. CASE ev[n].type # "usage"
    <3>1. UsageOf(ev, n) = UsageOf(ev, n - 1)
      BY <1>1, <2>2 DEF UsageOf
    <3> QED
      BY <2>2, <3>1
  <2> QED
    BY <2>1, <2>2
<1> QED
  BY <1>2, <1>3, <1>4, <1>5, <1>6, <1>7

LEMMA TextNext ==
  ASSUME NEW ev, NEW P, NEW n \in Nat \ {0}, \A m \in 1..n : EventOK(ev, P, m)
  PROVE  /\ InOrder(TextOf(ev, P, n), n) = Grow(InOrder(TextOf(ev, P, n - 1), n - 1), n, TextOf(ev, P, n))
         /\ n \in TextOf(ev, P, n) <=> ev[n].type = "text" \/ (ev[n].type = "delta" /\ AsText(ev, P, n - 1, ev[n].index))
<1>0. \A i : AsText(ev, P, n, i) <=> AsText(ev, P, n - 1, i) \/ (P # "openai" /\ ev[n].type = "start_text" /\ ev[n].index = i)
  BY SaidNext
<1>1. ASSUME NEW m \in 1..n - 1, ev[m].type = "delta"
      PROVE  AsText(ev, P, n, ev[m].index) <=> AsText(ev, P, n - 1, ev[m].index)
  <2>1. Begins(ev, n - 1, ev[m].index)
    BY DEF Begins
  <2>2. EventOK(ev, P, n)
    OBVIOUS
  <2>3. ~(P # "openai" /\ ev[n].type = "start_text" /\ ev[n].index = ev[m].index)
    BY <2>1, <2>2 DEF EventOK
  <2> QED
    BY <1>0, <2>3
<1>2. \A m \in 0..n - 1 : m \in TextOf(ev, P, n) <=> m \in TextOf(ev, P, n - 1)
  <2> SUFFICES ASSUME NEW m \in 0..n - 1 PROVE m \in TextOf(ev, P, n) <=> m \in TextOf(ev, P, n - 1)
    OBVIOUS
  <2>1. m \in TextOf(ev, P, n) <=>
          m \in 1..n - 1 /\ (ev[m].type = "text" \/ (ev[m].type = "delta" /\ AsText(ev, P, n, ev[m].index)))
    BY DEF TextOf
  <2>2. m \in TextOf(ev, P, n - 1) <=>
          m \in 1..n - 1 /\ (ev[m].type = "text" \/ (ev[m].type = "delta" /\ AsText(ev, P, n - 1, ev[m].index)))
    BY DEF TextOf
  <2> QED
    BY <1>1, <2>1, <2>2
<1>3. n \in TextOf(ev, P, n) <=> ev[n].type = "text" \/ (ev[n].type = "delta" /\ AsText(ev, P, n - 1, ev[n].index))
  <2>1. n \in TextOf(ev, P, n) <=> ev[n].type = "text" \/ (ev[n].type = "delta" /\ AsText(ev, P, n, ev[n].index))
    BY DEF TextOf
  <2> QED
    BY <1>0, <2>1
<1> QED
  BY <1>2, <1>3, InOrderStep

\* The response by its parts.
Resp(text, thinking, called, usage, done) ==
  [text |-> text, thinking |-> thinking, calls |-> called, usage |-> usage, done |-> done]

\* A call or a block whose state changes.
LEMMA CallsNext ==
  ASSUME NEW ev, NEW P, NEW n \in Nat \ {0}
  PROVE  /\ \A i \in Index : ev[n].index # i => CallAt(ev, P, n, i) = CallAt(ev, P, n - 1, i)
         /\ ev[n].index = None => CallsOf(ev, P, n) = CallsOf(ev, P, n - 1)
         /\ ev[n].index \in Index =>
              CallsOf(ev, P, n) = [CallsOf(ev, P, n - 1) EXCEPT ![ev[n].index] = CallAt(ev, P, n, ev[n].index)]
<1>1. ASSUME NEW i \in Index, ev[n].index # i PROVE CallAt(ev, P, n, i) = CallAt(ev, P, n - 1, i)
  <2>1. Begins(ev, n, i) <=> Begins(ev, n - 1, i)
    BY <1>1, SaidNext
  <2>2. AsText(ev, P, n, i) <=> AsText(ev, P, n - 1, i)
    BY <1>1, SaidNext
  <2>3. InOrder(ArgsOf(ev, n, i), n) = InOrder(ArgsOf(ev, n - 1, i), n - 1)
    BY <1>1, SaidNext DEF Grow
  <2> QED
    BY <2>1, <2>2, <2>3, Zenon DEF CallAt
<1>2. ASSUME ev[n].index = None PROVE CallsOf(ev, P, n) = CallsOf(ev, P, n - 1)
  <2>1. \A i \in Index : ev[n].index # i
    BY <1>2, StreamAssumption DEF Index
  <2>2. \A i \in Index : CallAt(ev, P, n, i) = CallAt(ev, P, n - 1, i)
    BY <1>1, <2>1
  <2> QED
    BY <2>2, Zenon DEF CallsOf
<1>3. ASSUME ev[n].index \in Index
      PROVE  CallsOf(ev, P, n) = [CallsOf(ev, P, n - 1) EXCEPT ![ev[n].index] = CallAt(ev, P, n, ev[n].index)]
  <2> DEFINE a == CallsOf(ev, P, n - 1)
             b == CallsOf(ev, P, n)
             x == ev[n].index
             e == [a EXCEPT ![x] = CallAt(ev, P, n, x)]
  <2>1. DOMAIN a = Index /\ DOMAIN b = Index /\ \A i \in Index : a[i] = CallAt(ev, P, n - 1, i) /\ b[i] = CallAt(ev, P, n, i)
    BY DEF CallsOf
  <2>2. b = [i \in Index |-> b[i]]
    BY DEF CallsOf
  <2>3. e = [i \in DOMAIN a |-> IF i = x THEN CallAt(ev, P, n, x) ELSE a[i]]
    <3> HIDE DEF a
    <3> QED
      OBVIOUS
  <2>4. \A i \in Index : b[i] = IF i = x THEN CallAt(ev, P, n, x) ELSE a[i]
    BY <1>1, <2>1
  <2> HIDE DEF a, b, x, e
  <2>5. b = e
    BY <2>1, <2>2, <2>3, <2>4, Zenon
  <2> QED
    BY <2>5 DEF a, b, x, e
<1> QED
  BY <1>1, <1>2, <1>3

LEMMA InOrderEmpty ==
  ASSUME NEW n \in Nat
  PROVE  InOrder({}, n) = <<>>
<1>1. InOrder({}, n) \in Seq(Nat) /\ \A c \in DOMAIN InOrder({}, n) : InOrder({}, n)[c] \in {}
  BY InOrderOf
<1>2. DOMAIN InOrder({}, n) = {}
  BY <1>1, Zenon
<1>3. Len(InOrder({}, n)) = 0
  BY <1>1, <1>2
<1> QED
  BY <1>1, <1>3, EmptySeq

LEMMA RespText ==
  ASSUME NEW t, NEW h, NEW c, NEW u, NEW d, NEW r, r = Resp(t, h, c, u, d), NEW k
  PROVE  [r EXCEPT !.text = Append(r.text, k)] = Resp(Append(t, k), h, c, u, d)
<1>1. r.text = t
  BY DEF Resp
<1>2. \A x : [r EXCEPT !.text = x] = Resp(x, h, c, u, d)
  BY DEF Resp
<1> QED
  BY <1>1, <1>2, Zenon

LEMMA RespThinking ==
  ASSUME NEW t, NEW h, NEW c, NEW u, NEW d, NEW r, r = Resp(t, h, c, u, d), NEW k
  PROVE  [r EXCEPT !.thinking = Append(r.thinking, k)] = Resp(t, Append(h, k), c, u, d)
<1>1. r.thinking = h
  BY DEF Resp
<1>2. \A x : [r EXCEPT !.thinking = x] = Resp(t, x, c, u, d)
  BY DEF Resp
<1> QED
  BY <1>1, <1>2, Zenon

LEMMA RespUsage ==
  ASSUME NEW t, NEW h, NEW c, NEW u, NEW d, NEW r, r = Resp(t, h, c, u, d), NEW k
  PROVE  [r EXCEPT !.usage = k] = Resp(t, h, c, k, d)
BY DEF Resp

LEMMA RespDoneIs ==
  ASSUME NEW t, NEW h, NEW c, NEW u, NEW d, NEW r, r = Resp(t, h, c, u, d), NEW k
  PROVE  [r EXCEPT !.done = k] = Resp(t, h, c, u, k)
BY DEF Resp

\* The provers keep truth values apart from other values.
LEMMA RespDone ==
  ASSUME NEW t, NEW h, NEW c, NEW u, NEW d, NEW r, r = Resp(t, h, c, u, d)
  PROVE  [r EXCEPT !.done = TRUE] = Resp(t, h, c, u, TRUE)
<1>1. ASSUME NEW k, k = TRUE PROVE [r EXCEPT !.done = TRUE] = Resp(t, h, c, u, TRUE)
  <2>1. [r EXCEPT !.done = k] = Resp(t, h, c, u, k)
    BY RespDoneIs
  <2> QED
    BY <1>1, <2>1, Zenon
<1>2. \E k : k = TRUE
  OBVIOUS
<1> QED
  BY <1>1, <1>2, Zenon

LEMMA SaidIs ==
  ASSUME NEW ev, NEW P, NEW n
  PROVE  Said(ev, P, n) = Resp(InOrder(TextOf(ev, P, n), n), InOrder(ThoughtOf(ev, n), n), CallsOf(ev, P, n),
                               Latest(UsageOf(ev, n)), Over(ev, n))
BY Zenon DEF Said, Resp

\* The parts that an event leaves alone.
LEMMA OthersStay ==
  ASSUME NEW ev, NEW P, NEW k \in Nat \ {0}, \A m \in 1..k : EventOK(ev, P, m)
  PROVE  /\ ev[k].type \notin {"text", "delta"} => InOrder(TextOf(ev, P, k), k) = InOrder(TextOf(ev, P, k - 1), k - 1)
         /\ ev[k].type # "thinking" => InOrder(ThoughtOf(ev, k), k) = InOrder(ThoughtOf(ev, k - 1), k - 1)
         /\ ev[k].type # "usage" => Latest(UsageOf(ev, k)) = Latest(UsageOf(ev, k - 1))
         /\ ev[k].type # "[DONE]" => Over(ev, k) = Over(ev, k - 1)
<1>1. ev[k].type \notin {"text", "delta"} => InOrder(TextOf(ev, P, k), k) = InOrder(TextOf(ev, P, k - 1), k - 1)
  BY TextNext DEF Grow
<1>2. ev[k].type # "thinking" => InOrder(ThoughtOf(ev, k), k) = InOrder(ThoughtOf(ev, k - 1), k - 1)
  BY SaidNext DEF Grow
<1>3. ev[k].type # "usage" => Latest(UsageOf(ev, k)) = Latest(UsageOf(ev, k - 1))
  BY SaidNext
<1>4. ev[k].type # "[DONE]" => (Over(ev, k) <=> Over(ev, k - 1))
  BY SaidNext
<1>5. ev[k].type # "[DONE]" => Over(ev, k) = Over(ev, k - 1)
  BY <1>4, Zenon DEF Over
<1> QED
  BY <1>1, <1>2, <1>3, <1>5

LEMMA OpenAISays ==
  ASSUME NEW k \in Nat \ {0}, \A m \in 1..k : EventOK(events, "openai", m)
  PROVE  OpenAIChunk(Said(events, "openai", k - 1), k) = Said(events, "openai", k)
<1> DEFINE P == "openai"
           t == InOrder(TextOf(events, P, k - 1), k - 1)
           h == InOrder(ThoughtOf(events, k - 1), k - 1)
           c == CallsOf(events, P, k - 1)
           u == Latest(UsageOf(events, k - 1))
           d == Over(events, k - 1)
           r == Said(events, P, k - 1)
           e == events[k]
<1>1. r = Resp(t, h, c, u, d)
  BY SaidIs
<1>2. Said(events, P, k) = Resp(InOrder(TextOf(events, P, k), k), InOrder(ThoughtOf(events, k), k), CallsOf(events, P, k),
                                Latest(UsageOf(events, k)), Over(events, k))
  BY SaidIs
<1>3. /\ e.type \notin {"text", "delta"} => InOrder(TextOf(events, P, k), k) = t
      /\ e.type # "thinking" => InOrder(ThoughtOf(events, k), k) = h
      /\ e.type # "usage" => Latest(UsageOf(events, k)) = u
      /\ e.type # "[DONE]" => Over(events, k) = d
      /\ e.index = None => CallsOf(events, P, k) = c
  BY OthersStay, CallsNext
<1>4. \/ e.type \in {"text", "thinking", "usage", "[DONE]"} /\ e.index = None
      \/ e.type = "call" /\ e.index \in Index /\ (e.id = e.index \/ (e.id = None /\ Begins(events, k - 1, e.index)))
  <2>1. EventOK(events, P, k)
    OBVIOUS
  <2> QED
    BY <2>1 DEF EventOK
<1>6. CASE e.type = "text"
  <2>1. InOrder(TextOf(events, P, k), k) = Append(t, k)
    BY <1>6, TextNext DEF Grow
  <2>2. OpenAIChunk(r, k) = Resp(Append(t, k), h, c, u, d)
    <3>1. OpenAIChunk(r, k) = [r EXCEPT !.text = Append(r.text, k)]
      BY <1>6, Zenon DEF OpenAIChunk
    <3> HIDE DEF t, h, c, u, d, r, e
    <3> QED
      BY <1>1, <3>1, RespText
  <2> HIDE DEF t, h, c, u, d, e
  <2> QED
    BY <1>2, <1>3, <1>4, <1>6, <2>1, <2>2
<1>7. CASE e.type = "thinking"
  <2>1. InOrder(ThoughtOf(events, k), k) = Append(h, k)
    BY <1>7, SaidNext DEF Grow
  <2>2. OpenAIChunk(r, k) = Resp(t, Append(h, k), c, u, d)
    <3>1. OpenAIChunk(r, k) = [r EXCEPT !.thinking = Append(r.thinking, k)]
      BY <1>7, Zenon DEF OpenAIChunk
    <3> HIDE DEF t, h, c, u, d, r, e
    <3> QED
      BY <1>1, <3>1, RespThinking
  <2> HIDE DEF t, h, c, u, d, e
  <2> QED
    BY <1>2, <1>3, <1>4, <1>7, <2>1, <2>2
<1>8. CASE e.type = "usage"
  <2>1. Latest(UsageOf(events, k)) = k
    BY <1>8, SaidNext
  <2>2. OpenAIChunk(r, k) = Resp(t, h, c, k, d)
    <3>1. OpenAIChunk(r, k) = [r EXCEPT !.usage = k]
      BY <1>8, Zenon DEF OpenAIChunk
    <3> HIDE DEF t, h, c, u, d, r, e
    <3> QED
      BY <1>1, <3>1, RespUsage
  <2> HIDE DEF t, h, c, u, d, e
  <2> QED
    BY <1>2, <1>3, <1>4, <1>8, <2>1, <2>2
<1>9. CASE e.type = "[DONE]"
  <2>1. Over(events, k) = TRUE
    <3>1. Over(events, k)
      BY <1>9, SaidNext
    <3> QED
      BY <3>1, Zenon DEF Over
  <2>2. OpenAIChunk(r, k) = Resp(t, h, c, u, TRUE)
    <3>1. OpenAIChunk(r, k) = [r EXCEPT !.done = TRUE]
      BY <1>9, Zenon DEF OpenAIChunk
    <3> HIDE DEF t, h, c, u, d, r, e
    <3> QED
      BY <1>1, <3>1, RespDone
  <2> HIDE DEF t, h, c, u, d, e
  <2> QED
    BY <1>2, <1>3, <1>4, <1>9, <2>1, <2>2
<1>10. CASE e.type = "call"
  <2> DEFINE i == e.index
             a == c[i]
             b == [kind |-> "tool_use", id |-> IF e.id = None THEN a.id ELSE e.id, args |-> Append(a.args, k)]
  <2>1. i \in Index /\ (e.id = i \/ (e.id = None /\ Begins(events, k - 1, i)))
    BY <1>4, <1>10
  <2>2. a = CallAt(events, P, k - 1, i)
    BY <2>1 DEF CallsOf
  <2>3. CallAt(events, P, k, i) = [kind |-> "tool_use", id |-> i, args |-> Append(InOrder(ArgsOf(events, k - 1, i), k - 1), k)]
    <3>1. Begins(events, k, i) /\ InOrder(ArgsOf(events, k, i), k) = Append(InOrder(ArgsOf(events, k - 1, i), k - 1), k)
      BY <1>10, SaidNext DEF Grow
    <3>2. ~AsText(events, P, k, i)
      BY DEF AsText
    <3> QED
      BY <3>1, <3>2, Zenon DEF CallAt
  <2>4. a.args = InOrder(ArgsOf(events, k - 1, i), k - 1) /\ (Begins(events, k - 1, i) => a.id = i)
    <3>1. ~AsText(events, P, k - 1, i)
      BY DEF AsText
    <3>2. CASE Begins(events, k - 1, i)
      <4>1. a = [kind |-> "tool_use", id |-> i, args |-> InOrder(ArgsOf(events, k - 1, i), k - 1)]
        BY <2>2, <3>1, <3>2, Zenon DEF CallAt
      <4> HIDE DEF a, i
      <4> QED
        BY <4>1
    <3>3. CASE ~Begins(events, k - 1, i)
      <4>1. a = NoCall
        BY <2>2, <3>3, Zenon DEF CallAt
      <4>2. a.args = <<>>
        <5> HIDE DEF a
        <5> QED
          BY <4>1 DEF NoCall
      <4>3. ArgsOf(events, k - 1, i) = {}
        BY <3>3 DEF ArgsOf, Begins
      <4>4. InOrder({}, k - 1) = <<>>
        BY InOrderEmpty
      <4> QED
        BY <3>3, <4>2, <4>3, <4>4, Zenon
    <3> QED
      BY <3>2, <3>3
  <2>5. b = CallAt(events, P, k, i)
    <3>1. (IF e.id = None THEN a.id ELSE e.id) = i
      <4>1. i # None
        BY <2>1, StreamAssumption DEF Index
      <4> HIDE DEF a, i, e
      <4> QED
        BY <2>1, <2>4, <4>1
    <3> QED
      BY <2>3, <2>4, <3>1, Zenon
  <2>6. CallsOf(events, P, k) = [c EXCEPT ![i] = b]
    <3>1. CallsOf(events, P, k) = [c EXCEPT ![i] = CallAt(events, P, k, i)]
      BY <2>1, CallsNext
    <3> QED
      BY <2>5, <3>1, Zenon
  <2>7. OpenAIChunk(r, k) = Resp(t, h, [c EXCEPT ![i] = b], u, d)
    <3>1. r.calls[i] = a
      <4> HIDE DEF t, h, c, u, d, r, e, i
      <4> QED
        BY <1>1 DEF Resp
    <3>2. OpenAIChunk(r, k) = [r EXCEPT !.calls[i] = b]
      <4>1. e.type \notin {"text", "thinking", "usage", "[DONE]"}
        BY <1>10
      <4> QED
        BY <3>1, <4>1, Zenon DEF OpenAIChunk
    <3> HIDE DEF t, h, c, u, d, r, e, i, b
    <3> QED
      BY <1>1, <3>2 DEF Resp
  <2> HIDE DEF t, h, c, u, d, e, b, i
  <2> QED
    BY <1>2, <1>3, <1>10, <2>6, <2>7
<1> QED
  BY <1>4, <1>6, <1>7, <1>8, <1>9, <1>10

LEMMA CallIs ==
  ASSUME NEW ev, NEW P, NEW n \in Nat, NEW i
  PROVE  /\ AsText(ev, P, n, i) => Begins(ev, n, i) /\ CallAt(ev, P, n, i) = [kind |-> "text", id |-> None, args |-> <<>>]
         /\ AsText(ev, P, n, i) => CallAt(ev, P, n, i).kind = "text"
         /\ ~Begins(ev, n, i) => CallAt(ev, P, n, i).kind = None /\ InOrder(ArgsOf(ev, n, i), n) = <<>>
         /\ Begins(ev, n, i) /\ ~AsText(ev, P, n, i) =>
              /\ CallAt(ev, P, n, i).kind = "tool_use" /\ CallAt(ev, P, n, i).id = i
              /\ CallAt(ev, P, n, i).args = InOrder(ArgsOf(ev, n, i), n)
<1> DEFINE a == CallAt(ev, P, n, i)
           args == InOrder(ArgsOf(ev, n, i), n)
<1>1. ASSUME AsText(ev, P, n, i)
      PROVE  Begins(ev, n, i) /\ a = [kind |-> "text", id |-> None, args |-> <<>>] /\ a.kind = "text"
  <2>1. Begins(ev, n, i)
    BY <1>1 DEF AsText, Begins
  <2>2. a = [kind |-> "text", id |-> None, args |-> <<>>]
    BY <1>1, <2>1, Zenon DEF CallAt
  <2> HIDE DEF a
  <2> QED
    BY <2>1, <2>2
<1>2. ASSUME ~Begins(ev, n, i) PROVE a.kind = None /\ args = <<>>
  <2>1. a = NoCall
    BY <1>2, Zenon DEF CallAt
  <2>2. ArgsOf(ev, n, i) = {}
    BY <1>2 DEF ArgsOf, Begins
  <2>3. InOrder({}, n) = <<>>
    BY InOrderEmpty
  <2>4. args = <<>>
    BY <2>2, <2>3, Zenon
  <2> HIDE DEF a, args
  <2> QED
    BY <2>1, <2>4 DEF NoCall
<1>3. ASSUME Begins(ev, n, i), ~AsText(ev, P, n, i) PROVE a.kind = "tool_use" /\ a.id = i /\ a.args = args
  <2>1. a = [kind |-> "tool_use", id |-> i, args |-> args]
    BY <1>3, Zenon DEF CallAt
  <2> HIDE DEF a, args
  <2> QED
    BY <2>1
<1> QED
  BY <1>1, <1>2, <1>3

SetCall(r, i, call) == [r EXCEPT !.calls[i] = call]

LEMMA AnthropicSays ==
  ASSUME NEW k \in Nat \ {0}, \A m \in 1..k : EventOK(events, "anthropic", m)
  PROVE  AnthropicEvent(Said(events, "anthropic", k - 1), k) = Said(events, "anthropic", k)
<1> DEFINE P == "anthropic"
           t == InOrder(TextOf(events, P, k - 1), k - 1)
           h == InOrder(ThoughtOf(events, k - 1), k - 1)
           c == CallsOf(events, P, k - 1)
           u == Latest(UsageOf(events, k - 1))
           d == Over(events, k - 1)
           r == Said(events, P, k - 1)
           e == events[k]
           i == e.index
           args == InOrder(ArgsOf(events, k - 1, i), k - 1)
<1>0. k - 1 \in Nat /\ P # "openai"
  OBVIOUS
<1>1. r = Resp(t, h, c, u, d)
  BY SaidIs
<1>2. Said(events, P, k) = Resp(InOrder(TextOf(events, P, k), k), InOrder(ThoughtOf(events, k), k), CallsOf(events, P, k),
                                Latest(UsageOf(events, k)), Over(events, k))
  BY SaidIs
<1>3. /\ e.type \notin {"text", "delta"} => InOrder(TextOf(events, P, k), k) = t
      /\ e.type # "thinking" => InOrder(ThoughtOf(events, k), k) = h
      /\ e.type # "usage" => Latest(UsageOf(events, k)) = u
      /\ e.type # "[DONE]" => Over(events, k) = d
      /\ e.index = None => CallsOf(events, P, k) = c
  BY OthersStay, CallsNext
<1>11. i \in Index => CallsOf(events, P, k) = [c EXCEPT ![i] = CallAt(events, P, k, i)]
  BY CallsNext
<1>4. \/ e.type = "usage" /\ i = None
      \/ e.type \in {"start_text", "start_tool_use"} /\ i \in Index /\ e.id = i /\ ~Begins(events, k - 1, i)
      \/ e.type = "delta" /\ i \in Index /\ Begins(events, k - 1, i)
  <2>1. EventOK(events, P, k)
    OBVIOUS
  <2> QED
    BY <1>0, <2>1 DEF EventOK
<1>5. i \in Index => c[i] = CallAt(events, P, k - 1, i) /\ c = [j \in Index |-> c[j]]
  BY DEF CallsOf
<1>6. CASE e.type = "usage"
  <2>1. Latest(UsageOf(events, k)) = k
    BY <1>6, SaidNext
  <2>2. AnthropicEvent(r, k) = Resp(t, h, c, k, d)
    <3>1. AnthropicEvent(r, k) = [r EXCEPT !.usage = k]
      BY <1>6, Zenon DEF AnthropicEvent
    <3> HIDE DEF t, h, c, u, d, r, e
    <3> QED
      BY <1>1, <3>1, RespUsage
  <2>3. i = None
    BY <1>4, <1>6
  <2> HIDE DEF t, h, c, u, d, e
  <2> QED
    BY <1>2, <1>3, <1>6, <2>1, <2>2, <2>3
<1>7. ASSUME NEW b, e.type \in {"start_text", "start_tool_use", "delta"}, b = CallAt(events, P, k, i),
             AnthropicEvent(r, k) = SetCall(r, i, b), InOrder(TextOf(events, P, k), k) = t
      PROVE  AnthropicEvent(r, k) = Said(events, P, k)
  <2>1. AnthropicEvent(r, k) = Resp(t, h, [c EXCEPT ![i] = b], u, d)
    <3> HIDE DEF t, h, c, u, d, r, e, i
    <3> QED
      BY <1>1, <1>7 DEF Resp, SetCall
  <2>2. i \in Index /\ e.type \notin {"thinking", "usage", "[DONE]"}
    BY <1>4, <1>7
  <2> HIDE DEF t, h, c, u, d, r, e, i
  <2> QED
    BY <1>2, <1>3, <1>7, <1>11, <2>1, <2>2
<1>8. CASE e.type = "start_text"
  <2>1. AsText(events, P, k, i)
    BY <1>0, <1>8, SaidNext
  <2>2. CallAt(events, P, k, i) = [kind |-> "text", id |-> None, args |-> <<>>]
    BY <2>1, CallIs
  <2>3. AnthropicEvent(r, k) = SetCall(r, i, [kind |-> "text", id |-> None, args |-> <<>>])
    BY <1>8, Zenon DEF AnthropicEvent, SetCall
  <2>4. InOrder(TextOf(events, P, k), k) = t
    BY <1>3, <1>8
  <2>5. AnthropicEvent(r, k) = Said(events, P, k)
    <3> HIDE DEF t, h, c, u, d, r, e, i, P
    <3> QED
      BY <1>7, <1>8, <2>2, <2>3, <2>4
  <2> QED
    BY <2>5
<1>9. CASE e.type = "start_tool_use"
  <2>1. ~Begins(events, k - 1, i) /\ e.id = i
    BY <1>4, <1>9
  <2>2. Begins(events, k, i)
    BY SaidNext
  <2>3. ~AsText(events, P, k, i)
    <3>1. ~AsText(events, P, k - 1, i)
      BY <1>0, <2>1, CallIs
    <3> QED
      BY <1>9, <3>1, SaidNext
  <2>4. InOrder(ArgsOf(events, k, i), k) = <<>>
    <3>1. InOrder(ArgsOf(events, k - 1, i), k - 1) = <<>>
      BY <1>0, <2>1, CallIs
    <3>2. k \notin ArgsOf(events, k, i)
      BY <1>9, SaidNext
    <3> QED
      BY <3>1, <3>2, SaidNext DEF Grow
  <2>5. CallAt(events, P, k, i) = [kind |-> "tool_use", id |-> e.id, args |-> <<>>]
    BY <2>1, <2>2, <2>3, <2>4, Zenon DEF CallAt
  <2>6. AnthropicEvent(r, k) = SetCall(r, i, [kind |-> "tool_use", id |-> e.id, args |-> <<>>])
    BY <1>9, Zenon DEF AnthropicEvent, SetCall
  <2>7. InOrder(TextOf(events, P, k), k) = t
    BY <1>3, <1>9
  <2>8. AnthropicEvent(r, k) = Said(events, P, k)
    <3> HIDE DEF t, h, c, u, d, r, e, i, P
    <3> QED
      BY <1>7, <1>9, <2>5, <2>6, <2>7
  <2> QED
    BY <2>8
<1>10. CASE e.type = "delta"
  <2>0. i \in Index /\ Begins(events, k - 1, i)
    BY <1>4, <1>10
  <2>1. r.calls[i] = CallAt(events, P, k - 1, i)
    <3>1. r.calls = c
      <4> HIDE DEF t, h, c, u, d, r
      <4> QED
        BY <1>1 DEF Resp
    <3> HIDE DEF c, r
    <3> QED
      BY <1>5, <2>0, <3>1
  <2>2. AsText(events, P, k, i) <=> AsText(events, P, k - 1, i)
    BY <1>10, SaidNext
  <2>3. Begins(events, k, i)
    BY SaidNext
  <2>4. CASE AsText(events, P, k - 1, i)
    <3>1. CallAt(events, P, k, i) = CallAt(events, P, k - 1, i)
      <4>1. CallAt(events, P, k - 1, i) = [kind |-> "text", id |-> None, args |-> <<>>]
        BY <1>0, <2>4, CallIs
      <4>2. CallAt(events, P, k, i) = [kind |-> "text", id |-> None, args |-> <<>>]
        BY <2>2, <2>4, CallIs
      <4> QED
        BY <4>1, <4>2
    <3>2. CallsOf(events, P, k) = c
      <4>1. CallsOf(events, P, k) = [c EXCEPT ![i] = c[i]]
        BY <1>5, <1>11, <2>0, <3>1, Zenon
      <4> HIDE DEF c, i
      <4> QED
        BY <1>5, <2>0, <4>1
    <3>3. InOrder(TextOf(events, P, k), k) = Append(t, k)
      BY <1>10, <2>4, TextNext DEF Grow
    <3>4. AnthropicEvent(r, k) = Resp(Append(t, k), h, c, u, d)
      <4>1. r.calls[i].kind = "text"
        BY <1>0, <2>1, <2>4, CallIs
      <4>2. AnthropicEvent(r, k) = [r EXCEPT !.text = Append(r.text, k)]
        BY <1>10, <4>1, Zenon DEF AnthropicEvent
      <4> HIDE DEF t, h, c, u, d, r, e
      <4> QED
        BY <1>1, <4>2, RespText
    <3>5. AnthropicEvent(r, k) = Said(events, P, k)
      <4> HIDE DEF t, h, c, u, d, r, e, i, P
      <4> QED
        BY <1>2, <1>3, <1>10, <3>2, <3>3, <3>4
    <3> QED
      BY <3>5
  <2>5. CASE ~AsText(events, P, k - 1, i)
    <3>1. r.calls[i].kind = "tool_use" /\ r.calls[i].id = i /\ r.calls[i].args = args
      BY <1>0, <2>0, <2>1, <2>5, CallIs
    <3>2. InOrder(ArgsOf(events, k, i), k) = Append(args, k)
      BY <1>10, SaidNext DEF Grow
    <3>3. CallAt(events, P, k, i) = [kind |-> "tool_use", id |-> i, args |-> Append(args, k)]
      BY <2>2, <2>3, <2>5, <3>2, Zenon DEF CallAt
    <3>4. AnthropicEvent(r, k) =
            SetCall(r, i, [kind |-> "tool_use", id |-> r.calls[i].id, args |-> Append(r.calls[i].args, k)])
      BY <1>10, <3>1, Zenon DEF AnthropicEvent, SetCall
    <3>5. InOrder(TextOf(events, P, k), k) = t
      <4>1. k \notin TextOf(events, P, k)
        BY <1>10, <2>5, TextNext
      <4> QED
        BY <4>1, TextNext DEF Grow
    <3>6. AnthropicEvent(r, k) = SetCall(r, i, [kind |-> "tool_use", id |-> i, args |-> Append(args, k)])
      <4> HIDE DEF r, i, args
      <4> QED
        BY <3>1, <3>4, Zenon
    <3>7. AnthropicEvent(r, k) = SetCall(r, i, CallAt(events, P, k, i))
      <4> HIDE DEF r, i, args, P
      <4> QED
        BY <3>3, <3>6, Zenon
    <3>8. AnthropicEvent(r, k) = Said(events, P, k)
      <4> HIDE DEF t, h, c, u, d, r, e, i, P, args
      <4> QED
        BY <1>7, <1>10, <3>5, <3>7
    <3> QED
      BY <3>8
  <2> QED
    BY <2>4, <2>5
<1> QED
  BY <1>4, <1>6, <1>8, <1>9, <1>10

-----------------------------------------------------------------------------
(* The data of an event.                                                   *)

DataOf(two, k) ==
  IF two THEN <<<<<<"head", k>>>>, <<<<"tail", k>>>>>> ELSE <<<<<<"head", k>>, <<"tail", k>>>>>>

LEMMA JoinOne ==
  ASSUME NEW x
  PROVE  Join(<<x>>) = x
<1> DEFINE lines == <<x>>
           Is(f) == f = [n \in 1..Len(lines) |-> IF n = 1 THEN lines[1] ELSE f[n - 1] \o <<LF>> \o lines[n]]
           g == CHOOSE f : Is(f)
           h == [n \in 1..1 |-> x]
<1>1. Join(lines) = g[Len(lines)]
  BY Zenon DEF Join
<1>2. Len(lines) = 1 /\ lines[1] = x
  OBVIOUS
<1>3. Is(h)
  BY <1>2
<1>4. Is(g)
  <2> HIDE DEF Is
  <2> QED
    BY <1>3
<1> HIDE DEF g, lines
<1>5. g[1] = x
  BY <1>2, <1>4
<1> QED
  BY <1>1, <1>2, <1>5 DEF lines

LEMMA JoinTwo ==
  ASSUME NEW x, NEW y
  PROVE  Join(<<x, y>>) = x \o <<LF>> \o y
<1> DEFINE lines == <<x, y>>
           Is(f) == f = [n \in 1..Len(lines) |-> IF n = 1 THEN lines[1] ELSE f[n - 1] \o <<LF>> \o lines[n]]
           g == CHOOSE f : Is(f)
           h == [n \in 1..2 |-> IF n = 1 THEN x ELSE x \o <<LF>> \o y]
<1>1. Join(lines) = g[Len(lines)]
  BY Zenon DEF Join
<1>2. Len(lines) = 2 /\ lines[1] = x /\ lines[2] = y
  OBVIOUS
<1>3. Is(h)
  <2> SUFFICES ASSUME NEW n \in 1..2
               PROVE  h[n] = IF n = 1 THEN lines[1] ELSE h[n - 1] \o <<LF>> \o lines[n]
    BY <1>2, Zenon
  <2>1. CASE n = 1
    BY <1>2, <2>1
  <2>2. CASE n = 2
    BY <1>2, <2>2
  <2> QED
    BY <2>1, <2>2
<1>4. Is(g)
  <2> HIDE DEF Is
  <2> QED
    BY <1>3
<1> HIDE DEF g, lines
<1>5. g[1] = x
  BY <1>2, <1>4
<1>6. g[2] = x \o <<LF>> \o y
  <2>1. 2 \in 1..Len(lines) /\ 2 # 1 /\ 2 - 1 = 1
    BY <1>2
  <2>2. g[2] = IF 2 = 1 THEN lines[1] ELSE g[2 - 1] \o <<LF>> \o lines[2]
    BY <1>4, <2>1, Zenon
  <2> QED
    BY <1>2, <1>5, <2>1, <2>2, Zenon
<1> QED
  BY <1>1, <1>2, <1>6 DEF lines

LEMMA Two ==
  ASSUME NEW a, NEW b
  PROVE  Append(<<a>>, b) = <<a, b>>
<1> DEFINE S == {a, b}
           p == <<a>>
           q == <<a, b>>
<1>1. p \in Seq(S) /\ q \in Seq(S) /\ b \in S /\ Len(p) = 1 /\ Len(q) = 2 /\ p[1] = a /\ q[1] = a /\ q[2] = b
  OBVIOUS
<1> HIDE DEF S, p, q
<1>2. /\ Append(p, b) \in Seq(S) /\ Len(Append(p, b)) = Len(p) + 1
      /\ \A i \in 1..Len(p) : Append(p, b)[i] = p[i]
      /\ Append(p, b)[Len(p) + 1] = b
  <2>1. p \in Seq(S) /\ b \in S
    BY <1>1
  <2> QED
    BY <2>1, AppendProperties
<1>3. Append(p, b) = q
  BY <1>1, <1>2, SeqEqual
<1> QED
  BY <1>3 DEF p, q

LEMMA Three ==
  ASSUME NEW a, NEW b, NEW c
  PROVE  <<a>> \o <<b>> \o <<c>> = <<a, b, c>>
<1> DEFINE S == {a, b, c}
<1>0. <<a>> \in Seq(S) /\ <<a, b>> \in Seq(S) /\ b \in S /\ c \in S
  OBVIOUS
<1>4. <<a, b, c>> \in Seq(S) /\ Len(<<a>>) = 1 /\ Len(<<a, b>>) = 2 /\ Len(<<a, b, c>>) = 3
  OBVIOUS
<1>5. /\ <<a>>[1] = a /\ <<a, b>>[1] = a /\ <<a, b>>[2] = b
      /\ <<a, b, c>>[1] = a /\ <<a, b, c>>[2] = b /\ <<a, b, c>>[3] = c
  OBVIOUS
<1> HIDE DEF S
<1>3. Append(<<a>>, b) = <<a, b>> /\ Append(<<a, b>>, c) = <<a, b, c>>
  <2> DEFINE p == <<a>>
             q == <<a, b>>
             r == <<a, b, c>>
  <2>1. p \in Seq(S) /\ q \in Seq(S) /\ r \in Seq(S) /\ b \in S /\ c \in S
    BY <1>0, <1>4
  <2>2. Len(p) = 1 /\ Len(q) = 2 /\ Len(r) = 3 /\ p[1] = a /\ q[1] = a /\ q[2] = b /\ r[1] = a /\ r[2] = b /\ r[3] = c
    BY <1>4, <1>5
  <2> HIDE DEF p, q, r
  <2>3. Append(p, b) = q
    <3>1. Append(p, b) \in Seq(S) /\ Len(Append(p, b)) = 2 /\ Append(p, b)[1] = a /\ Append(p, b)[2] = b
      <4>1. /\ Append(p, b) \in Seq(S) /\ Len(Append(p, b)) = Len(p) + 1
            /\ \A i \in 1..Len(p) : Append(p, b)[i] = p[i]
            /\ Append(p, b)[Len(p) + 1] = b
        BY <2>1, AppendProperties
      <4> QED
        BY <2>2, <4>1
    <3> QED
      BY <2>1, <2>2, <3>1, SeqEqual
  <2>4. Append(q, c) = r
    <3>1. /\ Append(q, c) \in Seq(S) /\ Len(Append(q, c)) = 3
          /\ Append(q, c)[1] = a /\ Append(q, c)[2] = b /\ Append(q, c)[3] = c
      <4>1. /\ Append(q, c) \in Seq(S) /\ Len(Append(q, c)) = Len(q) + 1
            /\ \A i \in 1..Len(q) : Append(q, c)[i] = q[i]
            /\ Append(q, c)[Len(q) + 1] = c
        BY <2>1, AppendProperties
      <4> QED
        BY <2>2, <4>1
    <3> QED
      BY <2>1, <2>2, <3>1, SeqEqual
  <2> QED
    BY <2>3, <2>4 DEF p, q, r
<1>1. <<a>> \o <<b>> = <<a, b>>
  BY <1>0, <1>3, AppendIsConcat
<1>2. <<a, b>> \o <<c>> = <<a, b, c>>
  BY <1>0, <1>3, AppendIsConcat
<1> QED
  BY <1>1, <1>2, Zenon

LEMMA JoinData ==
  ASSUME NEW two \in BOOLEAN, NEW k
  PROVE  Join(DataOf(two, k)) = IF two THEN <<<<"head", k>>, LF, <<"tail", k>>>> ELSE <<<<"head", k>>, <<"tail", k>>>>
<1>1. CASE two
  <2>1. Join(DataOf(two, k)) = <<<<"head", k>>>> \o <<LF>> \o <<<<"tail", k>>>>
    BY <1>1, JoinTwo, Zenon DEF DataOf
  <2>2. <<<<"head", k>>>> \o <<LF>> \o <<<<"tail", k>>>> = <<<<"head", k>>, LF, <<"tail", k>>>>
    BY Three, Zenon
  <2> QED
    BY <1>1, <2>1, <2>2
<1>2. CASE ~two
  BY <1>2, JoinOne, Zenon DEF DataOf
<1> QED
  BY <1>1, <1>2

\* What begins with the first half of the k-th text is no other's.
LEMMA ParsedOf ==
  ASSUME NEW data, NEW k, data = <<>> \/ data[1] \notin {<<"head", j>> : j \in DOMAIN events \ {k}}
  PROVE  Parsed(data) \subseteq {k}
<1> SUFFICES ASSUME NEW j \in Parsed(data), j # k PROVE FALSE
  OBVIOUS
<1>1. j \in DOMAIN events /\ (data = <<<<"head", j>>, <<"tail", j>>>> \/ data = <<<<"head", j>>, LF, <<"tail", j>>>>)
  BY Zenon DEF Parsed
<1>2. data # <<>> /\ data[1] = <<"head", j>>
  BY <1>1
<1> QED
  BY <1>1, <1>2

LEMMA ParsedIs ==
  ASSUME NEW two \in BOOLEAN, NEW k \in DOMAIN events
  PROVE  Parsed(Join(DataOf(two, k))) = {k}
<1> DEFINE data == Join(DataOf(two, k))
<1>1. data \in {<<<<"head", k>>, <<"tail", k>>>>, <<<<"head", k>>, LF, <<"tail", k>>>>}
  BY JoinData, Zenon
<1>2. k \in Parsed(data)
  BY <1>1, Zenon DEF Parsed
<1>3. data[1] = <<"head", k>>
  <2> HIDE DEF data
  <2> QED
    BY <1>1
<1>4. \A j \in DOMAIN events \ {k} : <<"head", k>> # <<"head", j>>
  OBVIOUS
<1> HIDE DEF data
<1>5. Parsed(data) \subseteq {k}
  <2>1. data[1] \notin {<<"head", j>> : j \in DOMAIN events \ {k}}
    BY <1>3, <1>4, Zenon
  <2> QED
    BY <2>1, ParsedOf, Zenon
<1> QED
  BY <1>2, <1>5 DEF data

LEMMA SaidDone ==
  ASSUME NEW ev, NEW P, NEW n
  PROVE  Said(ev, P, n).done <=> Over(ev, n)
<1>1. ASSUME NEW d, d = Over(ev, n) PROVE Said(ev, P, n).done = d
  <2> DEFINE t == InOrder(TextOf(ev, P, n), n)
             h == InOrder(ThoughtOf(ev, n), n)
             c == CallsOf(ev, P, n)
             u == Latest(UsageOf(ev, n))
             r == Said(ev, P, n)
  <2>1. r = Resp(t, h, c, u, d)
    BY <1>1, SaidIs, Zenon
  <2> HIDE DEF t, h, c, u, r
  <2>2. r.done = d
    BY <2>1 DEF Resp
  <2> QED
    BY <2>2 DEF r
<1>2. Said(ev, P, n).done = Over(ev, n)
  BY <1>1, Zenon
<1> QED
  BY <1>2, Zenon

LEMMA AssembleThe ==
  ASSUME NEW k \in DOMAIN events, k \in Nat \ {0}, protocol \in {"openai", "anthropic"},
         \A m \in 1..k : EventOK(events, protocol, m), ~Over(events, k - 1), NEW data, Parsed(data) = {k}
  PROVE  Assemble(Said(events, protocol, k - 1), data) = Said(events, protocol, k)
<1> DEFINE r == Said(events, protocol, k - 1)
<1>2. ~r.done
  BY SaidDone
<1>3. Assemble(r, data) = IF protocol = "openai" THEN OpenAIChunk(r, k) ELSE AnthropicEvent(r, k)
  <2> HIDE DEF r
  <2>1. (CHOOSE j \in Parsed(data) : TRUE) = k
    OBVIOUS
  <2>2. Parsed(data) # {}
    OBVIOUS
  <2> QED
    BY <1>2, <2>1, <2>2, Zenon DEF Assemble
<1>4. ASSUME protocol = "openai" PROVE Assemble(r, data) = Said(events, protocol, k)
  <2>1. Assemble(r, data) = OpenAIChunk(r, k)
    BY <1>3, <1>4, Zenon
  <2>2. OpenAIChunk(Said(events, "openai", k - 1), k) = Said(events, "openai", k)
    BY <1>4, OpenAISays
  <2> QED
    BY <1>4, <2>1, <2>2, Zenon
<1>5. ASSUME protocol = "anthropic" PROVE Assemble(r, data) = Said(events, protocol, k)
  <2>1. Assemble(r, data) = AnthropicEvent(r, k)
    <3>1. protocol # "openai"
      BY <1>5
    <3> QED
      BY <1>3, <3>1, Zenon
  <2>2. AnthropicEvent(Said(events, "anthropic", k - 1), k) = Said(events, "anthropic", k)
    BY <1>5, AnthropicSays
  <2> QED
    BY <1>5, <2>1, <2>2, Zenon
<1> HIDE DEF r
<1>6. Assemble(r, data) = Said(events, protocol, k)
  BY <1>4, <1>5
<1> QED
  BY <1>6 DEF r

LEMMA AssembleSays ==
  ASSUME NEW two \in BOOLEAN, NEW k \in DOMAIN events, k \in Nat \ {0}, protocol \in {"openai", "anthropic"},
         \A m \in 1..k : EventOK(events, protocol, m), ~Over(events, k - 1)
  PROVE  Assemble(Said(events, protocol, k - 1), Join(DataOf(two, k))) = Said(events, protocol, k)
BY ParsedIs, AssembleThe

-----------------------------------------------------------------------------
(* What is said is what is meant.                                          *)

ToolsOf(ev, P, n) == {i \in Index : Begins(ev, n, i) /\ ~AsText(ev, P, n, i)}

CallsIn(ev, n, order) == [c \in DOMAIN order |-> [id |-> order[c], args |-> InOrder(ArgsOf(ev, n, order[c]), n)]]

LEMMA KindIs ==
  ASSUME NEW n, NEW i
  PROVE  Kind(n, i) = IF AsText(events, protocol, n, i) THEN "text" ELSE "tool_use"
BY DEF Kind, AsText

LEMMA MeaningIs ==
  ASSUME NEW n \in Nat
  PROVE  Meaning(n) = [text |-> InOrder(TextOf(events, protocol, n), n), thinking |-> InOrder(ThoughtOf(events, n), n),
                       calls |-> CallsIn(events, n, InOrder(ToolsOf(events, protocol, n), LastIndex)),
                       usage |-> Latest(UsageOf(events, n))]
<1>1. OfText(n) = TextOf(events, protocol, n)
  BY KindIs DEF OfText, TextOf
<1>2. {i \in Index : \E m \in 1..n : events[m].index = i /\ Kind(n, i) = "tool_use"} = ToolsOf(events, protocol, n)
  BY KindIs DEF ToolsOf, Begins
<1>3. /\ \A i : OfCall(n, i) = ArgsOf(events, n, i)
      /\ OfType(n, "thinking") = ThoughtOf(events, n) /\ OfType(n, "usage") = UsageOf(events, n)
  BY DEF OfCall, ArgsOf, OfType, ThoughtOf, UsageOf
<1> QED
  BY <1>1, <1>2, <1>3, Zenon DEF Meaning, CallsIn

LEMMA ToolCallsAre ==
  ASSUME NEW n \in Nat, NEW r, r.calls = CallsOf(events, protocol, n)
  PROVE  toolCalls(r) = CallsIn(events, n, InOrder(ToolsOf(events, protocol, n), LastIndex))
<1> DEFINE T == ToolsOf(events, protocol, n)
           order == InOrder(T, LastIndex)
<1>1. \A i \in Index : r.calls[i] = CallAt(events, protocol, n, i)
  BY DEF CallsOf
<1>2. \A i \in Index : r.calls[i].kind = "tool_use" <=> i \in T
  <2> SUFFICES ASSUME NEW i \in Index PROVE CallAt(events, protocol, n, i).kind = "tool_use" <=> i \in T
    BY <1>1
  <2>1. None # "tool_use"
    BY StreamAssumption
  <2> QED
    BY <2>1, CallIs DEF ToolsOf
<1>3. {i \in Index : r.calls[i].kind = "tool_use"} = T
  <2>1. T \subseteq Index
    BY DEF ToolsOf
  <2> HIDE DEF T
  <2> QED
    BY <1>2, <2>1, Zenon
<1>4. \A c \in DOMAIN order : order[c] \in T
  BY InOrderOf, StreamAssumption
<1>5. ASSUME NEW i \in T
      PROVE  r.calls[i].id = i /\ r.calls[i].args = InOrder(ArgsOf(events, n, i), n)
  <2>1. i \in Index /\ Begins(events, n, i) /\ ~AsText(events, protocol, n, i)
    BY DEF ToolsOf
  <2> QED
    BY <1>1, <2>1, CallIs
<1> HIDE DEF T
<1>6. toolCalls(r) = [c \in DOMAIN order |-> [id |-> r.calls[order[c]].id, args |-> r.calls[order[c]].args]]
  BY <1>3, Zenon DEF toolCalls
<1> HIDE DEF order
<1>7. \A c \in DOMAIN order : [id |-> r.calls[order[c]].id, args |-> r.calls[order[c]].args] =
                              [id |-> order[c], args |-> InOrder(ArgsOf(events, n, order[c]), n)]
  BY <1>4, <1>5, Zenon
<1>8. toolCalls(r) = CallsIn(events, n, order)
  BY <1>6, <1>7, Zenon DEF CallsIn
<1> QED
  BY <1>8 DEF order, T

LEMMA MeansWhatIsSaid ==
  ASSUME NEW n \in Nat, response = Said(events, protocol, n)
  PROVE  Means(n)
<1> DEFINE t == InOrder(TextOf(events, protocol, n), n)
           h == InOrder(ThoughtOf(events, n), n)
           c == CallsOf(events, protocol, n)
           u == Latest(UsageOf(events, n))
           d == Over(events, n)
<1>1. response = Resp(t, h, c, u, d)
  BY SaidIs
<1>2. response.text = t /\ response.thinking = h /\ response.calls = c /\ response.usage = u
  <2> HIDE DEF t, h, c, u, d
  <2> QED
    BY <1>1 DEF Resp
<1>3. toolCalls(response) = CallsIn(events, n, InOrder(ToolsOf(events, protocol, n), LastIndex))
  BY <1>2, ToolCallsAre
<1> QED
  BY <1>2, <1>3, MeaningIs, Zenon DEF Means

-----------------------------------------------------------------------------
(* The parser's steps, by the parts of its state.                          *)

Rs(b, dl, r) == [rd |-> [buffer |-> b, dataLines |-> dl], r |-> r]
St(b, dl, r, cr) == [s |-> Rs(b, dl, r), afterCR |-> cr]

Ended(dl, r) == IF dl = <<>> THEN r ELSE Assemble(r, Join(dl))

LEMMA RsDataIs == ASSUME NEW b, NEW dl, NEW r PROVE Rs(b, dl, r).rd.dataLines = dl
BY DEF Rs

LEMMA RsResponse == ASSUME NEW b, NEW dl, NEW r PROVE Rs(b, dl, r).r = r
BY DEF Rs

LEMMA DispatchIs ==
  ASSUME NEW b, NEW dl, NEW r
  PROVE  dispatch(Rs(b, dl, r)) = Rs(b, <<>>, Ended(dl, r))
<1>1. Rs(b, dl, r).rd.dataLines = dl /\ Rs(b, dl, r).r = r
  <2>1. Rs(b, dl, r).rd.dataLines = dl
    BY RsDataIs
  <2>2. Rs(b, dl, r).r = r
    BY RsResponse
  <2> QED
    BY <2>1, <2>2
<1>2. CASE dl = <<>>
  BY <1>1, <1>2, Zenon DEF dispatch, Ended
<1>3. CASE dl # <<>>
  <2> DEFINE x == Assemble(r, Join(dl))
  <2>1. dispatch(Rs(b, dl, r)) = [rd |-> [Rs(b, dl, r).rd EXCEPT !.dataLines = <<>>], r |-> x]
    BY <1>1, <1>3, Zenon DEF dispatch
  <2>2. Ended(dl, r) = x
    BY <1>3, Zenon DEF Ended
  <2> HIDE DEF x
  <2>3. [rd |-> [Rs(b, dl, r).rd EXCEPT !.dataLines = <<>>], r |-> x] = Rs(b, <<>>, x)
    BY DEF Rs
  <2> QED
    BY <2>1, <2>2, <2>3
<1> QED
  BY <1>2, <1>3

\* What a line does to the lines of data, and to the response.
LineData(dl, written) ==
  IF written = <<>> THEN <<>> ELSE IF written[1] = <<"data:", 0>> THEN Append(dl, Tail(written)) ELSE dl
LineEnded(dl, r, written) == IF written = <<>> THEN Ended(dl, r) ELSE r

LEMMA ProcessIs ==
  ASSUME NEW b, NEW dl, NEW r, NEW written
  PROVE  processLine(Rs(b, dl, r), written) = Rs(b, LineData(dl, written), LineEnded(dl, r, written))
<1>1. CASE written = <<>>
  BY <1>1, DispatchIs, Zenon DEF processLine, LineData, LineEnded
<1>2. CASE written # <<>> /\ written[1] = <<"data:", 0>>
  <2>1. processLine(Rs(b, dl, r), written) = [Rs(b, dl, r) EXCEPT !.rd.dataLines = Append(Rs(b, dl, r).rd.dataLines, Tail(written))]
    BY <1>2, Zenon DEF processLine
  <2>2. Rs(b, dl, r).rd.dataLines = dl
    BY RsDataIs, Zenon
  <2>3. [Rs(b, dl, r) EXCEPT !.rd.dataLines = Append(dl, Tail(written))] = Rs(b, Append(dl, Tail(written)), r)
    <3> DEFINE x == Append(dl, Tail(written))
    <3> HIDE DEF x
    <3>1. [Rs(b, dl, r) EXCEPT !.rd.dataLines = x] = Rs(b, x, r)
      BY DEF Rs
    <3> QED
      BY <3>1 DEF x
  <2> QED
    BY <1>2, <2>1, <2>2, <2>3, Zenon DEF LineData, LineEnded
<1>3. CASE written # <<>> /\ written[1] # <<"data:", 0>>
  BY <1>3, Zenon DEF processLine, LineData, LineEnded
<1> QED
  BY <1>1, <1>2, <1>3

LEMMA StIs ==
  ASSUME NEW b, NEW dl, NEW r, NEW cr
  PROVE  /\ St(b, dl, r, cr).s = Rs(b, dl, r) /\ St(b, dl, r, cr).afterCR = cr
         /\ St(b, dl, r, cr).s.rd.buffer = b
<1>1. St(b, dl, r, cr).s = Rs(b, dl, r)
  BY DEF St
<1>2. St(b, dl, r, cr).afterCR = cr
  BY DEF St
<1>3. Rs(b, dl, r).rd.buffer = b
  BY DEF Rs
<1> DEFINE t == St(b, dl, r, cr)
           s == Rs(b, dl, r)
<1>4. t.s = s /\ s.rd.buffer = b /\ t.afterCR = cr
  BY <1>1, <1>2, <1>3
<1> HIDE DEF t, s
<1>5. t.s = s /\ t.afterCR = cr /\ t.s.rd.buffer = b
  BY <1>4, Zenon
<1> QED
  BY <1>5 DEF t, s

LEMMA TokenOfText ==
  ASSUME NEW b, NEW dl, NEW r, NEW cr, NEW token, token # CR, token # LF
  PROVE  scanToken(St(b, dl, r, cr), token) = St(Append(b, token), dl, r, FALSE)
<1> DEFINE t == St(b, dl, r, cr)
           s == Rs(b, dl, r)
           x == Append(b, token)
<1>1. t.s = s /\ t.s.rd.buffer = b
  BY StIs
<1>2. scanToken(t, token) = [s |-> [t.s EXCEPT !.rd.buffer = Append(t.s.rd.buffer, token)], afterCR |-> FALSE]
  BY Zenon DEF scanToken
<1>3. [s EXCEPT !.rd.buffer = x] = Rs(x, dl, r)
  <2> HIDE DEF x
  <2> QED
    BY DEF Rs
<1> HIDE DEF t, s
<1>4. scanToken(t, token) = [s |-> Rs(x, dl, r), afterCR |-> FALSE]
  BY <1>1, <1>2, <1>3, Zenon
<1> QED
  BY <1>4, Zenon DEF St, t

LEMMA TokenOfEnd ==
  ASSUME NEW b, NEW dl, NEW r, NEW cr, NEW token, token = CR \/ (token = LF /\ ~cr)
  PROVE  scanToken(St(b, dl, r, cr), token) = St(<<>>, LineData(dl, b), LineEnded(dl, r, b), token = CR)
<1> DEFINE t == St(b, dl, r, cr)
           s == Rs(b, dl, r)
<1>0. CR # LF
  BY DEF CR, LF
<1>1. t.s = s /\ t.s.rd.buffer = b /\ t.afterCR = cr
  BY StIs
<1>2. scanToken(t, token) = [s |-> processLine([t.s EXCEPT !.rd.buffer = <<>>], t.s.rd.buffer), afterCR |-> token = CR]
  <2> HIDE DEF t
  <2>1. ~(token = LF /\ t.afterCR) /\ (token = CR \/ (token = LF /\ ~t.afterCR))
    BY <1>0, <1>1, Zenon
  <2> QED
    BY <2>1, Zenon DEF scanToken
<1>3. [s EXCEPT !.rd.buffer = <<>>] = Rs(<<>>, dl, r)
  BY DEF Rs
<1>4. processLine(Rs(<<>>, dl, r), b) = Rs(<<>>, LineData(dl, b), LineEnded(dl, r, b))
  BY ProcessIs
<1> HIDE DEF t, s
<1>5. scanToken(t, token) = [s |-> Rs(<<>>, LineData(dl, b), LineEnded(dl, r, b)), afterCR |-> token = CR]
  BY <1>1, <1>2, <1>3, <1>4, Zenon
<1> QED
  BY <1>5, Zenon DEF St, t

LEMMA TokenOfPair ==
  ASSUME NEW b, NEW dl, NEW r, NEW cr, cr
  PROVE  scanToken(St(b, dl, r, cr), LF) = St(b, dl, r, FALSE)
<1> DEFINE t == St(b, dl, r, cr)
<1>1. t.afterCR
  <2>1. \A x : St(b, dl, r, x).afterCR = x
    BY DEF St
  <2> QED
    BY <2>1, Zenon
<1>2. scanToken(t, LF) = [t EXCEPT !.afterCR = FALSE]
  <2> HIDE DEF t
  <2>1. LF # CR
    BY DEF CR, LF
  <2> QED
    BY <1>1, <2>1, Zenon DEF scanToken
<1>3. ASSUME NEW no, no = FALSE PROVE [t EXCEPT !.afterCR = no] = St(b, dl, r, no)
  BY DEF St
<1> QED
  BY <1>2, <1>3, Zenon

-----------------------------------------------------------------------------
(* The lines of the k-th event, and where the reader is in them.  A place is *)
(* an event, a line of it and how much of that line has been read.           *)

LineText(P, two, k, l) ==
  IF l = 1 THEN IF P = "anthropic" THEN <<<<"event:", 0>>, <<"name", k>>>> ELSE <<<<":", 0>>>>
  ELSE IF l = 2 THEN IF two THEN <<<<"data:", 0>>, <<"head", k>>>> ELSE <<<<"data:", 0>>, <<"head", k>>, <<"tail", k>>>>
  ELSE IF l = 3 THEN <<<<"data:", 0>>, <<"tail", k>>>>
  ELSE <<>>

TextTokens(k) ==
  {<<"event:", 0>>, <<"name", k>>, <<":", 0>>, <<"data:", 0>>, <<"head", k>>, <<"tail", k>>}

NextK(k, l) == IF l = 4 THEN k + 1 ELSE k
NextL(two, l) == IF l = 4 THEN 1 ELSE IF l = 2 /\ ~two THEN 4 ELSE l + 1

LEMMA LineIs ==
  ASSUME NEW P, NEW two, NEW k, NEW l \in 1..4
  PROVE  LineText(P, two, k, l) \in Seq(TextTokens(k))
<1> DEFINE T == TextTokens(k)
<1>1. /\ <<"event:", 0>> \in T /\ <<"name", k>> \in T /\ <<":", 0>> \in T /\ <<"data:", 0>> \in T
      /\ <<"head", k>> \in T /\ <<"tail", k>> \in T
  BY DEF TextTokens
<1> HIDE DEF T
<1>2. /\ <<<<"event:", 0>>, <<"name", k>>>> \in Seq(T) /\ <<<<":", 0>>>> \in Seq(T) /\ <<>> \in Seq(T)
      /\ <<<<"data:", 0>>, <<"head", k>>>> \in Seq(T) /\ <<<<"data:", 0>>, <<"tail", k>>>> \in Seq(T)
      /\ <<<<"data:", 0>>, <<"head", k>>, <<"tail", k>>>> \in Seq(T)
  BY <1>1
<1>3. LineText(P, two, k, l) \in Seq(T)
  BY <1>2, Zenon DEF LineText
<1> QED
  BY <1>3 DEF T

LEMMA NoEnds ==
  ASSUME NEW k
  PROVE  CR \notin TextTokens(k) /\ LF \notin TextTokens(k)
BY DEF CR, LF, TextTokens

\* What is known of the data and of the response before a line.  A reader that
\* takes the LF of a CR LF for an empty line has ended the event already.
Before(ev, P, E, two, k, l, dl, r) ==
  IF l = 1 \/ l = 2 THEN dl = <<>> /\ r = Said(ev, P, k - 1)
  ELSE IF l = 3 THEN dl = <<<<<<"head", k>>>>>> /\ r = Said(ev, P, k - 1)
  ELSE \/ dl = DataOf(two, k) /\ r = Said(ev, P, k - 1)
       \/ E = <<CR, LF>> /\ dl = <<>> /\ r = Said(ev, P, k)

\* What a stream of the provider is; the lines of a pair of them are not cut.
Fits(ev, P, E, two) ==
  /\ P \in {"openai", "anthropic"} /\ E \in LineEnds /\ two \in BOOLEAN /\ ~(two /\ E = <<CR, LF>>)
  /\ \E S : ev \in Seq(S)
  /\ \A m \in 1..Len(ev) : EventOK(ev, P, m) /\ (ev[m].type = "[DONE]" => m = Len(ev))

LEMMA FitsFor ==
  ASSUME Fits(events, protocol, eol, twoLines), NEW k \in 1..Len(events)
  PROVE  /\ twoLines \in BOOLEAN /\ k \in DOMAIN events /\ k \in Nat \ {0} /\ protocol \in {"openai", "anthropic"}
         /\ \A m \in 1..k : EventOK(events, protocol, m)
         /\ ~Over(events, k - 1)
<1>1. /\ twoLines \in BOOLEAN /\ protocol \in {"openai", "anthropic"}
      /\ \A m \in 1..Len(events) : EventOK(events, protocol, m) /\ (events[m].type = "[DONE]" => m = Len(events))
  BY Zenon DEF Fits
<1>2. DOMAIN events = 1..Len(events) /\ Len(events) \in Nat
  BY DEF Fits
<1>3. k \in DOMAIN events /\ k \in Nat \ {0} /\ k <= Len(events) /\ \A m \in 1..k : m \in 1..Len(events)
  BY <1>2
<1>4. ~Over(events, k - 1)
  <2> SUFFICES ASSUME NEW m \in 1..k - 1, events[m].type = "[DONE]" PROVE FALSE
    BY DEF Over
  <2>0. k \in Nat /\ Len(events) \in Nat /\ k <= Len(events)
    BY <1>2, <1>3
  <2>1. m \in 1..Len(events) /\ m # Len(events)
    BY <2>0
  <2> QED
    BY <1>1, <2>1
<1> QED
  BY <1>1, <1>3, <1>4, Zenon

LEMMA EndSays ==
  ASSUME Fits(events, protocol, eol, twoLines), NEW k \in 1..Len(events)
  PROVE  Ended(DataOf(twoLines, k), Said(events, protocol, k - 1)) = Said(events, protocol, k)
<1>1. DataOf(twoLines, k) # <<>>
  BY FitsFor DEF DataOf
<1>2. Assemble(Said(events, protocol, k - 1), Join(DataOf(twoLines, k))) = Said(events, protocol, k)
  BY FitsFor, AssembleSays
<1> QED
  BY <1>1, <1>2, Zenon DEF Ended

LEMMA LineSays ==
  ASSUME Fits(events, protocol, eol, twoLines), NEW k \in 1..Len(events), NEW l \in 1..4, l = 3 => twoLines, NEW dl, NEW r,
         Before(events, protocol, eol, twoLines, k, l, dl, r)
  PROVE  LET written == LineText(protocol, twoLines, k, l)
         IN Before(events, protocol, eol, twoLines, NextK(k, l), NextL(twoLines, l), LineData(dl, written), LineEnded(dl, r, written))
<1> DEFINE written == LineText(protocol, twoLines, k, l)
           was == Said(events, protocol, k - 1)
           is == Said(events, protocol, k)
<1>0. k + 1 - 1 = k
  OBVIOUS
<1>1. CASE l = 1
  <2>1. dl = <<>> /\ r = was
    BY <1>1 DEF Before
  <2>2. written # <<>> /\ written[1] # <<"data:", 0>>
    BY <1>1 DEF LineText
  <2>3. LineData(dl, written) = dl /\ LineEnded(dl, r, written) = r
    BY <2>2, Zenon DEF LineData, LineEnded
  <2>4. NextK(k, l) = k /\ NextL(twoLines, l) = 2
    BY <1>1 DEF NextK, NextL
  <2> QED
    BY <2>1, <2>3, <2>4 DEF Before
<1>2. CASE l = 2
  <2>1. dl = <<>> /\ r = was
    BY <1>2 DEF Before
  <2>2. written = IF twoLines THEN <<<<"data:", 0>>, <<"head", k>>>> ELSE <<<<"data:", 0>>, <<"head", k>>, <<"tail", k>>>>
    BY <1>2 DEF LineText
  <2>3. written # <<>> /\ written[1] = <<"data:", 0>>
    BY <2>2
  <2>4. Tail(written) = IF twoLines THEN <<<<"head", k>>>> ELSE <<<<"head", k>>, <<"tail", k>>>>
    BY <2>2
  <2>5. LineData(dl, written) = <<Tail(written)>> /\ LineEnded(dl, r, written) = r
    <3>1. LineData(dl, written) = Append(<<>>, Tail(written)) /\ LineEnded(dl, r, written) = r
      BY <2>1, <2>3, Zenon DEF LineData, LineEnded
    <3> QED
      BY <3>1
  <2>6. NextK(k, l) = k /\ NextL(twoLines, l) = IF twoLines THEN 3 ELSE 4
    BY <1>2 DEF NextK, NextL
  <2> HIDE DEF written
  <2>7. CASE twoLines
    <3>1. NextL(twoLines, l) = 3 /\ LineData(dl, written) = <<<<<<"head", k>>>>>> /\ LineEnded(dl, r, written) = was
      BY <2>1, <2>4, <2>5, <2>6, <2>7, Zenon
    <3>2. Before(events, protocol, eol, twoLines, NextK(k, l), NextL(twoLines, l), LineData(dl, written), LineEnded(dl, r, written))
      BY <2>6, <3>1 DEF Before
    <3> QED
      BY <3>2 DEF written
  <2>8. CASE ~twoLines
    <3>1. NextL(twoLines, l) = 4 /\ LineData(dl, written) = DataOf(twoLines, k) /\ LineEnded(dl, r, written) = was
      BY <2>1, <2>4, <2>5, <2>6, <2>8, Zenon DEF DataOf
    <3>2. Before(events, protocol, eol, twoLines, NextK(k, l), NextL(twoLines, l), LineData(dl, written), LineEnded(dl, r, written))
      BY <2>6, <3>1 DEF Before
    <3> QED
      BY <3>2 DEF written
  <2> QED
    BY <2>7, <2>8 DEF written
<1>3. CASE l = 3
  <2>1. dl = <<<<<<"head", k>>>>>> /\ r = was
    BY <1>3 DEF Before
  <2>2. written = <<<<"data:", 0>>, <<"tail", k>>>>
    BY <1>3 DEF LineText
  <2>3. written # <<>> /\ written[1] = <<"data:", 0>> /\ Tail(written) = <<<<"tail", k>>>>
    BY <2>2
  <2>4. LineData(dl, written) = Append(dl, <<<<"tail", k>>>>) /\ LineEnded(dl, r, written) = r
    BY <2>3, Zenon DEF LineData, LineEnded
  <2>5. Append(dl, <<<<"tail", k>>>>) = DataOf(twoLines, k)
    BY <1>3, <2>1, Two, Zenon DEF DataOf
  <2>6. NextK(k, l) = k /\ NextL(twoLines, l) = 4
    BY <1>3 DEF NextK, NextL
  <2> QED
    BY <2>1, <2>4, <2>5, <2>6 DEF Before
<1>4. CASE l = 4
  <2>1. written = <<>>
    BY <1>4 DEF LineText
  <2>2. LineData(dl, written) = <<>> /\ LineEnded(dl, r, written) = Ended(dl, r)
    BY <2>1, Zenon DEF LineData, LineEnded
  <2>3. NextK(k, l) = k + 1 /\ NextL(twoLines, l) = 1
    BY <1>4 DEF NextK, NextL
  <2>4. \/ dl = DataOf(twoLines, k) /\ r = was
        \/ dl = <<>> /\ r = is
    BY <1>4 DEF Before
  <2>5. Ended(dl, r) = is
    BY <2>4, EndSays, Zenon DEF Ended
  <2> QED
    BY <1>0, <2>2, <2>3, <2>5 DEF Before
<1> QED
  BY <1>1, <1>2, <1>3, <1>4

\* The empty line seen between the CR and the LF of a pair ends the event, or
\* nothing, if no data have come.
LEMMA EmptyLineSays ==
  ASSUME Fits(events, protocol, eol, twoLines), NEW k \in Nat, NEW l \in {1, 2, 4}, l = 4 => k \in 1..Len(events), NEW dl, NEW r,
         eol = <<CR, LF>>, Before(events, protocol, eol, twoLines, k, l, dl, r)
  PROVE  Before(events, protocol, eol, twoLines, k, l, <<>>, Ended(dl, r))
<1>1. CASE l # 4
  <2>1. dl = <<>> /\ r = Said(events, protocol, k - 1)
    BY <1>1 DEF Before
  <2>2. Ended(dl, r) = r
    BY <2>1, Zenon DEF Ended
  <2> QED
    BY <1>1, <2>1, <2>2 DEF Before
<1>2. CASE l = 4
  <2>1. \/ dl = DataOf(twoLines, k) /\ r = Said(events, protocol, k - 1)
        \/ dl = <<>> /\ r = Said(events, protocol, k)
    BY <1>2 DEF Before
  <2>2. k \in 1..Len(events)
    BY <1>2
  <2>3. Ended(dl, r) = Said(events, protocol, k)
    BY <2>1, <2>2, EndSays, Zenon DEF Ended
  <2> QED
    BY <1>2, <2>3 DEF Before
<1> QED
  BY <1>1, <1>2

-----------------------------------------------------------------------------
(* The reader at a place: the c-th token of the l-th line of the k-th event.  *)

Width(P, E, two, k, l) == Len(LineText(P, two, k, l)) + Len(E)

IsPlace(P, E, two, n, k, l, c) ==
  k \in 1..n /\ l \in 1..4 /\ (l = 3 => two) /\ c \in Nat /\ c < Width(P, E, two, k, l)

TokenAt(P, E, two, k, l, c) ==
  LET text == LineText(P, two, k, l) IN IF c < Len(text) THEN text[c + 1] ELSE E[c - Len(text) + 1]

Succ(P, E, two, k, l, c) ==
  IF c + 1 < Width(P, E, two, k, l) THEN <<k, l, c + 1>> ELSE <<NextK(k, l), NextL(two, l), 0>>

\* In the text of a line or before its end, and between the two of a pair.
InText(ev, P, E, two, k, l, c, b, dl, r, cr) ==
  /\ c <= Len(LineText(P, two, k, l)) /\ b = SubSeq(LineText(P, two, k, l), 1, c)
  /\ Before(ev, P, E, two, k, l, dl, r) /\ (cr => E = <<CR>>)
InPair(ev, P, E, two, k, l, c, b, dl, r) ==
  /\ E = <<CR, LF>> /\ c = Len(LineText(P, two, k, l)) + 1 /\ b = <<>>
  /\ Before(ev, P, E, two, NextK(k, l), NextL(two, l), dl, r)
At(ev, P, E, two, k, l, c, b, dl, r, cr) ==
  InText(ev, P, E, two, k, l, c, b, dl, r, cr) \/ InPair(ev, P, E, two, k, l, c, b, dl, r)

LEMMA OneMore ==
  ASSUME NEW S, NEW q \in Seq(S), NEW n \in Nat, n < Len(q)
  PROVE  Append(SubSeq(q, 1, n), q[n + 1]) = SubSeq(q, 1, n + 1) /\ q[n + 1] \in S
BY DEF SubSeq

LEMMA EndsAre ==
  ASSUME NEW E \in LineEnds
  PROVE  /\ E = <<LF>> \/ E = <<CR>> \/ E = <<CR, LF>>
         /\ E = <<LF>> => Len(E) = 1 /\ E[1] = LF
         /\ E = <<CR>> => Len(E) = 1 /\ E[1] = CR
         /\ E = <<CR, LF>> => Len(E) = 2 /\ E[1] = CR /\ E[2] = LF
         /\ CR # LF
BY DEF LineEnds, CR, LF

LEMMA AtLineStart ==
  ASSUME NEW ev, NEW P, NEW E, NEW two, NEW k, NEW l \in 1..4, NEW dl, NEW r, NEW cr, cr => E = <<CR>>,
         Before(ev, P, E, two, k, l, dl, r)
  PROVE  At(ev, P, E, two, k, l, 0, <<>>, dl, r, cr)
<1>1. LineText(P, two, k, l) \in Seq(TextTokens(k))
  BY LineIs
<1>2. 0 <= Len(LineText(P, two, k, l)) /\ SubSeq(LineText(P, two, k, l), 1, 0) = <<>>
  <2> DEFINE q == LineText(P, two, k, l)
  <2> HIDE DEF q
  <2>1. q \in Seq(TextTokens(k)) => 0 <= Len(q) /\ SubSeq(q, 1, 0) = <<>>
    OBVIOUS
  <2> QED
    BY <1>1, <2>1 DEF q
<1> QED
  BY <1>2, Zenon DEF At, InText

\* A token more.
LEMMA StepSays ==
  ASSUME Fits(events, protocol, eol, twoLines), NEW k, NEW l, NEW c,
         IsPlace(protocol, eol, twoLines, Len(events), k, l, c), NEW b, NEW dl, NEW r, NEW cr,
         At(events, protocol, eol, twoLines, k, l, c, b, dl, r, cr)
  PROVE  \E kk, ll, cc, bb, ddl, rr, ccr :
           /\ Succ(protocol, eol, twoLines, k, l, c) = <<kk, ll, cc>>
           /\ scanToken(St(b, dl, r, cr), TokenAt(protocol, eol, twoLines, k, l, c)) = St(bb, ddl, rr, ccr)
           /\ At(events, protocol, eol, twoLines, kk, ll, cc, bb, ddl, rr, ccr)
<1> DEFINE text == LineText(protocol, twoLines, k, l)
           token == TokenAt(protocol, eol, twoLines, k, l, c)
           kn == NextK(k, l)
           ln == NextL(twoLines, l)
<1>1. /\ k \in 1..Len(events) /\ l \in 1..4 /\ (l = 3 => twoLines) /\ c \in Nat /\ c < Len(text) + Len(eol)
  BY Zenon DEF IsPlace, Width
<1>2. text \in Seq(TextTokens(k))
  BY <1>1, LineIs
<1>3. eol \in LineEnds /\ twoLines \in BOOLEAN /\ ~(twoLines /\ eol = <<CR, LF>>)
  BY Zenon DEF Fits
<1>4. Succ(protocol, eol, twoLines, k, l, c) = IF c + 1 < Len(text) + Len(eol) THEN <<k, l, c + 1>> ELSE <<kn, ln, 0>>
  BY Zenon DEF Succ, Width
<1>5. token = IF c < Len(text) THEN text[c + 1] ELSE eol[c - Len(text) + 1]
  BY Zenon DEF TokenAt
<1>6. ln \in 1..4
  BY <1>1 DEF NextL
<1>7. Len(text) \in Nat
  BY <1>2
<1> HIDE DEF text, token, kn, ln
<1>8. CASE c < Len(text)
  <2>1. InText(events, protocol, eol, twoLines, k, l, c, b, dl, r, cr)
    <3>1. c # Len(text) + 1
      BY <1>1, <1>7, <1>8
    <3> QED
      BY <3>1, Zenon DEF At, InPair, text
  <2>2. b = SubSeq(text, 1, c) /\ Before(events, protocol, eol, twoLines, k, l, dl, r)
    BY <2>1, Zenon DEF InText, text
  <2>3. token = text[c + 1]
    BY <1>5, <1>8
  <2>4. Append(b, token) = SubSeq(text, 1, c + 1) /\ token \in TextTokens(k)
    BY <1>1, <1>2, <1>8, <2>2, <2>3, OneMore
  <2>5. token # CR /\ token # LF
    BY <2>4, NoEnds
  <2>6. scanToken(St(b, dl, r, cr), token) = St(Append(b, token), dl, r, FALSE)
    BY <2>5, TokenOfText
  <2>7. Succ(protocol, eol, twoLines, k, l, c) = <<k, l, c + 1>>
    <3>1. Len(eol) >= 1
      BY <1>3, EndsAre
    <3>2. c + 1 < Len(text) + Len(eol)
      BY <1>1, <1>3, <1>7, <1>8, <3>1, EndsAre
    <3> QED
      BY <1>4, <3>2
  <2>8. c + 1 <= Len(text)
    BY <1>1, <1>7, <1>8
  <2>9. InText(events, protocol, eol, twoLines, k, l, c + 1, Append(b, token), dl, r, FALSE)
    BY <2>2, <2>4, <2>8, Zenon DEF InText, text
  <2> QED
    BY <2>6, <2>7, <2>9, Zenon DEF At, token
<1>9. CASE c = Len(text)
  <2>1. InText(events, protocol, eol, twoLines, k, l, c, b, dl, r, cr)
    <3>1. c # Len(text) + 1
      BY <1>1, <1>7, <1>9
    <3> QED
      BY <3>1, Zenon DEF At, InPair, text
  <2>2. b = SubSeq(text, 1, c) /\ Before(events, protocol, eol, twoLines, k, l, dl, r) /\ (cr => eol = <<CR>>)
    BY <2>1, Zenon DEF InText, text
  <2>3. b = text
    BY <1>2, <1>9, <2>2
  <2>4. token = eol[1]
    BY <1>5, <1>7, <1>9
  <2>5. token = CR \/ (token = LF /\ ~cr)
    <3>1. token = CR \/ (token = LF /\ eol = <<LF>>)
      BY <1>3, <2>4, EndsAre
    <3>2. <<CR>> # <<LF>>
      BY DEF CR, LF
    <3> QED
      BY <2>2, <3>1, <3>2, Zenon
  <2>6. scanToken(St(b, dl, r, cr), token) = St(<<>>, LineData(dl, text), LineEnded(dl, r, text), token = CR)
    BY <2>3, <2>5, TokenOfEnd
  <2>7. Before(events, protocol, eol, twoLines, kn, ln, LineData(dl, text), LineEnded(dl, r, text))
    BY <1>1, <2>2, LineSays, Zenon DEF text, kn, ln
  <2>8. CASE eol = <<CR, LF>>
    <3>1. Succ(protocol, eol, twoLines, k, l, c) = <<k, l, c + 1>>
      <4>1. c + 1 < Len(text) + Len(eol)
        BY <1>1, <1>3, <1>7, <1>9, <2>8, EndsAre
      <4> QED
        BY <1>4, <4>1
    <3>2. c + 1 = Len(text) + 1
      BY <1>9
    <3>3. InPair(events, protocol, eol, twoLines, k, l, c + 1, <<>>, LineData(dl, text), LineEnded(dl, r, text))
      BY <2>7, <2>8, <3>2, Zenon DEF InPair, text, kn, ln
    <3> QED
      BY <2>6, <3>1, <3>3, Zenon DEF At, token
  <2>9. CASE eol # <<CR, LF>>
    <3>1. Succ(protocol, eol, twoLines, k, l, c) = <<kn, ln, 0>>
      <4>1. Len(eol) = 1
        BY <1>3, <2>9, EndsAre
      <4>2. ~(c + 1 < Len(text) + Len(eol))
        BY <1>7, <1>9, <4>1
      <4> QED
        BY <1>4, <4>2
    <3>2. (token = CR) => eol = <<CR>>
      BY <1>3, <2>4, <2>9, EndsAre
    <3>3. At(events, protocol, eol, twoLines, kn, ln, 0, <<>>, LineData(dl, text), LineEnded(dl, r, text), token = CR)
      BY <1>6, <2>7, <3>2, AtLineStart
    <3> QED
      BY <2>6, <3>1, <3>3, Zenon DEF token
  <2> QED
    BY <2>8, <2>9
<1>10. CASE c > Len(text)
  <2>1. eol = <<CR, LF>> /\ c = Len(text) + 1
    <3>1. Len(eol) = 1 \/ (eol = <<CR, LF>> /\ Len(eol) = 2)
      BY <1>3, EndsAre
    <3>2. c \in Nat /\ c < Len(text) + Len(eol)
      BY <1>1
    <3>3. Len(eol) # 1
      <4>1. ASSUME NEW one, one = 1, c < Len(text) + one PROVE FALSE
        BY <1>7, <1>10, <3>2, <4>1
      <4> QED
        BY <3>2, <4>1
    <3>4. eol = <<CR, LF>> /\ Len(eol) = 2
      BY <3>1, <3>3
    <3>5. c = Len(text) + 1
      <4>1. Len(eol) = 2
        BY <3>4
      <4> QED
        BY <1>7, <1>10, <3>2, <4>1
    <3> QED
      BY <3>4, <3>5
  <2>2. InPair(events, protocol, eol, twoLines, k, l, c, b, dl, r)
    <3>1. ~(c <= Len(text))
      BY <1>1, <1>7, <1>10
    <3> QED
      BY <3>1, Zenon DEF At, InText, text
  <2>3. b = <<>> /\ Before(events, protocol, eol, twoLines, kn, ln, dl, r)
    BY <2>2, Zenon DEF InPair, kn, ln
  <2>4. token = LF
    <3>1. c - Len(text) + 1 = 2 /\ ~(c < Len(text))
      BY <1>1, <1>7, <2>1
    <3> QED
      BY <1>3, <1>5, <2>1, <3>1, EndsAre
  <2>5. Succ(protocol, eol, twoLines, k, l, c) = <<kn, ln, 0>>
    <3>1. ~(c + 1 < Len(text) + Len(eol))
      BY <1>1, <1>3, <1>7, <2>1, EndsAre
    <3> QED
      BY <1>4, <3>1
  <2>6. CASE cr
    <3>1. scanToken(St(b, dl, r, cr), token) = St(<<>>, dl, r, FALSE)
      BY <2>3, <2>4, <2>6, TokenOfPair
    <3>2. At(events, protocol, eol, twoLines, kn, ln, 0, <<>>, dl, r, FALSE)
      BY <1>6, <2>3, AtLineStart
    <3> QED
      BY <2>5, <3>1, <3>2, Zenon DEF token
  <2>7. CASE ~cr
    <3>1. scanToken(St(b, dl, r, cr), token) = St(<<>>, LineData(dl, b), LineEnded(dl, r, b), token = CR)
      BY <2>4, <2>7, TokenOfEnd
    <3>2. LineData(dl, b) = <<>> /\ LineEnded(dl, r, b) = Ended(dl, r)
      BY <2>3, Zenon DEF LineData, LineEnded
    <3>3. kn \in Nat /\ ln \in {1, 2, 4} /\ (ln = 4 => kn \in 1..Len(events))
      BY <1>1, <1>3, <2>1 DEF kn, ln, NextK, NextL
    <3>4. Before(events, protocol, eol, twoLines, kn, ln, <<>>, Ended(dl, r))
      BY <2>1, <2>3, <3>3, EmptyLineSays
    <3>5. (token = CR) => eol = <<CR>>
      BY <1>3, <2>4, EndsAre
    <3>6. At(events, protocol, eol, twoLines, kn, ln, 0, <<>>, <<>>, Ended(dl, r), token = CR)
      BY <1>6, <3>4, <3>5, AtLineStart
    <3> QED
      BY <2>5, <3>1, <3>2, <3>6, Zenon DEF token
  <2> QED
    BY <2>6, <2>7
<1>11. c < Len(text) \/ c = Len(text) \/ c > Len(text)
  <2>1. c \in Nat
    BY <1>1
  <2> QED
    BY <1>7, <2>1
<1> QED
  BY <1>8, <1>9, <1>10, <1>11

-----------------------------------------------------------------------------
(* A chunk.                                                                 *)

ScanTo(f, base, chunk, m) == f[0] = base /\ \A x \in 1..m : f[x] = scanToken(f[x - 1], chunk[x])

Scans(f, base, chunk, L) == f = [n \in 0..L |-> IF n = 0 THEN base ELSE scanToken(f[n - 1], chunk[n])]

LEMMA ScanGoes ==
  ASSUME NEW base, NEW chunk, NEW L \in Nat
  PROVE  \E f : Scans(f, base, chunk, L)
<1> DEFINE Good == {m \in 0..L : \E f : ScanTo(f, base, chunk, m)}
<1>1. 0 \in Good
  <2> DEFINE f == [n \in 0..0 |-> base]
  <2>1. ScanTo(f, base, chunk, 0)
    BY DEF ScanTo
  <2> QED
    BY <2>1
<1>2. ASSUME NEW m \in 1..L, m - 1 \in Good PROVE m \in Good
  <2>1. PICK f : ScanTo(f, base, chunk, m - 1)
    BY <1>2
  <2> DEFINE h == [n \in 0..m |-> IF n = m THEN scanToken(f[m - 1], chunk[m]) ELSE f[n]]
  <2>2. h[m] = scanToken(f[m - 1], chunk[m]) /\ \A n \in 0..m - 1 : h[n] = f[n]
    OBVIOUS
  <2> HIDE DEF h
  <2>3. h[0] = base
    <3>1. 0 \in 0..m - 1
      OBVIOUS
    <3> QED
      BY <2>1, <2>2, <3>1, Zenon DEF ScanTo
  <2>4. ASSUME NEW x \in 1..m PROVE h[x] = scanToken(h[x - 1], chunk[x])
    <3>1. x - 1 \in 0..m - 1 /\ (x = m \/ (x \in 0..m - 1 /\ x \in 1..m - 1))
      OBVIOUS
    <3> QED
      BY <2>1, <2>2, <3>1, Zenon DEF ScanTo
  <2>5. ScanTo(h, base, chunk, m)
    BY <2>3, <2>4, Zenon DEF ScanTo
  <2>6. m \in 0..L
    OBVIOUS
  <2> QED
    BY <2>5, <2>6
<1> HIDE DEF Good
<1>3. \A m \in 0..L : m \in Good
  BY <1>1, <1>2, UpTo
<1>4. L \in Good
  BY <1>3
<1>5. PICK f : ScanTo(f, base, chunk, L)
  BY <1>4 DEF Good
<1> DEFINE h == [n \in 0..L |-> f[n]]
<1>6. \A n \in 0..L : h[n] = IF n = 0 THEN base ELSE scanToken(h[n - 1], chunk[n])
  <2> SUFFICES ASSUME NEW n \in 0..L PROVE h[n] = IF n = 0 THEN base ELSE scanToken(h[n - 1], chunk[n])
    OBVIOUS
  <2>1. h[n] = f[n]
    OBVIOUS
  <2>2. n # 0 => n \in 1..L /\ n - 1 \in 0..L
    OBVIOUS
  <2>3. n # 0 => h[n - 1] = f[n - 1]
    BY <2>2
  <2> HIDE DEF h
  <2> QED
    BY <1>5, <2>1, <2>2, <2>3, Zenon DEF ScanTo
<1>7. h = [n \in 0..L |-> h[n]]
  OBVIOUS
<1> HIDE DEF h
<1>8. h = [n \in 0..L |-> IF n = 0 THEN base ELSE scanToken(h[n - 1], chunk[n])]
  BY <1>6, <1>7
<1> QED
  BY <1>8 DEF Scans

LEMMA ScanIs ==
  ASSUME NEW s, NEW chunk, Len(chunk) \in Nat
  PROVE  \E t : /\ t[0] = [s |-> s, afterCR |-> FALSE]
                /\ \A x \in 1..Len(chunk) : t[x] = scanToken(t[x - 1], chunk[x])
                /\ scan(s, chunk) = t[Len(chunk)].s
<1> DEFINE L == Len(chunk)
           base == [s |-> s, afterCR |-> FALSE]
           Is(f) == f = [n \in 0..L |-> IF n = 0 THEN base ELSE scanToken(f[n - 1], chunk[n])]
           t == CHOOSE f : Is(f)
<1>1. scan(s, chunk) = t[L].s
  BY Zenon DEF scan
<1>2. \E f : Is(f)
  <2>1. L \in Nat
    OBVIOUS
  <2> HIDE DEF L, base
  <2>2. \E f : Scans(f, base, chunk, L)
    BY <2>1, ScanGoes
  <2> QED
    BY <2>2 DEF Scans
<1>3. Is(t)
  <2> HIDE DEF Is
  <2> QED
    BY <1>2
<1> HIDE DEF t, base
<1>4. t[0] = base
  <2>1. 0 \in 0..L
    OBVIOUS
  <2> QED
    BY <1>3, <2>1
<1>5. ASSUME NEW x \in 1..L PROVE t[x] = scanToken(t[x - 1], chunk[x])
  <2>1. x \in 0..L /\ x # 0
    OBVIOUS
  <2> QED
    BY <1>3, <2>1
<1> QED
  BY <1>1, <1>4, <1>5, Zenon DEF base

\* The way from place to place a text follows, and where it leads.
Follows(P, E, two, n, g, s) ==
  \A x \in 1..Len(s) :
    /\ IsPlace(P, E, two, n, g[x - 1][1], g[x - 1][2], g[x - 1][3])
    /\ s[x] = TokenAt(P, E, two, g[x - 1][1], g[x - 1][2], g[x - 1][3])
    /\ g[x] = Succ(P, E, two, g[x - 1][1], g[x - 1][2], g[x - 1][3])

IsText(s) == \E S : s \in Seq(S)

Leads(P, E, two, n, p, s, q) ==
  IsText(s) /\ \E g : Follows(P, E, two, n, g, s) /\ g[0] = p /\ g[Len(s)] = q

AtP(ev, P, E, two, p, b, dl, r, cr) == At(ev, P, E, two, p[1], p[2], p[3], b, dl, r, cr)
AtRest(ev, P, E, two, p, b, dl, r) == At(ev, P, E, two, p[1], p[2], p[3], b, dl, r, FALSE)

LEMMA ScanSays ==
  ASSUME Fits(events, protocol, eol, twoLines), NEW p, NEW q, NEW s,
         Leads(protocol, eol, twoLines, Len(events), p, s, q),
         NEW b, NEW dl, NEW r, AtRest(events, protocol, eol, twoLines, p, b, dl, r)
  PROVE  \E bb, ddl, rr : scan(Rs(b, dl, r), s) = Rs(bb, ddl, rr) /\ AtRest(events, protocol, eol, twoLines, q, bb, ddl, rr)
<1> DEFINE L == Len(s)
           Reads(f, g, x) == \E bb, ddl, rr, ccr : f = St(bb, ddl, rr, ccr) /\ AtP(events, protocol, eol, twoLines, g, bb, ddl, rr, ccr)
<1>1. L \in Nat
  BY DEF Leads, IsText
<1>2. PICK g : Follows(protocol, eol, twoLines, Len(events), g, s) /\ g[0] = p /\ g[L] = q
  BY Zenon DEF Leads
<1>3. PICK t : /\ t[0] = [s |-> Rs(b, dl, r), afterCR |-> FALSE]
               /\ \A x \in 1..L : t[x] = scanToken(t[x - 1], s[x])
               /\ scan(Rs(b, dl, r), s) = t[L].s
  BY <1>1, ScanIs
<1> DEFINE Good == {x \in 0..L : Reads(t[x], g[x], x)}
<1>4. 0 \in Good
  <2>1. t[0] = St(b, dl, r, FALSE)
    BY <1>3, Zenon DEF St
  <2>2. AtP(events, protocol, eol, twoLines, p, b, dl, r, FALSE)
    BY Zenon DEF AtRest, AtP
  <2>3. Reads(t[0], g[0], 0)
    BY <1>2, <2>1, <2>2, Zenon
  <2> QED
    BY <1>1, <2>3
<1>5. ASSUME NEW x \in 1..L, x - 1 \in Good PROVE x \in Good
  <2>1. PICK bb, ddl, rr, ccr : /\ t[x - 1] = St(bb, ddl, rr, ccr)
                                /\ AtP(events, protocol, eol, twoLines, g[x - 1], bb, ddl, rr, ccr)
    BY <1>5
  <2> DEFINE k == g[x - 1][1]
             l == g[x - 1][2]
             c == g[x - 1][3]
  <2>2. /\ IsPlace(protocol, eol, twoLines, Len(events), k, l, c)
        /\ s[x] = TokenAt(protocol, eol, twoLines, k, l, c)
        /\ g[x] = Succ(protocol, eol, twoLines, k, l, c)
    BY <1>2, Zenon DEF Follows
  <2>3. t[x] = scanToken(St(bb, ddl, rr, ccr), TokenAt(protocol, eol, twoLines, k, l, c))
    BY <1>3, <2>1, <2>2, Zenon
  <2>4. At(events, protocol, eol, twoLines, k, l, c, bb, ddl, rr, ccr)
    BY <2>1, Zenon DEF AtP
  <2> HIDE DEF k, l, c
  <2>5. PICK k2, l2, c2, b2, dl2, r2, cr2 :
           /\ Succ(protocol, eol, twoLines, k, l, c) = <<k2, l2, c2>>
           /\ scanToken(St(bb, ddl, rr, ccr), TokenAt(protocol, eol, twoLines, k, l, c)) = St(b2, dl2, r2, cr2)
           /\ At(events, protocol, eol, twoLines, k2, l2, c2, b2, dl2, r2, cr2)
    BY <2>2, <2>4, StepSays
  <2>6. g[x] = <<k2, l2, c2>> /\ t[x] = St(b2, dl2, r2, cr2)
    BY <2>2, <2>3, <2>5, Zenon
  <2>7. g[x][1] = k2 /\ g[x][2] = l2 /\ g[x][3] = c2
    BY <2>6
  <2>8. AtP(events, protocol, eol, twoLines, g[x], b2, dl2, r2, cr2)
    BY <2>5, <2>7, Zenon DEF AtP
  <2>9. Reads(t[x], g[x], x)
    BY <2>6, <2>8, Zenon
  <2>10. x \in 0..L
    OBVIOUS
  <2> QED
    BY <2>9, <2>10
<1> HIDE DEF Good
<1>6. \A x \in 0..L : x \in Good
  BY <1>1, <1>4, <1>5, UpTo
<1>7. L \in Good
  BY <1>1, <1>6
<1>8. PICK bb, ddl, rr, ccr : t[L] = St(bb, ddl, rr, ccr) /\ AtP(events, protocol, eol, twoLines, g[L], bb, ddl, rr, ccr)
  BY <1>7 DEF Good
<1>9. scan(Rs(b, dl, r), s) = Rs(bb, ddl, rr)
  <2>1. St(bb, ddl, rr, ccr).s = Rs(bb, ddl, rr)
    BY StIs
  <2> QED
    BY <1>3, <1>8, <2>1, Zenon
<1>10. AtRest(events, protocol, eol, twoLines, q, bb, ddl, rr)
  BY <1>2, <1>8, Zenon DEF AtRest, AtP, At, InText
<1> QED
  BY <1>9, <1>10

LEMMA LeadsNowhere ==
  ASSUME NEW P, NEW E, NEW two, NEW n, NEW p, NEW q
  PROVE  Leads(P, E, two, n, p, <<>>, q) <=> p = q
<1>1. Leads(P, E, two, n, p, <<>>, q) => p = q
  <2>1. Len(<<>>) = 0
    OBVIOUS
  <2> QED
    BY <2>1, Zenon DEF Leads
<1>2. ASSUME p = q PROVE Leads(P, E, two, n, p, <<>>, q)
  <2> DEFINE g == [x \in 0..0 |-> p]
  <2>1. g[0] = p /\ Len(<<>>) = 0 /\ 1..0 = {} /\ <<>> \in Seq({})
    OBVIOUS
  <2> HIDE DEF g
  <2>2. Follows(P, E, two, n, g, <<>>)
    <3> SUFFICES ASSUME NEW x \in 1..Len(<<>>) PROVE FALSE
      BY Zenon DEF Follows
    <3> QED
      OBVIOUS
  <2>3. IsText(<<>>)
    BY <2>1, Zenon DEF IsText
  <2> QED
    BY <1>2, <2>1, <2>2, <2>3, Zenon DEF Leads
<1> QED
  BY <1>1, <1>2

LEMMA LeadsFurther ==
  ASSUME NEW P, NEW E, NEW two, NEW n \in Nat, NEW p, NEW s, NEW q, Leads(P, E, two, n, p, s, q)
  PROVE  Leads(P, E, two, n + 1, p, s, q)
<1>1. \A k, l, c : IsPlace(P, E, two, n, k, l, c) => IsPlace(P, E, two, n + 1, k, l, c)
  BY DEF IsPlace
<1> QED
  BY <1>1, Zenon DEF Leads, Follows

\* One text after another.
LEMMA LeadsOn ==
  ASSUME NEW P, NEW E, NEW two, NEW n, NEW p, NEW s, NEW q, NEW t, NEW z,
         Leads(P, E, two, n, p, s, q), Leads(P, E, two, n, q, t, z)
  PROVE  Leads(P, E, two, n, p, s \o t, z)
<1>1. PICK S : s \in Seq(S)
  BY DEF Leads, IsText
<1>2. PICK T : t \in Seq(T)
  BY DEF Leads, IsText
<1>3. PICK g : Follows(P, E, two, n, g, s) /\ g[0] = p /\ g[Len(s)] = q
  BY Zenon DEF Leads
<1>4. PICK h : Follows(P, E, two, n, h, t) /\ h[0] = q /\ h[Len(t)] = z
  BY Zenon DEF Leads
<1> DEFINE both == s \o t
           L == Len(s)
           M == Len(t)
           f == [x \in 0..L + M |-> IF x <= L THEN g[x] ELSE h[x - L]]
<1>5. L \in Nat /\ M \in Nat
  BY <1>1, <1>2
<1>6. /\ both \in Seq(S \cup T) /\ Len(both) = L + M
      /\ \A x \in 1..L + M : both[x] = IF x <= L THEN s[x] ELSE t[x - L]
  <2>1. s \in Seq(S \cup T) /\ t \in Seq(S \cup T)
    BY <1>1, <1>2
  <2> QED
    BY <2>1, ConcatProperties
<1>7. (\A x \in 0..L : f[x] = g[x]) /\ \A x \in 0..M : f[L + x] = h[x]
  <2>1. ASSUME NEW x \in 0..L PROVE f[x] = g[x]
    BY <1>5
  <2>2. ASSUME NEW x \in 0..M PROVE f[L + x] = h[x]
    <3>1. L + x \in 0..L + M /\ L + x - L = x /\ (L + x <= L => x = 0 /\ L + x = L)
      BY <1>5
    <3>2. f[L + x] = IF L + x <= L THEN g[L + x] ELSE h[L + x - L]
      BY <3>1
    <3> HIDE DEF f
    <3> QED
      BY <1>3, <1>4, <3>1, <3>2, Zenon
  <2> QED
    BY <2>1, <2>2, Zenon
<1> HIDE DEF f, both, L, M
<1>8. ASSUME NEW x \in 1..L + M
      PROVE  /\ IsPlace(P, E, two, n, f[x - 1][1], f[x - 1][2], f[x - 1][3])
             /\ both[x] = TokenAt(P, E, two, f[x - 1][1], f[x - 1][2], f[x - 1][3])
             /\ f[x] = Succ(P, E, two, f[x - 1][1], f[x - 1][2], f[x - 1][3])
  <2>1. CASE x <= L
    <3>1. x \in 0..L /\ x - 1 \in 0..L /\ x \in 1..L
      BY <1>5, <2>1
    <3>2. f[x] = g[x] /\ f[x - 1] = g[x - 1] /\ both[x] = s[x]
      BY <1>6, <1>7, <2>1, <3>1, Zenon
    <3>3. /\ IsPlace(P, E, two, n, g[x - 1][1], g[x - 1][2], g[x - 1][3])
          /\ s[x] = TokenAt(P, E, two, g[x - 1][1], g[x - 1][2], g[x - 1][3])
          /\ g[x] = Succ(P, E, two, g[x - 1][1], g[x - 1][2], g[x - 1][3])
      BY <1>3, <3>1, Zenon DEF Follows, L
    <3> QED
      BY <3>2, <3>3, Zenon
  <2>2. CASE ~(x <= L)
    <3> DEFINE y == x - L
    <3>1. y \in 0..M /\ y - 1 \in 0..M /\ y \in 1..M /\ L + y = x /\ L + (y - 1) = x - 1
      BY <1>5, <2>2
    <3> HIDE DEF y
    <3>2. f[x] = h[y] /\ f[x - 1] = h[y - 1]
      BY <1>7, <3>1, Zenon
    <3>3. both[x] = t[y]
      BY <1>6, <2>2, Zenon DEF y
    <3>4. /\ IsPlace(P, E, two, n, h[y - 1][1], h[y - 1][2], h[y - 1][3])
          /\ t[y] = TokenAt(P, E, two, h[y - 1][1], h[y - 1][2], h[y - 1][3])
          /\ h[y] = Succ(P, E, two, h[y - 1][1], h[y - 1][2], h[y - 1][3])
      BY <1>4, <3>1, Zenon DEF Follows, M
    <3> QED
      BY <3>2, <3>3, <3>4, Zenon
  <2> QED
    BY <2>1, <2>2
<1>9. f[0] = p /\ f[L + M] = z
  <2>1. 0 \in 0..L /\ M \in 0..M
    BY <1>5
  <2> QED
    BY <1>3, <1>4, <1>7, <2>1, Zenon DEF L, M
<1>10. Follows(P, E, two, n, f, both)
  BY <1>6, <1>8, Zenon DEF Follows
<1>11. IsText(both)
  BY <1>6, Zenon DEF IsText
<1>12. Leads(P, E, two, n, p, both, z)
  BY <1>6, <1>9, <1>10, <1>11, Zenon DEF Leads
<1> QED
  BY <1>12 DEF both

\* A text cut in two.
LEMMA LeadsBy ==
  ASSUME NEW P, NEW E, NEW two, NEW n, NEW p, NEW s, NEW q, Leads(P, E, two, n, p, s, q), NEW m \in 1..Len(s)
  PROVE  \E z : /\ Leads(P, E, two, n, p, SubSeq(s, 1, m), z) /\ Leads(P, E, two, n, z, SubSeq(s, m + 1, Len(s)), q)
<1>1. PICK S : s \in Seq(S)
  BY DEF Leads, IsText
<1>2. PICK g : Follows(P, E, two, n, g, s) /\ g[0] = p /\ g[Len(s)] = q
  BY Zenon DEF Leads
<1> DEFINE L == Len(s)
           a == SubSeq(s, 1, m)
           b == SubSeq(s, m + 1, L)
           h == [x \in 0..L - m |-> g[m + x]]
<1>3. L \in Nat /\ m \in Nat /\ m <= L /\ L - m \in Nat
  BY <1>1
<1>4. a \in Seq(S) /\ Len(a) = m /\ \A x \in 1..m : a[x] = s[x]
  BY <1>1, <1>3, SubSeqProperties
<1>5. b \in Seq(S) /\ Len(b) = L - m /\ \A x \in 1..L - m : b[x] = s[m + x]
  BY <1>1, <1>3, SubSeqProperties
<1>6. \A x \in 0..L - m : h[x] = g[m + x]
  OBVIOUS
<1> HIDE DEF L, a, b, h
<1>7. Leads(P, E, two, n, p, a, g[m])
  <2>1. Follows(P, E, two, n, g, a)
    <3>1. \A x \in 1..m : x \in 1..L
      BY <1>3
    <3> QED
      BY <1>2, <1>4, <3>1, Zenon DEF Follows, L
  <2>2. IsText(a)
    BY <1>4, Zenon DEF IsText
  <2> QED
    BY <1>2, <1>4, <2>1, <2>2, Zenon DEF Leads
<1>8. Leads(P, E, two, n, g[m], b, q)
  <2>1. Follows(P, E, two, n, h, b)
    <3>1. ASSUME NEW x \in 1..L - m
          PROVE  /\ IsPlace(P, E, two, n, h[x - 1][1], h[x - 1][2], h[x - 1][3])
                 /\ b[x] = TokenAt(P, E, two, h[x - 1][1], h[x - 1][2], h[x - 1][3])
                 /\ h[x] = Succ(P, E, two, h[x - 1][1], h[x - 1][2], h[x - 1][3])
      <4> DEFINE y == m + x
      <4>1. y \in 1..L /\ m + (x - 1) = y - 1 /\ x \in 0..L - m /\ x - 1 \in 0..L - m
        BY <1>3
      <4>2. h[x] = g[m + x] /\ h[x - 1] = g[m + (x - 1)] /\ b[x] = s[m + x]
        BY <1>5, <1>6, <4>1, Zenon
      <4>3. h[x] = g[y] /\ h[x - 1] = g[y - 1] /\ b[x] = s[y]
        BY <4>1, <4>2, Zenon
      <4> HIDE DEF y
      <4>4. /\ IsPlace(P, E, two, n, g[y - 1][1], g[y - 1][2], g[y - 1][3])
            /\ s[y] = TokenAt(P, E, two, g[y - 1][1], g[y - 1][2], g[y - 1][3])
            /\ g[y] = Succ(P, E, two, g[y - 1][1], g[y - 1][2], g[y - 1][3])
        BY <1>2, <4>1, Zenon DEF Follows, L
      <4> QED
        BY <4>3, <4>4, Zenon
    <3> QED
      BY <1>5, <3>1, Zenon DEF Follows
  <2>2. IsText(b)
    BY <1>5, Zenon DEF IsText
  <2>3. h[0] = g[m] /\ h[L - m] = g[L]
    <3>1. 0 \in 0..L - m /\ L - m \in 0..L - m /\ m + 0 = m /\ m + (L - m) = L
      BY <1>3
    <3> QED
      BY <1>6, <3>1, Zenon
  <2> QED
    BY <1>2, <1>5, <2>1, <2>2, <2>3, Zenon DEF Leads, L
<1> QED
  BY <1>7, <1>8, Zenon DEF a, b, L

\* The lines of an event.
LEMMA LineLeads ==
  ASSUME NEW P, NEW E \in LineEnds, NEW two \in BOOLEAN, NEW n \in Nat, NEW k \in 1..n, NEW l \in 1..4, l = 3 => two
  PROVE  Leads(P, E, two, n, <<k, l, 0>>, LineText(P, two, k, l) \o E, <<NextK(k, l), NextL(two, l), 0>>)
<1> DEFINE text == LineText(P, two, k, l)
           W == Len(text) + Len(E)
           kn == NextK(k, l)
           ln == NextL(two, l)
           written == text \o E
           g == [c \in 0..W |-> IF c < W THEN <<k, l, c>> ELSE <<kn, ln, 0>>]
<1>1. PICK S : text \in Seq(S) /\ E \in Seq(S)
  <2>1. text \in Seq(TextTokens(k) \cup {CR, LF})
    <3>1. text \in Seq(TextTokens(k))
      BY LineIs
    <3> HIDE DEF text
    <3> QED
      BY <3>1
  <2>2. E \in Seq(TextTokens(k) \cup {CR, LF})
    <3>1. E = <<LF>> \/ E = <<CR>> \/ E = <<CR, LF>>
      BY EndsAre
    <3> DEFINE T == TextTokens(k) \cup {CR, LF}
    <3>2. CR \in T /\ LF \in T
      OBVIOUS
    <3> HIDE DEF T
    <3>3. <<LF>> \in Seq(T) /\ <<CR>> \in Seq(T) /\ <<CR, LF>> \in Seq(T)
      BY <3>2
    <3>4. E \in Seq(T)
      BY <3>1, <3>3, Zenon
    <3> QED
      BY <3>4 DEF T
  <2> QED
    BY <2>1, <2>2
<1> HIDE DEF text
<1>2. Len(text) \in Nat /\ Len(E) \in Nat /\ Len(E) # 0
  <2>1. Len(E) # 0
    BY EndsAre
  <2> QED
    BY <1>1, <2>1
<1>3. written \in Seq(S) /\ Len(written) = W /\ \A x \in 1..W : written[x] = IF x <= Len(text) THEN text[x] ELSE E[x - Len(text)]
  BY <1>1, ConcatProperties
<1>4. \A c \in 0..W : g[c] = IF c < W THEN <<k, l, c>> ELSE <<kn, ln, 0>>
  OBVIOUS
<1> HIDE DEF kn, ln, written, g
<1>5. ASSUME NEW x \in 1..W
      PROVE  /\ IsPlace(P, E, two, n, g[x - 1][1], g[x - 1][2], g[x - 1][3])
             /\ written[x] = TokenAt(P, E, two, g[x - 1][1], g[x - 1][2], g[x - 1][3])
             /\ g[x] = Succ(P, E, two, g[x - 1][1], g[x - 1][2], g[x - 1][3])
  <2> DEFINE c == x - 1
  <2>1. c \in 0..W /\ c \in Nat /\ c < W /\ c + 1 = x /\ x \in 0..W
    BY <1>2
  <2> HIDE DEF c
  <2>2. g[c] = <<k, l, c>>
    BY <1>4, <2>1, Zenon
  <2>3. g[c][1] = k /\ g[c][2] = l /\ g[c][3] = c
    BY <2>2
  <2>4. IsPlace(P, E, two, n, k, l, c)
    BY <2>1, Zenon DEF IsPlace, Width, text
  <2>5. written[x] = TokenAt(P, E, two, k, l, c)
    <3>1. (x <= Len(text) <=> c < Len(text)) /\ x - Len(text) = c - Len(text) + 1
      BY <1>2, <2>1
    <3>2. written[x] = IF c < Len(text) THEN text[c + 1] ELSE E[c - Len(text) + 1]
      BY <1>3, <2>1, <3>1, Zenon
    <3> QED
      BY <3>2, Zenon DEF TokenAt, text
  <2>6. g[x] = Succ(P, E, two, k, l, c)
    <3>1. Succ(P, E, two, k, l, c) = IF x < W THEN <<k, l, x>> ELSE <<kn, ln, 0>>
      BY <2>1, Zenon DEF Succ, Width, text, kn, ln
    <3> QED
      BY <1>4, <2>1, <3>1, Zenon
  <2> QED
    BY <2>3, <2>4, <2>5, <2>6, Zenon DEF c
<1>6. Follows(P, E, two, n, g, written)
  BY <1>3, <1>5, Zenon DEF Follows
<1>7. g[0] = <<k, l, 0>> /\ g[W] = <<kn, ln, 0>>
  <2>1. 0 \in 0..W /\ W \in 0..W /\ 0 < W /\ ~(W < W)
    BY <1>2
  <2> QED
    BY <1>4, <2>1, Zenon
<1>8. IsText(written)
  BY <1>3, Zenon DEF IsText
<1>9. Leads(P, E, two, n, <<k, l, 0>>, written, <<kn, ln, 0>>)
  BY <1>3, <1>6, <1>7, <1>8, Zenon DEF Leads
<1> QED
  BY <1>9 DEF written, kn, ln, text

LEMMA LinesLead ==
  ASSUME NEW n \in Nat, NEW k \in 1..n, eol \in LineEnds, twoLines \in BOOLEAN
  PROVE  Leads(protocol, eol, twoLines, n, <<k, 1, 0>>, Lines(k), <<k + 1, 1, 0>>)
<1> DEFINE Line(l) == LineText(protocol, twoLines, k, l) \o eol
           L(p, s, q) == Leads(protocol, eol, twoLines, n, p, s, q)
<1>1. NextK(k, 1) = k /\ NextK(k, 2) = k /\ NextK(k, 3) = k /\ NextK(k, 4) = k + 1
  BY DEF NextK
<1>2. /\ NextL(twoLines, 1) = 2 /\ NextL(twoLines, 2) = (IF twoLines THEN 3 ELSE 4)
      /\ NextL(twoLines, 3) = 4 /\ NextL(twoLines, 4) = 1
  BY DEF NextL
<1>0. ASSUME NEW l \in 1..4, l = 3 => twoLines
      PROVE  L(<<k, l, 0>>, Line(l), <<NextK(k, l), NextL(twoLines, l), 0>>)
  BY <1>0, LineLeads, Zenon
<1>3. L(<<k, 1, 0>>, Line(1), <<k, 2, 0>>)
  <2>1. L(<<k, 1, 0>>, Line(1), <<NextK(k, 1), NextL(twoLines, 1), 0>>)
    <3>1. 1 \in 1..4 /\ 1 # 3
      OBVIOUS
    <3> QED
      BY <1>0, <3>1, Zenon
  <2> QED
    BY <1>1, <1>2, <2>1, Zenon
<1>4. L(<<k, 2, 0>>, Line(2), <<k, IF twoLines THEN 3 ELSE 4, 0>>)
  <2>1. L(<<k, 2, 0>>, Line(2), <<NextK(k, 2), NextL(twoLines, 2), 0>>)
    <3>1. 2 \in 1..4 /\ 2 # 3
      OBVIOUS
    <3> QED
      BY <1>0, <3>1, Zenon
  <2> QED
    BY <1>1, <1>2, <2>1, Zenon
<1>5. ASSUME twoLines PROVE L(<<k, 3, 0>>, Line(3), <<k, 4, 0>>)
  <2>1. L(<<k, 3, 0>>, Line(3), <<NextK(k, 3), NextL(twoLines, 3), 0>>)
    <3>1. 3 \in 1..4
      OBVIOUS
    <3> QED
      BY <1>0, <1>5, <3>1, Zenon
  <2> QED
    BY <1>1, <1>2, <2>1, Zenon
<1>6. L(<<k, 4, 0>>, Line(4), <<k + 1, 1, 0>>)
  <2>1. L(<<k, 4, 0>>, Line(4), <<NextK(k, 4), NextL(twoLines, 4), 0>>)
    <3>1. 4 \in 1..4 /\ 4 # 3
      OBVIOUS
    <3> QED
      BY <1>0, <3>1, Zenon
  <2> QED
    BY <1>1, <1>2, <2>1, Zenon
<1> DEFINE Middle == IF twoLines THEN Line(2) \o Line(3) ELSE Line(2)
<1>7. L(<<k, 2, 0>>, Middle, <<k, 4, 0>>)
  <2>1. CASE twoLines
    <3>1. L(<<k, 2, 0>>, Line(2), <<k, 3, 0>>)
      BY <1>4, <2>1
    <3> HIDE DEF Line
    <3>2. L(<<k, 2, 0>>, Line(2) \o Line(3), <<k, 4, 0>>)
      BY <1>5, <2>1, <3>1, LeadsOn
    <3> QED
      BY <2>1, <3>2
  <2>2. CASE ~twoLines
    <3>1. L(<<k, 2, 0>>, Line(2), <<k, 4, 0>>)
      BY <1>4, <2>2
    <3> HIDE DEF Line
    <3> QED
      BY <2>2, <3>1
  <2> QED
    BY <2>1, <2>2
<1>8. Lines(k) = Line(1) \o Middle \o Line(4)
  <2>1. /\ LineText(protocol, twoLines, k, 1) = IF protocol = "anthropic" THEN <<<<"event:", 0>>, <<"name", k>>>> ELSE <<<<":", 0>>>>
        /\ LineText(protocol, twoLines, k, 2) = IF twoLines THEN <<<<"data:", 0>>, <<"head", k>>>> ELSE <<<<"data:", 0>>, <<"head", k>>, <<"tail", k>>>>
        /\ LineText(protocol, twoLines, k, 3) = <<<<"data:", 0>>, <<"tail", k>>>>
        /\ LineText(protocol, twoLines, k, 4) = <<>>
    BY DEF LineText
  <2>2. CASE twoLines
    BY <2>1, <2>2, Zenon DEF Lines
  <2>3. CASE ~twoLines
    BY <2>1, <2>3, Zenon DEF Lines
  <2> QED
    BY <2>2, <2>3
<1> HIDE DEF Line, Middle
<1>9. L(<<k, 1, 0>>, Line(1) \o Middle, <<k, 4, 0>>)
  BY <1>3, <1>7, LeadsOn
<1>10. L(<<k, 1, 0>>, Line(1) \o Middle \o Line(4), <<k + 1, 1, 0>>)
  BY <1>6, <1>9, LeadsOn
<1> QED
  BY <1>8, <1>10, Zenon

-----------------------------------------------------------------------------
(* What is left over when the stream ends.                                  *)

LEMMA AssembleLeft ==
  ASSUME Fits(events, protocol, eol, twoLines), NEW k \in 1..Len(events), NEW data, Parsed(data) \subseteq {k}
  PROVE  \/ Assemble(Said(events, protocol, k - 1), data) = Said(events, protocol, k - 1)
         \/ Assemble(Said(events, protocol, k - 1), data) = Said(events, protocol, k)
<1>1. CASE Parsed(data) = {}
  BY <1>1, Zenon DEF Assemble
<1>2. CASE Parsed(data) # {}
  <2>1. Parsed(data) = {k}
    BY <1>2
  <2> QED
    BY <2>1, FitsFor, AssembleThe
<1> QED
  BY <1>1, <1>2

LEMMA EndedLeft ==
  ASSUME Fits(events, protocol, eol, twoLines), NEW k \in 1..Len(events), NEW dl,
         \/ dl = <<>> \/ dl = <<<<>>>> \/ dl = <<<<<<"head", k>>>>>> \/ dl = <<<<<<"head", k>>>>, <<>>>>
         \/ dl = DataOf(twoLines, k)
  PROVE  \/ Ended(dl, Said(events, protocol, k - 1)) = Said(events, protocol, k - 1)
         \/ Ended(dl, Said(events, protocol, k - 1)) = Said(events, protocol, k)
<1> DEFINE h == <<"head", k>>
           r == Said(events, protocol, k - 1)
<1>0. \A j \in DOMAIN events \ {k} : h # <<"head", j>>
  OBVIOUS
<1>1. CASE dl = <<>>
  BY <1>1, Zenon DEF Ended
<1>2. CASE dl = <<<<>>>>
  <2>1. Join(dl) = <<>> /\ dl # <<>>
    BY <1>2, JoinOne
  <2>2. Parsed(<<>>) \subseteq {k}
    BY ParsedOf
  <2> QED
    BY <2>1, <2>2, AssembleLeft, Zenon DEF Ended
<1>3. CASE dl = <<<<h>>>>
  <2>1. Join(dl) = <<h>> /\ dl # <<>>
    BY <1>3, JoinOne
  <2>2. Parsed(<<h>>) \subseteq {k}
    <3>1. <<h>>[1] = h
      OBVIOUS
    <3>2. <<h>>[1] \notin {<<"head", j>> : j \in DOMAIN events \ {k}}
      BY <1>0, <3>1, Zenon
    <3> HIDE DEF h
    <3> QED
      BY <3>2, ParsedOf
  <2> QED
    BY <2>1, <2>2, AssembleLeft, Zenon DEF Ended
<1>4. CASE dl = <<<<h>>, <<>>>>
  <2>1. Join(dl) = <<h, LF>> /\ dl # <<>>
    <3>1. Join(dl) = <<h>> \o <<LF>> \o <<>>
      BY <1>4, JoinTwo
    <3> HIDE DEF h
    <3>2. <<h>> \o <<LF>> \in Seq({h, LF}) /\ <<h>> \o <<LF>> = <<h, LF>>
      <4>1. <<h>> \in Seq({h, LF}) /\ LF \in {h, LF}
        OBVIOUS
      <4>2. Append(<<h>>, LF) = <<h>> \o <<LF>>
        BY <4>1, AppendIsConcat
      <4>3. <<h, LF>> \in Seq({h, LF})
        OBVIOUS
      <4> QED
        BY <4>2, <4>3, Two
    <3>3. <<h>> \o <<LF>> \o <<>> = <<h, LF>>
      BY <3>2, ConcatEmptySeq
    <3>4. dl # <<>>
      BY <1>4
    <3> QED
      BY <3>1, <3>3, <3>4
  <2>2. Parsed(<<h, LF>>) \subseteq {k}
    <3> HIDE DEF h
    <3>1. <<h, LF>>[1] = h
      OBVIOUS
    <3>2. <<h, LF>>[1] \notin {<<"head", j>> : j \in DOMAIN events \ {k}}
      BY <1>0, <3>1, Zenon
    <3> QED
      BY <3>2, ParsedOf
  <2> QED
    BY <2>1, <2>2, AssembleLeft, Zenon DEF Ended
<1>5. CASE dl = DataOf(twoLines, k)
  BY <1>5, EndSays
<1> QED
  BY <1>1, <1>2, <1>3, <1>4, <1>5

\* What has been read is what some first events say.
LEMMA BeforeSays ==
  ASSUME NEW k \in 1..Len(events) + 1, NEW l \in 1..4, k = Len(events) + 1 => l = 1, NEW dl, NEW r, Len(events) \in Nat,
         Before(events, protocol, eol, twoLines, k, l, dl, r)
  PROVE  \E m \in 0..Len(events) : r = Said(events, protocol, m)
<1>1. r = Said(events, protocol, k - 1) \/ (l = 4 /\ r = Said(events, protocol, k))
  BY DEF Before
<1>2. k - 1 \in 0..Len(events) /\ (l = 4 => k \in 0..Len(events))
  OBVIOUS
<1> QED
  BY <1>1, <1>2

LEMMA NothingLeft ==
  ASSUME Fits(events, protocol, eol, twoLines), NEW k \in 1..Len(events) + 1, NEW l \in 1..4, k = Len(events) + 1 => l = 1,
         NEW dl, NEW r, Before(events, protocol, eol, twoLines, k, l, dl, r)
  PROVE  \E m \in 0..Len(events) : Ended(dl, r) = Said(events, protocol, m)
<1>0. Len(events) \in Nat
  BY DEF Fits
<1>1. CASE dl = <<>>
  <2>1. Ended(dl, r) = r
    BY <1>1, Zenon DEF Ended
  <2> QED
    BY <1>0, <2>1, BeforeSays
<1>2. CASE dl # <<>>
  <2>1. r = Said(events, protocol, k - 1) /\ (dl = <<<<<<"head", k>>>>>> \/ dl = DataOf(twoLines, k)) /\ l # 1
    BY <1>2, Zenon DEF Before
  <2>2. k \in 1..Len(events) /\ k - 1 \in 0..Len(events) /\ k \in 0..Len(events)
    BY <1>0, <2>1
  <2>3. Ended(dl, r) = Said(events, protocol, k - 1) \/ Ended(dl, r) = Said(events, protocol, k)
    BY <2>1, <2>2, EndedLeft
  <2> QED
    BY <2>2, <2>3
<1> QED
  BY <1>1, <1>2

\* A prefix of a line of data.
LEMMA PrefixOf ==
  ASSUME NEW S, NEW q \in Seq(S), NEW c \in 1..Len(q)
  PROVE  LET b == SubSeq(q, 1, c)
         IN /\ b # <<>> /\ b[1] = q[1]
            /\ c = 1 => Tail(b) = <<>>
            /\ c = 2 => Tail(b) = <<q[2]>>
            /\ c = 3 => Tail(b) = <<q[2], q[3]>>
<1>1. /\ SubSeq(q, 1, c) \in Seq(S) /\ Len(SubSeq(q, 1, c)) = c /\ \A x \in 1..c : SubSeq(q, 1, c)[x] = q[x]
  <2>1. \A x \in 1..c : q[x] \in S
    OBVIOUS
  <2> QED
    BY <2>1, SubSeqProperties
<1> DEFINE b == SubSeq(q, 1, c)
           t == Tail(b)
<1>2. b # <<>> /\ b[1] = q[1]
  BY <1>1
<1> HIDE DEF b
<1>3. t \in Seq(S) /\ Len(t) = c - 1 /\ \A x \in 1..c - 1 : t[x] = q[x + 1]
  <2>1. b \in Seq(S) /\ Len(b) = c /\ \A x \in 1..c : b[x] = q[x]
    BY <1>1 DEF b
  <2> QED
    BY <1>2, <2>1, HeadTailProperties
<1> HIDE DEF t
<1>4. c = 1 => t = <<>>
  BY <1>3
<1>5. c = 2 => t = <<q[2]>>
  <2> SUFFICES ASSUME c = 2 PROVE t = <<q[2]>>
    OBVIOUS
  <2>1. Len(t) = 1 /\ t[1] = q[2]
    BY <1>3
  <2> QED
    BY <1>3, <2>1
<1>6. c = 3 => t = <<q[2], q[3]>>
  <2> SUFFICES ASSUME c = 3 PROVE t = <<q[2], q[3]>>
    OBVIOUS
  <2>1. Len(t) = 2 /\ t[1] = q[2] /\ t[2] = q[3]
    BY <1>3
  <2> QED
    BY <1>3, <2>1
<1> QED
  BY <1>2, <1>4, <1>5, <1>6, Zenon DEF b, t

LEMMA TextLeft ==
  ASSUME Fits(events, protocol, eol, twoLines), NEW k \in 1..Len(events) + 1, NEW l \in 1..4, k = Len(events) + 1 => l = 1,
         l = 3 => twoLines, NEW c \in 1..Len(LineText(protocol, twoLines, k, l)), NEW dl, NEW r,
         Before(events, protocol, eol, twoLines, k, l, dl, r)
  PROVE  LET b == SubSeq(LineText(protocol, twoLines, k, l), 1, c)
         IN \E m \in 0..Len(events) : Ended(LineData(dl, b), LineEnded(dl, r, b)) = Said(events, protocol, m)
<1> DEFINE text == LineText(protocol, twoLines, k, l)
           b == SubSeq(text, 1, c)
           was == Said(events, protocol, k - 1)
           Claim == \E m \in 0..Len(events) : Ended(LineData(dl, b), LineEnded(dl, r, b)) = Said(events, protocol, m)
<1>0. Len(events) \in Nat /\ twoLines \in BOOLEAN
  BY DEF Fits
<1>1. text \in Seq(TextTokens(k))
  BY LineIs
<1>2. /\ b # <<>> /\ b[1] = text[1] /\ (c = 1 => Tail(b) = <<>>) /\ (c = 2 => Tail(b) = <<text[2]>>)
      /\ (c = 3 => Tail(b) = <<text[2], text[3]>>)
  <2>1. c \in 1..Len(text)
    OBVIOUS
  <2> HIDE DEF text
  <2> QED
    BY <1>1, <2>1, PrefixOf
<1>3. CASE l = 1
  <2>1. text[1] # <<"data:", 0>>
    BY <1>3 DEF LineText
  <2>2. dl = <<>> /\ r = was
    BY <1>3 DEF Before
  <2> HIDE DEF b, text
  <2>3. LineData(dl, b) = <<>> /\ LineEnded(dl, r, b) = was
    BY <1>2, <2>1, <2>2, Zenon DEF LineData, LineEnded
  <2>4. Ended(LineData(dl, b), LineEnded(dl, r, b)) = was
    BY <2>3, Zenon DEF Ended
  <2>5. k - 1 \in 0..Len(events)
    BY <1>0
  <2>6. Claim
    BY <2>4, <2>5
  <2> QED
    BY <2>6 DEF b, text
<1>4. CASE l # 1
  <2>0. k \in 1..Len(events) /\ k - 1 \in 0..Len(events) /\ k \in 0..Len(events)
    BY <1>0, <1>4
  <2>1. l # 4
    <3>1. l = 4 => text = <<>>
      BY DEF LineText
    <3> QED
      BY <3>1
  <2>2. text[1] = <<"data:", 0>>
    BY <1>4, <2>1 DEF LineText
  <2>3. r = was
    BY <1>4, <2>1 DEF Before
  <2>4. LineData(dl, b) = Append(dl, Tail(b)) /\ LineEnded(dl, r, b) = was
    <3> HIDE DEF b, text
    <3> QED
      BY <1>2, <2>2, <2>3, Zenon DEF LineData, LineEnded
  <2> DEFINE d == Append(dl, Tail(b))
  <2>5. CASE l = 2
    <3>1. dl = <<>>
      BY <2>5 DEF Before
    <3>2. d = <<Tail(b)>>
      BY <3>1
    <3>3. /\ text[2] = <<"head", k>> /\ (c = 1 \/ c = 2 \/ (c = 3 /\ ~twoLines))
          /\ (~twoLines => text[3] = <<"tail", k>>)
      <4>1. text = IF twoLines THEN <<<<"data:", 0>>, <<"head", k>>>> ELSE <<<<"data:", 0>>, <<"head", k>>, <<"tail", k>>>>
        BY <2>5 DEF LineText
      <4>2. Len(text) = IF twoLines THEN 2 ELSE 3
        BY <4>1
      <4>3. text[2] = <<"head", k>> /\ (~twoLines => text[3] = <<"tail", k>>)
        BY <4>1
      <4> HIDE DEF text
      <4>4. c \in 1..Len(text)
        BY DEF text
      <4> QED
        BY <1>0, <4>2, <4>3, <4>4
    <3>4. c = 1 => d = <<<<>>>>
      BY <1>2, <3>2, Zenon
    <3>5. c = 2 => d = <<<<<<"head", k>>>>>>
      BY <1>2, <3>2, <3>3, Zenon
    <3>9. c = 3 => ~twoLines
      BY <3>3
    <3>6. c = 3 => d = DataOf(twoLines, k)
      BY <1>2, <3>2, <3>3, <3>9, Zenon DEF DataOf
    <3> HIDE DEF d
    <3>7. d = <<<<>>>> \/ d = <<<<<<"head", k>>>>>> \/ d = DataOf(twoLines, k)
      BY <3>3, <3>4, <3>5, <3>6, Zenon
    <3>8. Ended(d, was) = was \/ Ended(d, was) = Said(events, protocol, k)
      BY <2>0, <3>7, EndedLeft
    <3> QED
      BY <2>0, <2>4, <3>8, Zenon DEF d
  <2>6. CASE l = 3
    <3>1. dl = <<<<<<"head", k>>>>>>
      BY <2>6 DEF Before
    <3>2. text[2] = <<"tail", k>> /\ (c = 1 \/ c = 2)
      <4>1. text = <<<<"data:", 0>>, <<"tail", k>>>>
        BY <2>6 DEF LineText
      <4>2. Len(text) = 2 /\ text[2] = <<"tail", k>>
        BY <4>1
      <4> HIDE DEF text
      <4>3. c \in 1..Len(text)
        BY DEF text
      <4> QED
        BY <4>2, <4>3
    <3>3. d = <<<<<<"head", k>>>>, Tail(b)>>
      BY <3>1, Two, Zenon
    <3>4. c = 1 => d = <<<<<<"head", k>>>>, <<>>>>
      BY <1>2, <3>3, Zenon
    <3>5. c = 2 => d = DataOf(twoLines, k)
      BY <1>2, <2>6, <3>2, <3>3, Zenon DEF DataOf
    <3> HIDE DEF d
    <3>6. d = <<<<<<"head", k>>>>, <<>>>> \/ d = DataOf(twoLines, k)
      BY <3>2, <3>4, <3>5, Zenon
    <3>7. Ended(d, was) = was \/ Ended(d, was) = Said(events, protocol, k)
      BY <2>0, <3>6, EndedLeft
    <3> QED
      BY <2>0, <2>4, <3>7, Zenon DEF d
  <2> QED
    BY <1>4, <2>1, <2>5, <2>6
<1> QED
  BY <1>3, <1>4

-----------------------------------------------------------------------------
(* Where a reader can be: before the n-th event has been read, or at its end. *)

IsSpot(two, n, p) ==
  /\ p[1] \in 1..n + 1 /\ p[2] \in 1..4 /\ (p[2] = 3 => two) /\ p[3] \in Nat
  /\ (p[1] = n + 1 => p[2] = 1 /\ p[3] = 0)

LEMMA LeadsFrom ==
  ASSUME NEW P, NEW E, NEW two, NEW n \in Nat, NEW p, NEW s, Leads(P, E, two, n, p, s, <<n + 1, 1, 0>>)
  PROVE  IsSpot(two, n, p)
<1>1. PICK g : Follows(P, E, two, n, g, s) /\ g[0] = p /\ g[Len(s)] = <<n + 1, 1, 0>>
  BY Zenon DEF Leads
<1>2. Len(s) \in Nat
  BY DEF Leads, IsText
<1>3. CASE Len(s) = 0
  <2>1. p = <<n + 1, 1, 0>>
    BY <1>1, <1>3, Zenon
  <2>2. p[1] = n + 1 /\ p[2] = 1 /\ p[3] = 0
    BY <2>1
  <2> QED
    BY <2>2 DEF IsSpot
<1>4. CASE Len(s) # 0
  <2>1. 1 \in 1..Len(s) /\ 1 - 1 = 0
    BY <1>2, <1>4
  <2>2. IsPlace(P, E, two, n, p[1], p[2], p[3])
    BY <1>1, <2>1, Zenon DEF Follows
  <2> QED
    BY <2>2 DEF IsPlace, IsSpot
<1> QED
  BY <1>3, <1>4

\* What a reader at a place has in hand.
LEMMA AtSpot ==
  ASSUME Fits(events, protocol, eol, twoLines), NEW p, IsSpot(twoLines, Len(events), p), NEW b, NEW dl, NEW r,
         AtRest(events, protocol, eol, twoLines, p, b, dl, r)
  PROVE  /\ b # <<>> =>
              /\ p[3] \in 1..Len(LineText(protocol, twoLines, p[1], p[2]))
              /\ b = SubSeq(LineText(protocol, twoLines, p[1], p[2]), 1, p[3])
              /\ Before(events, protocol, eol, twoLines, p[1], p[2], dl, r)
         /\ b = <<>> =>
              \E k \in 1..Len(events) + 1, l \in 1..4 :
                 (k = Len(events) + 1 => l = 1) /\ Before(events, protocol, eol, twoLines, k, l, dl, r)
<1> DEFINE k == p[1]
           l == p[2]
           c == p[3]
           text == LineText(protocol, twoLines, k, l)
<1>1. k \in 1..Len(events) + 1 /\ l \in 1..4 /\ c \in Nat /\ (k = Len(events) + 1 => l = 1 /\ c = 0) /\ (l = 3 => twoLines)
  BY DEF IsSpot
<1>2. At(events, protocol, eol, twoLines, k, l, c, b, dl, r, FALSE)
  BY Zenon DEF AtRest
<1>3. text \in Seq(TextTokens(k))
  BY <1>1, LineIs
<1>4. Len(events) \in Nat
  BY DEF Fits
<1> HIDE DEF k, l, c, text
<1>5. CASE InText(events, protocol, eol, twoLines, k, l, c, b, dl, r, FALSE)
  <2>1. c <= Len(text) /\ b = SubSeq(text, 1, c) /\ Before(events, protocol, eol, twoLines, k, l, dl, r)
    BY <1>5, Zenon DEF InText, text
  <2>2. CASE b = <<>>
    BY <1>1, <2>1, <2>2, Zenon
  <2>3. CASE b # <<>>
    <3>1. c \in 1..Len(text)
      BY <1>1, <1>3, <2>1, <2>3
    <3> QED
      BY <2>1, <2>3, <3>1, Zenon DEF k, l, c, text
  <2> QED
    BY <2>2, <2>3
<1>6. CASE InPair(events, protocol, eol, twoLines, k, l, c, b, dl, r)
  <2>1. c = Len(text) + 1 /\ b = <<>> /\ Before(events, protocol, eol, twoLines, NextK(k, l), NextL(twoLines, l), dl, r)
    BY <1>6, Zenon DEF InPair, text
  <2>2. k \in 1..Len(events)
    <3>1. c # 0
      BY <1>3, <2>1
    <3> QED
      BY <1>1, <1>4, <3>1
  <2>3. /\ NextK(k, l) \in 1..Len(events) + 1 /\ NextL(twoLines, l) \in 1..4
        /\ (NextK(k, l) = Len(events) + 1 => NextL(twoLines, l) = 1)
    BY <1>1, <1>4, <2>2 DEF NextK, NextL
  <2> QED
    BY <2>1, <2>3, Zenon
<1> QED
  BY <1>2, <1>5, <1>6, Zenon DEF At

LEMMA SpotSays ==
  ASSUME Fits(events, protocol, eol, twoLines), NEW p, IsSpot(twoLines, Len(events), p), NEW b, NEW dl, NEW r,
         AtRest(events, protocol, eol, twoLines, p, b, dl, r)
  PROVE  \E m \in 0..Len(events) : r = Said(events, protocol, m)
<1>1. Len(events) \in Nat
  BY DEF Fits
<1>2. \E k \in 1..Len(events) + 1, l \in 1..4 :
         (k = Len(events) + 1 => l = 1) /\ Before(events, protocol, eol, twoLines, k, l, dl, r)
  <2>1. p[1] \in 1..Len(events) + 1 /\ p[2] \in 1..4 /\ (p[1] = Len(events) + 1 => p[2] = 1)
    BY DEF IsSpot
  <2> QED
    BY <2>1, AtSpot, Zenon
<1> QED
  BY <1>1, <1>2, BeforeSays

LEMMA FlushSays ==
  ASSUME Fits(events, protocol, eol, twoLines), NEW p, IsSpot(twoLines, Len(events), p), NEW b, NEW dl, NEW r,
         AtRest(events, protocol, eol, twoLines, p, b, dl, r)
  PROVE  \E m \in 0..Len(events) :
           dispatch(IF b = <<>> THEN Rs(b, dl, r) ELSE processLine(Rs(<<>>, dl, r), b)).r = Said(events, protocol, m)
<1> DEFINE s == dispatch(IF b = <<>> THEN Rs(b, dl, r) ELSE processLine(Rs(<<>>, dl, r), b))
<1>1. CASE b = <<>>
  <2>1. s = Rs(b, <<>>, Ended(dl, r))
    BY <1>1, DispatchIs, Zenon
  <2>2. s.r = Ended(dl, r)
    <3> HIDE DEF s
    <3> QED
      BY <2>1, RsResponse, Zenon
  <2>3. PICK k \in 1..Len(events) + 1, l \in 1..4 :
           (k = Len(events) + 1 => l = 1) /\ Before(events, protocol, eol, twoLines, k, l, dl, r)
    BY <1>1, AtSpot, Zenon
  <2>4. \E m \in 0..Len(events) : Ended(dl, r) = Said(events, protocol, m)
    BY <2>3, NothingLeft
  <2> QED
    BY <2>2, <2>4, Zenon
<1>2. CASE b # <<>>
  <2>1. processLine(Rs(<<>>, dl, r), b) = Rs(<<>>, LineData(dl, b), LineEnded(dl, r, b))
    BY ProcessIs
  <2>2. s = Rs(<<>>, <<>>, Ended(LineData(dl, b), LineEnded(dl, r, b)))
    BY <1>2, <2>1, DispatchIs, Zenon
  <2>3. s.r = Ended(LineData(dl, b), LineEnded(dl, r, b))
    <3> HIDE DEF s
    <3> QED
      BY <2>2, RsResponse, Zenon
  <2>4. /\ p[3] \in 1..Len(LineText(protocol, twoLines, p[1], p[2]))
        /\ b = SubSeq(LineText(protocol, twoLines, p[1], p[2]), 1, p[3])
        /\ Before(events, protocol, eol, twoLines, p[1], p[2], dl, r)
    BY <1>2, AtSpot
  <2>5. p[1] \in 1..Len(events) + 1 /\ p[2] \in 1..4 /\ (p[1] = Len(events) + 1 => p[2] = 1) /\ (p[2] = 3 => twoLines)
    BY DEF IsSpot
  <2>6. \E m \in 0..Len(events) : Ended(LineData(dl, b), LineEnded(dl, r, b)) = Said(events, protocol, m)
    <3> DEFINE k == p[1]
               l == p[2]
               c == p[3]
    <3> HIDE DEF k, l, c
    <3>1. k \in 1..Len(events) + 1 /\ l \in 1..4 /\ (k = Len(events) + 1 => l = 1) /\ (l = 3 => twoLines)
      BY <2>5 DEF k, l
    <3>2. /\ c \in 1..Len(LineText(protocol, twoLines, k, l)) /\ b = SubSeq(LineText(protocol, twoLines, k, l), 1, c)
          /\ Before(events, protocol, eol, twoLines, k, l, dl, r)
      BY <2>4 DEF k, l, c
    <3> QED
      BY <3>1, <3>2, TextLeft
  <2> QED
    BY <2>3, <2>6, Zenon
<1> QED
  BY <1>1, <1>2

\* At the end nothing is left over.
LEMMA EndSpot ==
  ASSUME Len(events) \in Nat, NEW p, p = <<Len(events) + 1, 1, 0>>, NEW b, NEW dl, NEW r,
         AtRest(events, protocol, eol, twoLines, p, b, dl, r)
  PROVE  b = <<>> /\ dl = <<>> /\ r = Said(events, protocol, Len(events))
<1>1. p[1] = Len(events) + 1 /\ p[2] = 1 /\ p[3] = 0
  OBVIOUS
<1> DEFINE text == LineText(protocol, twoLines, Len(events) + 1, 1)
<1>2. text \in Seq(TextTokens(Len(events) + 1))
  BY LineIs
<1>3. At(events, protocol, eol, twoLines, Len(events) + 1, 1, 0, b, dl, r, FALSE)
  BY <1>1, Zenon DEF AtRest
<1> HIDE DEF text
<1>4. 0 # Len(text) + 1 /\ SubSeq(text, 1, 0) = <<>>
  BY <1>2
<1>5. InText(events, protocol, eol, twoLines, Len(events) + 1, 1, 0, b, dl, r, FALSE)
  BY <1>3, <1>4, Zenon DEF At, InPair, text
<1>6. b = <<>> /\ Before(events, protocol, eol, twoLines, Len(events) + 1, 1, dl, r)
  BY <1>4, <1>5, Zenon DEF InText, text
<1>7. Len(events) + 1 - 1 = Len(events)
  OBVIOUS
<1> QED
  BY <1>6, <1>7 DEF Before

-----------------------------------------------------------------------------
(* The provider goes on.                                                    *)

LEMMA BeforeAgain ==
  ASSUME NEW ev, NEW fv, NEW P, NEW E, NEW two, NEW n \in Nat, \A m \in 1..n : ev[m] = fv[m],
         NEW k \in 1..n + 1, NEW l \in 1..4, k = n + 1 => l = 1, NEW dl, NEW r, Before(ev, P, E, two, k, l, dl, r)
  PROVE  Before(fv, P, E, two, k, l, dl, r)
<1>1. Said(ev, P, k - 1) = Said(fv, P, k - 1)
  <2>1. \A m \in 1..k - 1 : ev[m] = fv[m]
    OBVIOUS
  <2> QED
    BY <2>1, SaidAgain
<1>2. l = 4 => Said(ev, P, k) = Said(fv, P, k)
  <2>1. l = 4 => \A m \in 1..k : ev[m] = fv[m]
    OBVIOUS
  <2> QED
    BY <2>1, SaidAgain
<1>3. CASE l = 1 \/ l = 2 \/ l = 3
  BY <1>1, <1>3, Zenon DEF Before
<1>4. CASE l = 4
  BY <1>1, <1>2, <1>4, Zenon DEF Before
<1> QED
  BY <1>3, <1>4

LEMMA AtAgain ==
  ASSUME NEW ev, NEW fv, NEW P, NEW E, NEW two, NEW n \in Nat, \A m \in 1..n : ev[m] = fv[m],
         NEW p, IsSpot(two, n, p), NEW b, NEW dl, NEW r, AtRest(ev, P, E, two, p, b, dl, r),
         ~(two /\ E = <<CR, LF>>), two \in BOOLEAN
  PROVE  AtRest(fv, P, E, two, p, b, dl, r)
<1> DEFINE k == p[1]
           l == p[2]
           c == p[3]
           text == LineText(P, two, k, l)
<1>1. k \in 1..n + 1 /\ l \in 1..4 /\ c \in Nat /\ (k = n + 1 => l = 1 /\ c = 0) /\ (l = 3 => two)
  BY DEF IsSpot
<1>2. At(ev, P, E, two, k, l, c, b, dl, r, FALSE)
  BY Zenon DEF AtRest
<1>3. text \in Seq(TextTokens(k))
  BY <1>1, LineIs
<1> HIDE DEF k, l, c, text
<1>4. CASE InText(ev, P, E, two, k, l, c, b, dl, r, FALSE)
  <2>1. Before(ev, P, E, two, k, l, dl, r)
    BY <1>4, Zenon DEF InText
  <2>2. Before(fv, P, E, two, k, l, dl, r)
    BY <1>1, <2>1, BeforeAgain
  <2> QED
    BY <1>4, <2>2, Zenon DEF InText, AtRest, At, k, l, c
<1>5. CASE InPair(ev, P, E, two, k, l, c, b, dl, r)
  <2>1. c = Len(text) + 1 /\ Before(ev, P, E, two, NextK(k, l), NextL(two, l), dl, r)
    BY <1>5, Zenon DEF InPair, text
  <2>2. k \in 1..n
    <3>1. c # 0
      BY <1>3, <2>1
    <3> QED
      BY <1>1, <3>1
  <2>3. NextK(k, l) \in 1..n + 1 /\ NextL(two, l) \in 1..4 /\ (NextK(k, l) = n + 1 => NextL(two, l) = 1)
    BY <1>1, <2>2 DEF NextK, NextL
  <2>4. Before(fv, P, E, two, NextK(k, l), NextL(two, l), dl, r)
    BY <2>1, <2>3, BeforeAgain
  <2> QED
    BY <1>5, <2>4, Zenon DEF InPair, AtRest, At, k, l, c
<1> QED
  BY <1>2, <1>4, <1>5, Zenon DEF At

LEMMA EventAgain ==
  ASSUME NEW ev, NEW fv, NEW P, NEW n \in Nat \ {0}, \A m \in 1..n : ev[m] = fv[m], EventOK(ev, P, n)
  PROVE  EventOK(fv, P, n)
<1>1. ev[n] = fv[n]
  OBVIOUS
<1>2. \A i : Begins(ev, n - 1, i) <=> Begins(fv, n - 1, i)
  BY DEF Begins
<1> QED
  BY <1>1, <1>2, Zenon DEF EventOK

LEMMA EventIs ==
  ASSUME NEW e \in IF protocol = "openai" THEN OpenAIEvents ELSE AnthropicEvents,
         \E S : events \in Seq(S), NEW fv, fv = Append(events, e)
  PROVE  EventOK(fv, protocol, Len(events) + 1)
<1> DEFINE n == Len(events)
<1>1. n \in Nat /\ DOMAIN events = 1..n /\ fv[n + 1] = e /\ n + 1 - 1 = n /\ \A m \in 1..n : fv[m] = events[m]
  OBVIOUS
<1>2. \A i : Begun(i) <=> Begins(fv, n, i)
  BY <1>1, Zenon DEF Begun, Begins
<1>3. ASSUME NEW type, NEW index, NEW id, e = Event(type, index, id)
      PROVE  e.type = type /\ e.index = index /\ e.id = id
  BY <1>3 DEF Event
<1> HIDE DEF n
<1>4. CASE protocol = "openai"
  <2>1. \/ \E type \in {"text", "thinking", "usage", "[DONE]"} : e = Event(type, None, None)
        \/ \E i \in Index : e = Event("call", i, i)
        \/ \E i \in Index : Begun(i) /\ e = Event("call", i, None)
    BY <1>4, Zenon DEF OpenAIEvents
  <2>2. \/ e.type \in {"text", "thinking", "usage", "[DONE]"} /\ e.index = None
        \/ e.type = "call" /\ e.index \in Index /\ (e.id = e.index \/ (e.id = None /\ Begins(fv, n, e.index)))
    <3>1. CASE \E type \in {"text", "thinking", "usage", "[DONE]"} : e = Event(type, None, None)
      BY <1>3, <3>1, Zenon
    <3>2. CASE \E i \in Index : e = Event("call", i, i)
      BY <1>3, <3>2, Zenon
    <3>3. CASE \E i \in Index : Begun(i) /\ e = Event("call", i, None)
      BY <1>2, <1>3, <3>3, Zenon
    <3> QED
      BY <2>1, <3>1, <3>2, <3>3
  <2>3. EventOK(fv, protocol, n + 1)
    BY <1>1, <1>4, <2>2 DEF EventOK
  <2> QED
    BY <2>3 DEF n
<1>5. CASE protocol # "openai"
  <2>1. \/ e = Event("usage", None, None)
        \/ \E type \in {"start_text", "start_tool_use"} : \E i \in Index : ~Begun(i) /\ e = Event(type, i, i)
        \/ \E i \in Index : Begun(i) /\ e = Event("delta", i, None)
    <3>1. e \in AnthropicEvents
      BY <1>5
    <3> QED
      BY <3>1 DEF AnthropicEvents
  <2>2. \/ e.type = "usage" /\ e.index = None
        \/ e.type \in {"start_text", "start_tool_use"} /\ e.index \in Index /\ e.id = e.index /\ ~Begins(fv, n, e.index)
        \/ e.type = "delta" /\ e.index \in Index /\ Begins(fv, n, e.index)
    <3>1. CASE e = Event("usage", None, None)
      BY <1>3, <3>1, Zenon
    <3>2. CASE \E type \in {"start_text", "start_tool_use"} : \E i \in Index : ~Begun(i) /\ e = Event(type, i, i)
      <4>1. PICK type \in {"start_text", "start_tool_use"}, i \in Index : ~Begun(i) /\ e = Event(type, i, i)
        BY <3>2
      <4> QED
        BY <1>2, <1>3, <4>1, Zenon
    <3>3. CASE \E i \in Index : Begun(i) /\ e = Event("delta", i, None)
      BY <1>2, <1>3, <3>3, Zenon
    <3> QED
      BY <2>1, <3>1, <3>2, <3>3
  <2>3. EventOK(fv, protocol, n + 1)
    BY <1>1, <1>5, <2>2 DEF EventOK
  <2> QED
    BY <2>3 DEF n
<1> QED
  BY <1>4, <1>5

LEMMA FitsAgain ==
  ASSUME Fits(events, protocol, eol, twoLines), ~Over(events, Len(events)), NEW fv,
         NEW e \in IF protocol = "openai" THEN OpenAIEvents ELSE AnthropicEvents, fv = Append(events, e)
  PROVE  Fits(fv, protocol, eol, twoLines) /\ Len(fv) = Len(events) + 1 /\ (\A m \in 1..Len(events) : events[m] = fv[m])
<1>1. PICK S : events \in Seq(S)
  BY DEF Fits
<1>2. Len(fv) = Len(events) + 1 /\ Len(events) \in Nat /\ \A m \in 1..Len(events) : events[m] = fv[m]
  BY <1>1
<1>3. fv \in Seq(S \cup {e})
  <2>1. events \in Seq(S \cup {e}) /\ e \in S \cup {e}
    BY <1>1
  <2> QED
    BY <2>1, AppendProperties
<1>4. ASSUME NEW m \in 1..Len(fv)
      PROVE  EventOK(fv, protocol, m) /\ (fv[m].type = "[DONE]" => m = Len(fv))
  <2>1. CASE m = Len(fv)
    BY <1>1, <1>2, <2>1, EventIs
  <2>2. CASE m # Len(fv)
    <3>1. m \in 1..Len(events) /\ m \in Nat \ {0} /\ \A j \in 1..m : events[j] = fv[j]
      BY <1>2, <2>2
    <3>2. EventOK(events, protocol, m)
      BY <3>1, Zenon DEF Fits
    <3>3. EventOK(fv, protocol, m)
      BY <3>1, <3>2, EventAgain
    <3>4. fv[m].type # "[DONE]"
      BY <1>2, <3>1, Zenon DEF Over
    <3> QED
      BY <3>3, <3>4
  <2> QED
    BY <2>1, <2>2
<1>5. Fits(fv, protocol, eol, twoLines)
  BY <1>3, <1>4, Zenon DEF Fits
<1> QED
  BY <1>2, <1>5

-----------------------------------------------------------------------------
(* The reading of an answer.                                                *)

\* Before the call returns the reader is at a place from which what is on its
\* way leads to the end of what the provider has sent, and it has in hand what
\* belongs to that place; a connection that broke has lost the way.  Then the
\* response is what some first events say, or what all say if it ended well.
Reads(ev, P, E, two, en, s, rd, r) ==
  \E p, b, dl :
    /\ rd = [buffer |-> b, dataLines |-> dl] /\ IsSpot(two, Len(ev), p) /\ AtRest(ev, P, E, two, p, b, dl, r)
    /\ IF en = "cut" THEN s = <<>> ELSE Leads(P, E, two, Len(ev), p, s, <<Len(ev) + 1, 1, 0>>)

HasRead(ev, P, en, r) == en # None /\ \E m \in 0..Len(ev) : r = Said(ev, P, m) /\ (en = "closed" => m = Len(ev))

Reading(ev, P, E, two, en, s, rd, r, ret) ==
  /\ Fits(ev, P, E, two)
  /\ en \in {None, "closed", "cut"} /\ (Over(ev, Len(ev)) => en # None)
  /\ IF ret THEN HasRead(ev, P, en, r) ELSE Reads(ev, P, E, two, en, s, rd, r)

StreamInv ==
  ~(twoLines /\ eol = <<CR, LF>>) => Reading(events, protocol, eol, twoLines, ended, pipe, reader, response, returned)

LEMMA StreamBegins ==
  ASSUME StreamInit
  PROVE  StreamInv
<1> SUFFICES ASSUME ~(twoLines /\ eol = <<CR, LF>>)
             PROVE  Reading(events, protocol, eol, twoLines, ended, pipe, reader, response, returned)
  BY DEF StreamInv
<1>1. /\ protocol \in {"openai", "anthropic"} /\ eol \in LineEnds /\ twoLines \in BOOLEAN
      /\ events = <<>> /\ pipe = <<>> /\ ended = None /\ reader = [buffer |-> <<>>, dataLines |-> <<>>]
      /\ response = EmptyResponse /\ returned = FALSE
  BY DEF StreamInit
<1>2. Len(events) = 0 /\ 1..Len(events) = {} /\ events \in Seq({})
  BY <1>1
<1>3. Fits(events, protocol, eol, twoLines)
  BY <1>1, <1>2 DEF Fits
<1>4. ~Over(events, Len(events))
  BY <1>2 DEF Over
<1> DEFINE p == <<1, 1, 0>>
<1>5. p[1] = 1 /\ p[2] = 1 /\ p[3] = 0 /\ 1 - 1 = 0 /\ 1 \in 1..4
  OBVIOUS
<1>6. IsSpot(twoLines, Len(events), p)
  BY <1>2, <1>5 DEF IsSpot
<1>7. AtRest(events, protocol, eol, twoLines, p, <<>>, <<>>, response)
  <2>1. response = Said(events, protocol, 0)
    BY <1>1, SaidBegins
  <2>2. Before(events, protocol, eol, twoLines, 1, 1, <<>>, response)
    BY <2>1 DEF Before
  <2>3. At(events, protocol, eol, twoLines, 1, 1, 0, <<>>, <<>>, response, FALSE)
    BY <1>5, <2>2, AtLineStart
  <2> QED
    BY <1>5, <2>3, Zenon DEF AtRest
<1>8. Leads(protocol, eol, twoLines, Len(events), p, pipe, <<Len(events) + 1, 1, 0>>)
  <2>1. p = <<Len(events) + 1, 1, 0>>
    BY <1>2
  <2> HIDE DEF p
  <2>2. Leads(protocol, eol, twoLines, Len(events), p, <<>>, <<Len(events) + 1, 1, 0>>)
    BY <2>1, LeadsNowhere
  <2> QED
    BY <1>1, <2>2
<1>9. None # "cut"
  BY StreamAssumption
<1> HIDE DEF p
<1>10. Reads(events, protocol, eol, twoLines, ended, pipe, reader, response)
  BY <1>1, <1>6, <1>7, <1>8, <1>9, Zenon DEF Reads
<1> QED
  BY <1>1, <1>3, <1>4, <1>10, Zenon DEF Reading

LEMMA ProvideKeeps ==
  ASSUME Reading(events, protocol, eol, twoLines, ended, pipe, reader, response, returned),
         NEW e \in IF protocol = "openai" THEN OpenAIEvents ELSE AnthropicEvents, Provide(e)
  PROVE  Reading(events', protocol, eol, twoLines, ended', pipe', reader, response, returned)
<1> DEFINE n == Len(events)
<1>1. Fits(events, protocol, eol, twoLines) /\ (Over(events, n) => ended # None)
  BY Zenon DEF Reading
<1>2. ended = None /\ events' = Append(events, e) /\ pipe' = pipe \o Lines(n + 1) /\ ended' = IF e.type = "[DONE]" THEN "closed" ELSE None
  BY DEF Provide
<1>3. n \in Nat /\ eol \in LineEnds /\ twoLines \in BOOLEAN /\ ~(twoLines /\ eol = <<CR, LF>>)
  BY <1>1 DEF Fits
<1>4. /\ Fits(events', protocol, eol, twoLines) /\ Len(events') = n + 1 /\ \A m \in 1..n : events[m] = events'[m]
  BY <1>1, <1>2, FitsAgain
<1>5. ~returned
  BY <1>2, Zenon DEF Reading, HasRead
<1>6. None # "cut" /\ None # "closed" /\ "closed" # "cut"
  BY StreamAssumption
<1>7. PICK p, b, dl :
        /\ reader = [buffer |-> b, dataLines |-> dl] /\ IsSpot(twoLines, n, p)
        /\ AtRest(events, protocol, eol, twoLines, p, b, dl, response)
        /\ Leads(protocol, eol, twoLines, n, p, pipe, <<n + 1, 1, 0>>)
  <2>1. Reads(events, protocol, eol, twoLines, ended, pipe, reader, response)
    BY <1>5, Zenon DEF Reading
  <2> QED
    BY <1>2, <1>6, <2>1, Zenon DEF Reads
<1>8. AtRest(events', protocol, eol, twoLines, p, b, dl, response)
  BY <1>3, <1>4, <1>7, AtAgain
<1>9. Leads(protocol, eol, twoLines, n + 1, p, pipe', <<n + 1 + 1, 1, 0>>)
  <2>1. Leads(protocol, eol, twoLines, n + 1, p, pipe, <<n + 1, 1, 0>>)
    BY <1>3, <1>7, LeadsFurther
  <2>2. n + 1 \in Nat /\ n + 1 \in 1..n + 1
    BY <1>3
  <2>3. Leads(protocol, eol, twoLines, n + 1, <<n + 1, 1, 0>>, Lines(n + 1), <<n + 1 + 1, 1, 0>>)
    BY <1>3, <2>2, LinesLead
  <2> QED
    BY <1>2, <2>1, <2>3, LeadsOn
<1> HIDE DEF n
<1>10. IsSpot(twoLines, n + 1, p)
  <2>1. n + 1 \in Nat
    BY <1>3
  <2> QED
    BY <1>9, <2>1, LeadsFrom
<1>11. ended' # "cut" /\ ended' \in {None, "closed", "cut"}
  BY <1>2, <1>6
<1>12. Reads(events', protocol, eol, twoLines, ended', pipe', reader, response)
  BY <1>4, <1>7, <1>8, <1>9, <1>10, <1>11, Zenon DEF Reads
<1>13. Over(events', Len(events')) => ended' # None
  <2> SUFFICES ASSUME NEW m \in 1..n + 1, events'[m].type = "[DONE]" PROVE ended' # None
    BY <1>4, Zenon DEF Over
  <2>1. m = n + 1
    BY <1>4, Zenon DEF Fits
  <2>2. events'[m] = e
    <3>1. \E S : events \in Seq(S)
      BY <1>1, Zenon DEF Fits
    <3> QED
      BY <1>2, <2>1, <3>1 DEF n
  <2> QED
    BY <1>2, <1>6, <2>2
<1> QED
  BY <1>4, <1>5, <1>11, <1>12, <1>13, Zenon DEF Reading

LEMMA EndingKeeps ==
  ASSUME Reading(events, protocol, eol, twoLines, ended, pipe, reader, response, returned), Close \/ Cut
  PROVE  Reading(events, protocol, eol, twoLines, ended', pipe', reader, response, returned)
<1>0. None # "cut" /\ None # "closed" /\ "closed" # "cut"
  BY StreamAssumption
<1>1. \/ ended = None /\ ended' = "closed" /\ pipe' = pipe
      \/ ended' = "cut" /\ pipe' = <<>>
  BY DEF Close, Cut
<1>2. ended' \in {None, "closed", "cut"} /\ ended' # None
  BY <1>0, <1>1
<1>3. CASE returned
  <2>1. HasRead(events, protocol, ended, response)
    BY <1>3, Zenon DEF Reading
  <2>2. HasRead(events, protocol, ended', response)
    BY <1>0, <1>1, <2>1, Zenon DEF HasRead
  <2> QED
    BY <1>2, <1>3, <2>2, Zenon DEF Reading
<1>4. CASE ~returned
  <2>1. Reads(events, protocol, eol, twoLines, ended, pipe, reader, response)
    BY <1>4, Zenon DEF Reading
  <2>2. Reads(events, protocol, eol, twoLines, ended', pipe', reader, response)
    BY <1>0, <1>1, <2>1, Zenon DEF Reads
  <2> QED
    BY <1>2, <1>4, <2>2, Zenon DEF Reading
<1> QED
  BY <1>3, <1>4

LEMMA ReaderIs ==
  ASSUME NEW b, NEW dl, NEW r, NEW rd, rd = [buffer |-> b, dataLines |-> dl]
  PROVE  /\ [rd |-> rd, r |-> r] = Rs(b, dl, r) /\ rd.buffer = b
         /\ [rd |-> [rd EXCEPT !.buffer = <<>>], r |-> r] = Rs(<<>>, dl, r)
BY DEF Rs

LEMMA ReadKeeps ==
  ASSUME Reading(events, protocol, eol, twoLines, ended, pipe, reader, response, returned), NEW n \in 1..Len(pipe), Read(n)
  PROVE  Reading(events, protocol, eol, twoLines, ended, pipe', reader', response', returned')
<1> DEFINE s == scan([rd |-> reader, r |-> response], SubSeq(pipe, 1, n))
           N == Len(events)
           end == <<N + 1, 1, 0>>
<1>1. reader' = s.rd /\ response' = s.r /\ returned' = s.r.done /\ ~returned /\ pipe' = SubSeq(pipe, n + 1, Len(pipe))
  BY Zenon DEF Read
<1>2. /\ Fits(events, protocol, eol, twoLines) /\ ended \in {None, "closed", "cut"} /\ (Over(events, N) => ended # None)
      /\ Reads(events, protocol, eol, twoLines, ended, pipe, reader, response)
  BY <1>1, Zenon DEF Reading
<1>3. N \in Nat
  BY <1>2 DEF Fits
<1>4. pipe # <<>>
  <2>1. pipe = <<>> => Len(pipe) = 0
    OBVIOUS
  <2> QED
    BY <2>1
<1>5. PICK p, b, dl :
        /\ reader = [buffer |-> b, dataLines |-> dl] /\ IsSpot(twoLines, N, p)
        /\ AtRest(events, protocol, eol, twoLines, p, b, dl, response)
        /\ ended # "cut" /\ Leads(protocol, eol, twoLines, N, p, pipe, end)
  BY <1>2, <1>4, Zenon DEF Reads
<1>6. PICK q : /\ Leads(protocol, eol, twoLines, N, p, SubSeq(pipe, 1, n), q)
               /\ Leads(protocol, eol, twoLines, N, q, SubSeq(pipe, n + 1, Len(pipe)), end)
  BY <1>5, LeadsBy
<1>7. [rd |-> reader, r |-> response] = Rs(b, dl, response)
  BY <1>5, ReaderIs
<1>8. PICK bb, ddl, rr : scan(Rs(b, dl, response), SubSeq(pipe, 1, n)) = Rs(bb, ddl, rr) /\ AtRest(events, protocol, eol, twoLines, q, bb, ddl, rr)
  <2>1. /\ Fits(events, protocol, eol, twoLines) /\ AtRest(events, protocol, eol, twoLines, p, b, dl, response)
        /\ Leads(protocol, eol, twoLines, Len(events), p, SubSeq(pipe, 1, n), q)
    BY <1>2, <1>5, <1>6, Zenon
  <2> QED
    BY <2>1, ScanSays
<1>9. IsSpot(twoLines, N, q)
  BY <1>3, <1>6, LeadsFrom
<1>10. s = Rs(bb, ddl, rr)
  BY <1>7, <1>8, Zenon
<1> HIDE DEF s, N, end
<1>11. s.rd = [buffer |-> bb, dataLines |-> ddl] /\ s.r = rr
  BY <1>10 DEF Rs
<1>12. CASE ~returned'
  <2>1. Reads(events, protocol, eol, twoLines, ended, pipe', reader', response')
    BY <1>1, <1>5, <1>6, <1>8, <1>9, <1>11, Zenon DEF Reads, N, end
  <2> QED
    BY <1>2, <1>12, <2>1, Zenon DEF Reading, N
<1>13. CASE returned'
  <2>1. PICK m \in 0..N : rr = Said(events, protocol, m)
    BY <1>2, <1>8, <1>9, SpotSays DEF N
  <2>2. Over(events, m)
    <3>1. Said(events, protocol, m).done
      BY <1>1, <1>11, <1>13, <2>1, Zenon
    <3> QED
      BY <3>1, SaidDone
  <2>3. m = N /\ Over(events, N)
    <3>1. PICK i \in 1..m : events[i].type = "[DONE]"
      BY <2>2, Zenon DEF Over
    <3>2. i \in 1..N
      BY <1>3
    <3>3. i = N
      BY <1>2, <3>1, <3>2, Zenon DEF Fits, N
    <3>4. m = N
      BY <1>3, <3>2, <3>3
    <3> QED
      BY <2>2, <3>4
  <2>4. HasRead(events, protocol, ended, response')
    BY <1>1, <1>2, <1>11, <2>1, <2>3, Zenon DEF HasRead, N
  <2> QED
    BY <1>2, <1>13, <2>4, Zenon DEF Reading, N
<1> QED
  BY <1>12, <1>13

LEMMA FlushKeeps ==
  ASSUME Reading(events, protocol, eol, twoLines, ended, pipe, reader, response, returned), Flush
  PROVE  Reading(events, protocol, eol, twoLines, ended, pipe, reader', response', returned')
<1> DEFINE written == processLine([rd |-> [reader EXCEPT !.buffer = <<>>], r |-> response], reader.buffer)
           s == dispatch(IF reader.buffer = <<>> THEN [rd |-> reader, r |-> response] ELSE written)
           N == Len(events)
<1>1. ~returned /\ ended # None /\ pipe = <<>> /\ response' = s.r /\ returned' = TRUE
  BY Zenon DEF Flush
<1>2. /\ Fits(events, protocol, eol, twoLines) /\ ended \in {None, "closed", "cut"} /\ (Over(events, N) => ended # None)
      /\ Reads(events, protocol, eol, twoLines, ended, pipe, reader, response)
  BY <1>1, Zenon DEF Reading
<1>3. N \in Nat
  BY <1>2 DEF Fits
<1>4. PICK p, b, dl :
        /\ reader = [buffer |-> b, dataLines |-> dl] /\ IsSpot(twoLines, N, p)
        /\ AtRest(events, protocol, eol, twoLines, p, b, dl, response)
        /\ (ended # "cut" => Leads(protocol, eol, twoLines, N, p, pipe, <<N + 1, 1, 0>>))
  BY <1>2, Zenon DEF Reads
<1>5. s = dispatch(IF b = <<>> THEN Rs(b, dl, response) ELSE processLine(Rs(<<>>, dl, response), b))
  <2>1. [rd |-> reader, r |-> response] = Rs(b, dl, response) /\ reader.buffer = b
        /\ [rd |-> [reader EXCEPT !.buffer = <<>>], r |-> response] = Rs(<<>>, dl, response)
    BY <1>4, ReaderIs
  <2> QED
    BY <2>1, Zenon
<1>6. PICK m \in 0..N : s.r = Said(events, protocol, m)
  <2>1. \E m \in 0..N : dispatch(IF b = <<>> THEN Rs(b, dl, response) ELSE processLine(Rs(<<>>, dl, response), b)).r = Said(events, protocol, m)
    <3>1. /\ Fits(events, protocol, eol, twoLines) /\ AtRest(events, protocol, eol, twoLines, p, b, dl, response)
          /\ IsSpot(twoLines, Len(events), p)
      BY <1>2, <1>4, Zenon
    <3> QED
      BY <3>1, FlushSays
  <2> HIDE DEF s
  <2> QED
    BY <1>5, <2>1, Zenon
<1>7. ASSUME ended = "closed" PROVE s.r = Said(events, protocol, N)
  <2>1. ended # "cut"
    BY <1>7
  <2>2. p = <<N + 1, 1, 0>>
    <3>1. Leads(protocol, eol, twoLines, N, p, <<>>, <<N + 1, 1, 0>>)
      BY <1>1, <1>4, <2>1, Zenon
    <3> QED
      BY <3>1, LeadsNowhere
  <2>3. b = <<>> /\ dl = <<>> /\ response = Said(events, protocol, N)
    BY <1>3, <1>4, <2>2, EndSpot
  <2>4. s = Rs(<<>>, <<>>, Ended(<<>>, response))
    BY <1>5, <2>3, DispatchIs, Zenon
  <2>5. Ended(<<>>, response) = response
    BY DEF Ended
  <2> HIDE DEF s
  <2> QED
    BY <2>3, <2>4, <2>5, RsResponse, Zenon
<1>8. HasRead(events, protocol, ended, response')
  <2> HIDE DEF s
  <2>1. CASE ended = "closed"
    <3>1. N \in 0..N
      BY <1>3
    <3> QED
      BY <1>1, <1>7, <2>1, <3>1, Zenon DEF HasRead
  <2>2. CASE ended # "closed"
    BY <1>1, <1>6, <2>2, Zenon DEF HasRead
  <2> QED
    BY <2>1, <2>2
<1> QED
  BY <1>1, <1>2, <1>8, Zenon DEF Reading

\* What has been read is at any time what some first events of the provider
\* say, and what all of them say when the call has returned and the connection
\* has not broken, into whatever chunks the network cuts the answer (llm.ts:551).
THEOREM ReadAsSentHolds == StreamSpec => []ReadAsSent
<1>1. StreamInit => StreamInv
  BY StreamBegins
<1>2. StreamInv /\ [StreamNext]_streamVars => StreamInv'
  <2> SUFFICES ASSUME StreamInv, [StreamNext]_streamVars, ~(twoLines' /\ eol' = <<CR, LF>>)
               PROVE  Reading(events', protocol', eol', twoLines', ended', pipe', reader', response', returned')
    BY Zenon DEF StreamInv
  <2>1. protocol' = protocol /\ eol' = eol /\ twoLines' = twoLines
    BY DEF StreamNext, Provide, Close, Cut, Read, Flush, streamVars
  <2>2. Reading(events, protocol, eol, twoLines, ended, pipe, reader, response, returned)
    BY <2>1, Zenon DEF StreamInv
  <2>3. CASE \E e \in IF protocol = "openai" THEN OpenAIEvents ELSE AnthropicEvents : Provide(e)
    <3>1. PICK e \in IF protocol = "openai" THEN OpenAIEvents ELSE AnthropicEvents : Provide(e)
      BY <2>3
    <3>2. reader' = reader /\ response' = response /\ returned' = returned
      BY <3>1 DEF Provide
    <3>3. Reading(events', protocol, eol, twoLines, ended', pipe', reader, response, returned)
      BY <2>2, <3>1, ProvideKeeps
    <3> QED
      BY <2>1, <3>2, <3>3, Zenon
  <2>4. CASE Close \/ Cut
    <3>1. events' = events /\ reader' = reader /\ response' = response /\ returned' = returned
      BY <2>4 DEF Close, Cut
    <3>2. Reading(events, protocol, eol, twoLines, ended', pipe', reader, response, returned)
      BY <2>2, <2>4, EndingKeeps
    <3> QED
      BY <2>1, <3>1, <3>2, Zenon
  <2>5. CASE \E n \in 1..Len(pipe) : Read(n)
    <3>1. PICK n \in 1..Len(pipe) : Read(n)
      BY <2>5
    <3>2. events' = events /\ ended' = ended
      BY <3>1 DEF Read
    <3>3. Reading(events, protocol, eol, twoLines, ended, pipe', reader', response', returned')
      BY <2>2, <3>1, ReadKeeps
    <3> QED
      BY <2>1, <3>2, <3>3, Zenon
  <2>6. CASE Flush
    <3>1. events' = events /\ ended' = ended /\ pipe' = pipe
      BY <2>6 DEF Flush
    <3>2. Reading(events, protocol, eol, twoLines, ended, pipe, reader', response', returned')
      BY <2>2, <2>6, FlushKeeps
    <3> QED
      BY <2>1, <3>1, <3>2, Zenon
  <2>7. CASE UNCHANGED streamVars
    <3>1. /\ events' = events /\ ended' = ended /\ pipe' = pipe /\ reader' = reader /\ response' = response
          /\ returned' = returned
      BY <2>7 DEF streamVars
    <3> QED
      BY <2>1, <2>2, <3>1, Zenon
  <2> QED
    BY <2>3, <2>4, <2>5, <2>6, <2>7, Zenon DEF StreamNext
<1>3. StreamInv => ReadAsSent
  <2> SUFFICES ASSUME Reading(events, protocol, eol, twoLines, ended, pipe, reader, response, returned)
               PROVE  (\E n \in 0..Len(events) : Means(n)) /\ (returned /\ ended = "closed" => Means(Len(events)))
    BY Zenon DEF StreamInv, ReadAsSent
  <2>1. Fits(events, protocol, eol, twoLines)
    BY Zenon DEF Reading
  <2>2. Len(events) \in Nat
    BY <2>1 DEF Fits
  <2>3. \E m \in 0..Len(events) : response = Said(events, protocol, m) /\ (returned /\ ended = "closed" => m = Len(events))
    <3>1. CASE returned
      BY <3>1, Zenon DEF Reading, HasRead
    <3>2. CASE ~returned
      <4>1. PICK p, b, dl : IsSpot(twoLines, Len(events), p) /\ AtRest(events, protocol, eol, twoLines, p, b, dl, response)
        BY <3>2, Zenon DEF Reading, Reads
      <4>2. \E m \in 0..Len(events) : response = Said(events, protocol, m)
        BY <2>1, <4>1, SpotSays
      <4> QED
        BY <3>2, <4>2, Zenon
    <3> QED
      BY <3>1, <3>2
  <2>4. PICK m \in 0..Len(events) : response = Said(events, protocol, m) /\ (returned /\ ended = "closed" => m = Len(events))
    BY <2>3
  <2>5. m \in Nat
    BY <2>2
  <2>6. Means(m)
    BY <2>4, <2>5, MeansWhatIsSaid
  <2> QED
    BY <2>4, <2>6, Zenon
<1> QED
  BY <1>1, <1>2, <1>3, PTL DEF StreamSpec

-----------------------------------------------------------------------------
(* Characters.                                                              *)

LEMMA LeastMost ==
  ASSUME NEW n \in Nat, NEW S \in SUBSET (1..n), S # {}
  PROVE  Min(S) \in S /\ Max(S) \in S /\ Min(S) <= Max(S) /\ \A x \in S : x <= Max(S)
<1>1. \E x \in S : \A y \in S : x <= y
  <2>1. S \in SUBSET Nat
    OBVIOUS
  <2>2. PICK x \in S : \A y \in S : <<y, x>> \notin OpToRel(<, Nat)
    BY <2>1, NatLessThanWellFounded, WFMin
  <2>3. \A y \in S : ~(y < x)
    BY <2>1, <2>2 DEF OpToRel
  <2> QED
    BY <2>1, <2>3
<1>2. \E x \in S : \A y \in S : x >= y
  <2> DEFINE T == {n - x : x \in S}
  <2>1. T \in SUBSET Nat /\ T # {}
    <3>1. \A x \in S : x \in 1..n /\ n - x \in Nat
      OBVIOUS
    <3> QED
      BY <3>1
  <2>2. PICK z \in T : \A y \in T : <<y, z>> \notin OpToRel(<, Nat)
    <3> HIDE DEF T
    <3> QED
      BY <2>1, NatLessThanWellFounded, WFMin
  <2>3. \A y \in T : ~(y < z)
    BY <2>1, <2>2 DEF OpToRel
  <2>4. PICK x \in S : z = n - x
    OBVIOUS
  <2>5. ASSUME NEW y \in S PROVE x >= y
    <3>1. n - y \in T /\ x \in 1..n /\ y \in 1..n
      OBVIOUS
    <3>2. ~(n - y < n - x)
      BY <2>3, <2>4, <3>1
    <3> QED
      BY <3>1, <3>2
  <2> QED
    BY <2>4, <2>5
<1>3. Min(S) \in S /\ \A y \in S : Min(S) <= y
  BY <1>1 DEF Min
<1>4. Max(S) \in S /\ \A y \in S : Max(S) >= y
  BY <1>2 DEF Max
<1> QED
  BY <1>3, <1>4

\* The characters of the lines the model may write.
Chars ==
  Operators \cup {"SP"}
    \cup UNION {UNION {Range(WrittenSegment(meant[n])) : n \in DOMAIN meant} : meant \in CommandLines}

NotBlank(chars) == \E n \in 1..Len(chars) : ~Blank(chars[n])

LEMMA TrimIs ==
  ASSUME NEW chars \in Seq(Chars)
  PROVE  trim(chars) \in Seq(Chars) /\ (NotBlank(chars) => trim(chars) # <<>>)
<1> DEFINE kept == {i \in DOMAIN chars : ~Blank(chars[i])}
<1>1. trim(chars) = IF kept = {} THEN <<>> ELSE SubSeq(chars, Min(kept), Max(kept))
  BY DEF trim
<1>2. kept \in SUBSET (1..Len(chars)) /\ Len(chars) \in Nat
  OBVIOUS
<1>3. NotBlank(chars) => kept # {}
  BY DEF NotBlank
<1> HIDE DEF kept
<1>4. CASE kept = {}
  <2>1. trim(chars) = <<>>
    BY <1>1, <1>4
  <2> QED
    BY <1>3, <1>4, <2>1
<1>5. CASE kept # {}
  <2>1. Min(kept) \in 1..Len(chars) /\ Max(kept) \in 1..Len(chars) /\ Min(kept) <= Max(kept)
    BY <1>2, <1>5, LeastMost
  <2> DEFINE m == Min(kept)
             n == Max(kept)
  <2>2. trim(chars) = SubSeq(chars, m, n)
    BY <1>1, <1>5
  <2> HIDE DEF m, n
  <2>3. m \in 1..Len(chars) /\ n \in 1..Len(chars) /\ m <= n
    BY <2>1 DEF m, n
  <2>4. SubSeq(chars, m, n) \in Seq(Chars)
    BY <2>3
  <2>5. Len(SubSeq(chars, m, n)) = n - m + 1
    BY <2>3
  <2>6. SubSeq(chars, m, n) # <<>>
    BY <2>3, <2>5
  <2> QED
    BY <2>2, <2>4, <2>6
<1> QED
  BY <1>4, <1>5

-----------------------------------------------------------------------------
(* The characters one after the other.                                      *)

Open == Quotes \cup {Nothing}
Pieces == Seq([raw : Seq(Chars), op : Operators])
States == [segments : Pieces, current : Seq(Chars), quote : Open]

St3(segs, current, quote) == [segments |-> segs, current |-> current, quote |-> quote]

LEMMA QuoteIs == ASSUME NEW open \in Open, NEW char PROVE quoteOf(open, char) \in Open
BY DEF quoteOf, Open

LEMMA SplitIs ==
  ASSUME NEW s \in States, NEW op
  PROVE  Split(s, op) = St3(Append(s.segments, [raw |-> trim(s.current), op |-> op]), <<>>, s.quote)
<1> DEFINE x == [raw |-> trim(s.current), op |-> op]
           segs == Append(s.segments, x)
<1>1. Split(s, op) = [s EXCEPT !.segments = segs, !.current = <<>>]
  BY DEF Split
<1> HIDE DEF segs
<1>2. Split(s, op) = St3(segs, <<>>, s.quote)
  BY <1>1 DEF States, St3
<1> QED
  BY <1>2 DEF segs

LEMMA CharIs ==
  ASSUME NEW s \in States, NEW char
  PROVE  parseChar(s, char) =
           IF s.quote = Nothing /\ char \in Operators
           THEN St3(Append(s.segments, [raw |-> trim(s.current), op |-> char]), <<>>, s.quote)
           ELSE St3(s.segments, Append(s.current, char), quoteOf(s.quote, char))
<1>1. CASE s.quote = Nothing /\ char \in Operators
  BY <1>1, SplitIs DEF parseChar
<1>2. CASE ~(s.quote = Nothing /\ char \in Operators)
  <2> DEFINE current == Append(s.current, char)
             quote == quoteOf(s.quote, char)
  <2>1. parseChar(s, char) = [s EXCEPT !.current = current, !.quote = quote]
    BY <1>2 DEF parseChar
  <2> HIDE DEF current, quote
  <2>2. parseChar(s, char) = St3(s.segments, current, quote)
    BY <2>1 DEF St3, States
  <2> QED
    BY <1>2, <2>2 DEF current, quote
<1> QED
  BY <1>1, <1>2

LEMMA CharKeeps ==
  ASSUME NEW s \in States, NEW char \in Chars
  PROVE  parseChar(s, char) \in States
<1>1. s.segments \in Pieces /\ s.current \in Seq(Chars) /\ s.quote \in Open
  BY DEF States
<1>2. CASE s.quote = Nothing /\ char \in Operators
  <2> DEFINE x == [raw |-> trim(s.current), op |-> char]
  <2>1. x \in [raw : Seq(Chars), op : Operators]
    BY <1>1, <1>2, TrimIs
  <2>2. parseChar(s, char) = St3(Append(s.segments, x), <<>>, s.quote)
    BY <1>2, CharIs
  <2> HIDE DEF x
  <2>3. Append(s.segments, x) \in Pieces
    BY <1>1, <2>1 DEF Pieces
  <2>4. <<>> \in Seq(Chars)
    OBVIOUS
  <2> QED
    BY <1>1, <2>2, <2>3, <2>4 DEF St3, States
<1>3. CASE ~(s.quote = Nothing /\ char \in Operators)
  <2>1. parseChar(s, char) = St3(s.segments, Append(s.current, char), quoteOf(s.quote, char))
    BY <1>3, CharIs
  <2>2. quoteOf(s.quote, char) \in Open
    BY <1>1, QuoteIs
  <2>3. Append(s.current, char) \in Seq(Chars)
    BY <1>1
  <2> QED
    BY <1>1, <2>1, <2>2, <2>3 DEF St3, States
<1> QED
  BY <1>2, <1>3

LEMMA CharsAre ==
  ASSUME NEW s \in States, NEW chars \in Seq(Chars)
  PROVE  \E f \in [0..Len(chars) -> States] :
           /\ f[0] = s /\ parseChars(s, chars) = f[Len(chars)]
           /\ \A n \in 1..Len(chars) : f[n] = parseChar(f[n - 1], chars[n])
<1> DEFINE L == Len(chars)
           step == [x \in States \X (1..L) |-> parseChar(x[1], chars[x[2]])]
           Is(f) == f = [n \in 0..L |-> IF n = 0 THEN s ELSE parseChar(f[n - 1], chars[n])]
           g == CHOOSE f : Is(f)
<1>1. parseChars(s, chars) = g[L]
  BY Zenon DEF parseChars
<1>2. L \in Nat /\ \A n \in 1..L : chars[n] \in Chars /\ n - 1 \in 0..L
  OBVIOUS
<1> HIDE DEF L
<1>3. \A x \in States, n \in 1..L : step[<<x, n>>] = parseChar(x, chars[n]) /\ parseChar(x, chars[n]) \in States
  BY <1>2, CharKeeps
<1> HIDE DEF step
<1>4. PICK f \in [0..L -> States] : f[0] = s /\ \A n \in 1..L : f[n] = step[<<f[n - 1], n>>]
  <2>1. Closed(L, States, s, step)
    BY <1>2, <1>3 DEF Closed
  <2>2. PICK f : Recursive(f, L, States, s, step)
    BY <2>1, Recursion
  <2> QED
    BY <2>2 DEF Recursive
<1>5. Is(f)
  <2>1. \A n \in 1..L : f[n] = parseChar(f[n - 1], chars[n])
    BY <1>2, <1>3, <1>4
  <2>2. \A n \in 0..L : f[n] = IF n = 0 THEN s ELSE parseChar(f[n - 1], chars[n])
    BY <1>4, <2>1
  <2> QED
    BY <1>4, <2>2
<1>6. Is(g)
  <2> HIDE DEF Is
  <2> QED
    BY <1>5
<1> HIDE DEF g
<1>7. g[0] = s /\ \A n \in 1..L : g[n] = parseChar(g[n - 1], chars[n])
  <2>1. 0 \in 0..L /\ \A n \in 1..L : n \in 0..L /\ n # 0
    BY <1>2
  <2> QED
    BY <1>6, <2>1
<1>8. \A n \in 0..L : n \in {m \in 0..L : g[m] \in States}
  <2> DEFINE T == {m \in 0..L : g[m] \in States}
  <2>1. 0 \in T
    BY <1>2, <1>7
  <2>2. ASSUME NEW n \in 1..L, n - 1 \in T PROVE n \in T
    <3>1. n \in 0..L /\ chars[n] \in Chars
      BY <1>2
    <3> QED
      BY <1>7, <2>2, <3>1, CharKeeps
  <2> HIDE DEF T
  <2>3. \A n \in 0..L : n \in T
    BY <1>2, <2>1, <2>2, UpTo
  <2> QED
    BY <2>3 DEF T
<1>9. g \in [0..L -> States]
  BY <1>6, <1>8
<1> QED
  BY <1>1, <1>7, <1>9 DEF L

\* What follows a text is read from where the text has led.
LEMMA CharsJoin ==
  ASSUME NEW s \in States, NEW a \in Seq(Chars), NEW b \in Seq(Chars)
  PROVE  /\ parseChars(s, a) \in States
         /\ parseChars(s, a \o b) = parseChars(parseChars(s, a), b)
<1> DEFINE A == Len(a)
           B == Len(b)
           c == a \o b
<1>1. /\ A \in Nat /\ B \in Nat /\ c \in Seq(Chars) /\ Len(c) = A + B
      /\ \A n \in 1..A : c[n] = a[n]
      /\ \A n \in 1..B : c[A + n] = b[n]
  OBVIOUS
<1>2. PICK f \in [0..A -> States] : /\ f[0] = s /\ parseChars(s, a) = f[A]
                                    /\ \A n \in 1..A : f[n] = parseChar(f[n - 1], a[n])
  BY CharsAre
<1>3. f[A] \in States
  BY <1>1, <1>2
<1>4. PICK g \in [0..B -> States] : /\ g[0] = f[A] /\ parseChars(f[A], b) = g[B]
                                    /\ \A n \in 1..B : g[n] = parseChar(g[n - 1], b[n])
  BY <1>3, CharsAre
<1> HIDE DEF c
<1>5. PICK h \in [0..Len(c) -> States] : /\ h[0] = s /\ parseChars(s, c) = h[Len(c)]
                                         /\ \A n \in 1..Len(c) : h[n] = parseChar(h[n - 1], c[n])
  BY <1>1, CharsAre
<1> HIDE DEF A, B
<1>6. h[A] = f[A]
  <2> DEFINE T == {n \in 0..A : h[n] = f[n]}
  <2>1. 0 \in T
    BY <1>1, <1>2, <1>5
  <2>2. ASSUME NEW n \in 1..A, n - 1 \in T PROVE n \in T
    <3>1. n \in 1..Len(c) /\ n \in 0..A
      BY <1>1
    <3>2. h[n - 1] = f[n - 1]
      BY <2>2
    <3> QED
      BY <1>1, <1>2, <1>5, <3>1, <3>2
  <2> HIDE DEF T
  <2>3. \A n \in 0..A : n \in T
    BY <1>1, <2>1, <2>2, UpTo
  <2> QED
    BY <1>1, <2>3 DEF T
<1>7. h[A + B] = g[B]
  <2> DEFINE T == {n \in 0..B : h[A + n] = g[n]}
  <2>1. 0 \in T
    BY <1>1, <1>4, <1>6
  <2>2. ASSUME NEW n \in 1..B, n - 1 \in T PROVE n \in T
    <3>1. A + n \in 1..Len(c) /\ n \in 0..B /\ (A + n) - 1 = A + (n - 1)
      BY <1>1
    <3>2. h[A + (n - 1)] = g[n - 1]
      BY <2>2
    <3>3. h[A + n] = parseChar(h[A + (n - 1)], c[A + n])
      BY <1>5, <3>1
    <3>4. c[A + n] = b[n] /\ g[n] = parseChar(g[n - 1], b[n])
      BY <1>1, <1>4
    <3> QED
      BY <3>1, <3>2, <3>3, <3>4
  <2> HIDE DEF T
  <2>3. \A n \in 0..B : n \in T
    BY <1>1, <2>1, <2>2, UpTo
  <2> QED
    BY <1>1, <2>3 DEF T
<1>8. parseChars(s, a) \in States
  BY <1>2, <1>3 DEF A
<1>9. parseChars(s, a \o b) = g[B]
  BY <1>1, <1>5, <1>7 DEF c
<1>10. parseChars(parseChars(s, a), b) = g[B]
  BY <1>2, <1>4
<1> QED
  BY <1>8, <1>9, <1>10

-----------------------------------------------------------------------------
(* A segment is one piece.                                                  *)

LEMMA PieceIs ==
  ASSUME Nothing \notin Quotes, NEW text \in Seq(Chars), OnePiece(text)
  PROVE  \E q : /\ q[0] = Nothing /\ q[Len(text)] = Nothing
                /\ \A n \in 1..Len(text) : /\ q[n] = quoteOf(q[n - 1], text[n])
                                           /\ text[n] \in Operators => q[n - 1] # Nothing
                /\ NotBlank(text)
<1> DEFINE L == Len(text)
           step == [x \in Open \X (1..L) |-> quoteOf(x[1], text[x[2]])]
           Is(f) == f = [n \in 0..L |-> IF n = 0 THEN Nothing ELSE quoteOf(f[n - 1], text[n])]
           g == CHOOSE f : Is(f)
<1>1. /\ g[L] = Nothing
      /\ \A n \in 1..L : text[n] \in Operators => g[n - 1] # Nothing
      /\ \E n \in 1..L : ~Blank(text[n])
  BY Zenon DEF OnePiece
<1>2. L \in Nat /\ \A n \in 1..L : n - 1 \in 0..L
  OBVIOUS
<1>3. \A x \in Open, n \in 1..L : step[<<x, n>>] = quoteOf(x, text[n]) /\ quoteOf(x, text[n]) \in Open
  BY QuoteIs
<1>4. Nothing \in Open
  BY DEF Open
<1>5. NotBlank(text)
  BY <1>1 DEF NotBlank
<1> HIDE DEF L, step
<1>6. PICK f \in [0..L -> Open] : f[0] = Nothing /\ \A n \in 1..L : f[n] = step[<<f[n - 1], n>>]
  <2>1. Closed(L, Open, Nothing, step)
    BY <1>2, <1>3, <1>4 DEF Closed
  <2>2. PICK f : Recursive(f, L, Open, Nothing, step)
    BY <2>1, Recursion
  <2> QED
    BY <2>2 DEF Recursive
<1>7. Is(f)
  <2>1. \A n \in 1..L : f[n] = quoteOf(f[n - 1], text[n])
    BY <1>2, <1>3, <1>6
  <2>2. \A n \in 0..L : f[n] = IF n = 0 THEN Nothing ELSE quoteOf(f[n - 1], text[n])
    BY <1>6, <2>1
  <2> QED
    BY <1>6, <2>2
<1>8. Is(g)
  <2> HIDE DEF Is
  <2> QED
    BY <1>7
<1> HIDE DEF g
<1>9. g[0] = Nothing /\ \A n \in 1..L : g[n] = quoteOf(g[n - 1], text[n])
  <2>1. 0 \in 0..L /\ \A n \in 1..L : n \in 0..L /\ n # 0
    BY <1>2
  <2> QED
    BY <1>8, <2>1
<1> QED
  BY <1>1, <1>5, <1>9 DEF L

\* A piece that is read where no quote is open adds to the current text only.
LEMMA PieceReads ==
  ASSUME Nothing \notin Quotes, NEW text \in Seq(Chars), OnePiece(text), NEW s \in States, s.quote = Nothing
  PROVE  \E current \in Seq(Chars) :
           NotBlank(current) /\ parseChars(s, text) = St3(s.segments, current, Nothing)
<1>1. PICK q : /\ q[0] = Nothing /\ q[Len(text)] = Nothing
               /\ \A n \in 1..Len(text) : /\ q[n] = quoteOf(q[n - 1], text[n])
                                          /\ text[n] \in Operators => q[n - 1] # Nothing
               /\ NotBlank(text)
  BY PieceIs
<1>2. PICK f \in [0..Len(text) -> States] : /\ f[0] = s /\ parseChars(s, text) = f[Len(text)]
                                            /\ \A n \in 1..Len(text) : f[n] = parseChar(f[n - 1], text[n])
  BY CharsAre
<1> DEFINE L == Len(text)
           Has(n) == \E m \in 1..n : ~Blank(text[m])
           Good == {n \in 0..L : /\ f[n].segments = s.segments /\ f[n].quote = q[n]
                                 /\ Has(n) => NotBlank(f[n].current)}
<1>3. L \in Nat /\ \A n \in 1..L : n - 1 \in 0..L /\ n \in 0..L /\ text[n] \in Chars
  OBVIOUS
<1>4. 0 \in Good
  <2>1. ~Has(0)
    OBVIOUS
  <2> HIDE DEF Has
  <2> QED
    BY <1>1, <1>2, <1>3, <2>1
<1>5. ASSUME NEW n \in 1..L, n - 1 \in Good PROVE n \in Good
  <2> DEFINE t == f[n - 1]
  <2>1. t.segments = s.segments /\ t.quote = q[n - 1] /\ (Has(n - 1) => NotBlank(t.current)) /\ t \in States
    BY <1>2, <1>3, <1>5
  <2>2. f[n] = parseChar(t, text[n])
    BY <1>2
  <2>3. t.quote = Nothing => text[n] \notin Operators
    BY <1>1, <2>1
  <2> HIDE DEF t
  <2>4. f[n] = St3(t.segments, Append(t.current, text[n]), quoteOf(t.quote, text[n]))
    BY <2>1, <2>2, <2>3, CharIs
  <2>5. t.current \in Seq(Chars)
    BY <2>1 DEF States
  <2>6. Has(n) => NotBlank(Append(t.current, text[n]))
    <3> DEFINE c == Append(t.current, text[n])
               K == Len(t.current)
    <3>1. K \in Nat /\ Len(c) = K + 1 /\ c[K + 1] = text[n] /\ \A m \in 1..K : c[m] = t.current[m]
      BY <1>3, <2>5
    <3> SUFFICES ASSUME Has(n) PROVE NotBlank(c)
      OBVIOUS
    <3>2. CASE ~Blank(text[n])
      <4>1. K + 1 \in 1..Len(c)
        BY <3>1
      <4> QED
        BY <3>1, <3>2, <4>1 DEF NotBlank
    <3>3. CASE Blank(text[n])
      <4>1. PICK m \in 1..n : ~Blank(text[m])
        OBVIOUS
      <4>2. m \in 1..n - 1
        BY <3>3, <4>1
      <4>3. NotBlank(t.current)
        BY <2>1, <4>1, <4>2
      <4>4. PICK i \in 1..K : ~Blank(t.current[i])
        BY <4>3 DEF NotBlank
      <4>5. i \in 1..Len(c) /\ c[i] = t.current[i]
        BY <3>1
      <4> HIDE DEF c
      <4> QED
        BY <4>4, <4>5 DEF NotBlank
    <3> QED
      BY <3>2, <3>3
  <2> HIDE DEF Has
  <2>7. /\ f[n].segments = t.segments /\ f[n].current = Append(t.current, text[n])
        /\ f[n].quote = quoteOf(t.quote, text[n])
    BY <2>4 DEF St3
  <2>8. f[n].segments = s.segments /\ f[n].quote = q[n] /\ (Has(n) => NotBlank(f[n].current))
    BY <1>1, <2>1, <2>6, <2>7
  <2> QED
    BY <1>3, <2>8
<1> HIDE DEF Good
<1>6. \A n \in 0..L : n \in Good
  BY <1>3, <1>4, <1>5, UpTo
<1>7. L \in Good /\ f[L] \in States
  BY <1>2, <1>3, <1>6
<1>8. f[L].segments = s.segments /\ f[L].quote = Nothing /\ NotBlank(f[L].current)
  <2>1. Has(L)
    BY <1>1 DEF NotBlank
  <2> HIDE DEF Has
  <2> QED
    BY <1>1, <1>7, <2>1 DEF Good
<1>9. f[L] = St3(f[L].segments, f[L].current, f[L].quote) /\ f[L].current \in Seq(Chars)
  BY <1>7 DEF St3, States
<1> QED
  BY <1>2, <1>8, <1>9

-----------------------------------------------------------------------------
(* Operators.                                                               *)

LEMMA BlankReads ==
  ASSUME NEW s \in States, s.quote = Nothing
  PROVE  parseChar(s, "SP") = St3(s.segments, Append(s.current, "SP"), Nothing)
<1>1. "SP" \notin Operators /\ quoteOf(Nothing, "SP") = Nothing
  BY DEF Operators, Quotes, quoteOf
<1> QED
  BY <1>1, CharIs

LEMMA OpName == Operators \subseteq Chars
BY DEF Chars

LEMMA OpText ==
  ASSUME NEW op \in Operators
  PROVE  LET text == <<"SP", op, "SP">>
         IN  text \in Seq(Chars) /\ Len(text) = 3 /\ text[1] = "SP" /\ text[2] = op /\ text[3] = "SP"
<1>1. op \in Chars
  BY OpName
<1>2. "SP" \in Chars
  BY DEF Chars
<1>3. ASSUME NEW S, NEW a \in S, NEW b \in S
      PROVE  <<a, b, a>> \in Seq(S) /\ Len(<<a, b, a>>) = 3 /\ <<a, b, a>>[1] = a /\ <<a, b, a>>[2] = b
  OBVIOUS
<1>4. <<"SP", op, "SP">>[3] = "SP"
  OBVIOUS
<1> QED
  BY <1>1, <1>2, <1>3, <1>4, Zenon

LEMMA OpReads ==
  ASSUME NEW s \in States, s.quote = Nothing, NEW op \in Operators
  PROVE  \E raw : parseChars(s, <<"SP", op, "SP">>) = St3(Append(s.segments, [raw |-> raw, op |-> op]), <<"SP">>, Nothing)
<1> DEFINE text == <<"SP", op, "SP">>
<1>2. text \in Seq(Chars) /\ Len(text) = 3 /\ text[1] = "SP" /\ text[2] = op /\ text[3] = "SP"
  BY OpText
<1> HIDE DEF text
<1>3. PICK f \in [0..3 -> States] : /\ f[0] = s /\ parseChars(s, text) = f[3]
                                    /\ \A n \in 1..3 : f[n] = parseChar(f[n - 1], text[n])
  BY <1>2, CharsAre
<1>4. f[1] = parseChar(s, "SP") /\ f[2] = parseChar(f[1], op) /\ f[3] = parseChar(f[2], "SP")
  <2>1. 1 \in 1..3 /\ 2 \in 1..3 /\ 3 \in 1..3 /\ 1 - 1 = 0 /\ 2 - 1 = 1 /\ 3 - 1 = 2
    OBVIOUS
  <2> QED
    BY <1>2, <1>3, <2>1
<1>5. f[1] \in States /\ f[2] \in States
  BY <1>3
<1>6. f[1].segments = s.segments /\ f[1].quote = Nothing
  <2>1. f[1] = St3(s.segments, Append(s.current, "SP"), Nothing)
    BY <1>4, BlankReads
  <2> QED
    BY <2>1 DEF St3
<1> DEFINE raw == trim(f[1].current)
<1>7. f[2] = St3(Append(s.segments, [raw |-> raw, op |-> op]), <<>>, Nothing)
  BY <1>4, <1>5, <1>6, CharIs
<1> HIDE DEF raw
<1>8. f[2].segments = Append(s.segments, [raw |-> raw, op |-> op]) /\ f[2].current = <<>> /\ f[2].quote = Nothing
  BY <1>7 DEF St3
<1>9. f[3] = St3(f[2].segments, Append(f[2].current, "SP"), Nothing)
  BY <1>4, <1>5, <1>8, BlankReads
<1>10. Append(<<>>, "SP") = <<"SP">>
  OBVIOUS
<1>11. f[3] = St3(Append(s.segments, [raw |-> raw, op |-> op]), <<"SP">>, Nothing)
  BY <1>8, <1>9, <1>10
<1> QED
  BY <1>3, <1>11 DEF text

-----------------------------------------------------------------------------
(* A line.                                                                  *)

WrittenTo(meant, before, n) == before \o WrittenSegment(meant[n]) \o WrittenOp(meant[n].op)

LEMMA OpWritten ==
  ASSUME NEW op \in Operators \cup {Nothing}
  PROVE  WrittenOp(op) \in Seq(Chars)
<1>1. CASE op = Nothing
  BY <1>1 DEF WrittenOp
<1>2. CASE op # Nothing
  <2>1. WrittenOp(op) = <<"SP", op, "SP">> /\ op \in Operators
    BY <1>2, Zenon DEF WrittenOp
  <2> QED
    BY <2>1, OpText
<1> QED
  BY <1>1, <1>2

\* Lines with no escaped quote.
ClearLines == {meant \in CommandLines : \A n \in DOMAIN meant : ~EscapesQuote(meant[n])}

LEMMA MeantIs ==
  ASSUME NEW meant \in ClearLines
  PROVE  /\ Len(meant) \in Nat \ {0} /\ DOMAIN meant = 1..Len(meant)
         /\ \A n \in 1..Len(meant) :
              /\ WrittenSegment(meant[n]) \in Seq(Chars) /\ OnePiece(WrittenSegment(meant[n]))
              /\ meant[n].op \in Operators \cup {Nothing}
              /\ n < Len(meant) => meant[n].op \in Operators
              /\ n = Len(meant) => meant[n].op = Nothing
<1> DEFINE text(n) == WrittenSegment(meant[n])
<1> meant \in CommandLines /\ WellMeant(meant) /\ \A n \in DOMAIN meant : ~EscapesQuote(meant[n])
  BY ShellAssumption DEF ClearLines
<1>1. Len(meant) \in Nat \ {0} /\ DOMAIN meant = 1..Len(meant)
  BY DEF WellMeant
<1>2. ASSUME NEW n \in 1..Len(meant)
      PROVE  /\ WrittenSegment(meant[n]) \in Seq(Chars) /\ OnePiece(WrittenSegment(meant[n]))
             /\ meant[n].op \in Operators \cup {Nothing}
             /\ n < Len(meant) => meant[n].op \in Operators
             /\ n = Len(meant) => meant[n].op = Nothing
  <2>1. /\ text(n) \in Seq(Range(text(n))) /\ OnePiece(text(n))
        /\ meant[n].op \in IF n < Len(meant) THEN Operators ELSE {Nothing}
    BY <1>1, Zenon DEF WellMeant
  <2>3. text(n) \in Seq(Chars)
    <3>1. Range(text(n)) \subseteq Chars
      <4> DEFINE all == {Range(WrittenSegment(meant[m])) : m \in DOMAIN meant}
                 lines == {UNION {Range(WrittenSegment(l[m])) : m \in DOMAIN l} : l \in CommandLines}
      <4>1. Range(text(n)) \in all
        BY <1>1
      <4>2. UNION all \in lines
        OBVIOUS
      <4>3. UNION lines \subseteq Chars
        BY Zenon DEF Chars
      <4> HIDE DEF all, lines
      <4> QED
        BY <4>1, <4>2, <4>3
    <3> HIDE DEF text
    <3> QED
      BY <2>1, <3>1
  <2>2. n = Len(meant) => ~(n < Len(meant))
    BY <1>1
  <2> HIDE DEF text
  <2>4. meant[n].op \in Operators \cup {Nothing} /\ (n < Len(meant) => meant[n].op \in Operators)
    BY <2>1
  <2>5. n = Len(meant) => meant[n].op = Nothing
    BY <2>1, <2>2
  <2> QED
    BY <2>1, <2>3, <2>4, <2>5 DEF text
<1> QED
  BY <1>1, <1>2

LEMMA WrittenIs ==
  ASSUME NEW meant \in ClearLines
  PROVE  \E w \in [0..Len(meant) -> Seq(Chars)] :
           /\ w[0] = <<>> /\ Written(meant) = w[Len(meant)]
           /\ \A n \in 1..Len(meant) : w[n] = WrittenTo(meant, w[n - 1], n)
<1> DEFINE L == Len(meant)
           D == Seq(Chars)
           step == [x \in D \X (1..L) |-> WrittenTo(meant, x[1], x[2])]
           Is(f) == f = [n \in 0..L |-> IF n = 0 THEN <<>> ELSE f[n - 1] \o WrittenSegment(meant[n]) \o WrittenOp(meant[n].op)]
           Goes(f) == f = [n \in 0..L |-> IF n = 0 THEN <<>> ELSE WrittenTo(meant, f[n - 1], n)]
           g == CHOOSE f : Is(f)
<1>1. Written(meant) = g[L]
  BY Zenon DEF Written
<1>2. \A f : Is(f) <=> Goes(f)
  BY Zenon DEF WrittenTo
<1>3. L \in Nat /\ \A n \in 1..L : n - 1 \in 0..L
  BY MeantIs
<1>4. <<>> \in D
  OBVIOUS
<1>5. \A x \in D, n \in 1..L : step[<<x, n>>] = WrittenTo(meant, x, n) /\ WrittenTo(meant, x, n) \in D
  <2> SUFFICES ASSUME NEW x \in D, NEW n \in 1..L
               PROVE  step[<<x, n>>] = WrittenTo(meant, x, n) /\ WrittenTo(meant, x, n) \in D
    OBVIOUS
  <2>1. WrittenSegment(meant[n]) \in D /\ WrittenOp(meant[n].op) \in D
    BY MeantIs, OpWritten
  <2>2. WrittenTo(meant, x, n) \in D
    BY <2>1 DEF WrittenTo
  <2> HIDE DEF D
  <2>3. step[<<x, n>>] = WrittenTo(meant, x, n)
    OBVIOUS
  <2> QED
    BY <2>2, <2>3
<1> HIDE DEF L, step, D, Is
<1>6. PICK f \in [0..L -> D] : f[0] = <<>> /\ \A n \in 1..L : f[n] = step[<<f[n - 1], n>>]
  <2>1. Closed(L, D, <<>>, step)
    BY <1>3, <1>4, <1>5 DEF Closed
  <2>2. PICK f : Recursive(f, L, D, <<>>, step)
    BY <2>1, Recursion
  <2> QED
    BY <2>2 DEF Recursive
<1>7. Goes(f)
  <2>1. \A n \in 1..L : f[n] = WrittenTo(meant, f[n - 1], n)
    BY <1>3, <1>5, <1>6
  <2>2. \A n \in 0..L : f[n] = IF n = 0 THEN <<>> ELSE WrittenTo(meant, f[n - 1], n)
    BY <1>6, <2>1
  <2> QED
    BY <1>6, <2>2
<1>8. Goes(g)
  <2> HIDE DEF Goes
  <2>1. Is(g)
    BY <1>2, <1>7
  <2> QED
    BY <1>2, <2>1
<1> HIDE DEF g
<1>9. g[0] = <<>> /\ \A n \in 1..L : g[n] = WrittenTo(meant, g[n - 1], n)
  <2>1. 0 \in 0..L /\ \A n \in 1..L : n \in 0..L /\ n # 0
    BY <1>3
  <2> QED
    BY <1>8, <2>1
<1>10. \A n \in 0..L : g[n] \in D
  <2> DEFINE T == {m \in 0..L : g[m] \in D}
  <2>1. 0 \in T
    BY <1>3, <1>4, <1>9
  <2>2. ASSUME NEW n \in 1..L, n - 1 \in T PROVE n \in T
    <3>1. n \in 0..L
      BY <1>3
    <3> QED
      BY <1>5, <1>9, <2>2, <3>1
  <2> HIDE DEF T
  <2>3. \A n \in 0..L : n \in T
    BY <1>3, <2>1, <2>2, UpTo
  <2> QED
    BY <2>3 DEF T
<1>11. g \in [0..L -> D]
  BY <1>8, <1>10
<1> QED
  BY <1>1, <1>9, <1>11 DEF L, D

\* The segments are those of a line, with their operators.
SegmentsOf(segs, meant, n) == Len(segs) = n /\ \A m \in 1..n : segs[m].op = meant[m].op

LEMMA LongerSeq ==
  ASSUME NEW S, NEW s \in Seq(S), NEW x
  PROVE  /\ Append(s, x) \in Seq(S \cup {x}) /\ Len(s) \in Nat /\ Len(Append(s, x)) = Len(s) + 1
         /\ DOMAIN Append(s, x) = 1..Len(s) + 1 /\ DOMAIN s = 1..Len(s)
         /\ Append(s, x)[Len(s) + 1] = x /\ \A n \in 1..Len(s) : Append(s, x)[n] = s[n]
<1>1. s \in Seq(S \cup {x})
  OBVIOUS
<1>2. Append(s, x) \in Seq(S \cup {x}) /\ Len(Append(s, x)) = Len(s) + 1
  BY <1>1
<1>3. DOMAIN Append(s, x) = 1..Len(Append(s, x))
  BY <1>2
<1> QED
  BY <1>1, <1>2, <1>3

LEMMA OneSegmentMore ==
  ASSUME NEW S, NEW segs \in Seq(S), NEW meant, NEW n \in Nat, SegmentsOf(segs, meant, n), NEW raw
  PROVE  SegmentsOf(Append(segs, [raw |-> raw, op |-> meant[n + 1].op]), meant, n + 1)
<1> DEFINE x == [raw |-> raw, op |-> meant[n + 1].op]
           T == Append(segs, x)
<1>1. x.op = meant[n + 1].op
  OBVIOUS
<1> HIDE DEF x
<1>2. segs \in Seq(S \cup {x})
  OBVIOUS
<1>3. Len(segs) = n
  BY DEF SegmentsOf
<1>4. Len(T) = n + 1 /\ T[n + 1] = x /\ \A m \in 1..n : T[m] = segs[m]
  BY <1>2, <1>3
<1>5. \A m \in 1..n + 1 : m = n + 1 \/ m \in 1..n
  OBVIOUS
<1> HIDE DEF T
<1>6. SegmentsOf(T, meant, n + 1)
  BY <1>1, <1>4, <1>5, Zenon DEF SegmentsOf
<1> QED
  BY <1>6 DEF T, x

LEMMA LineReads ==
  ASSUME NEW meant \in ClearLines, Nothing \notin Quotes, Nothing \notin Operators
  PROVE  LET p == parseChain(Written(meant))
         IN  /\ DOMAIN p = 1..Len(meant) /\ Len(p) = Len(meant)
             /\ \A n \in 1..Len(meant) : p[n].op = meant[n].op
<1> DEFINE L == Len(meant)
           seg(n) == WrittenSegment(meant[n])
           ReadTo(s, n) == s \in States /\ s.quote = Nothing /\ SegmentsOf(s.segments, meant, n)
<1>1. PICK w \in [0..L -> Seq(Chars)] : /\ w[0] = <<>> /\ Written(meant) = w[L]
                                         /\ \A n \in 1..L : w[n] = WrittenTo(meant, w[n - 1], n)
  BY WrittenIs
<1>2. L \in Nat /\ L # 0 /\ \A n \in 1..L : n - 1 \in 0..L /\ n \in 0..L
  BY MeantIs
<1> DEFINE Good == {n \in 0..L - 1 : ReadTo(parseChars(NoChars, w[n]), n)}
<1>3. NoChars \in States /\ ReadTo(NoChars, 0)
  <2>1. NoChars \in States
    <3>1. <<>> \in Pieces /\ <<>> \in Seq(Chars) /\ Nothing \in Open
      BY DEF Pieces, Open
    <3> QED
      BY <3>1 DEF NoChars, States
  <2>2. NoChars.quote = Nothing /\ NoChars.segments = <<>>
    BY DEF NoChars
  <2>3. SegmentsOf(<<>>, meant, 0)
    BY DEF SegmentsOf
  <2> QED
    BY <2>1, <2>2, <2>3
<1>4. 0 \in Good
  <2>1. parseChars(NoChars, <<>>) = NoChars
    <3>1. <<>> \in Seq(Chars) /\ Len(<<>>) = 0
      OBVIOUS
    <3> QED
      BY <1>3, <3>1, CharsAre
  <2> QED
    BY <1>1, <1>2, <1>3, <2>1
<1>5. ASSUME NEW n \in 1..L, ReadTo(parseChars(NoChars, w[n - 1]), n - 1)
      PROVE  \E s \in States : /\ s.quote = Nothing /\ SegmentsOf(s.segments, meant, n - 1) /\ NotBlank(s.current)
                               /\ parseChars(NoChars, w[n - 1] \o seg(n)) = s
  <2> DEFINE t == parseChars(NoChars, w[n - 1])
  <2>1. seg(n) \in Seq(Chars) /\ OnePiece(seg(n)) /\ w[n - 1] \in Seq(Chars)
    BY <1>1, <1>2, MeantIs
  <2>2. parseChars(NoChars, w[n - 1] \o seg(n)) = parseChars(t, seg(n)) /\ parseChars(t, seg(n)) \in States
    BY <1>3, <1>5, <2>1, CharsJoin
  <2>3. t \in States /\ t.quote = Nothing /\ SegmentsOf(t.segments, meant, n - 1)
    BY <1>5
  <2> HIDE DEF t, seg
  <2>4. PICK current \in Seq(Chars) : NotBlank(current) /\ parseChars(t, seg(n)) = St3(t.segments, current, Nothing)
    BY <2>1, <2>3, PieceReads
  <2>5. St3(t.segments, current, Nothing).current = current /\ St3(t.segments, current, Nothing).quote = Nothing
        /\ St3(t.segments, current, Nothing).segments = t.segments
    BY DEF St3
  <2> QED
    BY <2>2, <2>3, <2>4, <2>5
<1>6. ASSUME NEW n \in 1..L - 1, n - 1 \in Good PROVE n \in Good
  <2>1. n \in 1..L /\ n < L /\ n \in 0..L - 1
    BY <1>2
  <2>2. PICK s \in States : /\ s.quote = Nothing /\ SegmentsOf(s.segments, meant, n - 1) /\ NotBlank(s.current)
                            /\ parseChars(NoChars, w[n - 1] \o seg(n)) = s
    BY <1>5, <1>6, <2>1
  <2> DEFINE op == meant[n].op
  <2>3. op \in Operators /\ op # Nothing /\ WrittenOp(op) = <<"SP", op, "SP">>
    BY <2>1, MeantIs DEF WrittenOp
  <2>4. WrittenOp(op) \in Seq(Chars)
    BY <2>3, OpWritten
  <2>5. seg(n) \in Seq(Chars) /\ w[n - 1] \in Seq(Chars)
    BY <1>1, <1>2, <2>1, MeantIs
  <2>6. w[n] = (w[n - 1] \o seg(n)) \o WrittenOp(op)
    BY <1>1, <2>1 DEF WrittenTo
  <2> HIDE DEF op, seg
  <2>7. w[n - 1] \o seg(n) \in Seq(Chars)
    BY <2>5
  <2>8. parseChars(NoChars, w[n]) = parseChars(s, WrittenOp(op)) /\ parseChars(s, WrittenOp(op)) \in States
    <3> DEFINE before == w[n - 1] \o seg(n)
    <3>1. before \in Seq(Chars) /\ parseChars(NoChars, before) = s /\ w[n] = before \o WrittenOp(op)
      BY <2>2, <2>6, <2>7
    <3> HIDE DEF before
    <3>2. parseChars(NoChars, before \o WrittenOp(op)) = parseChars(parseChars(NoChars, before), WrittenOp(op))
      BY <1>3, <2>4, <3>1, CharsJoin
    <3>3. parseChars(s, WrittenOp(op)) \in States
      BY <2>2, <2>4, CharsJoin
    <3> QED
      BY <3>1, <3>2, <3>3
  <2>9. PICK raw : parseChars(s, WrittenOp(op)) = St3(Append(s.segments, [raw |-> raw, op |-> op]), <<"SP">>, Nothing)
    <3>1. \E raw : parseChars(s, <<"SP", op, "SP">>) = St3(Append(s.segments, [raw |-> raw, op |-> op]), <<"SP">>, Nothing)
      BY <2>2, <2>3, OpReads
    <3> QED
      BY <2>3, <3>1, Zenon
  <2> DEFINE segs == Append(s.segments, [raw |-> raw, op |-> op])
  <2>10. SegmentsOf(segs, meant, n)
    <3>1. s.segments \in Pieces /\ n - 1 \in Nat /\ (n - 1) + 1 = n
      BY <2>1 DEF States
    <3> QED
      BY <2>2, <3>1, OneSegmentMore DEF op, Pieces
  <2> HIDE DEF segs
  <2>11. St3(segs, <<"SP">>, Nothing).segments = segs /\ St3(segs, <<"SP">>, Nothing).quote = Nothing
    BY DEF St3
  <2>12. parseChars(NoChars, w[n]) = St3(segs, <<"SP">>, Nothing)
    BY <2>8, <2>9 DEF segs
  <2>13. ReadTo(parseChars(NoChars, w[n]), n)
    BY <2>8, <2>10, <2>11, <2>12
  <2> QED
    BY <2>1, <2>13
<1>7. L - 1 \in Nat /\ L - 1 \in 0..L - 1 /\ L \in 1..L
  BY <1>2
<1>8. L - 1 \in Good
  <2> HIDE DEF Good
  <2>1. \A n \in 0..L - 1 : n \in Good
    BY <1>4, <1>6, <1>7, UpTo
  <2> QED
    BY <1>7, <2>1
<1>9. PICK s \in States : /\ s.quote = Nothing /\ SegmentsOf(s.segments, meant, L - 1) /\ NotBlank(s.current)
                          /\ parseChars(NoChars, w[L - 1] \o seg(L)) = s
  BY <1>5, <1>7, <1>8
<1>10. w[L] = w[L - 1] \o seg(L)
  <2>1. meant[L].op = Nothing /\ seg(L) \in Seq(Chars) /\ w[L - 1] \in Seq(Chars)
    BY <1>1, <1>2, <1>7, MeantIs
  <2>2. WrittenOp(Nothing) = <<>>
    BY DEF WrittenOp
  <2>3. w[L] = (w[L - 1] \o seg(L)) \o <<>>
    BY <1>1, <1>7, <2>1, <2>2 DEF WrittenTo
  <2> HIDE DEF seg
  <2> QED
    BY <2>1, <2>3
<1>11. parseChars(NoChars, Written(meant)) = s
  BY <1>1, <1>9, <1>10
<1>12. trim(s.current) # <<>>
  BY <1>9, TrimIs DEF States
<1> DEFINE p == parseChain(Written(meant))
           segs == Append(s.segments, [raw |-> trim(s.current), op |-> Nothing])
<1>13. p = segs
  <2>1. p = Split(s, Nothing).segments
    BY <1>11, <1>12, Zenon DEF parseChain
  <2>2. Split(s, Nothing) = St3(segs, <<>>, s.quote)
    BY SplitIs
  <2> HIDE DEF segs
  <2>3. St3(segs, <<>>, s.quote).segments = segs
    BY DEF St3
  <2> QED
    BY <2>1, <2>2, <2>3
<1>14. SegmentsOf(segs, meant, L)
  <2>1. s.segments \in Pieces /\ (L - 1) + 1 = L
    BY <1>2 DEF States
  <2>2. meant[L].op = Nothing
    BY <1>7, MeantIs
  <2> DEFINE raw == trim(s.current)
  <2> HIDE DEF raw
  <2>3. SegmentsOf(Append(s.segments, [raw |-> raw, op |-> meant[(L - 1) + 1].op]), meant, (L - 1) + 1)
    BY <1>7, <1>9, <2>1, OneSegmentMore DEF Pieces
  <2> QED
    BY <2>1, <2>2, <2>3, Zenon DEF raw
<1>15. DOMAIN segs = 1..Len(segs)
  <2> DEFINE x == [raw |-> trim(s.current), op |-> Nothing]
  <2>1. s.segments \in Pieces
    BY DEF States
  <2> HIDE DEF x
  <2>2. DOMAIN Append(s.segments, x) = 1..Len(Append(s.segments, x))
    BY <2>1, LongerSeq DEF Pieces
  <2> QED
    BY <2>2 DEF x
<1> HIDE DEF segs
<1>16. DOMAIN p = 1..L /\ Len(p) = L /\ \A n \in 1..L : p[n].op = meant[n].op
  BY <1>13, <1>14, <1>15 DEF SegmentsOf
<1> HIDE DEF p
<1> QED
  BY <1>16 DEF p

-----------------------------------------------------------------------------
(* The results.                                                             *)

RanIn(cs, n) == \E c \in DOMAIN cs : cs[c].segment = n
CallOn(cs, n) == CHOOSE c \in DOMAIN cs : cs[c].segment = n

ResultStep(cs, ln, before, n) ==
  IF RanIn(cs, n) /\ ln[n].op # "Pipe" /\ cs[CallOn(cs, n)].output # <<>>
  THEN Append(before, cs[CallOn(cs, n)].output) ELSE before

ResultsOf(cs, ln, n) ==
  LET first[m \in 0..n] == IF m = 0 THEN <<>> ELSE ResultStep(cs, ln, first[m - 1], m)
  IN first[n]

LEMMA ResultsIs == ASSUME NEW n PROVE Results(n) = ResultsOf(calls, line, n)
BY Zenon DEF Results, ResultsOf, WithResult, ResultStep, Ran, RanIn, CallIn, CallOn

ResultsGo(f, cs, ln, n) == f[0] = <<>> /\ \A m \in 1..n : f[m] = ResultStep(cs, ln, f[m - 1], m)

LEMMA ResultsAre ==
  ASSUME NEW cs, NEW ln, NEW n \in Nat
  PROVE  \E f : ResultsGo(f, cs, ln, n) /\ ResultsOf(cs, ln, n) = f[n]
<1> DEFINE S == {cs[c].output : c \in DOMAIN cs}
           D == Seq(S)
           step == [x \in D \X (1..n) |-> ResultStep(cs, ln, x[1], x[2])]
           Is(f) == f = [m \in 0..n |-> IF m = 0 THEN <<>> ELSE ResultStep(cs, ln, f[m - 1], m)]
           g == CHOOSE f : Is(f)
<1>1. ResultsOf(cs, ln, n) = g[n]
  BY Zenon DEF ResultsOf
<1>2. <<>> \in D /\ \A m \in 1..n : m - 1 \in 0..n
  OBVIOUS
<1>3. ASSUME NEW x \in D, NEW m \in 1..n PROVE ResultStep(cs, ln, x, m) \in D
  <2>1. CASE ResultStep(cs, ln, x, m) = x
    BY <2>1
  <2>2. CASE ResultStep(cs, ln, x, m) # x
    <3> DEFINE c == CallOn(cs, m)
    <3>1. RanIn(cs, m) /\ ResultStep(cs, ln, x, m) = Append(x, cs[c].output)
      BY <2>2, Zenon DEF ResultStep
    <3>2. c \in DOMAIN cs
      BY <3>1, Zenon DEF RanIn, CallOn
    <3> HIDE DEF c
    <3>3. cs[c].output \in S
      BY <3>2
    <3> HIDE DEF S
    <3> QED
      BY <3>1, <3>3
  <2> QED
    BY <2>1, <2>2
<1> HIDE DEF D
<1>4. \A x \in D, m \in 1..n : step[<<x, m>>] = ResultStep(cs, ln, x, m)
  OBVIOUS
<1> HIDE DEF step
<1>5. PICK f \in [0..n -> D] : f[0] = <<>> /\ \A m \in 1..n : f[m] = step[<<f[m - 1], m>>]
  <2>1. Closed(n, D, <<>>, step)
    BY <1>2, <1>3, <1>4 DEF Closed
  <2>2. PICK f : Recursive(f, n, D, <<>>, step)
    BY <2>1, Recursion
  <2> QED
    BY <2>2 DEF Recursive
<1>6. Is(f)
  <2>1. \A m \in 1..n : f[m] = ResultStep(cs, ln, f[m - 1], m)
    BY <1>2, <1>4, <1>5
  <2>2. \A m \in 0..n : f[m] = IF m = 0 THEN <<>> ELSE ResultStep(cs, ln, f[m - 1], m)
    BY <1>5, <2>1
  <2> QED
    BY <1>5, <2>2
<1>7. Is(g)
  <2> HIDE DEF Is
  <2> QED
    BY <1>6
<1> HIDE DEF g
<1>8. g[0] = <<>> /\ \A m \in 1..n : g[m] = ResultStep(cs, ln, g[m - 1], m)
  <2>1. 0 \in 0..n /\ \A m \in 1..n : m \in 0..n /\ m # 0
    OBVIOUS
  <2> QED
    BY <1>7, <2>1
<1> QED
  BY <1>1, <1>8 DEF ResultsGo

LEMMA ResultsNone == ASSUME NEW cs, NEW ln PROVE ResultsOf(cs, ln, 0) = <<>>
<1>1. PICK f : ResultsGo(f, cs, ln, 0) /\ ResultsOf(cs, ln, 0) = f[0]
  BY ResultsAre
<1> QED
  BY <1>1 DEF ResultsGo

\* Results agree as far as each segment adds the same.
LEMMA ResultsAgree ==
  ASSUME NEW cs, NEW ds, NEW ln, NEW n \in Nat,
         \A m \in 1..n : \A x : ResultStep(cs, ln, x, m) = ResultStep(ds, ln, x, m)
  PROVE  /\ ResultsOf(cs, ln, n) = ResultsOf(ds, ln, n)
         /\ ResultsOf(cs, ln, n + 1) = ResultStep(cs, ln, ResultsOf(ds, ln, n), n + 1)
<1>1. PICK g : ResultsGo(g, ds, ln, n) /\ ResultsOf(ds, ln, n) = g[n]
  BY ResultsAre
<1>2. ASSUME NEW k \in {n, n + 1}, NEW f, ResultsGo(f, cs, ln, k)
      PROVE  f[n] = g[n]
  <2> DEFINE T == {m \in 0..n : f[m] = g[m]}
  <2>1. 0 \in T
    BY <1>1, <1>2 DEF ResultsGo
  <2>2. ASSUME NEW m \in 1..n, m - 1 \in T PROVE m \in T
    <3>1. m \in 1..k /\ m \in 0..n
      OBVIOUS
    <3>2. f[m] = ResultStep(cs, ln, f[m - 1], m) /\ g[m] = ResultStep(ds, ln, g[m - 1], m) /\ f[m - 1] = g[m - 1]
      BY <1>1, <1>2, <2>2, <3>1 DEF ResultsGo
    <3>3. f[m] = g[m]
      BY <3>2, Zenon
    <3> QED
      BY <3>1, <3>3
  <2> HIDE DEF T
  <2>3. \A m \in 0..n : m \in T
    BY <2>1, <2>2, UpTo
  <2>4. n \in T
    BY <2>3
  <2> QED
    BY <2>4 DEF T
<1>3. ResultsOf(cs, ln, n) = g[n]
  <2>1. PICK f : ResultsGo(f, cs, ln, n) /\ ResultsOf(cs, ln, n) = f[n]
    BY ResultsAre
  <2> QED
    BY <1>2, <2>1
<1>4. ResultsOf(cs, ln, n + 1) = ResultStep(cs, ln, g[n], n + 1)
  <2>1. n + 1 \in Nat /\ n + 1 \in 1..n + 1 /\ (n + 1) - 1 = n
    OBVIOUS
  <2>2. PICK f : ResultsGo(f, cs, ln, n + 1) /\ ResultsOf(cs, ln, n + 1) = f[n + 1]
    BY <2>1, ResultsAre
  <2>3. f[n] = g[n]
    BY <1>2, <2>2
  <2> QED
    BY <2>1, <2>2, <2>3 DEF ResultsGo
<1> QED
  BY <1>1, <1>3, <1>4

-----------------------------------------------------------------------------
(* The calls.                                                               *)

GoesOn(op, err) == (op = "And" => ~err) /\ (op = "Or" => err)

HasParsed(segs, ln) ==
  DOMAIN segs = 1..Len(ln) /\ Len(segs) = Len(ln) /\ \A n \in 1..Len(ln) : segs[n].op = ln[n].op

\* The calls are those of segments before k, in their order.
InTurn(cs, k) ==
  /\ \E S : cs \in Seq(S)
  /\ \A c \in 1..Len(cs) : cs[c].segment \in 1..k - 1 /\ cs[c].err \in BOOLEAN
  /\ \A c, d \in 1..Len(cs) : c < d => cs[c].segment < cs[d].segment

LastBefore(cs, c, n) ==
  c \in 1..Len(cs) /\ cs[c].segment < n /\ \A d \in 1..Len(cs) : d > c => cs[d].segment >= n

\* Whether a segment runs is for its operator and the last call before it.
Decided(cs, ln, k) ==
  /\ k > 1 => RanIn(cs, 1)
  /\ \A n \in 2..k - 1 :
       \E c : LastBefore(cs, c, n) /\ (RanIn(cs, n) <=> GoesOn(ln[n - 1].op, cs[c].err))

FedAt(cs, ln, in, c) ==
  cs[c].stdin = IF cs[c].segment = 1 THEN in
                ELSE IF ln[cs[c].segment - 1].op = "Pipe" THEN cs[c - 1].output ELSE <<>>

Fed(cs, ln, in) == \A c \in 1..Len(cs) : (c = 1 => cs[c].segment = 1) /\ FedAt(cs, ln, in, c)

LastIs(cs, out, err) == Len(cs) > 0 => out = cs[Len(cs)].output /\ err = cs[Len(cs)].err

ShellInv ==
  /\ line \in ClearLines /\ HasParsed(segments, line) /\ position \in 1..Len(line) + 1
  /\ InTurn(calls, position) /\ Decided(calls, line, position) /\ Fed(calls, line, stdin)
  /\ lastErr \in BOOLEAN /\ LastIs(calls, lastOutput, lastErr)
  /\ collected = ResultsOf(calls, line, position - 1)
  /\ result # Nothing => position = Len(line) + 1 /\ result = collected

LEMMA ShellBegins == ShellInit /\ line \in ClearLines => ShellInv
<1> SUFFICES ASSUME ShellInit, line \in ClearLines PROVE ShellInv
  OBVIOUS
<1>1. line \in ClearLines /\ segments = parseChain(Written(line)) /\ position = 1 /\ calls = <<>> /\ collected = <<>>
      /\ lastErr = FALSE /\ result = Nothing
  BY DEF ShellInit
<1>2. HasParsed(segments, line)
  <2>1. Nothing \notin Quotes /\ Nothing \notin Operators
    BY ShellAssumption
  <2> QED
    BY <1>1, <2>1, LineReads DEF HasParsed
<1>3. Len(line) \in Nat /\ position \in 1..Len(line) + 1
  BY <1>1, MeantIs
<1>4. InTurn(<<>>, 1) /\ Decided(<<>>, line, 1) /\ Fed(<<>>, line, stdin) /\ LastIs(<<>>, lastOutput, lastErr)
  <2>1. <<>> \in Seq({}) /\ Len(<<>>) = 0
    OBVIOUS
  <2> QED
    BY <2>1 DEF InTurn, Decided, Fed, LastIs
<1>5. collected = ResultsOf(calls, line, position - 1)
  BY <1>1, ResultsNone
<1> QED
  BY <1>1, <1>2, <1>3, <1>4, <1>5 DEF ShellInv

LEMMA SkippedIs ==
  ASSUME lastErr \in BOOLEAN
  PROVE  Skipped <=> position > 1 /\ ~GoesOn(segments[position - 1].op, lastErr)
<1>1. CASE lastErr = TRUE
  BY <1>1 DEF Skipped, GoesOn
<1>2. CASE lastErr = FALSE
  BY <1>2 DEF Skipped, GoesOn
<1> QED
  BY <1>1, <1>2

LEMMA CallsAre ==
  ASSUME NEW cs, NEW k \in Nat \ {0}, InTurn(cs, k)
  PROVE  /\ Len(cs) \in Nat /\ DOMAIN cs = 1..Len(cs) /\ ~RanIn(cs, k)
         /\ Len(cs) > 0 => LastBefore(cs, Len(cs), k)
<1>1. Len(cs) \in Nat /\ DOMAIN cs = 1..Len(cs)
  BY DEF InTurn
<1>2. \A c \in 1..Len(cs) : cs[c].segment \in 1..k - 1
  BY DEF InTurn
<1>3. \A c \in 1..Len(cs) : cs[c].segment < k /\ cs[c].segment # k
  BY <1>2
<1>4. ~RanIn(cs, k)
  BY <1>1, <1>3 DEF RanIn
<1>5. Len(cs) > 0 => LastBefore(cs, Len(cs), k)
  BY <1>1, <1>3 DEF LastBefore
<1> QED
  BY <1>1, <1>4, <1>5

\* When no segment ran, its results are those before it.
LEMMA SkipKeeps == ShellInv /\ Skip => ShellInv'
<1> SUFFICES ASSUME ShellInv, Skip PROVE ShellInv'
  OBVIOUS
<1>1. /\ line \in ClearLines /\ HasParsed(segments, line) /\ position \in 1..Len(line) + 1
      /\ InTurn(calls, position) /\ Decided(calls, line, position) /\ Fed(calls, line, stdin)
      /\ lastErr \in BOOLEAN /\ LastIs(calls, lastOutput, lastErr)
      /\ collected = ResultsOf(calls, line, position - 1)
  BY DEF ShellInv
<1>2. result = Nothing /\ position \in DOMAIN segments /\ Skipped /\ position' = position + 1
  BY DEF Skip
<1>3. /\ line' = line /\ stdin' = stdin /\ segments' = segments /\ lastOutput' = lastOutput /\ lastErr' = lastErr
      /\ collected' = collected /\ calls' = calls /\ result' = result
  BY DEF Skip
<1>4. Len(line) \in Nat /\ position \in 1..Len(line) /\ segments[position - 1].op = line[position - 1].op /\ position > 1 /\ ~GoesOn(line[position - 1].op, lastErr)
  <2>1. Len(line) \in Nat
    BY <1>1, MeantIs
  <2>2. position \in 1..Len(line) /\ position > 1 /\ ~GoesOn(segments[position - 1].op, lastErr)
    BY <1>1, <1>2, SkippedIs DEF HasParsed
  <2>3. position - 1 \in 1..Len(line)
    BY <2>1, <2>2
  <2> QED
    BY <1>1, <2>1, <2>2, <2>3 DEF HasParsed
<1>5. InTurn(calls, position + 1)
  <2>1. \A c \in 1..Len(calls) : calls[c].segment \in 1..(position + 1) - 1
    <3>1. \A c \in 1..Len(calls) : calls[c].segment \in 1..position - 1
      BY <1>1 DEF InTurn
    <3>2. \A s \in 1..position - 1 : s \in 1..(position + 1) - 1
      BY <1>4
    <3> QED
      BY <3>1, <3>2
  <2> QED
    BY <1>1, <2>1 DEF InTurn
<1>6. /\ Len(calls) \in Nat /\ DOMAIN calls = 1..Len(calls) /\ ~RanIn(calls, position)
      /\ Len(calls) > 0 => LastBefore(calls, Len(calls), position)
  BY <1>1, <1>4, CallsAre
<1>7. Len(calls) > 0
  <2>1. RanIn(calls, 1)
    BY <1>1, <1>4 DEF Decided
  <2> QED
    BY <1>6, <2>1 DEF RanIn
<1>8. Decided(calls, line, position + 1)
  <2>1. ~GoesOn(line[position - 1].op, calls[Len(calls)].err)
    BY <1>1, <1>4, <1>7 DEF LastIs
  <2>2. \E c : LastBefore(calls, c, position) /\ (RanIn(calls, position) <=> GoesOn(line[position - 1].op, calls[c].err))
    BY <1>6, <1>7, <2>1
  <2>3. \A n \in 2..(position + 1) - 1 : n = position \/ n \in 2..position - 1
    BY <1>4
  <2>4. RanIn(calls, 1)
    BY <1>1, <1>4 DEF Decided
  <2> QED
    BY <1>1, <2>2, <2>3, <2>4, Zenon DEF Decided
<1>9. collected = ResultsOf(calls, line, (position + 1) - 1)
  <2>1. position - 1 \in Nat /\ (position - 1) + 1 = position /\ (position + 1) - 1 = position
    BY <1>4
  <2>2. ResultsOf(calls, line, (position - 1) + 1) = ResultStep(calls, line, ResultsOf(calls, line, position - 1), (position - 1) + 1)
    BY <2>1, ResultsAgree
  <2>3. ResultStep(calls, line, ResultsOf(calls, line, position - 1), position) = ResultsOf(calls, line, position - 1)
    BY <1>6, Zenon DEF ResultStep
  <2> QED
    BY <1>1, <2>1, <2>2, <2>3
<1>10. position + 1 \in 1..Len(line) + 1
  BY <1>4
<1> QED
  BY <1>1, <1>2, <1>3, <1>5, <1>8, <1>9, <1>10 DEF ShellInv

\* One call more.
LEMMA CallMore ==
  ASSUME NEW cs, NEW k \in Nat \ {0}, InTurn(cs, k), NEW x, x.segment = k, x.err \in BOOLEAN
  PROVE  /\ InTurn(Append(cs, x), k + 1)
         /\ Len(Append(cs, x)) = Len(cs) + 1 /\ Append(cs, x)[Len(cs) + 1] = x
         /\ \A c \in 1..Len(cs) : Append(cs, x)[c] = cs[c]
         /\ RanIn(Append(cs, x), k)
         /\ \A n \in 1..k - 1 : /\ RanIn(Append(cs, x), n) <=> RanIn(cs, n)
                                /\ RanIn(cs, n) => CallOn(Append(cs, x), n) = CallOn(cs, n) /\ CallOn(cs, n) \in 1..Len(cs)
         /\ CallOn(Append(cs, x), k) = Len(cs) + 1
         /\ \A c, n : LastBefore(cs, c, n) /\ n \in 1..k => LastBefore(Append(cs, x), c, n)
<1> DEFINE ds == Append(cs, x)
           L == Len(cs)
<1>1. PICK S : cs \in Seq(S)
  BY DEF InTurn
<1>2. /\ ds \in Seq(S \cup {x}) /\ L \in Nat /\ Len(ds) = L + 1 /\ DOMAIN ds = 1..L + 1 /\ DOMAIN cs = 1..L
      /\ ds[L + 1] = x /\ \A c \in 1..L : ds[c] = cs[c]
  BY <1>1, LongerSeq
<1>3. /\ \A c \in 1..L : cs[c].segment \in 1..k - 1 /\ cs[c].err \in BOOLEAN
      /\ \A c, d \in 1..L : c < d => cs[c].segment < cs[d].segment
  BY DEF InTurn
<1> HIDE DEF ds, L
<1>4. \A c \in 1..L + 1 : c = L + 1 \/ c \in 1..L
  BY <1>2
<1>5. /\ \A c \in 1..L : ds[c].segment = cs[c].segment /\ ds[c].segment \in 1..k - 1
      /\ ds[L + 1].segment = k
  BY <1>2, <1>3
<1>6. InTurn(ds, k + 1)
  <2>1. \A c \in 1..L + 1 : ds[c].segment \in 1..(k + 1) - 1 /\ ds[c].err \in BOOLEAN
    <3>1. k \in 1..(k + 1) - 1 /\ \A s \in 1..k - 1 : s \in 1..(k + 1) - 1
      OBVIOUS
    <3> QED
      BY <1>2, <1>3, <1>4, <1>5, <3>1
  <2>2. ASSUME NEW c \in 1..L + 1, NEW d \in 1..L + 1, c < d PROVE ds[c].segment < ds[d].segment
    <3>1. c \in 1..L
      BY <1>2, <2>2
    <3>2. CASE d = L + 1
      BY <1>5, <3>1, <3>2
    <3>3. CASE d \in 1..L
      BY <1>3, <1>5, <2>2, <3>1, <3>3
    <3> QED
      BY <1>4, <3>2, <3>3
  <2> QED
    BY <1>2, <2>1, <2>2 DEF InTurn
<1>7. RanIn(ds, k)
  <2>1. L + 1 \in DOMAIN ds
    BY <1>2
  <2> QED
    BY <1>5, <2>1 DEF RanIn
<1>8. ASSUME NEW n \in 1..k - 1
      PROVE  /\ RanIn(ds, n) <=> RanIn(cs, n)
             /\ RanIn(cs, n) => CallOn(ds, n) = CallOn(cs, n) /\ CallOn(cs, n) \in 1..L
  <2>1. n # k
    OBVIOUS
  <2>2. \A c : c \in DOMAIN ds /\ ds[c].segment = n <=> c \in DOMAIN cs /\ cs[c].segment = n
    BY <1>2, <1>4, <1>5, <2>1
  <2>3. RanIn(ds, n) <=> RanIn(cs, n)
    BY <2>2 DEF RanIn
  <2>4. RanIn(cs, n) => CallOn(ds, n) = CallOn(cs, n)
    <3> SUFFICES ASSUME RanIn(cs, n) PROVE CallOn(ds, n) = CallOn(cs, n)
      OBVIOUS
    <3>1. CallOn(cs, n) \in DOMAIN cs /\ cs[CallOn(cs, n)].segment = n
      BY Zenon DEF RanIn, CallOn
    <3>2. CallOn(ds, n) \in DOMAIN ds /\ ds[CallOn(ds, n)].segment = n
      BY <2>3, Zenon DEF RanIn, CallOn
    <3> DEFINE c == CallOn(cs, n)
               d == CallOn(ds, n)
    <3>3. c \in 1..L /\ d \in 1..L /\ cs[c].segment = n /\ cs[d].segment = n
      BY <1>2, <2>2, <3>1, <3>2
    <3> HIDE DEF c, d
    <3>4. c < d \/ d < c \/ c = d
      BY <3>3
    <3>5. ~(n < n)
      OBVIOUS
    <3>6. c = d
      BY <1>3, <3>3, <3>4, <3>5
    <3> QED
      BY <3>6 DEF c, d
  <2>5. RanIn(cs, n) => CallOn(cs, n) \in 1..L
    BY <1>2, Zenon DEF RanIn, CallOn
  <2> QED
    BY <2>3, <2>4, <2>5
<1>9. CallOn(ds, k) = L + 1
  <2>1. CallOn(ds, k) \in DOMAIN ds /\ ds[CallOn(ds, k)].segment = k
    BY <1>7, Zenon DEF RanIn, CallOn
  <2>2. \A c \in 1..L : ds[c].segment # k
    BY <1>5
  <2> QED
    BY <1>2, <1>4, <2>1, <2>2
<1>10. ASSUME NEW c, NEW n, LastBefore(cs, c, n), n \in 1..k PROVE LastBefore(ds, c, n)
  <2>1. c \in 1..L /\ cs[c].segment < n /\ \A d \in 1..L : d > c => cs[d].segment >= n
    BY <1>10 DEF LastBefore, L
  <2>2. c \in 1..L + 1 /\ ds[c].segment < n /\ k >= n
    BY <1>2, <1>10, <2>1
  <2>3. \A d \in 1..L + 1 : d > c => ds[d].segment >= n
    BY <1>4, <1>5, <2>1, <2>2
  <2> QED
    BY <1>2, <2>2, <2>3 DEF LastBefore
<1> QED
  BY <1>2, <1>6, <1>7, <1>8, <1>9, <1>10 DEF ds, L

LEMMA OutcomeIs ==
  ASSUME NEW call, NEW in, NEW outcome \in Outcomes(call, in)
  PROVE  outcome[2] \in BOOLEAN
<1>1. CASE call.kind = "none"
  <2>1. outcome = <<<<"[error]">>, TRUE>>
    BY <1>1 DEF Outcomes
  <2> QED
    BY <2>1
<1>2. CASE call.kind = "help"
  <2>1. outcome = <<<<"usage">>, FALSE>>
    BY <1>2 DEF Outcomes
  <2> QED
    BY <2>1
<1>3. CASE call.kind = "echo"
  <2> DEFINE text == IF in # <<>> THEN in ELSE Joined(call.input.args)
  <2>1. outcome = <<text, FALSE>>
    BY <1>3 DEF Outcomes
  <2> HIDE DEF text
  <2> QED
    BY <2>1
<1>4. CASE call.kind \notin {"none", "help", "echo"}
  <2>1. outcome \in (Outputs \X {FALSE}) \cup {<<<<"[error]">>, TRUE>>}
    BY <1>4 DEF Outcomes
  <2>2. CASE outcome \in Outputs \X {FALSE}
    BY <2>2
  <2>3. CASE outcome = <<<<"[error]">>, TRUE>>
    BY <2>3
  <2> QED
    BY <2>1, <2>2, <2>3
<1> QED
  BY <1>1, <1>2, <1>3, <1>4

LEMMA ExecKeeps == ShellInv /\ ExecSingle => ShellInv'
<1> SUFFICES ASSUME ShellInv, ExecSingle PROVE ShellInv'
  OBVIOUS
<1>1. /\ line \in ClearLines /\ HasParsed(segments, line) /\ position \in 1..Len(line) + 1
      /\ InTurn(calls, position) /\ Decided(calls, line, position) /\ Fed(calls, line, stdin)
      /\ lastErr \in BOOLEAN /\ LastIs(calls, lastOutput, lastErr)
      /\ collected = ResultsOf(calls, line, position - 1)
  BY DEF ShellInv
<1>2. result = Nothing /\ position \in DOMAIN segments /\ ~Skipped /\ position' = position + 1
  BY DEF ExecSingle
<1>3. line' = line /\ stdin' = stdin /\ segments' = segments /\ result' = result
  BY DEF ExecSingle
<1> DEFINE call == CallOf(tokenize(segments[position].raw), segStdin)
<1>4. PICK outcome \in Outcomes(call, segStdin) :
        /\ lastOutput' = outcome[1] /\ lastErr' = outcome[2]
        /\ collected' = IF outcome[1] = <<>> \/ (position < Len(segments) /\ segments[position].op = "Pipe") THEN collected
                        ELSE Append(collected, outcome[1])
        /\ calls' = Append(calls, [segment |-> position, call |-> call, stdin |-> segStdin,
                                   output |-> outcome[1], err |-> outcome[2]])
  BY Zenon DEF ExecSingle
<1> DEFINE x == [segment |-> position, call |-> call, stdin |-> segStdin, output |-> outcome[1], err |-> outcome[2]]
<1> HIDE DEF call
<1>5. x.segment = position /\ x.stdin = segStdin /\ x.output = outcome[1] /\ x.err = outcome[2] /\ outcome[2] \in BOOLEAN
  BY OutcomeIs
<1>6. calls' = Append(calls, x)
  BY <1>4
<1> HIDE DEF x
<1>7. Len(line) \in Nat /\ position \in 1..Len(line) /\ position \in Nat \ {0}
  <2>1. Len(line) \in Nat
    BY <1>1, MeantIs
  <2> QED
    BY <1>1, <1>2, <2>1 DEF HasParsed
<1>8. position > 1 => position - 1 \in 1..Len(line) /\ segments[position - 1].op = line[position - 1].op /\ GoesOn(line[position - 1].op, lastErr)
  <2> SUFFICES ASSUME position > 1
               PROVE  position - 1 \in 1..Len(line) /\ segments[position - 1].op = line[position - 1].op /\ GoesOn(line[position - 1].op, lastErr)
    OBVIOUS
  <2>1. position - 1 \in 1..Len(line)
    BY <1>7
  <2>2. segments[position - 1].op = line[position - 1].op
    BY <1>1, <2>1 DEF HasParsed
  <2>3. GoesOn(segments[position - 1].op, lastErr)
    BY <1>1, <1>2, SkippedIs
  <2> QED
    BY <2>1, <2>2, <2>3
<1> DEFINE ds == Append(calls, x)
           L == Len(calls)
<1>9. /\ InTurn(ds, position + 1) /\ Len(ds) = L + 1 /\ ds[L + 1] = x
      /\ \A c \in 1..L : ds[c] = calls[c]
      /\ RanIn(ds, position) /\ CallOn(ds, position) = L + 1
  BY <1>1, <1>5, <1>7, CallMore
<1>10. \A n \in 1..position - 1 : RanIn(ds, n) <=> RanIn(calls, n)
  BY <1>1, <1>5, <1>7, CallMore
<1>21. \A n \in 1..position - 1 : RanIn(calls, n) => CallOn(ds, n) = CallOn(calls, n) /\ CallOn(calls, n) \in 1..L
  BY <1>1, <1>5, <1>7, CallMore
<1>11. \A c, n : LastBefore(calls, c, n) /\ n \in 1..position => LastBefore(ds, c, n)
  BY <1>1, <1>5, <1>7, CallMore
<1>12. /\ L \in Nat /\ DOMAIN calls = 1..L /\ (L > 0 => LastBefore(calls, L, position))
  BY <1>1, <1>7, CallsAre
<1>13. position > 1 => L > 0
  <2>1. position > 1 => RanIn(calls, 1)
    BY <1>1 DEF Decided
  <2> QED
    BY <1>12, <2>1 DEF RanIn
<1>14. \A c \in 1..L + 1 : c = L + 1 \/ c \in 1..L
  BY <1>12
<1> HIDE DEF ds, L
<1>15. Decided(ds, line, position + 1)
  <2>1. RanIn(ds, 1)
    <3>1. CASE position = 1
      BY <1>9, <3>1
    <3>2. CASE position # 1
      <4>1. position > 1 /\ 1 \in 1..position - 1
        BY <1>7, <3>2
      <4>2. RanIn(calls, 1)
        BY <1>1, <4>1, Zenon DEF Decided
      <4> QED
        BY <1>10, <4>1, <4>2, Zenon
    <3> QED
      BY <3>1, <3>2
  <2>2. ASSUME NEW n \in 2..(position + 1) - 1
        PROVE  \E c : LastBefore(ds, c, n) /\ (RanIn(ds, n) <=> GoesOn(line[n - 1].op, ds[c].err))
    <3>1. CASE n = position
      <4>1. position > 1 /\ position \in 1..position
        BY <1>7, <3>1
      <4>2. LastBefore(ds, L, position) /\ L \in 1..L
        BY <1>11, <1>12, <1>13, <4>1
      <4>3. ds[L].err = lastErr
        BY <1>1, <1>9, <1>13, <4>1, <4>2 DEF LastIs, L
      <4> QED
        BY <1>8, <1>9, <3>1, <4>1, <4>2, <4>3
    <3>2. CASE n # position
      <4>1. n \in 2..position - 1 /\ n \in 1..position - 1 /\ n \in 1..position
        BY <1>7, <3>2
      <4>2. PICK c : LastBefore(calls, c, n) /\ (RanIn(calls, n) <=> GoesOn(line[n - 1].op, calls[c].err))
        BY <1>1, <4>1 DEF Decided
      <4>3. c \in 1..L
        BY <4>2 DEF LastBefore, L
      <4>4. LastBefore(ds, c, n) /\ ds[c] = calls[c] /\ (RanIn(ds, n) <=> RanIn(calls, n))
        BY <1>9, <1>10, <1>11, <4>1, <4>2, <4>3, Zenon
      <4> QED
        BY <4>2, <4>4, Zenon
    <3> QED
      BY <3>1, <3>2
  <2> QED
    BY <2>1, <2>2 DEF Decided
<1>16. Fed(ds, line, stdin)
  <2>1. ASSUME NEW c \in 1..L PROVE (c = 1 => ds[c].segment = 1) /\ FedAt(ds, line, stdin, c)
    <3>1. (c = 1 => calls[c].segment = 1) /\ FedAt(calls, line, stdin, c)
      BY <1>1 DEF Fed, L
    <3>2. ds[c] = calls[c]
      BY <1>9
    <3>3. CASE c = 1
      BY <3>1, <3>2, <3>3 DEF FedAt
    <3>4. CASE c # 1
      <4>1. c - 1 \in 1..L
        BY <1>12, <3>4
      <4>2. ds[c - 1] = calls[c - 1]
        BY <1>9, <4>1
      <4> QED
        BY <3>1, <3>2, <3>4, <4>2, Zenon DEF FedAt
    <3> QED
      BY <3>3, <3>4
  <2>2. L + 1 = 1 => ds[L + 1].segment = 1
    BY <1>5, <1>7, <1>9, <1>12, <1>13
  <2>3. FedAt(ds, line, stdin, L + 1)
    <3>1. ds[L + 1].segment = position /\ ds[L + 1].stdin = segStdin
      BY <1>5, <1>9
    <3>2. CASE position = 1
      <4>1. segStdin = stdin
        BY <3>2 DEF segStdin
      <4> QED
        BY <3>1, <3>2, <4>1 DEF FedAt
    <3>3. CASE position # 1
      <4>1. position > 1
        BY <1>7, <3>3
      <4>2. segStdin = IF line[position - 1].op = "Pipe" THEN lastOutput ELSE <<>>
        BY <1>8, <3>3, <4>1 DEF segStdin
      <4>3. L \in 1..L /\ (L + 1) - 1 = L
        BY <1>12, <1>13, <4>1
      <4>4. ds[L].output = lastOutput
        BY <1>1, <1>9, <1>13, <4>1, <4>3 DEF LastIs, L
      <4> QED
        BY <3>1, <3>3, <4>2, <4>3, <4>4 DEF FedAt
    <3> QED
      BY <3>2, <3>3
  <2> QED
    BY <1>9, <1>14, <2>1, <2>2, <2>3 DEF Fed
<1>17. outcome[2] \in BOOLEAN /\ LastIs(ds, outcome[1], outcome[2])
  BY <1>5, <1>9 DEF LastIs
<1>18. collected' = ResultsOf(ds, line, (position + 1) - 1)
  <2>1. position - 1 \in Nat /\ (position - 1) + 1 = position /\ (position + 1) - 1 = position
    BY <1>7
  <2>2. ASSUME NEW n \in 1..position - 1, NEW before
        PROVE  ResultStep(ds, line, before, n) = ResultStep(calls, line, before, n)
    <3>1. CASE RanIn(calls, n)
      <4>1. RanIn(ds, n) /\ CallOn(ds, n) = CallOn(calls, n) /\ ds[CallOn(calls, n)] = calls[CallOn(calls, n)]
        BY <1>9, <1>10, <1>21, <3>1, Zenon
      <4> QED
        BY <3>1, <4>1, Zenon DEF ResultStep
    <3>2. CASE ~RanIn(calls, n)
      <4>1. ~RanIn(ds, n)
        BY <1>10, <3>2, Zenon
      <4> QED
        BY <3>2, <4>1, Zenon DEF ResultStep
    <3> QED
      BY <3>1, <3>2
  <2>3. ResultsOf(ds, line, (position - 1) + 1) = ResultStep(ds, line, ResultsOf(calls, line, position - 1), (position - 1) + 1)
    <3> DEFINE n == position - 1
    <3>1. n \in Nat /\ \A m \in 1..n : \A b : ResultStep(ds, line, b, m) = ResultStep(calls, line, b, m)
      BY <2>1, <2>2
    <3> HIDE DEF n
    <3>2. ResultsOf(ds, line, n + 1) = ResultStep(ds, line, ResultsOf(calls, line, n), n + 1)
      BY <3>1, ResultsAgree
    <3> QED
      BY <3>2 DEF n
  <2>4. ResultsOf(ds, line, position) = ResultStep(ds, line, collected, position)
    BY <1>1, <2>1, <2>3
  <2>5. ds[CallOn(ds, position)].output = outcome[1]
    BY <1>5, <1>9
  <2>6. (position < Len(segments) /\ segments[position].op = "Pipe") <=> line[position].op = "Pipe"
    <3>1. segments[position].op = line[position].op /\ Len(segments) = Len(line)
      BY <1>1, <1>7 DEF HasParsed
    <3>2. line[position].op = "Pipe" => position # Len(line)
      <4>1. position = Len(line) => line[position].op = Nothing
        BY <1>1, <1>7, MeantIs
      <4>2. Nothing # "Pipe"
        BY ShellAssumption DEF Operators
      <4> QED
        BY <4>1, <4>2
    <3> QED
      BY <1>7, <3>1, <3>2
  <2>7. ResultStep(ds, line, collected, position) = IF line[position].op # "Pipe" /\ outcome[1] # <<>> THEN Append(collected, outcome[1]) ELSE collected
    BY <1>9, <2>5, Zenon DEF ResultStep
  <2>8. collected' = IF outcome[1] = <<>> \/ line[position].op = "Pipe" THEN collected ELSE Append(collected, outcome[1])
    BY <1>4, <2>6
  <2> QED
    BY <2>1, <2>4, <2>7, <2>8, Zenon
<1>19. position + 1 \in 1..Len(line) + 1
  BY <1>7
<1>20. calls' = ds /\ lastOutput' = outcome[1] /\ lastErr' = outcome[2]
  BY <1>4, <1>6 DEF ds
<1> QED
  BY <1>1, <1>2, <1>3, <1>9, <1>15, <1>16, <1>17, <1>18, <1>19, <1>20, Zenon DEF ShellInv

LEMMA ReturnKeeps == ShellInv /\ Return => ShellInv'
<1> SUFFICES ASSUME ShellInv, Return PROVE ShellInv'
  OBVIOUS
<1>1. /\ line' = line /\ stdin' = stdin /\ segments' = segments /\ position' = position /\ lastOutput' = lastOutput
      /\ lastErr' = lastErr /\ collected' = collected /\ calls' = calls
  BY DEF Return
<1>2. position = Len(line) + 1 /\ result' = collected
  <2>1. Len(line) \in Nat \ {0}
    BY MeantIs DEF ShellInv
  <2>2. DOMAIN segments = 1..Len(line) /\ Len(segments) = Len(line) /\ position \in 1..Len(line) + 1
    BY DEF ShellInv, HasParsed
  <2>3. position \notin DOMAIN segments /\ result' = IF segments = <<>> THEN <<<<"[error]">>>> ELSE collected
    BY DEF Return
  <2>4. segments # <<>>
    BY <2>1, <2>2
  <2> QED
    BY <2>1, <2>2, <2>3, <2>4
<1> QED
  BY <1>1, <1>2, Zenon DEF ShellInv

LEMMA ShellStep == ShellInv /\ [ShellNext]_shellVars => ShellInv'
<1> SUFFICES ASSUME ShellInv, [ShellNext]_shellVars PROVE ShellInv'
  OBVIOUS
<1>1. CASE Skip
  BY <1>1, SkipKeeps
<1>2. CASE ExecSingle
  BY <1>2, ExecKeeps
<1>3. CASE Return
  BY <1>3, ReturnKeeps
<1>4. CASE UNCHANGED shellVars
  BY <1>4, Zenon DEF shellVars, ShellInv
<1> QED
  BY <1>1, <1>2, <1>3, <1>4 DEF ShellNext

LEMMA OneCall ==
  ASSUME ShellInv, NEW c \in 1..Len(calls)
  PROVE  Ran(calls[c].segment) /\ CallIn(calls[c].segment) = c
<1> DEFINE n == calls[c].segment
           d == CallIn(n)
<1>1. /\ Len(calls) \in Nat /\ DOMAIN calls = 1..Len(calls)
      /\ \A a, b \in 1..Len(calls) : a < b => calls[a].segment < calls[b].segment
      /\ \A a \in 1..Len(calls) : calls[a].segment \in 1..position - 1
  BY DEF ShellInv, InTurn
<1>2. d \in DOMAIN calls /\ calls[d].segment = n /\ Ran(n)
  BY <1>1, Zenon DEF CallIn, Ran
<1>3. c \in 1..Len(calls) /\ d \in 1..Len(calls) /\ calls[c].segment = n
  BY <1>1, <1>2
<1> HIDE DEF d, n
<1>4. c < d \/ d < c \/ c = d
  BY <1>1, <1>3
<1>5. n \in 1..position - 1
  BY <1>1, <1>3
<1>6. ~(n < n)
  BY <1>5
<1>7. c = d
  BY <1>1, <1>2, <1>3, <1>4, <1>6
<1> QED
  BY <1>2, <1>7 DEF d, n

LEMMA RanBy ==
  ASSUME ShellInv, NEW n, Ran(n)
  PROVE  CallIn(n) \in 1..Len(calls) /\ calls[CallIn(n)].segment = n
<1>1. DOMAIN calls = 1..Len(calls)
  BY DEF ShellInv, InTurn
<1> QED
  BY <1>1, Zenon DEF Ran, CallIn

\* The last command that ran before a segment decides.
LEMMA HeadRuns ==
  ASSUME ShellInv, position = Len(line) + 1, NEW n \in 2..Len(line), line[n - 1].op # "Pipe"
  PROVE  LET before == Max({m \in 1..(n - 1) : Ran(m)})
             failed == calls[CallIn(before)].err
         IN  Ran(n) <=> CASE line[n - 1].op = "And" -> ~failed
                          [] line[n - 1].op = "Or" -> failed
                          [] OTHER -> TRUE
<1> DEFINE B == {m \in 1..(n - 1) : Ran(m)}
<1>1. Len(line) \in Nat
  BY MeantIs DEF ShellInv
<1>2. PICK c : LastBefore(calls, c, n) /\ (RanIn(calls, n) <=> GoesOn(line[n - 1].op, calls[c].err))
  <2>1. n \in 2..position - 1
    BY <1>1
  <2> QED
    BY <2>1 DEF ShellInv, Decided
<1>3. /\ Len(calls) \in Nat /\ DOMAIN calls = 1..Len(calls)
      /\ \A a, b \in 1..Len(calls) : a < b => calls[a].segment < calls[b].segment
      /\ \A a \in 1..Len(calls) : calls[a].segment \in 1..position - 1 /\ calls[a].err \in BOOLEAN
  BY DEF ShellInv, InTurn
<1>4. c \in 1..Len(calls) /\ calls[c].segment < n /\ \A d \in 1..Len(calls) : d > c => calls[d].segment >= n
  BY <1>2 DEF LastBefore
<1> DEFINE b == calls[c].segment
<1>5. Ran(b) /\ CallIn(b) = c
  BY <1>4, OneCall
<1>6. b \in B
  <2>1. b \in 1..position - 1
    BY <1>3, <1>4
  <2> QED
    BY <1>4, <1>5, <2>1
<1>7. ASSUME NEW m \in B PROVE m <= b
  <2> DEFINE d == CallIn(m)
  <2>1. m \in 1..n - 1 /\ Ran(m)
    OBVIOUS
  <2>2. d \in 1..Len(calls) /\ calls[d].segment = m
    BY <2>1, RanBy
  <2> HIDE DEF d, B
  <2>3. ~(d > c)
    BY <1>4, <2>1, <2>2
  <2>4. d = c \/ d < c
    BY <1>3, <1>4, <2>2, <2>3
  <2>5. b \in 1..position - 1
    BY <1>3, <1>4
  <2>6. d < c => m < b
    BY <1>3, <1>4, <2>2
  <2> QED
    BY <2>1, <2>2, <2>4, <2>5, <2>6
<1>8. Max(B) = b
  <2>1. n - 1 \in Nat /\ B \in SUBSET (1..n - 1) /\ B # {}
    BY <1>6
  <2> HIDE DEF B
  <2>2. Max(B) \in B /\ b <= Max(B) /\ Max(B) <= b
    BY <1>6, <1>7, <2>1, LeastMost
  <2> HIDE DEF b
  <2>3. Max(B) \in 1..n - 1 /\ b \in 1..n - 1
    BY <1>6, <2>1, <2>2
  <2> QED
    BY <2>2, <2>3
<1> DEFINE failed == calls[CallIn(Max(B))].err
<1>9. failed = calls[c].err /\ failed \in BOOLEAN
  BY <1>3, <1>4, <1>5, <1>8
<1>10. Ran(n) <=> GoesOn(line[n - 1].op, failed)
  BY <1>2, <1>9 DEF Ran, RanIn
<1> HIDE DEF failed, B, b
<1>11. Ran(n) <=> CASE line[n - 1].op = "And" -> ~failed
                    [] line[n - 1].op = "Or" -> failed
                    [] OTHER -> TRUE
  <2>1. CASE line[n - 1].op = "And"
    BY <1>10, <2>1 DEF GoesOn
  <2>2. CASE line[n - 1].op = "Or"
    BY <1>10, <2>2 DEF GoesOn
  <2>3. CASE line[n - 1].op # "And" /\ line[n - 1].op # "Or"
    BY <1>10, <2>3 DEF GoesOn
  <2> QED
    BY <2>1, <2>2, <2>3
<1> QED
  BY <1>11, Zenon DEF failed, B

\* A command reads what the one before it in its pipeline has written.
LEMMA StdinIs ==
  ASSUME ShellInv, PipelinesWhole, NEW n \in DOMAIN line, Ran(n)
  PROVE  calls[CallIn(n)].stdin = IF n = 1 THEN stdin
                                  ELSE IF n \in Heads THEN <<>> ELSE calls[CallIn(n - 1)].output
<1> DEFINE c == CallIn(n)
<1>1. c \in 1..Len(calls) /\ calls[c].segment = n
  BY RanBy
<1>2. /\ c = 1 => n = 1
      /\ calls[c].stdin = IF n = 1 THEN stdin ELSE IF line[n - 1].op = "Pipe" THEN calls[c - 1].output ELSE <<>>
  BY <1>1, Zenon DEF ShellInv, Fed, FedAt
<1>3. n \in Heads <=> n = 1 \/ line[n - 1].op # "Pipe"
  BY DEF Heads
<1>4. CASE n = 1 \/ line[n - 1].op # "Pipe"
  BY <1>2, <1>3, <1>4, Zenon
<1>5. CASE n # 1 /\ line[n - 1].op = "Pipe"
  <2> DEFINE d == CallIn(n - 1)
  <2>1. Ran(n - 1)
    BY <1>3, <1>5 DEF PipelinesWhole
  <2>2. d \in 1..Len(calls) /\ calls[d].segment = n - 1
    BY <2>1, RanBy
  <2>3. /\ Len(calls) \in Nat
        /\ \A x, y \in 1..Len(calls) : x < y => calls[x].segment < calls[y].segment
        /\ \A x \in 1..Len(calls) : calls[x].segment \in 1..position - 1
    BY DEF ShellInv, InTurn
  <2> HIDE DEF c, d
  <2>4. n \in 1..position - 1 /\ position \in Int
    <3>1. Len(line) \in Nat /\ position \in 1..Len(line) + 1
      BY MeantIs DEF ShellInv
    <3> QED
      BY <1>1, <2>3, <3>1
  <2>5. d < c
    <3>1. ~(c < d)
      <4>1. ~(n < n - 1)
        BY <2>4
      <4> QED
        BY <1>1, <2>2, <2>3, <4>1
    <3>2. c # d
      BY <1>1, <2>2, <2>4
    <3> QED
      BY <1>1, <2>2, <2>3, <3>1, <3>2
  <2>6. d = c - 1
    <3> SUFFICES ASSUME d # c - 1 PROVE FALSE
      OBVIOUS
    <3>1. c - 1 \in 1..Len(calls) /\ d < c - 1 /\ c - 1 < c
      BY <1>1, <2>2, <2>3, <2>5
    <3> DEFINE e == c - 1
    <3>2. e \in 1..Len(calls) /\ d < e /\ e < c
      BY <3>1
    <3> HIDE DEF e
    <3>3. n - 1 < calls[e].segment /\ calls[e].segment < n /\ calls[e].segment \in 1..position - 1
      BY <1>1, <2>2, <2>3, <3>2
    <3> QED
      BY <2>4, <3>3
  <2>7. calls[c].stdin = calls[d].output
    BY <1>2, <1>5, <2>6
  <2> QED
    BY <1>3, <1>5, <2>7, Zenon DEF c, d
<1> QED
  BY <1>4, <1>5

LEMMA InvShell == ShellInv => ChainAsShell
<1> SUFFICES ASSUME ShellInv, result # Nothing, NoEscapedQuote, PipelinesWhole
             PROVE  /\ \A n \in Heads \ {1} :
                         LET before == Max({m \in 1..(n - 1) : Ran(m)})
                             failed == calls[CallIn(before)].err
                         IN  Ran(n) <=> CASE line[n - 1].op = "And" -> ~failed
                                          [] line[n - 1].op = "Or" -> failed
                                          [] OTHER -> TRUE
                    /\ \A n \in DOMAIN line : Ran(n) =>
                         calls[CallIn(n)].stdin = IF n = 1 THEN stdin
                                                  ELSE IF n \in Heads THEN <<>> ELSE calls[CallIn(n - 1)].output
                    /\ result = Results(Len(line))
  BY Zenon DEF ChainAsShell
<1>1. position = Len(line) + 1 /\ result = collected
  BY DEF ShellInv
<1>2. Len(line) \in Nat /\ DOMAIN line = 1..Len(line)
  BY MeantIs DEF ShellInv
<1>3. ASSUME NEW n \in Heads \ {1} PROVE n \in 2..Len(line) /\ line[n - 1].op # "Pipe"
  BY <1>2 DEF Heads
<1>4. result = Results(Len(line))
  <2>1. position - 1 = Len(line)
    BY <1>1, <1>2
  <2> QED
    BY <1>1, <2>1, ResultsIs DEF ShellInv
<1> QED
  BY <1>1, <1>3, <1>4, HeadRuns, StdinIs, Zenon

\* A chain of commands does what a shell would do, in every line in which no
\* && or || skips the head of a pipeline and no word has an escaped quote
\* (tools.ts:82-122).
THEOREM ChainAsShellHolds == ShellSpec => []ChainAsShell
<1> DEFINE Inv == line \in CommandLines /\ (line \in ClearLines => ShellInv)
<1>1. ShellInit => Inv
  BY ShellBegins DEF ShellInit
<1>2. Inv /\ [ShellNext]_shellVars => Inv'
  <2>1. ASSUME [ShellNext]_shellVars PROVE line' = line
    BY <2>1 DEF ShellNext, shellVars, Skip, ExecSingle, Return
  <2>2. ClearLines' = ClearLines
    BY DEF ClearLines
  <2> QED
    BY <2>1, <2>2, ShellStep
<1>3. Inv => ChainAsShell
  <2>1. Inv /\ NoEscapedQuote => line \in ClearLines
    BY DEF NoEscapedQuote, ClearLines
  <2>2. ~NoEscapedQuote => ChainAsShell
    BY DEF ChainAsShell
  <2> QED
    BY <2>1, <2>2, InvShell
<1> QED
  BY <1>1, <1>2, <1>3, PTL DEF ShellSpec

=============================================================================
