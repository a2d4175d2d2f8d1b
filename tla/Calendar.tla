------------------------------ MODULE Calendar ------------------------------
(***************************************************************************)
(* The next run of a daily event (src/events.ts:361-583): a time of the day *)
(* on the wall clock of a time zone, turned into an instant.  The offset of *)
(* a zone changes once within the horizon, forward or back; the code finds *)
(* the instant by guessing an offset and correcting the guess four times.  *)
(***************************************************************************)
EXTENDS Integers, Sequences, FiniteSets

CONSTANTS
  Day,      \* units of time in a day
  Zones,    \* zones: offset before and after the change, instant of the change
  MaxTime   \* bound: end of the horizon

ASSUME CalendarAssumption ==
  /\ Day \in Nat \ {0} /\ MaxTime \in Nat
  /\ Zones \subseteq [before : (1 - Day)..(Day - 1), after : (1 - Day)..(Day - 1), at : Int]
  /\ \A z \in Zones : z.after - z.before \in (-Day)..Day

VARIABLES
  now,      \* the instant
  zone,     \* the event's timezone
  time,     \* its time of the day
  next,     \* its next_run_at
  set,      \* history: when next was computed
  last      \* history: next_run_at of the firing before in this zone, or -1

calendarVars == <<now, zone, time, next, set, last>>

Offset(t, z) == IF t < z.at THEN z.before ELSE z.after

getZonedParts(t, z) ==
  [day |-> (t + Offset(t, z)) \div Day, time |-> (t + Offset(t, z)) % Day]

\* Mutant of zonedDateFromParts: the first guess is not corrected.
zonedDateOnce(day, t, z) == day * Day + t - Offset(day * Day + t, z)

\* Four corrections of the guess; one that changes nothing is the last.
zonedDateFromParts(day, t, z) ==
  LET target == day * Day + t
      Corrected(guess) == target - Offset(guess, z)
  IN  Corrected(Corrected(Corrected(Corrected(target))))

computeInitialNextRun(t, z) ==
  LET today == getZonedParts(now, z).day
  IN  IF zonedDateFromParts(today, t, z) > now THEN zonedDateFromParts(today, t, z)
      ELSE zonedDateFromParts(today + 1, t, z)

\* Mutant of advanceEventSchedule: the next run is tomorrow, however late this one.
advanceToTomorrow ==
  zonedDateFromParts(getZonedParts(now, zone).day + 1, time, zone)

\* The while loop: the first day from today whose instant lies ahead.
advanceEventSchedule ==
  LET at(k)  == zonedDateFromParts(getZonedParts(now, zone).day + k, time, zone)
      ahead  == {k \in 0..3 : at(k) > now}
  IN  at(CHOOSE k \in ahead : \A other \in ahead : k <= other)

-----------------------------------------------------------------------------
Tick ==
  /\ now < MaxTime
  /\ now' = now + 1
  /\ UNCHANGED <<zone, time, next, set, last>>

\* event-check claims the event, in time or late, and schedules it again.
Fire ==
  /\ next <= now
  /\ next' = advanceEventSchedule
  /\ set' = now /\ last' = next
  /\ UNCHANGED <<now, zone, time>>

\* event update --tz.
UpdateTimezone(z) ==
  /\ zone' = z /\ next' = computeInitialNextRun(time, z)
  /\ set' = now /\ last' = -1
  /\ UNCHANGED <<now, time>>

CalendarInit ==
  /\ now \in Day..(2 * Day - 1) /\ zone \in Zones /\ time \in 0..(Day - 1)
  /\ next = computeInitialNextRun(time, zone)
  /\ set = now /\ last = -1

CalendarNext == Tick \/ Fire \/ \E z \in Zones : UpdateTimezone(z)

CalendarSpec == CalendarInit /\ [][CalendarNext]_calendarVars

-----------------------------------------------------------------------------
Shift(z) == IF z.before < z.after THEN z.after - z.before ELSE z.before - z.after
Shows(t) == getZonedParts(t, zone).time = time
LocalDay(t) == getZonedParts(t, zone).day

\* The clock leaves the time out when it is put forward.
InGap == /\ zone.before < zone.after
         /\ \E n \in 0..(Shift(zone) - 1) : (zone.at + zone.before + n) % Day = time

\* The clock is put back over midnight, and a day begins twice.
DayBeginsTwice ==
  /\ zone.after < zone.before
  /\ (zone.at + zone.after) \div Day # (zone.at + zone.before - 1) \div Day

\* The event runs when the clock of its zone shows its time, at the first
\* such time ahead.  A time the clock leaves out is run within the shift of
\* it; of a time the clock shows twice in a day one is run.  Only for such
\* times, and on a day that begins twice, may the next run be in the past:
\* computeInitialNextRun does not look beyond tomorrow (events.ts:391-401).
RunsByTheWallClock ==
  LET horizon == (set - 2 * Day)..(set + 2 * Day) IN
  /\ next > set \/ InGap \/ DayBeginsTwice
  /\ Shows(next) \/ (InGap /\ next - zone.at \in (-Shift(zone))..Shift(zone))
  /\ \A t \in (set + 1)..(next - 1) : Shows(t) =>
       \/ LocalDay(t) = LocalDay(next)
       \/ \E u \in horizon : u <= set /\ Shows(u) /\ LocalDay(u) = LocalDay(t)

\* No day has two runs and, when event-check keeps up, none is left out: from
\* one run to the next it is a day, give or take the shift of the clock.
ADayApart ==
  last # -1 =>
    /\ next - last >= Day - Shift(zone)
    /\ set < last + Day - Shift(zone) => next - last <= Day + Shift(zone)

=============================================================================
