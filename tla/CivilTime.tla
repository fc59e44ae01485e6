----------------------------- MODULE CivilTime -----------------------------
(***************************************************************************)
(* Instants, civil days and weeks in a time zone: shared/time.ts.          *)
(*                                                                         *)
(* Abstractions: an instant and a civil date are integers, the date the    *)
(* number of the day; the unit of time stands for a millisecond, and how   *)
(* many make a minute or a day, and how many days a week or a month, are   *)
(* parameters.  A zone is an offset that changes once.                     *)
(***************************************************************************)
EXTENDS Integers, FiniteSets, FiniteSetsExt

CONSTANTS Zone, Day,     \* the zones and the civil days there are
          DayStarts,     \* where each day starts in each zone: what FirstInstant finds
          PerMinute,     \* units of time in a minute
          DayLength, DaysInWeek, DaysInMonth,
          Slack          \* how far from UTC a civil day may start (15 hours)

ASSUME CalendarAssumption ==
    /\ PerMinute \in Nat \ {0} /\ DayLength \in Nat \ {0}
    /\ DaysInWeek \in Nat \ {0} /\ DaysInMonth \in Nat \ {0}
    /\ Slack \in Nat
    /\ \A zone \in Zone : zone \in [before : Int, after : Int, at : Int]

Later(a, b) == IF a > b THEN a ELSE b
Earlier(a, b) == IF a < b THEN a ELSE b

ZoneOffset(zone, i) == IF i < zone.at THEN zone.before ELSE zone.after

CivilDate(zone, i) == (i + ZoneOffset(zone, i)) \div DayLength

(* Guess and correct; the guess is kept only if two in a row are the same. *)
Guesses(zone, day) ==
    LET next(i) == DayLength * day - ZoneOffset(zone, i)
        try[n \in 0..4] == IF n = 0 THEN next(DayLength * day) ELSE next(try[n - 1])
    IN  {try[n] : n \in {m \in 0..3 : try[m] = try[m + 1]}}

(* Binary search for the first instant whose date is not before the day.   *)
Bisect(zone, day) ==
    LET halve(n, r) ==
            LET mid == (r.lo + r.hi) \div 2
            IN  IF r.lo >= r.hi THEN r
                ELSE IF CivilDate(zone, mid) >= day THEN [r EXCEPT !.hi = mid]
                ELSE [r EXCEPT !.lo = mid + 1]
        at == DayLength * day
    IN  FoldSet(halve, [lo |-> at - Slack, hi |-> at + Slack], 1..(2 * Slack)).lo

FirstInstant(zone, day) ==
    LET good == {i \in Guesses(zone, day) : CivilDate(zone, i) = day}
    IN  IF good # {} THEN CHOOSE i \in good : TRUE ELSE Bisect(zone, day)

ASSUME DayStartsAssumption == DayStarts = [zone \in Zone |-> [day \in Day |-> FirstInstant(zone, day)]]

DayStartOf == DayStarts     \* a definition, so that TLC evaluates the table once
DayStartInstant(zone, day) == DayStartOf[zone][day]

(* Mutant: every day has DayLength hours.                                  *)
DayOfHours(zone, day) ==
    [start |-> DayStartInstant(zone, day), end |-> DayStartInstant(zone, day) + DayLength]

DayBounds(zone, day) ==
    [start |-> DayStartInstant(zone, day), end |-> DayStartInstant(zone, day + 1)]

WeekStartInstant(zone, i, weekStart) ==
    LET day == CivilDate(zone, i)
    IN  DayStartInstant(zone, day - ((day - weekStart) % DaysInWeek))

(* What zones are like, for the theorems about days: none is further from  *)
(* UTC than the search looks, nor changes by a whole day; dates do not go  *)
(* back; and time does not begin between two midnights.                    *)
ZonesFit ==
    \A zone \in Zone :
        /\ zone.before \in (-Slack)..Slack /\ zone.after \in (-Slack)..Slack
        /\ zone.after - zone.before < DayLength /\ zone.before - zone.after < DayLength

DatesGoOn(instants) ==
    \A zone \in Zone : \A i, j \in instants : i <= j => CivilDate(zone, i) <= CivilDate(zone, j)
DatesNeverReturn == DatesGoOn(Int)

BeginsInADay == \A zone \in Zone : DayStartInstant(zone, CivilDate(zone, 0)) <= 0

(* Whole minutes: Math.round, which rounds a half up.                      *)
Minutes(time) == (2 * time + PerMinute) \div (2 * PerMinute)

(* How much of [from, to) lies in [start, end).                            *)
Overlap(from, to, start, end) == Later(0, Earlier(to, end) - Later(from, start))
=============================================================================
