------------------------------ MODULE GoalMath ------------------------------
(***************************************************************************)
(* The periods of a goal, their targets, its status and its statistics:    *)
(* shared/goals.ts.  A calendar `cal` is the user's zone and the day that   *)
(* starts his week.                                                        *)
(***************************************************************************)
EXTENDS CivilTime, Sequences, SequencesExt

CONSTANTS None,
          Forever,     \* Infinity: later than every instant
          MaxWindows   \* MAX_WINDOWS

ASSUME WindowsAssumption == Forever \in Nat /\ MaxWindows \in Nat \ {0} /\ None \notin Nat

DaysFrom(zone, day, n) ==
    [start |-> DayStartInstant(zone, day), end |-> DayStartInstant(zone, day + n)]

GoalPeriodBounds(period, i, cal) ==
    LET day == CivilDate(cal.zone, i) IN
    CASE period = "day" -> DaysFrom(cal.zone, day, 1)
      [] period = "week" ->
            LET start == WeekStartInstant(cal.zone, i, cal.weekStart)
            IN  [start |-> start, end |-> DayStartInstant(cal.zone, CivilDate(cal.zone, start) + DaysInWeek)]
      [] period = "month" -> DaysFrom(cal.zone, day - (day % DaysInMonth), DaysInMonth)

(* Mutant: the period after w by adding hours.                             *)
NextByHours(period, w, cal) ==
    LET length == DayLength * (CASE period = "day" -> 1 [] period = "week" -> DaysInWeek [] OTHER -> DaysInMonth)
    IN  [start |-> w.start + length, end |-> w.start + 2 * length]

(* The period after w: by the calendar, never by adding hours.             *)
NextBounds(period, w, cal) ==
    LET day == CivilDate(cal.zone, w.start) IN
    CASE period = "day" -> DaysFrom(cal.zone, day + 1, 1)
      [] period = "week" ->
            LET start == DayStartInstant(cal.zone, day + DaysInWeek)
            IN  [start |-> start, end |-> DayStartInstant(cal.zone, CivilDate(cal.zone, start) + DaysInWeek)]
      [] period = "month" -> GoalPeriodBounds("month", w.end, cal)

GoalEnd(g) == Min(({g.ends, g.archived} \ {None}) \cup {Forever})
GoalHorizon(g, now) == Earlier(GoalEnd(g), now)

(* The target of a period that the goal lived through only in part is a    *)
(* part of it, rounded up, and at least 1.                                 *)
ProRated(g, w) ==
    LET covered == Earlier(GoalEnd(g), w.end) - Later(g.created, w.start)
        full == w.end - w.start
    IN  IF covered >= full THEN g.target
        ELSE Later(1, (g.target * covered + full - 1) \div full)

(* Mutant: a period is over when what is counted of it is.                 *)
ElapsedAtHorizon(g, w, now) == Earlier(w.end, GoalHorizon(g, now)) <= now

Elapsed(g, w, now) == Earlier(w.end, GoalEnd(g)) <= now

Window(g, w, now) ==
    LET over == Elapsed(g, w, now) IN
    [start |-> w.start, end |-> w.end, target |-> ProRated(g, w), elapsed |-> over,
     current |-> ~over /\ w.start <= now /\ now < w.end]

GoalWindows(g, cal, now) ==
    LET bounds[n \in 1..MaxWindows] ==
            IF n = 1 THEN GoalPeriodBounds(g.period, g.created, cal)
            ELSE NextBounds(g.period, bounds[n - 1], cal)
        open == {n \in 1..MaxWindows : bounds[n].start < GoalHorizon(g, now)}
    IN  IF GoalHorizon(g, now) <= g.created THEN << >>
        ELSE [n \in 1..Cardinality(open) |-> Window(g, bounds[n], now)]

(* `live` and `done` count the tasks in the goal's scope.                  *)
GoalStatus(g, live, done, now) ==
    IF g.archived # None THEN "archived"
    ELSE IF live > 0 /\ done >= live THEN "completed"
    ELSE IF g.ends # None /\ g.ends <= now THEN "expired"
    ELSE "active"

WindowMet(direction, w) ==
    IF direction = "at_least" THEN w.actual >= w.target ELSE w.actual <= w.target

NoStats == [periods |-> 0, met |-> 0, current |-> 0, best |-> 0, total |-> 0, over |-> 0]

(* Mutant: a missed period does not end a streak.                          *)
CountedOn(st, w, met) ==
    LET run == IF met THEN st.current + 1 ELSE st.current
    IN  [st EXCEPT !.periods = @ + 1, !.met = IF met THEN @ + 1 ELSE @,
                   !.total = @ + w.actual, !.over = IF w.actual > w.target THEN @ + 1 ELSE @,
                   !.current = run, !.best = Later(@, run)]

Counted(st, w, met) ==
    LET run == IF met THEN st.current + 1 ELSE 0
    IN  [st EXCEPT !.periods = @ + 1, !.met = IF met THEN @ + 1 ELSE @,
                   !.total = @ + w.actual, !.over = IF w.actual > w.target THEN @ + 1 ELSE @,
                   !.current = run, !.best = Later(@, run)]

(* Windows that are not over are passed by.                                *)
CountedIn(direction, st, w) ==
    IF w.elapsed THEN Counted(st, w, WindowMet(direction, w)) ELSE st

GoalStats(direction, windows) ==
    FoldLeft(LAMBDA st, w : CountedIn(direction, st, w), NoStats, windows)
=============================================================================
