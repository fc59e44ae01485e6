---------------------------- MODULE GoalsChecks ----------------------------
(* What a user relies on in goals, in reports and in what the device says. *)
EXTENDS Goals

(* DayStartInstant takes the second of two midnights for the start of a    *)
(* day whose first hour comes twice; what lies between belongs to no day   *)
(* of its date.                                                            *)
InItsDay(i) == DayStartInstant(cal.zone, CivilDate(cal.zone, i)) <= i

(* A sum of m figures and a sum of n, each in whole minutes, are the same  *)
(* but for half a minute a figure.                                         *)
Agree(a, m, b, n) == 2 * (a - b) <= m + n /\ 2 * (b - a) <= m + n

(* Goals' progress counts all the time tracked in the scope during the     *)
(* goal's life, in one period and no other, across clock changes (NFR-6),  *)
(* and its figures add up to that time but for the rounding, unless the    *)
(* goal was made between two midnights of a day, or has so many periods    *)
(* that the list is cut short.                                             *)
AllTimeIsCounted ==
    \A g \in Stored : \A ws \in {Progress(goal[g], Data, now)} :
        InItsDay(goal[g].created) /\ Len(ws) < MaxWindows =>
            LET time == TimeIn({s \in Mine : InScope(Data.spans[s], goal[g].scope)}, goal[g].created,
                               Later(goal[g].created, GoalHorizon(goal[g], now)), now)
            IN  /\ Sum(LAMBDA n : WindowTime(goal[g], Data, ws[n], now), DOMAIN ws) = time
                /\ Agree(Sum(LAMBDA n : ws[n].actual, DOMAIN ws), Len(ws), Minutes(time), 1)

(* The time of a row and of a closed session, and where it counts, is left *)
(* alone by a step that only starts, stops or deletes something else, by   *)
(* the archiving of the goal, and by time as it passes.                    *)
LeavesAlone(g) ==
    /\ goal[g] # None /\ goal'[g] # None
    /\ \/ goal'[g] = goal[g]
       \/ goal[g].archived = None /\ goal'[g] = [goal[g] EXCEPT !.archived = now]
    /\ cal' = cal /\ \A c \in Task : task'[c].project = task[c].project
    /\ \A s \in Session : session'[s] # session[s] =>
          \/ session[s] = None /\ session'[s].to = None
          \/ session[s] # None /\ session[s].to = None

(* A period that is over stays as it was: neither time, nor the timer, nor *)
(* deleting its tasks, nor archiving the goal changes the target or the    *)
(* minutes of a period that has elapsed.                                   *)
ElapsedIsSettled ==
    [][\A g \in Goal : LeavesAlone(g) =>
          \A was \in {Progress(goal[g], Data, now)}, is \in {Progress(goal'[g], Data', now')} :
              \A n \in DOMAIN was : was[n].elapsed => n \in DOMAIN is /\ is[n] = was[n]]_vars

(* The days of a range hold the time of its slice of the donut, and their  *)
(* buckets add up to it but for the rounding.                              *)
DaysMakeUp(S, from, to) ==
    /\ Sum(LAMBDA d : DayTime(S, d), from..to) = RangeTime(S, from, to)
    /\ Agree(Sum(LAMBDA d : DayBucket(S, d), from..to), (to - from) + 1, RangeTotal(S, from, to), 1)

(* The figures of all charts: the days of a range with its slices; all     *)
(* days with the column of all time, and this week's with the column of    *)
(* the week unless a session lies ahead; and the members of a group with   *)
(* its days.                                                               *)
FiguresAgree ==
    LET days == CivilDate(cal.zone, 0)..CivilDate(cal.zone, Horizon + Tolerance)
        week == CivilDate(cal.zone, WeekStartInstant(cal.zone, now, cal.weekStart))
        today == CivilDate(cal.zone, now)
        ahead == \E s \in Mine : EndOf(session[s], now) > now
    IN  \A from \in {Min(days), week}, to \in days : from <= to =>
            /\ \A c \in Task :
                  /\ DaysMakeUp(OfTask(c), from, to)
                  /\ from = Min(days) /\ to = Max(days) => AllColumn(OfTask(c)) = RangeTotal(OfTask(c), from, to)
                  /\ from = week /\ to = today /\ ~ahead => WeekColumn(OfTask(c)) = RangeTotal(OfTask(c), from, to)
            /\ \A p \in Project :
                  /\ DaysMakeUp(OfProject(p), from, to)
                  /\ Sum(LAMBDA d : DayTime(OfGroup(p), d), from..to)
                       = Sum(LAMBDA u : RangeTime(OfMember(u, p), from, to), User)
                  /\ Agree(Sum(LAMBDA d : GroupBucket(p, d), from..to), (to - from) + 1,
                           Sum(LAMBDA u : MemberTotal(u, p, from, to), User), Cardinality(User))

(* The charts agree (FR-R1), whenever somebody looks at reports: which     *)
(* scenes have that is a bound, and the theorem is about every state.      *)
ReportsAgree == "reports" \in scene.kinds => FiguresAgree

(* A device that has applied every event shows the goals there are, but    *)
(* for those that two overlapping requests were about, and those whose     *)
(* request died after its write, until the goal is told of again.          *)
DevicesFollow ==
    (\A t \in Thread : reqs[t] = None) => \A g \in Goal \ (raced \cup untold) : told[g] = goal[g]

(* However many checks overlap, and in whatever order they are answered,   *)
(* the end of a period is reported at most once, and never after a later   *)
(* one of the same goal.                                                   *)
ReportedOnce ==
    \A g \in Goal : \A i, j \in DOMAIN reported[g] : i < j => reported[g][i] < reported[g][j]

(* One pass counts the longest run of consecutive periods that are over    *)
(* and were met, and the run that ends with the last period that is over.  *)
StreaksAre(direction, ws) ==
    LET over == {n \in DOMAIN ws : ws[n].elapsed}
        met == {n \in over : WindowMet(direction, ws[n])}
        lengths(ends) == {0} \cup {Cardinality(r) : r \in
            {i..j : i \in DOMAIN ws, j \in ends} \cap SUBSET met}
    IN  \A st \in {GoalStats(direction, ws)} :
        /\ st.best = Max(lengths(over))
        /\ st.current = Max(lengths({n \in over : n + 1 \notin over}))

(* The streaks of every goal are what their names say.                     *)
StreaksAreRuns ==
    \A g \in Stored : \A ws \in {Progress(goal[g], Data, now)} : StreaksAre(goal[g].direction, ws)
=============================================================================
