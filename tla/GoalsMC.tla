------------------------------ MODULE GoalsMC ------------------------------
(* Instances of Goals for TLC.                                             *)
EXTENDS GoalsChecks

CONSTANTS g1, g2, c1, c2, p1, p2, s1, s2, ann, ben, t1, t2, k1, k2

Alike == Permutations(Session) \cup Permutations(Goal)

Utc == [before |-> 0, after |-> 0, at |-> 0]
SkipsMidnight == [before |-> 0, after |-> 1, at |-> 2]
RepeatsMidnight == [before |-> 1, after |-> 0, at |-> 2]
SkipsNoon == [before |-> 0, after |-> 1, at |-> 3]

Zones == {Utc, SkipsMidnight, RepeatsMidnight, SkipsNoon}
Days == -8..16
Table == [zone \in Zones |-> [day \in Days |-> FirstInstant(zone, day)]]

(* The theorems about days apply to these zones.                           *)
ASSUME ZonesAssumption == ZonesFit /\ BeginsInADay /\ DatesGoOn(-12..12)

Plain == {[zone |-> Utc, weekStart |-> 0]}
Midnights == {[zone |-> z, weekStart |-> 0] : z \in {SkipsMidnight, RepeatsMidnight}}
Noon == {[zone |-> SkipsNoon, weekStart |-> 1]}

Offer(period, direction, target, scope, ends) ==
    [period |-> period, direction |-> direction, target |-> target, scope |-> scope, ends |-> ends]
ADay == Offer("day", "at_least", 1, {c1}, None)

Scene(n, kinds, until, cals, offers) ==
    [kinds |-> kinds, max |-> n, until |-> until, cals |-> cals, offers |-> offers,
     cap |-> 1, races |-> FALSE]
Races(n, kinds) == [Scene(n, kinds, 0, Plain, {ADay}) EXCEPT !.races = TRUE]
Two(n, kinds, until) ==
    [Scene(n, kinds, until, Plain, {ADay, Offer("week", "at_most", 1, {c1}, None)}) EXCEPT !.cap = 2]

TimeScenes ==
    {Scene(3, {"post", "sessions"}, 4, Midnights, {ADay}),
     Scene(3, {"post", "timer", "sessions"}, 4, Noon, {Offer("week", "at_most", 1, {c1}, 3)}),
     Scene(2, {"post", "sessions"}, 5, Plain, {Offer("month", "at_least", 2, {p1}, None)}),
     Scene(3, {"post", "patch", "timer"}, 4, Plain, {ADay, Offer("day", "at_most", 2, {c1}, 3)}),
     Scene(3, {"post", "tasks", "timer"}, 3, Plain, {Offer("day", "at_most", 2, {p1}, None)}),
     Scene(3, {"post", "settings", "timer"}, 4, Plain \cup Noon, {ADay}),
     Two(3, {"post", "look"}, 4)}

ReportScenes ==
    {Scene(2, {"reports", "sessions", "mates"}, 2, Midnights, {}),
     Scene(3, {"reports", "timer", "sessions", "tasks"}, 2, Noon, {}),
     Scene(3, {"reports", "timer", "settings"}, 4, Plain \cup Noon, {})}

RaceScenes == {Races(4, {"post", "patch", "delete"}), Races(5, {"post", "delete", "import"})}

AllScenes == TimeScenes \cup ReportScenes \cup RaceScenes
=============================================================================
