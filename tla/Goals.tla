------------------------------- MODULE Goals -------------------------------
(***************************************************************************)
(* The goals of a user, the progress and the reports made of the tracked   *)
(* time, and the device that tells the user how a period has ended.        *)
(*                                                                         *)
(* Abstractions: the reads a handler makes before its first write are one  *)
(* step, and so are the two reads of GET /goals/progress; days do not end  *)
(* while a request is in flight.  A scope is a set of tasks and projects,  *)
(* all the user's, and no project is deleted; subtasks, names and the      *)
(* checks that only refuse a request are left out, and a PATCH changes one *)
(* field.  Sessions change in one step (SessionLog has the rest), and so   *)
(* do tasks (TaskGraph).  A goal's id is never given out again, but by an  *)
(* import.  Times are in milliseconds, figures and targets in minutes.     *)
(***************************************************************************)
EXTENDS GoalMath

CONSTANTS Goal, Task, Project, Session,
          Home,       \* the project all tasks are in at first
          User, Me,   \* who tracks time on these tasks, and whose goals they are
          Tolerance,  \* how far ahead a session may be entered
          Horizon,    \* bound: the last instant of any scene
          Thread,     \* bound: requests in flight at once
          Check,      \* bound: answers to the device under way at once
          Scenes      \* bound: the acts a behaviour is made of and how many of them, when
                      \* time stops, the calendars, the goals that are offered,
                      \* how many there may be (LIMITS.goalsPerUser), and whether
                      \* requests overlap, and come at the cap

GoalRow ==
    [period : {"day", "week", "month"}, direction : {"at_least", "at_most"}, target : Nat,
     scope : SUBSET (Task \cup Project), ends : Nat \cup {None}, created : Nat,
     archived : Nat \cup {None}]

(* A request: a goal's row to write or to tell, or the row to make of the  *)
(* one that was read.                                                      *)
RequestRecord ==
    [kind : {"post", "patch", "delete", "import"}, on : SUBSET Goal,
     row : GoalRow \cup {None} \cup [to : GoalRow, was : GoalRow], pc : {"write", "readback", "tell"}]

SessionRow == [by : User, task : Task, from : Nat, to : Nat \cup {None}]

ASSUME GoalsAssumption ==
    /\ Me \in User /\ Home \in Project
    /\ \A x \in Scenes : x.until \in 0..Horizon /\ x.max \in Nat /\ x.cap \in Nat
    /\ \A x \in Scenes : \A c \in x.cals : c \in [zone : Zone, weekStart : Int]
    /\ \A x \in Scenes : \A o \in x.offers :
          /\ o \in [period : {"day", "week", "month"}, direction : {"at_least", "at_most"},
                   target : Nat, scope : SUBSET (Task \cup Project), ends : Nat \cup {None}]
          /\ o.scope # {}
ASSUME NoneAssumption == None \notin Int /\ None \notin GoalRow \cup RequestRecord \cup SessionRow
ASSUME BoundsAssumption == Horizon \in Nat /\ Tolerance \in Nat /\ Horizon < Forever

VARIABLES
    goal,      \* D1 goals: id -> row, or None
    session,   \* D1 time_sessions: id -> row, or None
    task,      \* D1 tasks
    cal,       \* the user's time zone and first day of the week
    now,
    told,      \* the goals a device shows that has applied every event
    reqs,      \* the requests in flight
    toast,     \* the goal behind the undo toast, or None
    file,      \* the last export, or None
    answers,   \* answers of GET /goals/progress on their way to the device
    seen,      \* lastSeen: goal -> the end of the newest period accounted for, or None
    alarm,     \* when the device checks next, or None
    reported,  \* history: goal -> the periods reported to the user
    acts,
    scene,     \* which of Scenes this behaviour is
    raced,     \* history: goals that two overlapping requests were about
    untold     \* history: goals whose request ended between its write and its event,
               \* and that devices have not been told of since

device == <<answers, seen, alarm, reported>>
db == <<goal, session, task, cal>>
vars == <<db, now, told, reqs, toast, file, device, acts, scene, raced, untold>>

-----------------------------------------------------------------------------
Time == 0..(Horizon + Tolerance)

Stored == {g \in Goal : goal[g] # None}
Tracked == {s \in Session : session[s] # None}

EndOf(row, at) == IF row.to = None THEN at ELSE row.to

Sum(f(_), S) == SumFunction([s \in S |-> f(s)])

(* The rows of a set of sessions clipped to [from, to).                    *)
TimeIn(S, from, to, at) ==
    Sum(LAMBDA s : Overlap(session[s].from, EndOf(session[s], at), from, to), S)

Mine == {s \in Tracked : session[s].by = Me}

(* What figures are made of: the user's sessions, each with its task's     *)
(* project, and his calendar.  Tombstones keep their sessions.             *)
Data ==
    LET span(row) == [task |-> row.task, project |-> task[row.task].project, from |-> row.from, to |-> row.to]
    IN  [spans |-> [s \in Mine |-> span(session[s])], cal |-> cal]

InScope(span, scope) == span.task \in scope \/ span.project \in scope

(* The time in a period of a goal: what the statement adds up.             *)
WindowTime(g, data, w, at) ==
    LET from == Later(w.start, g.created)
        to == Earlier(w.end, GoalHorizon(g, at))
    IN  Sum(LAMBDA s : Overlap(data.spans[s].from, EndOf(data.spans[s], at), from, to),
            {s \in DOMAIN data.spans : InScope(data.spans[s], g.scope)})

(* GET /goals/progress: every period of a goal with the minutes in it.     *)
Progress(g, data, at) ==
    LET ws == GoalWindows(g, data.cal, at)
    IN  [n \in DOMAIN ws |->
            [start |-> ws[n].start, end |-> ws[n].end, target |-> ws[n].target,
             elapsed |-> ws[n].elapsed, current |-> ws[n].current,
             actual |-> Minutes(WindowTime(g, data, ws[n], at))]]

LiveTasks(scope) == {c \in Task : ~task[c].deleted /\ (c \in scope \/ task[c].project \in scope)}

StatusOf(g) ==
    LET live == LiveTasks(g.scope)
    IN  GoalStatus(g, Cardinality(live), Cardinality({c \in live : task[c].done}), now)

-----------------------------------------------------------------------------
(* GET /reports/summary, /reports/day and /reports/heatmap, for the        *)
(* sessions of S: the time of a day, of a range of days and of the columns *)
(* of the table, and the figures shown, each rounded apart.                *)
DayTime(S, day) ==
    LET b == DayBounds(cal.zone, day) IN TimeIn(S, b.start, b.end, now)
DayBucket(S, day) == Minutes(DayTime(S, day))

RangeTime(S, from, to) ==
    TimeIn(S, DayStartInstant(cal.zone, from), DayBounds(cal.zone, to).end, now)
RangeTotal(S, from, to) == Minutes(RangeTime(S, from, to))

WeekTime(S) == TimeIn(S, WeekStartInstant(cal.zone, now, cal.weekStart), now, now)
WeekColumn(S) == Minutes(WeekTime(S))

AllTime(S) == Sum(LAMBDA s : EndOf(session[s], now) - session[s].from, S)
AllColumn(S) == Minutes(AllTime(S))

OfTask(c) == {s \in Mine : session[s].task = c}
OfProject(p) == {s \in Mine : task[session[s].task].project = p}

(* GET /groups/:id/report: the same of all members.                        *)
OfGroup(p) == {s \in Tracked : task[session[s].task].project = p}
OfMember(u, p) == {s \in OfGroup(p) : session[s].by = u}
GroupBucket(p, day) == DayBucket(OfGroup(p), day)
MemberTotal(u, p, from, to) == RangeTotal(OfMember(u, p), from, to)

-----------------------------------------------------------------------------
Acts(kind) == kind \in scene.kinds /\ acts < scene.max /\ acts' = acts + 1

Starts(t, kind, on, row, pc) ==
    /\ Acts(kind) /\ reqs[t] = None
    /\ scene.races \/ \A o \in Thread : reqs[o] = None
    /\ reqs' = [reqs EXCEPT ![t] = [kind |-> kind, on |-> on, row |-> row, pc |-> pc]]
    /\ UNCHANGED <<db, now, scene, told, file, device>>

At(t, kinds, pc) == reqs[t] # None /\ reqs[t].kind \in kinds /\ reqs[t].pc = pc

Ends(t) == reqs' = [reqs EXCEPT ![t] = None]

Writes(g) == goal' = g /\ UNCHANGED <<session, task, cal, now, scene, toast, file, device, acts>>

Tell(t, shown) == told' = shown /\ Ends(t) /\ UNCHANGED <<db, now, scene, toast, file, device, acts>>

Fresh(g) == /\ scene.races \/ Cardinality(Stored) < scene.cap
            /\ goal[g] = None /\ told[g] = None
            /\ \A t \in Thread : reqs[t] # None => g \notin reqs[t].on
            /\ file # None => file[g] = None
            /\ seen[g] = None /\ \A k \in Check : answers[k] # None => answers[k][g] = None

NewGoal(o) ==
    [period |-> o.period, direction |-> o.direction, target |-> o.target, scope |-> o.scope,
     ends |-> o.ends, created |-> now, archived |-> None]

(* assertScopeAccessible: everything in the scope is there and alive.      *)
ScopeAccessible(scope) == \A c \in scope \cap Task : ~task[c].deleted

Init ==
    /\ goal = [g \in Goal |-> None]
    /\ session = [s \in Session |-> None]
    /\ task = [c \in Task |-> [project |-> Home, done |-> FALSE, deleted |-> FALSE]]
    /\ scene \in Scenes /\ cal \in scene.cals
    /\ now = 0
    /\ told = goal /\ reqs = [t \in Thread |-> None]
    /\ toast = None /\ file = None
    /\ answers = [k \in Check |-> None]
    /\ seen = [g \in Goal |-> None] /\ alarm = 0
    /\ reported = [g \in Goal |-> << >>]
    /\ acts = 0 /\ raced = {} /\ untold = {}

-----------------------------------------------------------------------------
(* POST /goals, also as the undo of a deletion, which makes a new goal.    *)
PostGoal(t) ==
    \E g \in Goal, o \in scene.offers :
        /\ Fresh(g)
        /\ o.ends # None => o.ends >= now
        /\ ScopeAccessible(o.scope)
        /\ Starts(t, "post", {g}, NewGoal(o), "write")
        /\ UNCHANGED toast

UndoDelete(t) ==
    \E g \in Goal :
        /\ toast # None /\ Fresh(g)
        /\ toast.ends # None => toast.ends >= now
        /\ ScopeAccessible(toast.scope)
        /\ Starts(t, "post", {g}, [toast EXCEPT !.created = now, !.archived = None], "write")
        /\ toast' = None

(* The statement itself counts the goals there are.                        *)
InsertGoal(t) ==
    /\ At(t, {"post"}, "write")
    /\ LET r == reqs[t] IN
       IF Cardinality(Stored) < scene.cap
       THEN /\ Writes([g \in Goal |-> IF g \in r.on THEN r.row ELSE goal[g]])
            /\ reqs' = [reqs EXCEPT ![t].pc = "readback"]
       ELSE Writes(goal) /\ Ends(t)                              \* 422 limit
    /\ UNCHANGED told

(* PATCH /goals/:id: one field (the others are patched alike).             *)
Patches(row) ==
    {[row EXCEPT !.target = o.target] : o \in scene.offers}
    \cup {[row EXCEPT !.period = o.period] : o \in scene.offers}
    \cup {[row EXCEPT !.direction = o.direction] : o \in scene.offers}
    \cup {[row EXCEPT !.scope = o.scope] : o \in {x \in scene.offers : ScopeAccessible(x.scope)}}
    \cup {[row EXCEPT !.ends = o.ends] : o \in {x \in scene.offers : x.ends # None => x.ends > row.created /\ x.ends >= now}}
    \cup {[row EXCEPT !.archived = a] : a \in {None, now}}

PatchGoal(t) ==
    \E g \in Stored : \E row \in Patches(goal[g]) :
        /\ Starts(t, "patch", {g}, [to |-> row, was |-> goal[g]], "write")
        /\ UNCHANGED toast

(* UPDATE goals: the columns of the request, of the row if it is there.    *)
UpdateGoal(t) ==
    /\ At(t, {"patch"}, "write")
    /\ LET r == reqs[t].row
           set(row) == [f \in DOMAIN row |-> IF r.to[f] # r.was[f] THEN r.to[f] ELSE row[f]]
       IN  /\ Writes([g \in Goal |-> IF g \in reqs[t].on \cap Stored THEN set(goal[g]) ELSE goal[g]])
           /\ reqs' = [reqs EXCEPT ![t].pc = "readback"]
    /\ UNCHANGED told

(* The row is read again, and is announced in a batch of its own.          *)
ReadGoalBack(t) ==
    /\ At(t, {"post", "patch"}, "readback")
    /\ LET g == CHOOSE x \in Goal : x \in reqs[t].on IN
       IF goal[g] = None THEN Ends(t)                            \* 404, or 500
       ELSE reqs' = [reqs EXCEPT ![t].pc = "tell", ![t].row = goal[g]]
    /\ UNCHANGED <<db, now, scene, told, toast, file, device, acts>>

TellGoal(t) ==
    /\ At(t, {"post", "patch"}, "tell")
    /\ Tell(t, [g \in Goal |-> IF g \in reqs[t].on THEN reqs[t].row ELSE told[g]])

(* DELETE /goals/:id: the row and the event in one batch.                  *)
DeleteGoal(t) ==
    \E g \in Stored :
        Starts(t, "delete", {g}, goal[g], "write") /\ UNCHANGED toast

CommitDelete(t) ==
    /\ At(t, {"delete"}, "write")
    /\ LET without(f) == [g \in Goal |-> IF g \in reqs[t].on THEN None ELSE f[g]] IN
       goal' = without(goal) /\ told' = without(told)
    /\ toast' = reqs[t].row
    /\ Ends(t)
    /\ UNCHANGED <<session, task, cal, now, scene, file, device, acts>>

(* GET /export and POST /import, mode merge: goals whose scope is there    *)
(* are updated, or inserted while there is room, in the file's order.      *)
Export ==
    /\ Acts("import") /\ file = None
    /\ file' = goal
    /\ UNCHANGED <<db, now, scene, told, reqs, toast, device, raced, untold>>

Import(t) ==
    /\ file # None
    /\ LET fits == {g \in Goal : file[g] # None /\ ScopeAccessible(file[g].scope)} IN
       Starts(t, "import", fits, None, "write")
    /\ UNCHANGED toast

ImportGoals(t) ==
    /\ At(t, {"import"}, "write")
    /\ LET new == reqs[t].on \ Stored
           room == Later(0, scene.cap - Cardinality(Stored))
           row(g) == IF g \in new THEN file[g] ELSE [file[g] EXCEPT !.created = goal[g].created]
       IN  \E left \in SUBSET new :
              /\ Cardinality(new \ left) = Earlier(room, Cardinality(new))
              /\ Writes([g \in Goal |-> IF g \in reqs[t].on \ left THEN row(g) ELSE goal[g]])
    /\ reqs' = [reqs EXCEPT ![t].pc = "tell"]
    /\ UNCHANGED told

(* Mutant: devices are not told of an import.                              *)
TellNone(t) == At(t, {"import"}, "tell") /\ Tell(t, told)

TellAll(t) == At(t, {"import"}, "tell") /\ Tell(t, goal)

(* The Worker may die, or D1 fail, between any two statements.             *)
Die(t) ==
    /\ reqs[t] # None /\ Ends(t)
    /\ untold' = untold \cup (IF reqs[t].pc = "write" THEN {} ELSE reqs[t].on)
    /\ UNCHANGED <<db, now, scene, told, toast, file, device, acts, raced>>

(* What overlapping requests were about, and what devices still show wrong *)
(* of what was never told.                                                 *)
Changed == {g \in Goal : goal'[g] # goal[g]}
Overlaps(t) ==
    /\ raced' = raced \cup UNION {Changed \cap reqs[o].on : o \in {p \in Thread \ {t} : reqs[p] # None}}
    /\ untold' = {g \in untold : told'[g] # goal'[g]}

-----------------------------------------------------------------------------
(* The rest of the user's data.                                            *)
Quiet == UNCHANGED <<goal, told, reqs, toast, file, device, raced, untold>>

NewSession(u, c, from, to) ==
    \E s \in Session :
        session[s] = None /\ session' = [session EXCEPT ![s] = [by |-> u, task |-> c, from |-> from, to |-> to]]

StartTimer ==
    /\ Acts("timer") /\ \A s \in Mine : session[s].to # None
    /\ \E c \in Task : ~task[c].deleted /\ NewSession(Me, c, now, None)
    /\ Quiet /\ UNCHANGED <<task, cal, now, scene>>

StopTimer ==
    \E s \in Tracked :
        /\ session[s].to = None
        /\ session' = [session EXCEPT ![s].to = now]
        /\ Quiet /\ UNCHANGED <<task, cal, now, scene, acts>>

EnterSession ==
    /\ \E u \in User, c \in Task, from, to \in Time :
          /\ Acts(IF u = Me THEN "sessions" ELSE "mates")
          /\ from < to /\ to <= now + Tolerance /\ NewSession(u, c, from, to)
    /\ Quiet /\ UNCHANGED <<task, cal, now, scene>>

RemoveSession ==
    /\ Acts("sessions")
    /\ \E s \in Mine : session[s].to # None /\ session' = [session EXCEPT ![s] = None]
    /\ Quiet /\ UNCHANGED <<task, cal, now, scene>>

EditTask ==
    /\ Acts("tasks")
    /\ \E c \in Task, p \in Project, d, x \in BOOLEAN :
          task' = [task EXCEPT ![c] = [project |-> p, done |-> d, deleted |-> x]]
    /\ task' # task
    /\ Quiet /\ UNCHANGED <<session, cal, now, scene>>

SetCalendar ==
    /\ Acts("settings")
    /\ cal' \in scene.cals \ {cal}
    /\ Quiet /\ UNCHANGED <<session, task, now, scene>>

Tick ==
    /\ \A t \in Thread : reqs[t] = None
    /\ now < scene.until /\ now' = now + 1
    /\ Quiet /\ UNCHANGED <<session, task, cal, acts, scene>>

-----------------------------------------------------------------------------
(* goalNotify.ts.  The device asks when its alarm goes off, or when it is  *)
(* looked at again; nothing keeps a check from starting in another one.    *)
Entry(g) ==
    [status |-> StatusOf(goal[g]), direction |-> goal[g].direction, windows |-> Progress(goal[g], Data, now)]

(* ?windows=2                                                              *)
LastTwo(ws) == {ws[n] : n \in {m \in DOMAIN ws : m + 1 >= Len(ws)}}

AsksFor(k) ==
    /\ answers[k] = None /\ alarm' = None
    /\ answers' = [answers EXCEPT ![k] = [g \in Goal |-> IF goal[g] = None THEN None ELSE Entry(g)]]

(* A device that knows of no goal puts it off.                             *)
Asks ==
    /\ \/ "look" \in scene.kinds /\ alarm # None /\ now >= alarm /\ UNCHANGED acts
       \/ Acts("look")
    /\ \/ told = [g \in Goal |-> None] /\ alarm' = now /\ UNCHANGED answers
       \/ told # [g \in Goal |-> None] /\ \E k \in Check : AsksFor(k)
    /\ UNCHANGED <<db, now, scene, told, reqs, toast, file, seen, reported, raced, untold>>

(* Mutant: whatever has elapsed in the answer is news.                     *)
AnyEnded(entry, last) == {w \in LastTwo(entry.windows) : w.elapsed}

(* Only the newest period that has ended is reported, and none to a device *)
(* that has not seen one end before.                                       *)
FreshlyEnded(entry, last) ==
    {w \in LastTwo(entry.windows) : w.elapsed /\ (last # None => w.end > last)}

Newest(ws) == CHOOSE w \in ws : \A x \in ws : x.end <= w.end

Receive(k) ==
    /\ answers[k] # None
    /\ LET entries == answers[k]
           active == {g \in Goal : entries[g] # None /\ entries[g].status = "active"}
           news == {g \in active : FreshlyEnded(entries[g], seen[g]) # {}}
           end(g) == Newest(FreshlyEnded(entries[g], seen[g])).end
           open == {w.end : w \in {x \in UNION {LastTwo(entries[g].windows) : g \in active} : x.current}}
       IN  /\ seen' = [g \in Goal |-> IF g \in news THEN end(g) ELSE seen[g]]
           /\ reported' = [g \in Goal |->
                 IF g \in news /\ seen[g] # None THEN Append(reported[g], end(g)) ELSE reported[g]]
           /\ alarm' = IF open = {} THEN now ELSE Min(open)
    /\ answers' = [answers EXCEPT ![k] = None]
    /\ UNCHANGED <<db, now, scene, told, reqs, toast, file, acts, raced, untold>>

(* Offline: it tries again in five minutes, which is at once here.         *)
LoseAnswer(k) ==
    /\ answers[k] # None
    /\ answers' = [answers EXCEPT ![k] = None] /\ alarm' = now
    /\ UNCHANGED <<db, now, scene, told, reqs, toast, file, seen, reported, acts, raced, untold>>

-----------------------------------------------------------------------------
Request(t) ==
    \/ PostGoal(t) \/ UndoDelete(t) \/ InsertGoal(t)
    \/ PatchGoal(t) \/ UpdateGoal(t) \/ ReadGoalBack(t) \/ TellGoal(t)
    \/ DeleteGoal(t) \/ CommitDelete(t) \/ Import(t) \/ ImportGoals(t) \/ TellAll(t)

Next ==
    \/ \E t \in Thread : (Request(t) /\ Overlaps(t)) \/ Die(t)
    \/ Export \/ StartTimer \/ StopTimer \/ EnterSession \/ RemoveSession
    \/ EditTask \/ SetCalendar \/ Tick
    \/ Asks \/ \E k \in Check : Receive(k) \/ LoseAnswer(k)

Spec == Init /\ [][Next]_vars
=============================================================================
