----------------------------- MODULE TaskGraph -----------------------------
(***************************************************************************)
(* Projects, their tasks and the dependencies between them: the tables     *)
(* that the routes of the Worker share, the requests in flight - each      *)
(* checks, then writes, then announces, as separate statements to D1 - and *)
(* what the event log has told the devices that follow it.                 *)
(*                                                                         *)
(* Abstractions: of a task's columns `done` stands for those that PATCH    *)
(* changes; positions and colours are left out, and so are the counts that *)
(* only refuse a request.  The reads a handler makes before its first      *)
(* write are one step.  Ids are never reused.  There is one group, whose   *)
(* membership and permissions do not change here, nor does it gain or lose *)
(* a project: the edges of a personal project are all its owner's, and to  *)
(* check a link against those "WHERE user_id", as createDependency does    *)
(* there, comes to the same as to check it against all.                    *)
(***************************************************************************)
EXTENDS Integers, FiniteSets, FiniteSetsExt, Functions

CONSTANTS User, Project, Task, Subtask, Name,
          Owner,       \* the user whose projects there are at first
          First,       \* projects of his that may be there at first
          FirstTasks,  \* tasks that may be there at first
          FirstSubs,   \* subtasks that are there, where subtasks are dealt with
          Editor,      \* members of the group who may edit tasks
          Manager,     \* members of the group who may manage its projects
          Thread,      \* bound: requests in flight at once
          None,
          Scenes,      \* bound: which requests a behaviour is made of, how many of them
                       \* with exports and deaths of the Worker, and whether they overlap
          MayDie       \* may the Worker die in the middle of a request?

ASSUME OwnerAssumption == Owner \in User /\ First \subseteq Project /\ FirstTasks \subseteq Task
ASSUME GroupAssumption == Editor \subseteq User /\ Manager \subseteq User
ASSUME SceneAssumption == \A x \in Scenes : x.max \in Nat /\ x.races \in BOOLEAN
(* The rows of the tables, and what a device shows of a subtask.           *)
Label == [base : Name, tag : {"", "deleted", "imported"}]
ProjectRow == [owner : User, shared : BOOLEAN, name : Label, archived : BOOLEAN, deleted : BOOLEAN]
TaskRow == [owner : User, project : Project, done : BOOLEAN, deleted : BOOLEAN]
SubRow == [owner : User, task : Task, done : BOOLEAN]
SubShown == [task : Task, done : BOOLEAN]

ASSUME RowAssumption == None \notin ProjectRow \cup TaskRow \cup SubRow \cup SubShown
ASSUME NoneAssumption == None \notin Project \cup Task \cup Subtask \cup User \cup Name

VARIABLES
    project,  \* D1 projects: id -> row, or None
    task,     \* D1 tasks
    dep,      \* D1 task_dependencies: <<task, what it depends on>>
    maker,    \* D1 task_dependencies.user_id: who has inserted each of them
    sub,      \* D1 subtasks
    told,     \* what a device shows that has applied every event
    undo,     \* user -> the payload behind the undo toast, or None
    file,     \* the last export, or None
    reqs,     \* the requests in flight
    acts,     \* how many such acts there have been (a bound)
    scene,    \* which of Scenes this behaviour is
    raced,    \* history: ids and edges changed between another request's check and its event
    loose     \* history: edges, and tasks, put where they are on an outdated check, or on none

db == <<project, task, dep, sub>>
bounds == <<acts, scene>>
vars == <<db, maker, told, undo, file, reqs, bounds, raced, loose>>

-----------------------------------------------------------------------------
Plain(n) == [base |-> n, tag |-> ""]
Dated(n) == [base |-> n.base, tag |-> "deleted"]     \* "X (deleted 2026-01-31)"
Again(n) == [base |-> n.base, tag |-> "imported"]    \* "X (imported)"

NewProject(u, n) == [owner |-> u, shared |-> FALSE, name |-> n, archived |-> FALSE, deleted |-> FALSE]
NewSub(u, c) == [owner |-> u, task |-> c, done |-> FALSE]
NewTask(u, p) == [owner |-> u, project |-> p, done |-> FALSE, deleted |-> FALSE]

Stored(table) == {x \in DOMAIN table : table[x] # None}
Alive(table) == {x \in Stored(table) : ~table[x].deleted}

TasksOf(p) == {c \in Alive(task) : task[c].project = p}

(* UNIQUE (user_id, name), which tombstones are subject to as well.        *)
NamesUnique(table) ==
    \A p, q \in Stored(table) :
        table[p].owner = table[q].owner /\ table[p].name = table[q].name => p = q

(* resolveProjectAccess, resolveTaskAccess and the permissions.            *)
Sees(u, p) == p \in Alive(project) /\ (project[p].shared \/ project[p].owner = u)
Edits(u, p) == Sees(u, p) /\ (project[p].shared => u \in Editor)
Manages(u, p) == Sees(u, p) /\ (project[p].shared => u \in Manager)
EditsTask(u, c) == c \in Alive(task) /\ Edits(u, task[c].project)

Closed(S, edges) == \A e \in edges : e[1] \in S => e[2] \in S

(* The REACH query: what t depends on, directly or not - the least set     *)
(* with t in it that the edges do not lead out of.                         *)
ReachFrom(edges, t) ==
    {x \in Task : \A S \in SUBSET Task : t \in S /\ Closed(S, edges) => x \in S}

Acyclic(edges) == \A e \in edges : e[1] \notin ReachFrom(edges, e[2])

SubsOf(S) == {s \in Stored(sub) : sub[s].task \in S}

Touching(edges, S) == {e \in edges : e[1] \in S \/ e[2] \in S}

(* What a device shows of a row, and of everything.                        *)
ShownProject(r) == IF r = None \/ r.deleted THEN None ELSE [name |-> r.name, archived |-> r.archived]
ShownTask(r) == IF r = None THEN None ELSE [project |-> r.project, done |-> r.done]

ShownSub(r) == IF r = None THEN None ELSE [task |-> r.task, done |-> r.done]

Everything ==
    [project |-> [p \in Project |-> ShownProject(project[p])],
     task |-> [c \in Task |-> IF c \in Alive(task) THEN ShownTask(task[c]) ELSE None],
     sub |-> [s \in Subtask |-> ShownSub(sub[s])],
     dep |-> dep]

(* A deleted task goes with its subtasks and edges.                        *)
Without(view, S) ==
    [project |-> view.project,
     task |-> [c \in Task |-> IF c \in S THEN None ELSE view.task[c]],
     sub |-> [s \in Subtask |-> IF view.sub[s] # None /\ view.sub[s].task \in S THEN None ELSE view.sub[s]],
     dep |-> view.dep \ Touching(view.dep, S)]

-----------------------------------------------------------------------------
(* Requests: `on` and `to` are what the request names, `seen` what its     *)
(* check has read that it still uses, `wrote` whether it has changed a row.*)
Idle == [kind |-> "none"]     \* the place of a request that has ended, or none has taken

May(t, kind) ==
    /\ kind \in scene.kinds /\ reqs[t] = Idle /\ acts < scene.max
    /\ scene.races \/ \A o \in Thread : reqs[o] = Idle

Starts(t, kind, u, on, to, pc, seen) ==
    /\ acts' = acts + 1 /\ UNCHANGED scene
    /\ reqs' = [reqs EXCEPT ![t] =
                  [kind |-> kind, by |-> u, on |-> on, to |-> to, pc |-> pc, seen |-> seen]]
    /\ UNCHANGED <<db, told, file, loose>>

At(t, kinds, pc) == reqs[t].kind \in kinds /\ reqs[t].pc = pc

Goto(t, pc) == reqs' = [reqs EXCEPT ![t].pc = pc]
Reads(t, x) ==
    reqs' = [reqs EXCEPT ![t] =
               [kind |-> @.kind, by |-> @.by, on |-> @.on, to |-> @.to, pc |-> "tell", seen |-> x]]
Ends(t) == reqs' = [reqs EXCEPT ![t] = Idle]

Tell(t, view) == told' = view /\ Ends(t) /\ UNCHANGED <<db, undo, file, bounds, loose>>

Init ==
    /\ \E ps \in SUBSET First, shared \in BOOLEAN, name \in Injection(First, Name) :
          project = [p \in Project |->
              IF p \in ps THEN [NewProject(Owner, Plain(name[p])) EXCEPT !.shared = shared] ELSE None]
    /\ task \in {f \in [Task -> {None} \cup {NewTask(Owner, p) : p \in Stored(project)}] :
                    Stored(f) \subseteq FirstTasks}
    /\ \E edges \in SUBSET (FirstTasks \X FirstTasks) :
          /\ Acyclic(edges)
          /\ \A e \in edges : {e[1], e[2]} \subseteq Stored(task) /\ task[e[1]].project = task[e[2]].project
          /\ dep = edges
    /\ maker \in [dep -> {Owner} \cup {u \in Editor : \E p \in Stored(project) : project[p].shared}]
    /\ scene \in Scenes
    /\ \E on \in [Subtask -> Stored(task)] :
          sub = [s \in Subtask |->
                   IF s \in FirstSubs /\ "patchSub" \in scene.kinds THEN NewSub(Owner, on[s]) ELSE None]
    /\ told = Everything
    /\ undo = [u \in User |-> None]
    /\ file = None
    /\ reqs = [t \in Thread |-> Idle]
    /\ acts = 0 /\ raced = {} /\ loose = {}

-----------------------------------------------------------------------------
(* POST /projects.  The name of a tombstone is given up in the same batch. *)
CreateProject(t) ==
    /\ May(t, "createProject")
    /\ \E u \in User, n \in Name, p \in Project :
          /\ project[p] = None /\ \A o \in Thread : reqs[o] # Idle => reqs[o].on # p
          /\ LET clash == {q \in Stored(project) \ Alive(project) :
                             project[q].owner = u /\ project[q].name = Plain(n)}
             IN  Starts(t, "createProject", u, p, n, "commit", clash)
    /\ UNCHANGED undo

CommitProject(t) ==
    /\ At(t, {"createProject"}, "commit")
    /\ LET r == reqs[t]
           freed == [q \in Project |->
               IF q \in r.seen THEN [project[q] EXCEPT !.name = Dated(@)] ELSE project[q]]
           new == [freed EXCEPT ![r.on] = NewProject(r.by, Plain(r.to))]
       IN  IF NamesUnique(new)
           THEN /\ project' = new
                /\ told' = [told EXCEPT !.project[r.on] = ShownProject(new[r.on])]
           ELSE UNCHANGED <<project, told>>          \* 422 duplicate, all of it rolled back
    /\ Ends(t)
    /\ UNCHANGED <<task, dep, sub, undo, file, bounds, loose>>

(* PATCH /projects/:id.  The event carries the row that the check has read,*)
(* with the changes put into it.                                           *)
Patched(row, to) ==
    IF to \in Name THEN [row EXCEPT !.name = Plain(to)] ELSE [row EXCEPT !.archived = to]

PatchProject(t) ==
    /\ May(t, "patchProject")
    /\ \E u \in User, p \in Project, to \in Name \cup BOOLEAN :
          Manages(u, p) /\ Starts(t, "patchProject", u, p, to, "write", project[p])
    /\ UNCHANGED undo

WriteProject(t) ==
    /\ At(t, {"patchProject"}, "write")
    /\ LET r == reqs[t]
           new == [project EXCEPT ![r.on] = Patched(@, r.to)]
       IN  IF project[r.on].owner = r.by /\ NamesUnique(new)
           THEN project' = new /\ Goto(t, "tell")
           ELSE UNCHANGED project /\ Ends(t)          \* 404 (not the creator) or 422
    /\ UNCHANGED <<task, dep, sub, told, undo, file, bounds, loose>>

TellProject(t) ==
    /\ At(t, {"patchProject"}, "tell")
    /\ Tell(t, [told EXCEPT !.project[reqs[t].on] = ShownProject(Patched(reqs[t].seen, reqs[t].to))])

(* DELETE /projects/:id.  The event lists the tasks that were read before  *)
(* the batch; the batch tombstones those the project has by then.          *)
Payload(S) == [tasks |-> S, subs |-> Restrict(sub, SubsOf(S)), deps |-> Touching(dep, S)]

Nothing == [tasks |-> {}, subs |-> << >>, deps |-> {}]

(* The payload behind an undo toast.                                       *)
Toast(id, payload) == [of |-> id, tasks |-> payload.tasks, subs |-> payload.subs, deps |-> payload.deps]

DeleteProject(t) ==
    /\ May(t, "deleteProject")
    /\ \E u \in User, p \in Project :
          Manages(u, p) /\ Starts(t, "deleteProject", u, p, None, "commit", Payload(TasksOf(p)))
    /\ UNCHANGED undo

(* Mutant: the batch tombstones the tasks it has listed.                   *)
DoomedListed(t) == reqs[t].seen.tasks

Doomed(t) == TasksOf(reqs[t].on)

CommitDeleteProject(t) ==
    /\ At(t, {"deleteProject"}, "commit")
    /\ LET r == reqs[t]
           listed == r.seen.tasks
           doomed == Doomed(t)
       IN  /\ project' = [project EXCEPT ![r.on].deleted = TRUE]
           /\ task' = [c \in Task |-> IF c \in doomed THEN [task[c] EXCEPT !.deleted = TRUE] ELSE task[c]]
           /\ told' = Without([told EXCEPT !.project[r.on] = None], listed)
           /\ undo' = IF project[r.on].shared THEN undo
                      ELSE [undo EXCEPT ![r.by] = Toast(r.on, r.seen)]
    /\ Ends(t)
    /\ UNCHANGED <<dep, sub, file, bounds, loose>>

-----------------------------------------------------------------------------
(* POST /projects/:id/tasks.                                               *)
CreateTask(t) ==
    /\ May(t, "createTask")
    /\ \E u \in User, p \in Project, c \in Task :
          /\ Edits(u, p) /\ ~project[p].archived
          /\ task[c] = None /\ \A o \in Thread : reqs[o] # Idle => reqs[o].on # c
          /\ Starts(t, "createTask", u, c, p, "write", None)
    /\ UNCHANGED undo

(* Mutant: only what the task itself depends on is looked at.              *)
ReparentOutgoing(c, p) == \A e \in dep : e[1] = c => task[e[2]].project = p

(* A task with dependencies moves only to where the other ends are.        *)
ReparentSafe(c, p) ==
    \A e \in Touching(dep, {c}) : task[IF e[1] = c THEN e[2] ELSE e[1]].project = p

(* Edges, each with the projects of its two ends.                          *)
Placed(edges) == {<<e, task[e[1]].project, task[e[2]].project>> : e \in edges}

(* PATCH /tasks/:id: a new value of `done`, or another project.            *)
PatchTask(t) ==
    /\ May(t, "patchTask")
    /\ \E u \in User, c \in Task, to \in BOOLEAN \cup Project :
          /\ EditsTask(u, c)
          /\ to \in Project \ {task[c].project} =>
                /\ Sees(u, to) /\ project[to].shared = project[task[c].project].shared
                /\ ReparentSafe(c, to) /\ ~project[to].archived
          /\ Starts(t, "patchTask", u, c, to, "write", IF to \in Project THEN Placed(Touching(dep, {c})) ELSE {})
    /\ UNCHANGED undo

WriteTask(t) ==
    /\ At(t, {"createTask", "patchTask"}, "write")
    /\ LET r == reqs[t] IN
       /\ task' = [task EXCEPT ![r.on] =
                     IF r.kind = "createTask" THEN NewTask(r.by, r.to)
                     ELSE IF r.to \in Project THEN [@ EXCEPT !.project = r.to]
                     ELSE [@ EXCEPT !.done = r.to]]
       /\ loose' = IF r.kind = "patchTask" /\ r.to \in Project
                   THEN loose \cup {e \in Touching(dep, {r.on}) : ~Placed({e}) \subseteq r.seen} ELSE loose
    /\ Goto(t, "readback")
    /\ UNCHANGED <<project, dep, sub, told, undo, file, bounds>>

(* The row is read again for the event.                                    *)
ReadTaskBack(t) ==
    /\ At(t, {"createTask", "patchTask"}, "readback")
    /\ Reads(t, ShownTask(task[reqs[t].on]))
    /\ UNCHANGED <<db, told, undo, file, bounds, loose>>

TellTask(t) ==
    /\ At(t, {"createTask", "patchTask"}, "tell")
    /\ Tell(t, [told EXCEPT !.task[reqs[t].on] = reqs[t].seen])

(* DELETE /tasks/:id.                                                      *)
DeleteTask(t) ==
    /\ May(t, "deleteTask")
    /\ \E u \in User, c \in Task :
          EditsTask(u, c) /\ Starts(t, "deleteTask", u, c, None, "commit", Payload({c}))
    /\ UNCHANGED undo

CommitDeleteTask(t) ==
    /\ At(t, {"deleteTask"}, "commit")
    /\ LET r == reqs[t] IN
       /\ task' = [task EXCEPT ![r.on].deleted = TRUE]
       /\ told' = Without(told, {r.on})
       /\ undo' = IF project[task[r.on].project].shared THEN undo
                  ELSE [undo EXCEPT ![r.by] = Toast(r.on, r.seen)]
    /\ Ends(t)
    /\ UNCHANGED <<project, dep, sub, file, bounds, loose>>

-----------------------------------------------------------------------------
(* Subtasks.  PATCH and DELETE look at the project alone: the task may be  *)
(* deleted.                                                                *)
EditsSub(u, s) ==
    LET p == task[sub[s].task].project IN
    Edits(u, p) /\ (~project[p].shared => sub[s].owner = u)

CreateSubtask(t) ==
    /\ May(t, "createSub")
    /\ \E u \in User, c \in Task, s \in Subtask :
          /\ EditsTask(u, c)
          /\ sub[s] = None /\ told.sub[s] = None /\ \A o \in Thread : reqs[o] # Idle => reqs[o].on # s
          /\ Starts(t, "createSub", u, s, c, "write", None)
    /\ UNCHANGED undo

PatchSubtask(t) ==
    /\ May(t, "patchSub")
    /\ \E u \in User, s \in Stored(sub), to \in BOOLEAN :
          EditsSub(u, s) /\ Starts(t, "patchSub", u, s, to, "write", None)
    /\ UNCHANGED undo

WriteSubtask(t) ==
    /\ At(t, {"createSub", "patchSub"}, "write")
    /\ LET r == reqs[t] IN
       sub' = [sub EXCEPT ![r.on] =
                 IF r.kind = "createSub" THEN NewSub(r.by, r.to)
                 ELSE IF @ = None THEN None ELSE [@ EXCEPT !.done = r.to]]
    /\ Goto(t, "readback")
    /\ UNCHANGED <<project, task, dep, told, undo, file, bounds, loose>>

ReadSubtaskBack(t) ==
    /\ At(t, {"createSub", "patchSub"}, "readback")
    /\ Reads(t, ShownSub(sub[reqs[t].on]))
    /\ UNCHANGED <<db, told, undo, file, bounds, loose>>

(* A row that is gone is announced all the same, and devices choke on it.  *)
TellSubtask(t) ==
    /\ At(t, {"createSub", "patchSub"}, "tell")
    /\ Tell(t, IF reqs[t].seen = None THEN told ELSE [told EXCEPT !.sub[reqs[t].on] = reqs[t].seen])

DeleteSubtask(t) ==
    /\ May(t, "deleteSub")
    /\ \E u \in User, s \in Stored(sub) :
          /\ EditsSub(u, s)
          /\ Starts(t, "deleteSub", u, s, project[task[sub[s].task].project].shared, "write",
                    [Nothing EXCEPT !.subs = Restrict(sub, {s})])
    /\ UNCHANGED undo

WriteSubtaskDelete(t) ==
    /\ At(t, {"deleteSub"}, "write")
    /\ sub' = [sub EXCEPT ![reqs[t].on] = None]
    /\ Goto(t, "tell")
    /\ UNCHANGED <<project, task, dep, told, undo, file, bounds, loose>>

TellSubtaskDelete(t) ==
    /\ At(t, {"deleteSub"}, "tell")
    /\ LET r == reqs[t] IN
       /\ told' = [told EXCEPT !.sub[r.on] = None]
       /\ undo' = IF r.to THEN undo ELSE [undo EXCEPT ![r.by] = Toast(r.on, r.seen)]
    /\ Ends(t)
    /\ UNCHANGED <<db, file, bounds, loose>>

-----------------------------------------------------------------------------
(* What the check of an edge rests on, to tell whether it still holds when *)
(* the edge is inserted.                                                   *)
Grounds(a, b) == [dep |-> dep, at |-> {task[a].project, task[b].project}]

(* POST /tasks/:id/deps and createDependency: task a is to depend on b.    *)
MayLink(a, b) ==
    /\ a # b /\ task[a].project = task[b].project
    /\ <<a, b>> \notin dep /\ a \notin ReachFrom(dep, b)

Link(t) ==
    /\ May(t, "link")
    /\ \E u \in User, a, b \in Task :
          /\ EditsTask(u, a) /\ EditsTask(u, b) /\ MayLink(a, b)
          /\ Starts(t, "link", u, <<a, b>>, None, "write", Grounds(a, b))
    /\ UNCHANGED undo

WriteLink(t) ==
    /\ At(t, {"link"}, "write")
    /\ LET e == reqs[t].on IN
       /\ dep' = dep \cup {e}                    \* already there: 500, and no event
       /\ loose' = IF Grounds(e[1], e[2]) = reqs[t].seen \/ e \in dep THEN loose ELSE loose \cup {e}
       /\ IF e \in dep THEN Ends(t) ELSE Goto(t, "tell")
    /\ UNCHANGED <<project, task, sub, told, undo, file, bounds>>

(* DELETE /tasks/:id/deps/:depId.                                          *)
Unlink(t) ==
    /\ May(t, "unlink")
    /\ \E u \in User, e \in dep :
          EditsTask(u, e[1]) /\ Starts(t, "unlink", u, e, None, "write", project[task[e[1]].project].shared)
    /\ UNCHANGED undo

WriteUnlink(t) ==
    /\ At(t, {"unlink"}, "write")
    /\ dep' = dep \ {reqs[t].on}
    /\ Goto(t, "tell")
    /\ UNCHANGED <<project, task, sub, told, undo, file, bounds, loose>>

TellEdge(t) ==
    \/ At(t, {"link"}, "tell") /\ Tell(t, [told EXCEPT !.dep = @ \cup {reqs[t].on}])
    \/ /\ At(t, {"unlink"}, "tell")
       /\ told' = [told EXCEPT !.dep = @ \ {reqs[t].on}]
       /\ undo' = IF reqs[t].seen THEN undo
                  ELSE [undo EXCEPT ![reqs[t].by] = Toast(reqs[t].on, [Nothing EXCEPT !.deps = {reqs[t].on}])]
       /\ Ends(t)
       /\ UNCHANGED <<db, file, bounds, loose>>

-----------------------------------------------------------------------------
(* POST /restore, with the payload of the undo toast.  The payload of a    *)
(* deleted project has it under `project`, which the schema does not know, *)
(* so the pass over `projects` finds none.                                 *)
Restore(t) ==
    /\ May(t, "restore")
    /\ \E u \in User :
           /\ undo[u] # None
           /\ Starts(t, "restore", u, undo[u].of, None, "tasks", undo[u])
           /\ undo' = [undo EXCEPT ![u] = None]

(* The rows a bulk request writes: the user's own, in projects of his own. *)
Own(u, c) == task[c].owner = u /\ project[task[c].project].owner = u

Revived(t) == {c \in reqs[t].seen.tasks : Own(reqs[t].by, c)}

RestoreTasks(t) ==
    /\ At(t, {"restore"}, "tasks")
    /\ task' = [c \in Task |-> IF c \in Revived(t) THEN [task[c] EXCEPT !.deleted = FALSE] ELSE task[c]]
    /\ loose' = loose \cup Revived(t)
    /\ Goto(t, "subs")
    /\ UNCHANGED <<project, dep, sub, told, undo, file, bounds>>

(* A subtask is put back, or back to what it was, on a task of the user's. *)
RestoreSubs(t) ==
    /\ At(t, {"restore"}, "subs")
    /\ LET u == reqs[t].by
           old == reqs[t].seen.subs
           back == {s \in DOMAIN old :
                      task[old[s].task].owner = u /\ (sub[s] # None => sub[s].owner = u)}
       IN  sub' = [s \in Subtask |->
                     IF s \notin back THEN sub[s]
                     ELSE IF sub[s] = None THEN [old[s] EXCEPT !.owner = u]
                     ELSE [sub[s] EXCEPT !.done = old[s].done]]
    /\ Goto(t, "deps")
    /\ UNCHANGED <<project, task, dep, told, undo, file, bounds, loose>>

RestoreDeps(t) ==
    /\ At(t, {"restore"}, "deps")
    /\ LET u == reqs[t].by
           back == {e \in reqs[t].seen.deps \ dep :
                      /\ task[e[1]].owner = u /\ task[e[2]].owner = u
                      /\ task[e[1]].project = task[e[2]].project}
       IN  dep' = dep \cup back /\ loose' = loose \cup back
    /\ Goto(t, "tell")
    /\ UNCHANGED <<project, task, sub, told, undo, file, bounds>>

(* Mutant: a bulk request fans out nothing.                                *)
TellNone(t) ==
    /\ At(t, {"restore", "import"}, "tell")
    /\ Tell(t, told)

(* restore.completed and import.completed make every device load anew.     *)
TellAll(t) ==
    /\ At(t, {"restore", "import"}, "tell")
    /\ Tell(t, Everything)

-----------------------------------------------------------------------------
(* The edges a user has made: all that an export, and the check of an      *)
(* import, look at.                                                        *)
Made(u) == {e \in dep : maker[e] = u}

(* GET /export: the rows of the user, tombstones included.                 *)
Export(u) ==
    /\ "import" \in scene.kinds /\ file = None /\ acts < scene.max
    /\ LET ps == {p \in Stored(project) : project[p].owner = u}
           cs == {c \in Stored(task) : task[c].owner = u}
       IN  file' = [by |-> u, project |-> Restrict(project, ps), task |-> Restrict(task, cs),
                    sub |-> Restrict(sub, {s \in Stored(sub) : sub[s].owner = u}),
                    dep |-> Made(u)]
    /\ acts' = acts + 1 /\ UNCHANGED scene
    /\ UNCHANGED <<db, maker, told, undo, reqs, raced, loose>>

(* POST /import, mode merge.  First the edges of the file are judged, one  *)
(* after another, each against the user's own edges with those let in      *)
(* before it: each possible outcome is a set of edges of which none closes *)
(* a cycle, where every edge that is left out would close one.             *)
Judged ==
    LET at(c) == file.task[c].project IN
    {e \in file.dep \ Made(file.by) : {e[1], e[2]} \subseteq DOMAIN file.task /\ at(e[1]) = at(e[2])}

(* Mutant: the edges of the file are not checked for cycles.               *)
OutcomesUnchecked == {Judged}

Outcomes ==
    {A \in SUBSET Judged :
        \A e \in Judged : e \in A <=> e[1] \notin ReachFrom(Made(file.by) \cup A, e[2])}

Import(t) ==
    /\ May(t, "import")
    /\ file # None
    /\ LET own == Made(file.by) IN
       \E A \in Outcomes :
          Starts(t, "import", file.by, None, None, "projects",
                 [dep |-> own, accepted |-> A \cup (file.dep \cap own)])
    /\ UNCHANGED undo

(* The names the file's projects get: their own, unless another live       *)
(* project has it.                                                         *)
Imported(u) ==
    LET ps == DOMAIN file.project
        held(p) == \E q \in Alive(project) \ {p} :
                      project[q].owner = u /\ project[q].name = file.project[p].name
    IN  [p \in Project |->
            IF p \in ps
            THEN [file.project[p] EXCEPT !.deleted = FALSE,
                    !.name = IF held(p) THEN Again(@) ELSE @]
            ELSE IF /\ project[p] # None /\ project[p].deleted /\ project[p].owner = u
                    /\ \E q \in ps : file.project[q].name = project[p].name
                 THEN [project[p] EXCEPT !.name = Dated(@)]
                 ELSE project[p]]

ImportProjects(t) ==
    /\ At(t, {"import"}, "projects")
    /\ IF NamesUnique(Imported(reqs[t].by))
       THEN project' = Imported(reqs[t].by) /\ Goto(t, "tasks")
       ELSE UNCHANGED project /\ Ends(t)             \* 500
    /\ UNCHANGED <<task, dep, sub, told, undo, file, bounds, loose>>

Accepted == {c \in DOMAIN file.task : file.task[c].project \in DOMAIN file.project}

ImportTasks(t) ==
    /\ At(t, {"import"}, "tasks")
    /\ LET moved == {c \in Accepted : task[c].project # file.task[c].project} IN
       /\ task' = [c \in Task |-> IF c \in Accepted THEN [file.task[c] EXCEPT !.deleted = FALSE] ELSE task[c]]
       /\ loose' = loose \cup Accepted \cup Touching(dep, moved)
    /\ Goto(t, "subs")
    /\ UNCHANGED <<project, dep, sub, told, undo, file, bounds>>

ImportSubs(t) ==
    /\ At(t, {"import"}, "subs")
    /\ LET taken == {s \in DOMAIN file.sub :
                       /\ file.sub[s].task \in Accepted
                       /\ sub[s] # None => sub[s].owner = reqs[t].by}
       IN  sub' = [s \in Subtask |-> IF s \in taken THEN file.sub[s] ELSE sub[s]]
    /\ Goto(t, "deps")
    /\ UNCHANGED <<project, task, dep, told, undo, file, bounds, loose>>

(* The tasks of an edge are where the file has them.                       *)
InPlace(e) == task[e[1]].project = file.task[e[1]].project /\ task[e[2]].project = file.task[e[2]].project

(* An edge is as good as its check where that has seen the whole graph as  *)
(* it is now, and the tasks are where it took them to be.                  *)
ImportDeps(t) ==
    /\ At(t, {"import"}, "deps")
    /\ LET r == reqs[t]
           new == {e \in r.seen.accepted : e[1] \in Accepted /\ e[2] \in Accepted} \ dep
       IN  /\ dep' = dep \cup new
           /\ loose' = loose \cup (IF dep = r.seen.dep THEN {e \in new : ~InPlace(e)} ELSE new)
    /\ Goto(t, "tell")
    /\ UNCHANGED <<project, task, sub, told, undo, file, bounds>>

-----------------------------------------------------------------------------
(* What a request is about: the ids and edges whose rows it writes or      *)
(* announces, and the project it puts a task into.                         *)
About(r) ==
    CASE r.kind = "createProject" -> {r.on} \cup r.seen
      [] r.kind = "deleteProject" -> {r.on} \cup r.seen.tasks \cup TasksOf(r.on)
      [] r.kind \in {"restore", "import"} -> Project \cup Task \cup Subtask \cup (Task \X Task)
      [] r.kind \in {"createTask", "patchTask"} -> {r.on} \cup (Project \cap {r.to})
      [] OTHER -> {r.on}

(* The Worker dies, or D1 fails, when rows are written and not announced.  *)
Written(r) ==
    \/ r.pc \in {"readback", "tell", "subs", "deps"}
    \/ r.kind = "import" /\ r.pc = "tasks"

Die(t) ==
    /\ MayDie /\ acts < scene.max /\ reqs[t] # Idle /\ Written(reqs[t])
    /\ acts' = acts + 1 /\ UNCHANGED scene
    /\ Ends(t)
    /\ UNCHANGED <<db, told, undo, file, loose>>

Changed ==
    {p \in Project : project'[p] # project[p]} \cup {c \in Task : task'[c] # task[c]}
    \cup {s \in Subtask : sub'[s] # sub[s]} \cup SymDiff(dep, dep')

(* What a step changes of what other requests are about.                   *)
Overtaken(t) ==
    UNION {Changed \cap (About(reqs[o]) \cup About(reqs[o])') : o \in {p \in Thread \ {t} : reqs[p] # Idle}}

(* The history of overlaps, of every step of a request.                    *)
Overlaps(t) ==
    raced' = raced \cup Overtaken(t) \cup (IF acts' # acts /\ reqs[t] # Idle THEN About(reqs[t]) ELSE {})

(* Whichever request inserts an edge does so in its user's name.           *)
Stamps(t) == maker' = [e \in dep' |-> IF e \in dep THEN maker[e] ELSE reqs[t].by]

Arrives(t) ==
    \/ CreateProject(t) \/ PatchProject(t) \/ DeleteProject(t)
    \/ CreateTask(t) \/ PatchTask(t) \/ DeleteTask(t)
    \/ CreateSubtask(t) \/ PatchSubtask(t) \/ DeleteSubtask(t)
    \/ Link(t) \/ Unlink(t) \/ Restore(t) \/ Import(t)

Proceeds(t) ==
    \/ CommitProject(t) \/ WriteProject(t) \/ TellProject(t) \/ CommitDeleteProject(t)
    \/ WriteTask(t) \/ ReadTaskBack(t) \/ TellTask(t) \/ CommitDeleteTask(t)
    \/ WriteSubtask(t) \/ ReadSubtaskBack(t) \/ TellSubtask(t) \/ WriteSubtaskDelete(t) \/ TellSubtaskDelete(t)
    \/ WriteLink(t) \/ WriteUnlink(t) \/ TellEdge(t)
    \/ RestoreTasks(t) \/ RestoreSubs(t) \/ RestoreDeps(t) \/ TellAll(t)
    \/ ImportProjects(t) \/ ImportTasks(t) \/ ImportSubs(t) \/ ImportDeps(t)

Next ==
    \/ \E t \in Thread : (Arrives(t) \/ Proceeds(t) \/ Die(t)) /\ Overlaps(t) /\ Stamps(t)
    \/ \E u \in User : Export(u)

Spec == Init /\ [][Next]_vars
=============================================================================
