-------------------------- MODULE TaskGraphChecks --------------------------
(* What the routes promise of the graph, and of what devices show of it.   *)
EXTENDS TaskGraph

Edge == Task \X Task

(* FR-M5, as far as the code keeps it: the dependencies are free of cycles *)
(* and stay within a project - but for the edges that were inserted, or    *)
(* whose tasks were moved, after a check that had been overtaken, or by an *)
(* undo, which checks nothing, or by an import that has not seen the edges *)
(* of other members.                                                       *)
CheckedEdgesAreLegal ==
    LET checked == dep \ loose IN
    /\ Acyclic(checked)
    /\ \A e \in checked : task[e[1]].project = task[e[2]].project

(* FR-N2: a device that has applied every event shows the database, but    *)
(* for what two overlapping requests were about, or a request that died    *)
(* before its event.                                                       *)
DevicesFollow ==
    (\A t \in Thread : reqs[t] = Idle) =>
        /\ \A p \in Project \ raced : told.project[p] = Everything.project[p]
        /\ \A c \in Task \ raced : told.task[c] = Everything.task[c]
        /\ \A s \in Subtask \ raced :
              (sub[s] # None => sub[s].task \in Alive(task) \ raced) => told.sub[s] = Everything.sub[s]
        /\ \A e \in Edge \ raced :
              {e[1], e[2]} \subseteq Alive(task) \ raced => (e \in told.dep <=> e \in dep)

(* Deleting a project leaves no live task in it, but for one whose request *)
(* had checked before, or that an undo or an import has brought back.      *)
NoTaskOutlivesProject ==
    \A c \in Alive(task) :
        task[c].project \in Alive(project) \cup raced \/ c \in loose

-----------------------------------------------------------------------------
(* What makes the three inductive: the shape of the state, what a request  *)
(* in flight may rely on, and what each request still owes the devices.    *)
IsRequest(r) ==
    r = [kind |-> r.kind, by |-> r.by, on |-> r.on, to |-> r.to, pc |-> r.pc, seen |-> r.seen]

Linkable == Stored(task) \X Stored(task)

PayloadTyped(x) ==
    /\ x.tasks \subseteq Stored(task) /\ x.deps \subseteq Linkable
    /\ DOMAIN x.subs \subseteq Subtask
    /\ \A s \in DOMAIN x.subs : x.subs[s] \in SubRow /\ x.subs[s].task \in Stored(task)

FileTyped ==
    /\ file.by \in User
    /\ DOMAIN file.project \subseteq Stored(project)
    /\ \A p \in DOMAIN file.project : file.project[p] \in ProjectRow
    /\ DOMAIN file.task \subseteq Stored(task)
    /\ \A c \in DOMAIN file.task : file.task[c] \in TaskRow
    /\ DOMAIN file.sub \subseteq Subtask
    /\ \A s \in DOMAIN file.sub : file.sub[s] \in SubRow
    /\ file.dep \subseteq Linkable

ViewTyped(view) ==
    /\ view = [project |-> view.project, task |-> view.task, sub |-> view.sub, dep |-> view.dep]
    /\ view.project = [p \in Project |-> view.project[p]]
    /\ view.task = [c \in Task |-> view.task[c]]
    /\ view.sub \in [Subtask -> {None} \cup SubShown]
    /\ view.dep \subseteq Linkable

Typed ==
    /\ project \in [Project -> {None} \cup ProjectRow]
    /\ task \in [Task -> {None} \cup TaskRow]
    /\ sub \in [Subtask -> {None} \cup SubRow]
    /\ \A s \in Stored(sub) : sub[s].task \in Stored(task)
    /\ dep \subseteq Linkable
    /\ ViewTyped(told)
    /\ undo = [u \in User |-> undo[u]]
    /\ \A u \in User : undo[u] # None => PayloadTyped(undo[u])
    /\ file # None => FileTyped
    /\ reqs = [t \in Thread |-> reqs[t]]
    /\ acts \in Nat

(* Unless what a request is about has been changed by another, the rows    *)
(* are as the request has read or written them.                            *)
KeptProject(r) ==
    /\ r.kind = "createProject" =>
          /\ r.on \in Project /\ r.to \in Name /\ r.seen \subseteq Stored(project)
          /\ \A q \in r.seen \ raced : project[q].deleted
    /\ r.kind = "patchProject" =>
          /\ r.on \in Stored(project) /\ r.to \in Name \cup BOOLEAN /\ r.seen \in ProjectRow
          /\ r.on \notin raced =>
                project[r.on] = IF r.pc = "tell" THEN Patched(r.seen, r.to) ELSE r.seen
    /\ r.kind = "deleteProject" =>
          /\ r.on \in Stored(project) /\ PayloadTyped(r.seen)
          /\ \A c \in Task \ raced : c \in r.seen.tasks <=> c \in TasksOf(r.on)

KeptTask(r) ==
    /\ r.kind = "createTask" =>
          /\ r.on \in Task /\ r.to \in Project
          /\ r.pc = "write" => task[r.on] = None
          /\ r.pc # "write" => r.on \in Stored(task) /\ r.on \in Alive(task) \cup raced
    /\ r.kind = "patchTask" =>
          /\ r.on \in Stored(task) /\ r.to \in BOOLEAN \cup Project
          /\ r.on \in Alive(task) \cup raced
          /\ r.pc = "write" /\ r.to \in Project =>
                \A e \in Edge, p \in Project : <<e, p, p>> \in r.seen => p = r.to
    /\ r.kind \in {"createTask", "patchTask"} =>
          /\ r.pc = "write" /\ r.to \in Project => r.to \in Alive(project) \cup raced
          /\ r.pc = "tell" /\ r.on \notin raced => r.seen = ShownTask(task[r.on])
    /\ r.kind = "deleteTask" => r.on \in Stored(task) /\ PayloadTyped(r.seen)

KeptSub(r) ==
    /\ r.kind = "createSub" => r.to \in Stored(task)
    /\ r.kind = "patchSub" => r.to \in BOOLEAN
    /\ r.kind \in {"createSub", "patchSub"} =>
          /\ r.on \in Subtask
          /\ r.on \notin raced /\ (r.kind = "patchSub" \/ r.pc # "write") => sub[r.on] # None
          /\ r.pc = "tell" => r.seen \in {None} \cup SubShown
          /\ r.pc = "tell" /\ r.on \notin raced => r.seen = ShownSub(sub[r.on])
    /\ r.kind = "deleteSub" =>
          /\ r.on \in Subtask /\ PayloadTyped(r.seen)
          /\ r.pc = "tell" /\ r.on \notin raced => sub[r.on] = None

KeptEdge(r) ==
    /\ r.kind = "link" =>
          /\ r.on \in Linkable
          /\ \A p, q \in r.seen.at : p = q
          /\ r.on[1] \notin ReachFrom(r.seen.dep, r.on[2])
          /\ r.pc = "tell" /\ r.on \notin raced => r.on \in dep
    /\ r.kind = "unlink" =>
          r.on \in Linkable /\ (r.pc = "tell" /\ r.on \notin raced => r.on \notin dep)

KeptAll(r) ==
    /\ r.kind = "restore" => PayloadTyped(r.seen)
    /\ r.kind = "import" =>
          /\ file # None /\ r.seen.accepted \subseteq file.dep
          /\ \A e \in r.seen.accepted \ r.seen.dep :
                /\ file.task[e[1]].project = file.task[e[2]].project
                /\ e[1] \notin ReachFrom(r.seen.dep \cup r.seen.accepted, e[2])

Kept ==
    \A t \in Thread : reqs[t] # Idle =>
        LET r == reqs[t] IN
        /\ IsRequest(r) /\ r.by \in User
        /\ KeptProject(r) /\ KeptTask(r) /\ KeptSub(r) /\ KeptEdge(r) /\ KeptAll(r)

(* An id is given to one new task.                                         *)
NewIds ==
    \A t, o \in Thread :
        At(t, {"createTask"}, "write") /\ At(o, {"createTask"}, "write") /\ reqs[t].on = reqs[o].on => t = o

(* A request owes the devices the rows it has changed and not announced.   *)
OwesAll(r) == (r.kind = "restore" /\ r.pc # "tasks") \/ (r.kind = "import" /\ r.pc # "projects")

Debt(r, x, kinds) ==
    OwesAll(r) \/ (r.kind \in kinds /\ r.pc \in {"readback", "tell"} /\ r.on = x)

Owed(x, kinds) == \E t \in Thread : Debt(reqs[t], x, kinds)

ProjectFollows(p) ==
    told.project[p] = ShownProject(project[p]) \/ Owed(p, {"patchProject"})

TaskFollows(c) ==
    \/ told.task[c] = (IF c \in Alive(task) THEN ShownTask(task[c]) ELSE None)
    \/ Owed(c, {"createTask", "patchTask"})

SubFollows(s) ==
    (sub[s] # None => sub[s].task \in Alive(task) \ raced) =>
        told.sub[s] = ShownSub(sub[s]) \/ Owed(s, {"createSub", "patchSub", "deleteSub"})

EdgeFollows(e) ==
    {e[1], e[2]} \subseteq Alive(task) \ raced =>
        (e \in told.dep <=> e \in dep) \/ Owed(e, {"link", "unlink"})

Followed ==
    /\ \A p \in Project \ raced : ProjectFollows(p)
    /\ \A c \in Task \ raced : TaskFollows(c)
    /\ \A s \in Subtask \ raced : SubFollows(s)
    /\ \A e \in Edge \ raced : EdgeFollows(e)

GraphInv ==
    Typed /\ Kept /\ NewIds /\ CheckedEdgesAreLegal /\ NoTaskOutlivesProject /\ Followed
=============================================================================
