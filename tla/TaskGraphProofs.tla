-------------------------- MODULE TaskGraphProofs --------------------------
(***************************************************************************)
(* The dependency graph, the tasks of a deleted project and what devices   *)
(* show: for any number of users, projects, tasks, subtasks and requests   *)
(* in flight.                                                              *)
(***************************************************************************)
EXTENDS TaskGraphChecks, TLAPS

-----------------------------------------------------------------------------
(* Reachability.                                                           *)
LEMMA Unreached ==
    ASSUME NEW E, NEW x \in Task, NEW y \in Task
    PROVE  x \notin ReachFrom(E, y) <=> \E S \in SUBSET Task : y \in S /\ Closed(S, E) /\ x \notin S
  BY DEF ReachFrom

LEMMA ReachIsClosed ==
    ASSUME NEW E \in SUBSET Edge, NEW y \in Task
    PROVE  /\ ReachFrom(E, y) \in SUBSET Task /\ y \in ReachFrom(E, y)
           /\ Closed(ReachFrom(E, y), E)
<1>1. ReachFrom(E, y) \in SUBSET Task /\ y \in ReachFrom(E, y)
  BY DEF ReachFrom
<1>2. ASSUME NEW e \in E, e[1] \in ReachFrom(E, y)
      PROVE  e[2] \in ReachFrom(E, y)
  <2>1. e[2] \in Task
    BY DEF Edge
  <2>2. ASSUME NEW S \in SUBSET Task, y \in S, Closed(S, E)
        PROVE  e[2] \in S
    BY <1>2, <2>2 DEF ReachFrom, Closed
  <2>3. QED
    BY <2>1, <2>2 DEF ReachFrom
<1>3. QED
  BY <1>1, <1>2 DEF Closed

(* What is reached is in every closed set that one starts in.              *)
LEMMA ReachIsLeast ==
    ASSUME NEW E, NEW y \in Task, NEW S \in SUBSET Task, y \in S, Closed(S, E)
    PROVE  ReachFrom(E, y) \subseteq S
  BY DEF ReachFrom

LEMMA ReachGrows ==
    ASSUME NEW E, NEW F, E \subseteq F, NEW y \in Task
    PROVE  ReachFrom(E, y) \subseteq ReachFrom(F, y)
<1>1. ASSUME NEW S \in SUBSET Task, Closed(S, F)
      PROVE  Closed(S, E)
  BY <1>1 DEF Closed
<1>2. QED
  BY <1>1 DEF ReachFrom

LEMMA FewerEdges ==
    ASSUME NEW E, NEW F \in SUBSET Edge, E \subseteq F, Acyclic(F)
    PROVE  Acyclic(E)
<1>1. ASSUME NEW e \in E
      PROVE  e[1] \notin ReachFrom(E, e[2])
  <2>1. e \in F /\ e[2] \in Task
    BY DEF Edge
  <2>2. QED
    BY <2>1, ReachGrows DEF Acyclic
<1>2. QED
  BY <1>1 DEF Acyclic

(* Edges of which none lies on a cycle, not even on one with others, close *)
(* none.                                                                   *)
LEMMA MoreEdges ==
    ASSUME NEW E, NEW A, NEW F \in SUBSET Edge, E \cup A \subseteq F, Acyclic(E),
           \A g \in A : g[1] \notin ReachFrom(F, g[2])
    PROVE  Acyclic(E \cup A)
<1> DEFINE G == E \cup A
<1>0. G \in SUBSET Edge /\ E \in SUBSET Edge /\ \A e \in G : e[1] \in Task /\ e[2] \in Task
  BY DEF Edge
<1>1. ASSUME NEW e \in A
      PROVE  e[1] \notin ReachFrom(G, e[2])
  BY <1>0, ReachGrows
<1>2. ASSUME NEW f \in E, f[1] \in ReachFrom(G, f[2])
      PROVE  FALSE
  <2> DEFINE x == f[1]
             y == f[2]
             R == ReachFrom(G, y)
             N == {z \in Task : x \notin ReachFrom(E, z)}
  <2>0. x \in Task /\ y \in Task /\ f \in G
    BY <1>0
  <2>1. R \in SUBSET Task /\ y \in R /\ Closed(R, G)
    BY <1>0, <2>0, ReachIsClosed
  <2>2. y \in N
    BY <2>0 DEF Acyclic
  <2>3. x \notin N
    BY <1>0, <2>0, ReachIsClosed
  <2>4. ASSUME NEW e \in E, e[1] \in N
        PROVE  e[2] \in N
    <3>0. e[1] \in Task /\ e[2] \in Task
      BY <1>0
    <3>1. ReachFrom(E, e[1]) \in SUBSET Task /\ e[1] \in ReachFrom(E, e[1]) /\ Closed(ReachFrom(E, e[1]), E)
      BY <1>0, <3>0, ReachIsClosed
    <3>2. e[2] \in ReachFrom(E, e[1])
      BY <3>1 DEF Closed
    <3>3. ReachFrom(E, e[2]) \subseteq ReachFrom(E, e[1])
      BY <3>0, <3>1, <3>2, ReachIsLeast
    <3>4. QED
      BY <2>4, <3>0, <3>3
  <2>5. ASSUME NEW g \in A, g[1] \in R, g[2] \in R, g[2] \notin N
        PROVE  FALSE
    <3>0. g[1] \in Task /\ g[2] \in Task /\ g \in G
      BY <1>0
    <3> DEFINE S == ReachFrom(F, g[2])
    <3>1. S \in SUBSET Task /\ g[2] \in S /\ Closed(S, F)
      BY <3>0, ReachIsClosed
    <3>2. Closed(S, E) /\ Closed(S, G)
      BY <3>1 DEF Closed
    <3>3. x \in S
      BY <2>5, <3>0, <3>1, <3>2, ReachIsLeast
    <3>4. y \in S
      BY <3>2, <3>3 DEF Closed
    <3>5. R \subseteq S
      BY <2>0, <3>1, <3>2, <3>4, ReachIsLeast
    <3>6. QED
      BY <2>5, <3>5
  <2>6. Closed(R \cap N, G)
    <3>1. ASSUME NEW e \in G, e[1] \in R \cap N
          PROVE  e[2] \in R \cap N
      <4>1. e[2] \in R
        BY <2>1, <3>1 DEF Closed
      <4>2. QED
        BY <2>4, <2>5, <3>1, <4>1
    <3>2. QED
      BY <3>1 DEF Closed
  <2>7. R \subseteq R \cap N
    <3> DEFINE S == R \cap N
    <3>1. S \in SUBSET Task /\ y \in S /\ Closed(S, G)
      BY <2>1, <2>2, <2>6
    <3> HIDE DEF S
    <3>2. ReachFrom(G, y) \subseteq S
      BY <2>0, <3>1, ReachIsLeast
    <3>3. QED
      BY <3>2 DEF S
  <2>8. QED
    BY <1>2, <2>3, <2>7
<1>3. QED
  BY <1>1, <1>2 DEF Acyclic

-----------------------------------------------------------------------------
(* Requests.                                                               *)
Others(t) == \A o \in Thread \ {t} : reqs'[o] = reqs[o]

Slots == reqs' = [o \in Thread |-> reqs'[o]]

LEMMA Ending ==
    ASSUME Typed, NEW t \in Thread, Ends(t)
    PROVE  reqs'[t] = Idle /\ Others(t) /\ Slots
<1>1. reqs = [o \in Thread |-> reqs[o]]
  BY DEF Typed
<1>2. reqs' = [o \in Thread |-> IF o = t THEN Idle ELSE reqs[o]]
  BY <1>1 DEF Ends
<1>3. QED
  BY <1>2 DEF Others, Slots

LEMMA Going ==
    ASSUME Typed, NEW t \in Thread, IsRequest(reqs[t]), NEW pc, Goto(t, pc)
    PROVE  /\ reqs'[t] = [reqs[t] EXCEPT !.pc = pc] /\ Others(t) /\ Slots
           /\ IsRequest(reqs'[t])
           /\ reqs'[t].kind = reqs[t].kind /\ reqs'[t].by = reqs[t].by /\ reqs'[t].on = reqs[t].on
           /\ reqs'[t].to = reqs[t].to /\ reqs'[t].seen = reqs[t].seen /\ reqs'[t].pc = pc
<1>1. reqs = [o \in Thread |-> reqs[o]]
  BY DEF Typed
<1>2. reqs' = [o \in Thread |-> IF o = t THEN [reqs[t] EXCEPT !.pc = pc] ELSE reqs[o]]
  BY <1>1 DEF Goto
<1>3. reqs'[t] = [reqs[t] EXCEPT !.pc = pc] /\ Others(t) /\ Slots
  BY <1>2 DEF Others, Slots
<1>4. reqs'[t] = [kind |-> reqs[t].kind, by |-> reqs[t].by, on |-> reqs[t].on, to |-> reqs[t].to,
                  pc |-> pc, seen |-> reqs[t].seen]
  BY <1>3 DEF IsRequest
<1>5. QED
  BY <1>3, <1>4 DEF IsRequest

LEMMA Starting ==
    ASSUME Typed, NEW t \in Thread, NEW kind, NEW u, NEW on, NEW to, NEW pc, NEW seen,
           Starts(t, kind, u, on, to, pc, seen)
    PROVE  /\ reqs'[t] = [kind |-> kind, by |-> u, on |-> on, to |-> to, pc |-> pc, seen |-> seen]
           /\ Others(t) /\ Slots /\ IsRequest(reqs'[t])
           /\ UNCHANGED <<project, task, dep, sub, told, file, loose>> /\ acts' = acts + 1
<1>1. reqs = [o \in Thread |-> reqs[o]]
  BY DEF Typed
<1>2. reqs' = [o \in Thread |->
          IF o = t THEN [kind |-> kind, by |-> u, on |-> on, to |-> to, pc |-> pc, seen |-> seen] ELSE reqs[o]]
  BY <1>1 DEF Starts
<1>3. reqs'[t] = [kind |-> kind, by |-> u, on |-> on, to |-> to, pc |-> pc, seen |-> seen]
  BY <1>2
<1>4. Others(t) /\ Slots
  BY <1>2 DEF Others, Slots
<1>5. UNCHANGED <<project, task, dep, sub, told, file, loose>> /\ acts' = acts + 1
  BY DEF Starts, db
<1>6. QED
  BY <1>3, <1>4, <1>5 DEF IsRequest

LEMMA InFlight ==
    ASSUME Kept, NEW t \in Thread, NEW kinds, NEW pc, At(t, kinds, pc), "none" \notin kinds
    PROVE  /\ reqs[t] # Idle /\ IsRequest(reqs[t]) /\ reqs[t].by \in User
           /\ reqs[t].kind \in kinds /\ reqs[t].pc = pc
           /\ KeptProject(reqs[t]) /\ KeptTask(reqs[t]) /\ KeptSub(reqs[t])
           /\ KeptEdge(reqs[t]) /\ KeptAll(reqs[t])
<1>1. reqs[t] # Idle
  BY DEF At, Idle
<1>2. QED
  BY <1>1 DEF At, Kept

-----------------------------------------------------------------------------
(* What another request is about is left as it is, or is in `raced`.       *)
LEMMA Undisturbed ==
    ASSUME NEW t \in Thread, Overlaps(t), NEW o \in Thread \ {t}, reqs[o] # Idle,
           NEW x, x \in About(reqs[o]) \/ x \in About(reqs[o])', x \notin raced'
    PROVE  x \notin raced /\ x \notin Changed
<1>1. raced \subseteq raced' /\ (Changed \cap (About(reqs[o]) \cup About(reqs[o])')) \subseteq raced'
  BY DEF Overlaps, Overtaken
<1>2. QED
  BY <1>1

LEMMA RowsKeep ==
    ASSUME NEW x, x \notin Changed
    PROVE  /\ x \in Project => project'[x] = project[x]
           /\ x \in Task => task'[x] = task[x]
           /\ x \in Subtask => sub'[x] = sub[x]
           /\ x \in dep <=> x \in dep'
  BY DEF Changed, SymDiff

(* Rows are not lost, and a new task is the one that its request creates.  *)
Steady(t) ==
    /\ \A c \in Task : task[c] # None => task'[c] # None
    /\ \A p \in Project : project[p] # None => project'[p] # None
    /\ \A c \in Task : task[c] = None /\ task'[c] # None =>
          At(t, {"createTask"}, "write") /\ reqs[t].on = c
    /\ file # None => file' = file

LEMMA StoredIn ==
    ASSUME Typed
    PROVE  /\ \A p : p \in Stored(project) <=> p \in Project /\ project[p] # None
           /\ \A c : c \in Stored(task) <=> c \in Task /\ task[c] # None
           /\ \A s : s \in Stored(sub) <=> s \in Subtask /\ sub[s] # None
  BY DEF Typed, Stored

LEMMA AliveIn ==
    ASSUME Typed
    PROVE  /\ \A p : p \in Alive(project) <=> p \in Project /\ project[p] # None /\ ~project[p].deleted
           /\ \A c : c \in Alive(task) <=> c \in Task /\ task[c] # None /\ ~task[c].deleted
  BY StoredIn DEF Alive

LEMMA StoredStays ==
    ASSUME Typed, Typed', NEW t, Steady(t)
    PROVE  /\ Stored(project) \subseteq Stored(project)' /\ Stored(task) \subseteq Stored(task)'
           /\ Linkable \subseteq Linkable'
  BY DEF Typed, Stored, Steady, Linkable

LEMMA PayloadStays ==
    ASSUME Typed, Typed', NEW t, Steady(t), NEW x, PayloadTyped(x)
    PROVE  PayloadTyped(x)'
  BY StoredStays DEF PayloadTyped

(* What the other requests rely on survives a step of this one.            *)
LEMMA OtherProject ==
    ASSUME Typed, Typed', NEW t \in Thread, Steady(t), Overlaps(t), NEW o \in Thread \ {t},
           reqs[o] # Idle, reqs'[o] = reqs[o], KeptProject(reqs[o])
    PROVE  KeptProject(reqs[o])'
<1> DEFINE r == reqs[o]
<1>0. reqs'[o] = r /\ raced \subseteq raced' /\ Stored(project) \subseteq Stored(project)'
  BY StoredStays DEF Overlaps
<1>1. CASE r.kind = "createProject"
  <2>1. r.on \in Project /\ r.to \in Name /\ r.seen \subseteq Stored(project)
        /\ \A q \in r.seen \ raced : project[q].deleted
    BY <1>1 DEF KeptProject
  <2>2. r.seen \subseteq About(r)
    BY <1>1 DEF About
  <2>3. ASSUME NEW q \in r.seen \ raced'
        PROVE  project'[q].deleted
    <3>1. q \notin raced /\ q \notin Changed
      BY <2>2, Undisturbed
    <3>2. project'[q] = project[q]
      BY <2>1, <3>1, RowsKeep, StoredIn
    <3>3. QED
      BY <2>1, <3>1, <3>2
  <2>4. QED
    BY <1>0, <1>1, <2>1, <2>3 DEF KeptProject
<1>2. CASE r.kind = "patchProject"
  <2>1. r.on \in Stored(project) /\ r.to \in Name \cup BOOLEAN /\ r.seen \in ProjectRow
        /\ (r.on \notin raced => project[r.on] = IF r.pc = "tell" THEN Patched(r.seen, r.to) ELSE r.seen)
    BY <1>2 DEF KeptProject
  <2>2. r.on \in About(r)
    BY <1>2 DEF About
  <2>3. r.on \notin raced' => r.on \notin raced /\ project'[r.on] = project[r.on]
    BY <2>1, <2>2, Undisturbed, RowsKeep, StoredIn
  <2>4. QED
    BY <1>0, <1>2, <2>1, <2>3 DEF KeptProject, Patched
<1>3. CASE r.kind = "deleteProject"
  <2>1. r.on \in Stored(project) /\ PayloadTyped(r.seen)
        /\ \A c \in Task \ raced : c \in r.seen.tasks <=> c \in TasksOf(r.on)
    BY <1>3 DEF KeptProject
  <2>2. PayloadTyped(r.seen)'
    <3>1. \A s : PayloadTyped(s) => PayloadTyped(s)'
      BY PayloadStays
    <3>2. QED
      BY <1>0, <2>1, <3>1 DEF PayloadTyped
  <2>3. ASSUME NEW c \in Task \ raced'
        PROVE  c \in r.seen.tasks <=> c \in TasksOf(r.on)'
    <3>1. c \in TasksOf(r.on) \/ c \in TasksOf(r.on)' => c \in About(r) \/ c \in About(reqs[o])'
      BY <1>0, <1>3 DEF About
    <3>2. c \in TasksOf(r.on) \/ c \in TasksOf(r.on)' => task'[c] = task[c]
      BY <3>1, Undisturbed, RowsKeep
    <3>3. c \in TasksOf(r.on) <=> c \in TasksOf(r.on)'
      BY <1>0, <3>2, AliveIn DEF TasksOf, Alive, Stored, Typed
    <3>4. QED
      BY <1>0, <2>1, <3>3
  <2>4. QED
    BY <1>0, <1>3, <2>1, <2>2, <2>3 DEF KeptProject
<1>4. QED
  BY <1>0, <1>1, <1>2, <1>3 DEF KeptProject

LEMMA OtherTask ==
    ASSUME Typed, Typed', NEW t \in Thread, Steady(t), Overlaps(t), NEW o \in Thread \ {t}, NewIds,
           reqs[o] # Idle, reqs'[o] = reqs[o], KeptTask(reqs[o])
    PROVE  KeptTask(reqs[o])'
<1> DEFINE r == reqs[o]
<1>0. reqs'[o] = r /\ raced \subseteq raced' /\ Stored(task) \subseteq Stored(task)'
  BY StoredStays DEF Overlaps
<1>1. CASE r.kind \in {"createTask", "patchTask"}
  <2>1. r.on \in Task /\ (r.to \in Project => r.to \in About(r)) /\ r.on \in About(r)
    BY <1>1, StoredIn DEF KeptTask, About
  <2>2. r.on \notin raced' => r.on \notin raced /\ task'[r.on] = task[r.on]
    BY <2>1, Undisturbed, RowsKeep
  <2>3. r.on \in Alive(task) \cup raced => r.on \in Alive(task)' \cup raced'
    BY <1>0, <2>1, <2>2, AliveIn DEF Alive, Stored, Typed
  <2>4. r.to \in Project /\ r.to \in Alive(project) \cup raced => r.to \in Alive(project)' \cup raced'
    <3>1. ASSUME r.to \in Project, r.to \notin raced'
          PROVE  project'[r.to] = project[r.to]
      BY <2>1, <3>1, Undisturbed, RowsKeep
    <3>2. QED
      BY <1>0, <3>1, AliveIn DEF Alive, Stored, Typed
  <2>5. ASSUME r.kind = "createTask", r.pc = "write", task[r.on] = None
        PROVE  task'[r.on] = None
    BY <2>1, <2>5 DEF Steady, NewIds, At
  <2>6. r.kind = "createTask" =>
          /\ r.on \in Task /\ r.to \in Project
          /\ r.pc = "write" => task'[r.on] = None
          /\ r.pc # "write" => r.on \in Stored(task)' /\ r.on \in Alive(task)' \cup raced'
    BY <1>0, <2>1, <2>3, <2>5 DEF KeptTask
  <2>7. r.kind = "patchTask" =>
          /\ r.on \in Stored(task)' /\ r.to \in BOOLEAN \cup Project
          /\ r.on \in Alive(task)' \cup raced'
          /\ r.pc = "write" /\ r.to \in Project =>
                \A e \in Edge, p \in Project : <<e, p, p>> \in r.seen => p = r.to
    BY <1>0, <2>1, <2>3 DEF KeptTask
  <2>8. /\ r.pc = "write" /\ r.to \in Project => r.to \in Alive(project)' \cup raced'
        /\ r.pc = "tell" /\ r.on \notin raced' => r.seen = ShownTask(task'[r.on])
    BY <1>1, <2>1, <2>2, <2>4 DEF KeptTask
  <2>9. QED
    BY <1>0, <1>1, <2>6, <2>7, <2>8 DEF KeptTask, ShownTask
<1>2. CASE r.kind = "deleteTask"
  <2>1. r.on \in Stored(task) /\ PayloadTyped(r.seen)
    BY <1>2 DEF KeptTask
  <2>2. PayloadTyped(r.seen)'
    <3>1. \A s : PayloadTyped(s) => PayloadTyped(s)'
      BY PayloadStays
    <3>2. QED
      BY <1>0, <2>1, <3>1 DEF PayloadTyped
  <2>3. QED
    BY <1>0, <1>2, <2>1, <2>2 DEF KeptTask
<1>3. QED
  BY <1>0, <1>1, <1>2 DEF KeptTask

LEMMA OtherSub ==
    ASSUME Typed, Typed', NEW t \in Thread, Steady(t), Overlaps(t), NEW o \in Thread \ {t},
           reqs[o] # Idle, reqs'[o] = reqs[o], KeptSub(reqs[o])
    PROVE  KeptSub(reqs[o])'
<1> DEFINE r == reqs[o]
<1>0. reqs'[o] = r /\ raced \subseteq raced' /\ Stored(task) \subseteq Stored(task)'
  BY StoredStays DEF Overlaps
<1>1. CASE r.kind \in {"createSub", "patchSub", "deleteSub"}
  <2>1. r.on \in Subtask /\ r.on \in About(r)
    BY <1>1 DEF KeptSub, About
  <2>2. r.on \notin raced' => r.on \notin raced /\ sub'[r.on] = sub[r.on]
    BY <2>1, Undisturbed, RowsKeep
  <2>3. CASE r.kind \in {"createSub", "patchSub"}
    BY <1>0, <2>1, <2>2, <2>3 DEF KeptSub, ShownSub
  <2>4. CASE r.kind = "deleteSub"
    <3>1. PayloadTyped(r.seen)'
      <4>1. \A s : PayloadTyped(s) => PayloadTyped(s)'
        BY PayloadStays
      <4>2. QED
        BY <1>0, <2>4, <4>1 DEF PayloadTyped, KeptSub
    <3>2. QED
      BY <1>0, <2>1, <2>2, <2>4, <3>1 DEF KeptSub
  <2>5. QED
    BY <1>1, <2>3, <2>4
<1>2. QED
  BY <1>0, <1>1 DEF KeptSub

LEMMA OtherEdge ==
    ASSUME Typed, Typed', NEW t \in Thread, Steady(t), Overlaps(t), NEW o \in Thread \ {t},
           reqs[o] # Idle, reqs'[o] = reqs[o], KeptEdge(reqs[o])
    PROVE  KeptEdge(reqs[o])'
<1> DEFINE r == reqs[o]
<1>0. reqs'[o] = r /\ raced \subseteq raced' /\ Linkable \subseteq Linkable'
  BY StoredStays DEF Overlaps
<1>1. CASE r.kind \in {"link", "unlink"}
  <2>1. r.on \in About(r)
    BY <1>1 DEF About
  <2>2. r.on \notin raced' => r.on \notin raced /\ (r.on \in dep <=> r.on \in dep')
    BY <2>1, Undisturbed, RowsKeep
  <2>3. CASE r.kind = "link"
    BY <1>0, <2>2, <2>3 DEF KeptEdge, ReachFrom
  <2>4. CASE r.kind = "unlink"
    BY <1>0, <2>2, <2>4 DEF KeptEdge
  <2>5. QED
    BY <1>1, <2>3, <2>4
<1>2. QED
  BY <1>0, <1>1 DEF KeptEdge

LEMMA OtherAll ==
    ASSUME Typed, Typed', NEW t \in Thread, Steady(t), NEW o \in Thread \ {t},
           reqs'[o] = reqs[o], KeptAll(reqs[o])
    PROVE  KeptAll(reqs[o])'
<1> DEFINE r == reqs[o]
<1>0. reqs'[o] = r
  OBVIOUS
<1>1. CASE r.kind = "restore"
  <2>1. \A s : PayloadTyped(s) => PayloadTyped(s)'
    BY PayloadStays
  <2>2. QED
    BY <1>0, <1>1, <2>1 DEF KeptAll, PayloadTyped
<1>2. CASE r.kind = "import"
  <2>1. file' = file
    BY <1>2 DEF KeptAll, Steady
  <2>2. QED
    BY <1>0, <1>2, <2>1 DEF KeptAll, ReachFrom
<1>3. QED
  BY <1>0, <1>1, <1>2 DEF KeptAll

(* So it is enough to look at the request that steps.                      *)
KeptOf(r) ==
    IsRequest(r) /\ r.by \in User /\
    KeptProject(r) /\ KeptTask(r) /\ KeptSub(r) /\ KeptEdge(r) /\ KeptAll(r)

LEMMA KeptStep ==
    ASSUME Typed, Typed', Kept, NewIds, NEW t \in Thread, Steady(t), Overlaps(t), Others(t),
           reqs'[t] # Idle => KeptOf(reqs[t])'
    PROVE  Kept'
<1>1. ASSUME NEW o \in Thread, reqs'[o] # Idle
      PROVE  KeptOf(reqs[o])'
  <2>1. CASE o = t
    BY <1>1, <2>1
  <2>2. CASE o # t
    <3>1. reqs'[o] = reqs[o] /\ reqs[o] # Idle
      BY <1>1, <2>2 DEF Others
    <3>2. IsRequest(reqs[o])' /\ reqs'[o].by \in User
      BY <3>1 DEF Kept, IsRequest
    <3>3. /\ KeptProject(reqs[o]) /\ KeptTask(reqs[o]) /\ KeptSub(reqs[o])
          /\ KeptEdge(reqs[o]) /\ KeptAll(reqs[o])
      BY <3>1 DEF Kept
    <3>4. /\ KeptProject(reqs[o])' /\ KeptTask(reqs[o])' /\ KeptSub(reqs[o])'
          /\ KeptEdge(reqs[o])' /\ KeptAll(reqs[o])'
      BY <2>2, <3>1, <3>3, OtherProject, OtherTask, OtherSub, OtherEdge, OtherAll
    <3>5. QED
      BY <3>2, <3>4 DEF KeptOf
  <2>3. QED
    BY <2>1, <2>2
<1>2. QED
  BY <1>1 DEF Kept, KeptOf, Idle

-----------------------------------------------------------------------------
(* When the other parts of the invariant survive a step.                   *)
LEMMA NewIdsStep ==
    ASSUME NewIds, NEW t \in Thread, Others(t),
           At(t, {"createTask"}, "write")' =>
               \A o \in Thread : reqs[o] # Idle => reqs[o].on # reqs'[t].on
    PROVE  NewIds'
<1> SUFFICES ASSUME NEW a \in Thread, NEW b \in Thread, At(a, {"createTask"}, "write")',
                    At(b, {"createTask"}, "write")', reqs'[a].on = reqs'[b].on
             PROVE  a = b
  BY DEF NewIds
<1>1. \A o \in Thread \ {t} : reqs'[o] = reqs[o]
  BY DEF Others
<1>2. \A o \in Thread \ {t} : At(o, {"createTask"}, "write")' => At(o, {"createTask"}, "write") /\ reqs[o] # Idle
  BY <1>1 DEF At, Idle
<1>3. CASE a # t /\ b # t
  BY <1>1, <1>2, <1>3 DEF NewIds
<1>4. CASE a = t /\ b # t
  BY <1>1, <1>2, <1>4
<1>5. CASE a # t /\ b = t
  BY <1>1, <1>2, <1>5
<1>6. QED
  BY <1>3, <1>4, <1>5

LEMMA LegalStep ==
    ASSUME Typed, CheckedEdgesAreLegal, dep' \ loose' \subseteq dep \ loose,
           \A e \in dep' \ loose' : task'[e[1]].project = task[e[1]].project
                                 /\ task'[e[2]].project = task[e[2]].project
    PROVE  CheckedEdgesAreLegal'
<1>1. (dep \ loose) \in SUBSET Edge /\ dep' \ loose' \subseteq dep \ loose
  BY DEF Typed, Linkable, Edge, Stored
<1>2. Acyclic(dep \ loose)'
  <2>1. Acyclic(dep' \ loose')
    BY <1>1, FewerEdges DEF CheckedEdgesAreLegal
  <2>2. QED
    BY <2>1 DEF Acyclic, ReachFrom
<1>3. QED
  BY <1>1, <1>2 DEF CheckedEdgesAreLegal

LEMMA OutliveStep ==
    ASSUME NoTaskOutlivesProject, raced \subseteq raced', loose \subseteq loose',
           \A c \in Alive(task)' :
               \/ c \in Alive(task) /\ task'[c].project = task[c].project
                  /\ (task[c].project \in Alive(project) => task[c].project \in Alive(project)')
               \/ c \in loose' \/ task'[c].project \in Alive(project)' \cup raced'
    PROVE  NoTaskOutlivesProject'
  BY DEF NoTaskOutlivesProject

LEMMA OwedStays ==
    ASSUME NEW t \in Thread, Others(t), NEW x, NEW kinds, Owed(x, kinds)
    PROVE  Owed(x, kinds)' \/ Debt(reqs[t], x, kinds)
<1>1. PICK o \in Thread : Debt(reqs[o], x, kinds)
  BY DEF Owed
<1>2. CASE o = t
  BY <1>1, <1>2
<1>3. CASE o # t
  <2>1. Debt(reqs[o], x, kinds)'
    BY <1>1, <1>3 DEF Others, Debt, OwesAll
  <2>2. QED
    BY <2>1 DEF Owed
<1>4. QED
  BY <1>2, <1>3

LEMMA OwesNow ==
    ASSUME NEW t \in Thread, NEW x, NEW kinds, Debt(reqs'[t], x, kinds)
    PROVE  Owed(x, kinds)'
<1>1. Debt(reqs[t], x, kinds)'
  BY DEF Debt, OwesAll
<1>2. QED
  BY <1>1 DEF Owed

LEMMA ProjectsFollow ==
    ASSUME Followed, NEW t \in Thread, Others(t), raced \subseteq raced',
           \A p \in Project \ raced' :
               \/ Debt(reqs'[t], p, {"patchProject"})
               \/ told'.project[p] = ShownProject(project'[p])
               \/ /\ told'.project[p] = told.project[p]
                  /\ ShownProject(project'[p]) = ShownProject(project[p])
                  /\ ~Debt(reqs[t], p, {"patchProject"})
    PROVE  \A p \in Project \ raced' : ProjectFollows(p)'
<1> SUFFICES ASSUME NEW p \in Project \ raced'
             PROVE  ProjectFollows(p)'
  OBVIOUS
<1>1. ProjectFollows(p)
  BY DEF Followed
<1>2. Debt(reqs'[t], p, {"patchProject"}) => Owed(p, {"patchProject"})'
  BY OwesNow
<1>3. Owed(p, {"patchProject"}) => Owed(p, {"patchProject"})' \/ Debt(reqs[t], p, {"patchProject"})
  BY OwedStays
<1>4. QED
  BY <1>1, <1>2, <1>3 DEF ProjectFollows, ShownProject

LEMMA TasksFollow ==
    ASSUME Followed, NEW t \in Thread, Others(t), raced \subseteq raced', Typed, Typed',
           \A c \in Task \ raced' :
               \/ Debt(reqs'[t], c, {"createTask", "patchTask"})
               \/ told'.task[c] = (IF c \in Alive(task)' THEN ShownTask(task'[c]) ELSE None)
               \/ told'.task[c] = told.task[c] /\ task'[c] = task[c]
                  /\ ~Debt(reqs[t], c, {"createTask", "patchTask"})
    PROVE  \A c \in Task \ raced' : TaskFollows(c)'
<1> SUFFICES ASSUME NEW c \in Task \ raced'
             PROVE  TaskFollows(c)'
  OBVIOUS
<1> DEFINE K == {"createTask", "patchTask"}
<1>1. TaskFollows(c)
  BY DEF Followed
<1>2. Debt(reqs'[t], c, K) => Owed(c, K)'
  BY OwesNow
<1>3. Owed(c, K) => Owed(c, K)' \/ Debt(reqs[t], c, K)
  BY OwedStays
<1>4. task'[c] = task[c] => (c \in Alive(task) <=> c \in Alive(task)')
  BY AliveIn DEF Alive, Stored, Typed
<1>5. QED
  BY <1>1, <1>2, <1>3, <1>4 DEF TaskFollows, ShownTask

LEMMA SubsFollow ==
    ASSUME Followed, NEW t \in Thread, Others(t), raced \subseteq raced',
           \A s \in Subtask \ raced' :
               (sub'[s] # None => sub'[s].task \in Alive(task)' \ raced') =>
               \/ Debt(reqs'[t], s, {"createSub", "patchSub", "deleteSub"})
               \/ told'.sub[s] = ShownSub(sub'[s])
               \/ /\ told'.sub[s] = told.sub[s] /\ sub'[s] = sub[s]
                  /\ ~Debt(reqs[t], s, {"createSub", "patchSub", "deleteSub"})
                  /\ sub[s] # None => sub[s].task \in Alive(task)
    PROVE  \A s \in Subtask \ raced' : SubFollows(s)'
<1> SUFFICES ASSUME NEW s \in Subtask \ raced'
             PROVE  SubFollows(s)'
  OBVIOUS
<1> DEFINE K == {"createSub", "patchSub", "deleteSub"}
<1>1. SubFollows(s)
  BY DEF Followed
<1>2. Debt(reqs'[t], s, K) => Owed(s, K)'
  BY OwesNow
<1>3. Owed(s, K) => Owed(s, K)' \/ Debt(reqs[t], s, K)
  BY OwedStays
<1> HIDE DEF K
<1>4. QED
  BY <1>1, <1>2, <1>3 DEF SubFollows, ShownSub, K

LEMMA EdgesFollow ==
    ASSUME Followed, NEW t \in Thread, Others(t), raced \subseteq raced',
           \A e \in Edge \ raced' :
               {e[1], e[2]} \subseteq Alive(task)' \ raced' =>
               \/ Debt(reqs'[t], e, {"link", "unlink"})
               \/ e \in told'.dep <=> e \in dep'
               \/ /\ (e \in told'.dep <=> e \in told.dep) /\ (e \in dep' <=> e \in dep)
                  /\ ~Debt(reqs[t], e, {"link", "unlink"})
                  /\ {e[1], e[2]} \subseteq Alive(task)
    PROVE  \A e \in Edge \ raced' : EdgeFollows(e)'
<1> SUFFICES ASSUME NEW e \in Edge \ raced'
             PROVE  EdgeFollows(e)'
  OBVIOUS
<1> DEFINE K == {"link", "unlink"}
<1>1. EdgeFollows(e)
  BY DEF Followed
<1>2. Debt(reqs'[t], e, K) => Owed(e, K)'
  BY OwesNow
<1>3. Owed(e, K) => Owed(e, K)' \/ Debt(reqs[t], e, K)
  BY OwedStays
<1> HIDE DEF K
<1>4. QED
  BY <1>1, <1>2, <1>3 DEF EdgeFollows, K

LEMMA FollowedStep ==
    ASSUME \A p \in Project \ raced' : ProjectFollows(p)',
           \A c \in Task \ raced' : TaskFollows(c)',
           \A s \in Subtask \ raced' : SubFollows(s)',
           \A e \in Edge \ raced' : EdgeFollows(e)'
    PROVE  Followed'
  BY DEF Followed

(* A step that changes neither rows nor devices, and forgets no debt.      *)
LEMMA QuietStep ==
    ASSUME Typed, Typed', CheckedEdgesAreLegal, NoTaskOutlivesProject, Followed, NEW t \in Thread, Others(t),
           raced \subseteq raced', loose' = loose, UNCHANGED <<project, task, dep, sub, told>>,
           \A x, kinds : "none" \notin kinds /\ Debt(reqs[t], x, kinds) =>
               Debt(reqs'[t], x, kinds) \/ x \in raced' \/ x \notin Project \cup Task \cup Subtask \cup Edge
    PROVE  CheckedEdgesAreLegal' /\ NoTaskOutlivesProject' /\ Followed'
<1>1. Alive(task)' = Alive(task) /\ Alive(project)' = Alive(project)
  BY DEF Alive, Stored
<1>2. CheckedEdgesAreLegal'
  BY LegalStep
<1>3. NoTaskOutlivesProject'
  BY <1>1, OutliveStep
<1>4. \A p \in Project \ raced' : ProjectFollows(p)'
  BY ProjectsFollow
<1>5. \A c \in Task \ raced' : TaskFollows(c)'
  BY TasksFollow
<1>6. \A s \in Subtask \ raced' : SubFollows(s)'
  BY <1>1, SubsFollow
<1>7. \A e \in Edge \ raced' : EdgeFollows(e)'
  BY <1>1, EdgesFollow
<1>8. QED
  BY <1>2, <1>3, <1>4, <1>5, <1>6, <1>7, FollowedStep

-----------------------------------------------------------------------------
(* Requests that begin: they have read, and change nothing yet.            *)
LEMMA KeptSame ==
    ASSUME NEW t, NEW q, KeptOf(q), reqs'[t] = q, UNCHANGED <<project, task, dep, sub>>,
           file # None => file' = file, raced \subseteq raced'
    PROVE  KeptOf(reqs[t])'
<1>1. IsRequest(reqs[t])' /\ reqs'[t].by \in User
  BY DEF KeptOf, IsRequest
<1>2. Alive(task)' = Alive(task) /\ Alive(project)' = Alive(project)
      /\ Stored(task)' = Stored(task) /\ Stored(project)' = Stored(project)
      /\ Linkable' = Linkable /\ \A p : TasksOf(p)' = TasksOf(p)
  BY DEF Alive, Stored, Linkable, TasksOf
<1>4. PayloadTyped(q.seen) => PayloadTyped(reqs[t].seen)'
  BY <1>2 DEF PayloadTyped
<1>5. KeptProject(reqs[t])'
  BY <1>2, <1>4 DEF KeptOf, KeptProject, Patched, TasksOf, Alive, Stored
<1>6. KeptTask(reqs[t])'
  BY <1>2, <1>4 DEF KeptOf, KeptTask, ShownTask
<1>7. KeptSub(reqs[t])'
  BY <1>2, <1>4 DEF KeptOf, KeptSub, ShownSub
<1>8. KeptEdge(reqs[t])'
  BY <1>2 DEF KeptOf, KeptEdge, ReachFrom
<1>9. KeptAll(reqs[t])'
  BY <1>2, <1>4 DEF KeptOf, KeptAll, ReachFrom
<1>10. QED
  BY <1>1, <1>5, <1>6, <1>7, <1>8, <1>9 DEF KeptOf

LEMMA TypedSame ==
    ASSUME Typed, UNCHANGED <<project, task, dep, sub, told, file>>, Slots, acts' \in Nat,
           undo' = undo \/ \E u \in User : undo' = [undo EXCEPT ![u] = None]
    PROVE  Typed'
<1>1. Stored(task)' = Stored(task) /\ Stored(project)' = Stored(project)
      /\ Stored(sub)' = Stored(sub) /\ Linkable' = Linkable
  BY DEF Stored, Linkable
<1>2. undo' = [u \in User |-> undo'[u]] /\ \A u \in User : undo'[u] # None => undo'[u] = undo[u]
  BY DEF Typed
<1>3. \A u \in User : undo'[u] # None => PayloadTyped(undo[u])'
  BY <1>1, <1>2 DEF Typed, PayloadTyped
<1>4. file # None => FileTyped'
  BY <1>1 DEF Typed, FileTyped
<1>5. QED
  BY <1>1, <1>2, <1>3, <1>4 DEF Typed, ViewTyped, Slots

LEMMA StartInv ==
    ASSUME GraphInv, NEW t \in Thread, NEW kind, NEW u, NEW on, NEW to, NEW pc, NEW seen,
           reqs[t] = Idle, Starts(t, kind, u, on, to, pc, seen), Overlaps(t),
           undo' = undo \/ \E v \in User : undo' = [undo EXCEPT ![v] = None],
           KeptOf([kind |-> kind, by |-> u, on |-> on, to |-> to, pc |-> pc, seen |-> seen]),
           kind = "createTask" => \A o \in Thread : reqs[o] # Idle => reqs[o].on # on
    PROVE  GraphInv'
<1> DEFINE q == [kind |-> kind, by |-> u, on |-> on, to |-> to, pc |-> pc, seen |-> seen]
<1>0. Typed /\ Kept /\ NewIds /\ CheckedEdgesAreLegal /\ NoTaskOutlivesProject /\ Followed
  BY DEF GraphInv
<1>1. /\ reqs'[t] = q /\ Others(t) /\ Slots
      /\ UNCHANGED <<project, task, dep, sub, told, file, loose>> /\ acts' = acts + 1
  BY <1>0, Starting
<1>2. acts' \in Nat
  BY <1>0, <1>1 DEF Typed
<1>3. Typed'
  BY <1>0, <1>1, <1>2, TypedSame
<1>4. raced \subseteq raced' /\ Steady(t)
  BY <1>1 DEF Overlaps, Steady
<1>5. KeptOf(reqs[t])'
  BY <1>1, <1>4, KeptSame
<1>6. Kept'
  BY <1>0, <1>1, <1>3, <1>4, <1>5, KeptStep
<1>7. NewIds'
  <2>1. q.kind = kind /\ q.on = on
    OBVIOUS
  <2>2. At(t, {"createTask"}, "write")' => \A o \in Thread : reqs[o] # Idle => reqs[o].on # reqs'[t].on
    BY <1>1, <2>1 DEF At
  <2>3. QED
    BY <1>0, <1>1, <2>2, NewIdsStep
<1>8. CheckedEdgesAreLegal' /\ NoTaskOutlivesProject' /\ Followed'
  <2>1. \A x, kinds : "none" \notin kinds => ~Debt(reqs[t], x, kinds)
    BY DEF Debt, OwesAll, Idle
  <2>2. QED
    BY <1>0, <1>1, <1>3, <1>4, <2>1, QuietStep
<1>9. QED
  BY <1>3, <1>6, <1>7, <1>8 DEF GraphInv

LEMMA PayloadIn ==
    ASSUME Typed, NEW S, S \subseteq Stored(task)
    PROVE  PayloadTyped(Payload(S))
<1>1. SubsOf(S) \subseteq Stored(sub) /\ SubsOf(S) \subseteq Subtask
  BY StoredIn DEF SubsOf
<1>2. DOMAIN Payload(S).subs = SubsOf(S) /\ \A s \in SubsOf(S) : Payload(S).subs[s] = sub[s]
  BY DEF Payload, Restrict
<1>3. \A s \in SubsOf(S) : sub[s] \in SubRow /\ sub[s].task \in Stored(task)
  BY <1>1, StoredIn DEF Typed
<1>4. Payload(S).tasks = S /\ Payload(S).deps \subseteq Linkable
  BY DEF Payload, Touching, Typed
<1>5. QED
  BY <1>1, <1>2, <1>3, <1>4 DEF PayloadTyped

LEMMA OneSub ==
    ASSUME Typed, NEW s \in Stored(sub)
    PROVE  PayloadTyped([Nothing EXCEPT !.subs = Restrict(sub, {s})])
<1> DEFINE x == [Nothing EXCEPT !.subs = Restrict(sub, {s})]
<1>1. x.tasks = {} /\ x.deps = {} /\ DOMAIN x.subs = {s} /\ x.subs[s] = sub[s]
  BY DEF Nothing, Restrict
<1>2. s \in Subtask /\ sub[s] \in SubRow /\ sub[s].task \in Stored(task)
  BY StoredIn DEF Typed
<1>3. QED
  BY <1>1, <1>2 DEF PayloadTyped

LEMMA RowIn ==
    ASSUME Typed
    PROVE  /\ \A p \in Stored(project) : project[p] \in ProjectRow
           /\ \A c \in Stored(task) : task[c] \in TaskRow /\ task[c].project \in Project
           /\ \A s \in Stored(sub) : sub[s] \in SubRow /\ sub[s].task \in Stored(task) /\ sub[s].task \in Task
  BY StoredIn DEF Typed, TaskRow

LEMMA AliveStored ==
    ASSUME Typed
    PROVE  /\ Alive(project) \subseteq Stored(project) /\ Stored(project) \subseteq Project
           /\ Alive(task) \subseteq Stored(task) /\ Stored(task) \subseteq Task
  BY StoredIn, AliveIn

LEMMA ProjectStarts ==
    ASSUME GraphInv, NEW t \in Thread, Overlaps(t), CreateProject(t) \/ PatchProject(t) \/ DeleteProject(t)
    PROVE  GraphInv'
<1>0. Typed /\ reqs[t] = Idle /\ undo' = undo
  BY DEF GraphInv, CreateProject, PatchProject, DeleteProject, May
<1>1. CASE CreateProject(t)
  <2>1. PICK u \in User, n \in Name, p \in Project :
          LET clash == {q \in Stored(project) \ Alive(project) :
                          project[q].owner = u /\ project[q].name = Plain(n)}
          IN  Starts(t, "createProject", u, p, n, "commit", clash)
    BY <1>1 DEF CreateProject
  <2> DEFINE clash == {q \in Stored(project) \ Alive(project) :
                          project[q].owner = u /\ project[q].name = Plain(n)}
             r == [kind |-> "createProject", by |-> u, on |-> p, to |-> n, pc |-> "commit", seen |-> clash]
  <2>2. clash \subseteq Stored(project) /\ \A q \in clash : project[q].deleted
    BY <1>0, AliveIn, StoredIn
  <2> HIDE DEF clash
  <2>3. KeptOf(r)
    BY <2>2 DEF KeptOf, IsRequest, KeptProject, KeptTask, KeptSub, KeptEdge, KeptAll
  <2>4. Starts(t, "createProject", u, p, n, "commit", clash)
    BY <2>1 DEF clash
  <2>5. QED
    BY <1>0, <2>3, <2>4, StartInv
<1>2. CASE PatchProject(t)
  <2>1. PICK u \in User, p \in Project, to \in Name \cup BOOLEAN :
          Manages(u, p) /\ Starts(t, "patchProject", u, p, to, "write", project[p])
    BY <1>2 DEF PatchProject
  <2>2. p \in Stored(project) /\ project[p] \in ProjectRow
    BY <1>0, <2>1, AliveStored, RowIn DEF Manages, Sees
  <2> DEFINE r == [kind |-> "patchProject", by |-> u, on |-> p, to |-> to, pc |-> "write", seen |-> project[p]]
  <2>3. KeptOf(r)
    BY <2>2 DEF KeptOf, IsRequest, KeptProject, KeptTask, KeptSub, KeptEdge, KeptAll
  <2>4. QED
    BY <1>0, <2>1, <2>3, StartInv
<1>3. CASE DeleteProject(t)
  <2>1. PICK u \in User, p \in Project :
          Manages(u, p) /\ Starts(t, "deleteProject", u, p, None, "commit", Payload(TasksOf(p)))
    BY <1>3 DEF DeleteProject
  <2> DEFINE x == Payload(TasksOf(p))
  <2>2. p \in Stored(project) /\ TasksOf(p) \subseteq Stored(task)
    BY <1>0, <2>1, AliveStored DEF Manages, Sees, TasksOf
  <2>3. PayloadTyped(x) /\ x.tasks = TasksOf(p)
    BY <1>0, <2>2, PayloadIn DEF Payload
  <2> HIDE DEF x
  <2> DEFINE r == [kind |-> "deleteProject", by |-> u, on |-> p, to |-> None, pc |-> "commit", seen |-> x]
  <2>4. KeptOf(r)
    BY <2>2, <2>3 DEF KeptOf, IsRequest, KeptProject, KeptTask, KeptSub, KeptEdge, KeptAll
  <2>5. Starts(t, "deleteProject", u, p, None, "commit", x)
    BY <2>1 DEF x
  <2>6. QED
    BY <1>0, <2>4, <2>5, StartInv
<1>4. QED
  BY <1>1, <1>2, <1>3

LEMMA TaskStarts ==
    ASSUME GraphInv, NEW t \in Thread, Overlaps(t), CreateTask(t) \/ PatchTask(t) \/ DeleteTask(t)
    PROVE  GraphInv'
<1>0. Typed /\ reqs[t] = Idle /\ undo' = undo /\ dep \subseteq Linkable
  BY DEF GraphInv, CreateTask, PatchTask, DeleteTask, May, Typed
<1>1. CASE CreateTask(t)
  <2>1. PICK u \in User, p \in Project, c \in Task :
          /\ Edits(u, p) /\ task[c] = None /\ \A o \in Thread : reqs[o] # Idle => reqs[o].on # c
          /\ Starts(t, "createTask", u, c, p, "write", None)
    BY <1>1 DEF CreateTask
  <2> DEFINE r == [kind |-> "createTask", by |-> u, on |-> c, to |-> p, pc |-> "write", seen |-> None]
  <2>2. KeptOf(r)
    BY <2>1 DEF Edits, Sees, KeptOf, IsRequest, KeptProject, KeptTask, KeptSub, KeptEdge, KeptAll
  <2>3. QED
    BY <1>0, <2>1, <2>2, StartInv
<1>2. CASE PatchTask(t)
  <2>1. PICK u \in User, c \in Task, to \in BOOLEAN \cup Project :
          /\ EditsTask(u, c)
          /\ to \in Project \ {task[c].project} => Sees(u, to) /\ ReparentSafe(c, to)
          /\ Starts(t, "patchTask", u, c, to, "write", IF to \in Project THEN Placed(Touching(dep, {c})) ELSE {})
    BY <1>2 DEF PatchTask
  <2> DEFINE w == IF to \in Project THEN Placed(Touching(dep, {c})) ELSE {}
             r == [kind |-> "patchTask", by |-> u, on |-> c, to |-> to, pc |-> "write", seen |-> w]
  <2>2. c \in Alive(task) /\ c \in Stored(task) /\ task[c].project \in Alive(project)
    BY <1>0, <2>1, AliveStored DEF EditsTask, Edits, Sees
  <2>3. to \in Project => to \in Alive(project)
    BY <2>1, <2>2 DEF Sees
  <2>4. ASSUME NEW e \in Edge, NEW p \in Project, <<e, p, p>> \in w, to \in Project
        PROVE  p = to
    <3>1. PICK f \in Touching(dep, {c}) : <<e, p, p>> = <<f, task[f[1]].project, task[f[2]].project>>
      BY <2>4 DEF Placed
    <3>2. task[f[1]].project = p /\ task[f[2]].project = p /\ (f[1] = c \/ f[2] = c)
      BY <3>1 DEF Touching
    <3>3. CASE to = task[c].project
      BY <3>2, <3>3
    <3>4. CASE to # task[c].project
      <4>1. task[IF f[1] = c THEN f[2] ELSE f[1]].project = to
        BY <2>1, <2>4, <3>1, <3>4 DEF ReparentSafe
      <4>2. QED
        BY <3>2, <4>1
    <3>5. QED
      BY <3>3, <3>4
  <2> HIDE DEF w
  <2>5. KeptOf(r)
    BY <2>2, <2>3, <2>4 DEF KeptOf, IsRequest, KeptProject, KeptTask, KeptSub, KeptEdge, KeptAll
  <2>6. Starts(t, "patchTask", u, c, to, "write", w)
    BY <2>1 DEF w
  <2>7. QED
    BY <1>0, <2>5, <2>6, StartInv
<1>3. CASE DeleteTask(t)
  <2>1. PICK u \in User, c \in Task :
          EditsTask(u, c) /\ Starts(t, "deleteTask", u, c, None, "commit", Payload({c}))
    BY <1>3 DEF DeleteTask
  <2> DEFINE x == Payload({c})
             r == [kind |-> "deleteTask", by |-> u, on |-> c, to |-> None, pc |-> "commit", seen |-> x]
  <2>2. c \in Stored(task)
    BY <1>0, <2>1, AliveStored DEF EditsTask
  <2>3. PayloadTyped(x)
    BY <1>0, <2>2, PayloadIn
  <2> HIDE DEF x
  <2>4. KeptOf(r)
    BY <2>2, <2>3 DEF KeptOf, IsRequest, KeptProject, KeptTask, KeptSub, KeptEdge, KeptAll
  <2>5. Starts(t, "deleteTask", u, c, None, "commit", x)
    BY <2>1 DEF x
  <2>6. QED
    BY <1>0, <2>4, <2>5, StartInv
<1>4. QED
  BY <1>1, <1>2, <1>3

LEMMA SubStarts ==
    ASSUME GraphInv, NEW t \in Thread, Overlaps(t), CreateSubtask(t) \/ PatchSubtask(t) \/ DeleteSubtask(t)
    PROVE  GraphInv'
<1>0. Typed /\ reqs[t] = Idle /\ undo' = undo
  BY DEF GraphInv, CreateSubtask, PatchSubtask, DeleteSubtask, May
<1>1. CASE CreateSubtask(t)
  <2>1. PICK u \in User, c \in Task, s \in Subtask :
          EditsTask(u, c) /\ Starts(t, "createSub", u, s, c, "write", None)
    BY <1>1 DEF CreateSubtask
  <2> DEFINE r == [kind |-> "createSub", by |-> u, on |-> s, to |-> c, pc |-> "write", seen |-> None]
  <2>2. c \in Stored(task)
    BY <1>0, <2>1, AliveStored DEF EditsTask
  <2>3. KeptOf(r)
    BY <2>2 DEF KeptOf, IsRequest, KeptProject, KeptTask, KeptSub, KeptEdge, KeptAll
  <2>4. QED
    BY <1>0, <2>1, <2>3, StartInv
<1>2. CASE PatchSubtask(t)
  <2>1. PICK u \in User, s \in Stored(sub), to \in BOOLEAN : Starts(t, "patchSub", u, s, to, "write", None)
    BY <1>2 DEF PatchSubtask
  <2> DEFINE r == [kind |-> "patchSub", by |-> u, on |-> s, to |-> to, pc |-> "write", seen |-> None]
  <2>2. s \in Subtask /\ sub[s] # None
    BY <1>0, StoredIn
  <2>3. KeptOf(r)
    BY <2>2 DEF KeptOf, IsRequest, KeptProject, KeptTask, KeptSub, KeptEdge, KeptAll
  <2>4. QED
    BY <1>0, <2>1, <2>3, StartInv
<1>3. CASE DeleteSubtask(t)
  <2>1. PICK u \in User, s \in Stored(sub) :
          Starts(t, "deleteSub", u, s, project[task[sub[s].task].project].shared, "write",
                 [Nothing EXCEPT !.subs = Restrict(sub, {s})])
    BY <1>3 DEF DeleteSubtask
  <2> DEFINE x == [Nothing EXCEPT !.subs = Restrict(sub, {s})]
             to == project[task[sub[s].task].project].shared
             r == [kind |-> "deleteSub", by |-> u, on |-> s, to |-> to, pc |-> "write", seen |-> x]
  <2>2. s \in Subtask /\ PayloadTyped(x)
    BY <1>0, StoredIn, OneSub
  <2> HIDE DEF x, to
  <2>3. KeptOf(r)
    BY <2>2 DEF KeptOf, IsRequest, KeptProject, KeptTask, KeptSub, KeptEdge, KeptAll
  <2>4. Starts(t, "deleteSub", u, s, to, "write", x)
    BY <2>1 DEF x, to
  <2>5. QED
    BY <1>0, <2>3, <2>4, StartInv
<1>4. QED
  BY <1>1, <1>2, <1>3

LEMMA EdgeStarts ==
    ASSUME GraphInv, NEW t \in Thread, Overlaps(t), Link(t) \/ Unlink(t)
    PROVE  GraphInv'
<1>0. Typed /\ reqs[t] = Idle /\ undo' = undo /\ dep \subseteq Linkable
  BY DEF GraphInv, Link, Unlink, May, Typed
<1>1. CASE Link(t)
  <2>1. PICK u \in User, a \in Task, b \in Task :
          /\ EditsTask(u, a) /\ EditsTask(u, b) /\ MayLink(a, b)
          /\ Starts(t, "link", u, <<a, b>>, None, "write", Grounds(a, b))
    BY <1>1 DEF Link
  <2> DEFINE g == Grounds(a, b)
             r == [kind |-> "link", by |-> u, on |-> <<a, b>>, to |-> None, pc |-> "write", seen |-> g]
  <2>2. <<a, b>> \in Linkable
    BY <1>0, <2>1, AliveStored DEF EditsTask, Linkable
  <2>3. g.dep = dep /\ \A p, q \in g.at : p = q
    BY <2>1 DEF Grounds, MayLink
  <2>4. a \notin ReachFrom(g.dep, b)
    BY <2>1, <2>3 DEF MayLink
  <2> HIDE DEF g
  <2>5. KeptOf(r)
    BY <2>2, <2>3, <2>4 DEF KeptOf, IsRequest, KeptProject, KeptTask, KeptSub, KeptEdge, KeptAll
  <2>6. Starts(t, "link", u, <<a, b>>, None, "write", g)
    BY <2>1 DEF g
  <2>7. QED
    BY <1>0, <2>5, <2>6, StartInv
<1>2. CASE Unlink(t)
  <2>1. PICK u \in User, e \in dep :
          Starts(t, "unlink", u, e, None, "write", project[task[e[1]].project].shared)
    BY <1>2 DEF Unlink
  <2> DEFINE x == project[task[e[1]].project].shared
             r == [kind |-> "unlink", by |-> u, on |-> e, to |-> None, pc |-> "write", seen |-> x]
  <2>2. e \in Linkable
    BY <1>0
  <2> HIDE DEF x
  <2>3. KeptOf(r)
    BY <2>2 DEF KeptOf, IsRequest, KeptProject, KeptTask, KeptSub, KeptEdge, KeptAll
  <2>4. Starts(t, "unlink", u, e, None, "write", x)
    BY <2>1 DEF x
  <2>5. QED
    BY <1>0, <2>3, <2>4, StartInv
<1>3. QED
  BY <1>1, <1>2

LEMMA BulkStarts ==
    ASSUME GraphInv, NEW t \in Thread, Overlaps(t), Restore(t) \/ Import(t)
    PROVE  GraphInv'
<1>0. Typed /\ reqs[t] = Idle /\ dep \subseteq Linkable
  BY DEF GraphInv, Restore, Import, May, Typed
<1>1. CASE Restore(t)
  <2>1. PICK u \in User :
           /\ undo[u] # None
           /\ Starts(t, "restore", u, undo[u].of, None, "tasks", undo[u])
           /\ undo' = [undo EXCEPT ![u] = None]
    BY <1>1 DEF Restore
  <2> DEFINE x == undo[u]
             of == x.of
             r == [kind |-> "restore", by |-> u, on |-> of, to |-> None, pc |-> "tasks", seen |-> x]
  <2>2. PayloadTyped(x)
    BY <1>0, <2>1 DEF Typed
  <2>3. Starts(t, "restore", u, of, None, "tasks", x)
    BY <2>1
  <2> HIDE DEF x, of
  <2>4. KeptOf(r)
    BY <2>2 DEF KeptOf, IsRequest, KeptProject, KeptTask, KeptSub, KeptEdge, KeptAll
  <2>5. undo' = undo \/ \E v \in User : undo' = [undo EXCEPT ![v] = None]
    BY <2>1
  <2> HIDE DEF r
  <2>6. r = [kind |-> "restore", by |-> u, on |-> of, to |-> None, pc |-> "tasks", seen |-> x]
    BY DEF r
  <2>7. "restore" = "createTask" => FALSE
    OBVIOUS
  <2>8. QED
    BY <1>0, <2>3, <2>4, <2>5, <2>6, <2>7, StartInv, Zenon
<1>2. CASE Import(t)
  <2> DEFINE own == Made(file.by)
  <2>1. PICK A \in Outcomes :
          Starts(t, "import", file.by, None, None, "projects",
                 [dep |-> own, accepted |-> A \cup (file.dep \cap own)])
    BY <1>2 DEF Import
  <2>2. file # None /\ undo' = undo /\ FileTyped /\ file.by \in User
    BY <1>0, <1>2 DEF Import, Typed, FileTyped
  <2> DEFINE x == [dep |-> own, accepted |-> A \cup (file.dep \cap own)]
             r == [kind |-> "import", by |-> file.by, on |-> None, to |-> None, pc |-> "projects", seen |-> x]
  <2>3. x.dep = own /\ x.accepted = A \cup (file.dep \cap own) /\ own \cup x.accepted = own \cup A
    OBVIOUS
  <2>4. /\ A \subseteq file.dep \ own
        /\ \A e \in A : file.task[e[1]].project = file.task[e[2]].project
                     /\ e[1] \notin ReachFrom(own \cup A, e[2])
    BY DEF Outcomes, Judged
  <2> HIDE DEF x, own
  <2>5. KeptAll(r)
    BY <2>2, <2>3, <2>4 DEF KeptAll
  <2>6. KeptOf(r)
    BY <2>2, <2>5 DEF KeptOf, IsRequest, KeptProject, KeptTask, KeptSub, KeptEdge
  <2>7. Starts(t, "import", file.by, None, None, "projects", x)
    BY <2>1 DEF x
  <2>8. QED
    BY <1>0, <2>2, <2>6, <2>7, StartInv
<1>3. QED
  BY <1>1, <1>2

-----------------------------------------------------------------------------
(* The shape of the state after a step.                                    *)
LEMMA Grows ==
    ASSUME Typed, task' \in [Task -> {None} \cup TaskRow], project' \in [Project -> {None} \cup ProjectRow],
           NEW t, Steady(t)
    PROVE  /\ Stored(task) \subseteq Stored(task)' /\ Stored(project) \subseteq Stored(project)'
           /\ Linkable \subseteq Linkable'
           /\ \A x : PayloadTyped(x) => PayloadTyped(x)'
<1>1. Stored(task) \subseteq Stored(task)' /\ Stored(project) \subseteq Stored(project)'
  BY DEF Typed, Stored, Steady
<1>2. Linkable \subseteq Linkable'
  BY <1>1 DEF Linkable
<1>3. QED
  BY <1>1, <1>2 DEF PayloadTyped

LEMMA TypedStep ==
    ASSUME Typed, NEW t, Steady(t), Slots, acts' \in Nat, file' = file,
           project' \in [Project -> {None} \cup ProjectRow],
           task' \in [Task -> {None} \cup TaskRow],
           sub' \in [Subtask -> {None} \cup SubRow],
           \A s \in Subtask : sub'[s] # None => sub'[s] = sub[s] \/ sub'[s].task \in Stored(task)',
           dep' \subseteq Linkable', ViewTyped(told)',
           undo' = undo \/ \E u \in User : \E x : PayloadTyped(x) /\ undo' = [undo EXCEPT ![u] = x]
    PROVE  Typed'
<1>1. Stored(task) \subseteq Stored(task)' /\ Stored(project) \subseteq Stored(project)'
      /\ Linkable \subseteq Linkable' /\ \A x : PayloadTyped(x) => PayloadTyped(x)'
  BY Grows
<1>2. \A s \in Stored(sub)' : sub'[s].task \in Stored(task)'
  <2>1. ASSUME NEW s \in Stored(sub)'
        PROVE  sub'[s].task \in Stored(task)'
    <3>1. s \in Subtask /\ sub'[s] # None
      BY DEF Stored
    <3>2. CASE sub'[s] = sub[s]
      BY <1>1, <3>1, <3>2, StoredIn DEF Typed
    <3>3. QED
      BY <3>1, <3>2
  <2>2. QED
    BY <2>1
<1>3. undo' = [u \in User |-> undo'[u]] /\ \A u \in User : undo'[u] # None => PayloadTyped(undo[u])'
  <2>1. CASE undo' = undo
    <3>1. undo' = [u \in User |-> undo'[u]]
      BY <2>1 DEF Typed
    <3>2. ASSUME NEW u \in User, undo'[u] # None
          PROVE  PayloadTyped(undo[u])'
      <4>1. PayloadTyped(undo[u])
        BY <2>1, <3>2 DEF Typed
      <4>2. QED
        BY <1>1, <2>1, <4>1 DEF PayloadTyped
    <3>3. QED
      BY <3>1, <3>2
  <2>2. CASE \E u \in User : \E x : PayloadTyped(x) /\ undo' = [undo EXCEPT ![u] = x]
    <3>1. PICK u \in User : \E x : PayloadTyped(x) /\ undo' = [undo EXCEPT ![u] = x]
      BY <2>2
    <3>2. PICK x : PayloadTyped(x) /\ undo' = [undo EXCEPT ![u] = x]
      BY <3>1
    <3>3. undo' = [v \in User |-> IF v = u THEN x ELSE undo[v]]
      BY <3>2 DEF Typed
    <3>4. ASSUME NEW v \in User, undo'[v] # None
          PROVE  PayloadTyped(undo[v])'
      <4>1. PayloadTyped(undo'[v])
        BY <3>2, <3>3, <3>4 DEF Typed
      <4>2. QED
        BY <1>1, <4>1 DEF PayloadTyped
    <3>5. QED
      BY <3>3, <3>4
  <2>3. QED
    BY <2>1, <2>2
<1>4. file' # None => FileTyped'
  BY <1>1 DEF Typed, FileTyped
<1>5. QED
  BY <1>2, <1>3, <1>4 DEF Typed, Slots

LEMMA ViewStays ==
    ASSUME Typed, Linkable \subseteq Linkable', told' = told
    PROVE  ViewTyped(told)'
  BY DEF Typed, ViewTyped

LEMMA WithoutIs ==
    ASSUME NEW v, ViewTyped(v), NEW S
    PROVE  /\ ViewTyped(Without(v, S))
           /\ Without(v, S).project = v.project
           /\ \A c \in Task : Without(v, S).task[c] = (IF c \in S THEN None ELSE v.task[c])
           /\ \A s \in Subtask : Without(v, S).sub[s] =
                 (IF v.sub[s] # None /\ v.sub[s].task \in S THEN None ELSE v.sub[s])
           /\ Without(v, S).dep = v.dep \ Touching(v.dep, S)
<1>1. Without(v, S) =
        [project |-> v.project,
         task |-> [c \in Task |-> IF c \in S THEN None ELSE v.task[c]],
         sub |-> [s \in Subtask |-> IF v.sub[s] # None /\ v.sub[s].task \in S THEN None ELSE v.sub[s]],
         dep |-> v.dep \ Touching(v.dep, S)]
  BY DEF Without
<1>2. \A s \in Subtask : v.sub[s] \in {None} \cup SubShown
  BY DEF ViewTyped
<1>3. v.dep \subseteq Linkable
  BY DEF ViewTyped
<1>4. QED
  BY <1>1, <1>2, <1>3 DEF ViewTyped

LEMMA EverythingIs ==
    ASSUME sub \in [Subtask -> {None} \cup SubRow], dep \subseteq Linkable
    PROVE  /\ ViewTyped(Everything)
           /\ \A p \in Project : Everything.project[p] = ShownProject(project[p])
           /\ \A c \in Task : Everything.task[c] = (IF c \in Alive(task) THEN ShownTask(task[c]) ELSE None)
           /\ \A s \in Subtask : Everything.sub[s] = ShownSub(sub[s])
           /\ Everything.dep = dep
<1>1. \A s \in Subtask : ShownSub(sub[s]) \in {None} \cup SubShown
  BY DEF ShownSub, SubRow, SubShown
<1>2. QED
  BY <1>1 DEF Everything, ViewTyped

LEMMA StepInv ==
    ASSUME GraphInv, NEW t \in Thread, Overlaps(t), Others(t), Steady(t), Typed',
           reqs'[t] # Idle => KeptOf(reqs[t])',
           ~At(t, {"createTask"}, "write")',
           CheckedEdgesAreLegal', NoTaskOutlivesProject', Followed'
    PROVE  GraphInv'
<1>1. Kept'
  BY KeptStep DEF GraphInv
<1>2. NewIds'
  BY NewIdsStep DEF GraphInv
<1>3. QED
  BY <1>1, <1>2 DEF GraphInv

LEMMA IdleNow ==
    ASSUME NEW t, reqs'[t] = Idle
    PROVE  ~At(t, {"createTask"}, "write")' /\ \A x, kinds : "none" \notin kinds => ~Debt(reqs'[t], x, kinds)
  BY DEF At, Idle, Debt, OwesAll

-----------------------------------------------------------------------------
(* Steps that only read, and the death of a Worker.                        *)
LEMMA Reading ==
    ASSUME Typed, NEW t \in Thread, IsRequest(reqs[t]), NEW x, Reads(t, x)
    PROVE  /\ Others(t) /\ Slots /\ IsRequest(reqs'[t])
           /\ reqs'[t].kind = reqs[t].kind /\ reqs'[t].by = reqs[t].by /\ reqs'[t].on = reqs[t].on
           /\ reqs'[t].to = reqs[t].to /\ reqs'[t].pc = "tell" /\ reqs'[t].seen = x
<1>1. reqs = [o \in Thread |-> reqs[o]]
  BY DEF Typed
<1> DEFINE q == [kind |-> reqs[t].kind, by |-> reqs[t].by, on |-> reqs[t].on, to |-> reqs[t].to,
                 pc |-> "tell", seen |-> x]
<1>2. reqs' = [o \in Thread |-> IF o = t THEN q ELSE reqs[o]]
  BY <1>1 DEF Reads
<1>3. reqs'[t] = q /\ Others(t) /\ Slots
  BY <1>2 DEF Others, Slots
<1>4. QED
  BY <1>3 DEF IsRequest

LEMMA ReadBackInv ==
    ASSUME GraphInv, NEW t \in Thread, Overlaps(t), ReadTaskBack(t) \/ ReadSubtaskBack(t)
    PROVE  GraphInv'
<1>0. Typed /\ Kept /\ CheckedEdgesAreLegal /\ NoTaskOutlivesProject /\ Followed
  BY DEF GraphInv
<1>1. UNCHANGED <<project, task, dep, sub, told, undo, file, loose>> /\ acts' = acts
  BY DEF ReadTaskBack, ReadSubtaskBack, db, bounds
<1>2. raced \subseteq raced' /\ Steady(t) /\ acts' \in Nat
  BY <1>0, <1>1 DEF Overlaps, Steady, Typed
<1> DEFINE K == {"createTask", "patchTask", "createSub", "patchSub"}
<1>3. At(t, K, "readback") /\ \E x : Reads(t, x)
  BY DEF ReadTaskBack, ReadSubtaskBack, At
<1>4. /\ reqs[t] # Idle /\ IsRequest(reqs[t]) /\ reqs[t].by \in User
      /\ reqs[t].kind \in K /\ reqs[t].pc = "readback"
      /\ KeptProject(reqs[t]) /\ KeptTask(reqs[t]) /\ KeptSub(reqs[t])
      /\ KeptEdge(reqs[t]) /\ KeptAll(reqs[t])
  BY <1>0, <1>3, InFlight
<1>5. PICK x : Reads(t, x)
  BY <1>3
<1>6. /\ Others(t) /\ Slots /\ IsRequest(reqs'[t])
      /\ reqs'[t].kind = reqs[t].kind /\ reqs'[t].by = reqs[t].by /\ reqs'[t].on = reqs[t].on
      /\ reqs'[t].to = reqs[t].to /\ reqs'[t].pc = "tell" /\ reqs'[t].seen = x
  BY <1>0, <1>4, <1>5, Reading
<1>7. Typed'
  BY <1>0, <1>1, <1>2, <1>6, TypedSame
<1>8. /\ ReadTaskBack(t) => reqs'[t].seen = ShownTask(task[reqs[t].on]) /\ reqs[t].kind \in {"createTask", "patchTask"}
      /\ ReadSubtaskBack(t) => reqs'[t].seen = ShownSub(sub[reqs[t].on]) /\ reqs[t].kind \in {"createSub", "patchSub"}
  BY <1>0, <1>4, Reading DEF ReadTaskBack, ReadSubtaskBack, At
<1>9. KeptOf(reqs[t])'
  <2> DEFINE q == reqs'[t]
  <2>1. KeptTask(q)
    BY <1>4, <1>6, <1>8 DEF KeptTask
  <2>2. KeptSub(q)
    <3>1. reqs[t].kind \in {"createSub", "patchSub"} => q.seen = ShownSub(sub[reqs[t].on]) /\ reqs[t].on \in Subtask
      BY <1>4, <1>8 DEF KeptSub
    <3>2. \A s \in Subtask : ShownSub(sub[s]) \in {None} \cup SubShown
      BY <1>0 DEF Typed, ShownSub, SubRow, SubShown
    <3>3. QED
      BY <1>4, <1>6, <3>1, <3>2 DEF KeptSub
  <2>3. KeptOf(q)
    BY <1>4, <1>6, <2>1, <2>2 DEF KeptOf, KeptProject, KeptEdge, KeptAll
  <2>4. QED
    BY <1>1, <1>2, <2>3, KeptSame
<1>10. CheckedEdgesAreLegal' /\ NoTaskOutlivesProject' /\ Followed'
  <2>1. \A y, kinds : Debt(reqs[t], y, kinds) => Debt(reqs'[t], y, kinds)
    BY <1>4, <1>6 DEF Debt, OwesAll
  <2>2. QED
    BY <1>0, <1>1, <1>2, <1>6, <1>7, <2>1, QuietStep
<1>11. ~At(t, {"createTask"}, "write")'
  BY <1>6 DEF At
<1>12. QED
  BY <1>2, <1>6, <1>7, <1>9, <1>10, <1>11, StepInv

LEMMA DieInv ==
    ASSUME GraphInv, NEW t \in Thread, Overlaps(t), Die(t)
    PROVE  GraphInv'
<1>0. Typed /\ Kept /\ CheckedEdgesAreLegal /\ NoTaskOutlivesProject /\ Followed
  BY DEF GraphInv
<1>1. UNCHANGED <<project, task, dep, sub, told, undo, file, loose>> /\ acts' = acts + 1 /\ Ends(t) /\ reqs[t] # Idle
  BY DEF Die, db
<1>2. acts' \in Nat /\ acts' # acts
  BY <1>0, <1>1 DEF Typed
<1>3. raced \subseteq raced' /\ Steady(t) /\ About(reqs[t]) \subseteq raced'
  <2>1. About(reqs[t]) \subseteq raced'
    <3>1. (IF acts' # acts /\ reqs[t] # Idle THEN About(reqs[t]) ELSE {}) = About(reqs[t])
      BY <1>1, <1>2
    <3>2. (IF acts' # acts /\ reqs[t] # Idle THEN About(reqs[t]) ELSE {}) \subseteq raced'
      BY DEF Overlaps
    <3>3. QED
      BY <3>1, <3>2
  <2>2. raced \subseteq raced' /\ Steady(t)
    BY <1>1 DEF Overlaps, Steady
  <2>3. QED
    BY <2>1, <2>2
<1>4. reqs'[t] = Idle /\ Others(t) /\ Slots
  BY <1>0, <1>1, Ending
<1>5. Typed'
  BY <1>0, <1>1, <1>2, <1>4, TypedSame
<1>6. CheckedEdgesAreLegal' /\ NoTaskOutlivesProject' /\ Followed'
  <2>1. ASSUME NEW y, NEW kinds, Debt(reqs[t], y, kinds), y \in Project \cup Task \cup Subtask \cup Edge
        PROVE  y \in About(reqs[t])
    <3>1. CASE OwesAll(reqs[t])
      BY <2>1, <3>1 DEF OwesAll, About, Edge
    <3>2. CASE reqs[t].on = y /\ reqs[t].kind \notin {"restore", "import"}
      BY <3>2 DEF About
    <3>3. CASE reqs[t].on = y /\ reqs[t].kind \in {"restore", "import"}
      BY <2>1, <3>3 DEF About, Edge
    <3>4. QED
      BY <2>1, <3>1, <3>2, <3>3 DEF Debt
  <2>2. QED
    BY <1>0, <1>1, <1>3, <1>4, <1>5, <2>1, QuietStep
<1>7. QED
  BY <1>3, <1>4, <1>5, <1>6, IdleNow, StepInv

-----------------------------------------------------------------------------
(* What an event changes of a view.                                        *)
LEMMA ViewProject ==
    ASSUME NEW v, ViewTyped(v), NEW p \in Project, NEW x
    PROVE  LET w == [v EXCEPT !.project[p] = x]
           IN  /\ w = [project |-> [q \in Project |-> IF q = p THEN x ELSE v.project[q]],
                       task |-> v.task, sub |-> v.sub, dep |-> v.dep]
               /\ ViewTyped(w)
<1> DEFINE w == [v EXCEPT !.project[p] = x]
           f == [q \in Project |-> IF q = p THEN x ELSE v.project[q]]
           u == [project |-> f, task |-> v.task, sub |-> v.sub, dep |-> v.dep]
<1>1. [v.project EXCEPT ![p] = x] = f
  BY DEF ViewTyped
<1>2. w = [v EXCEPT !.project = f]
  BY <1>1
<1> HIDE DEF f
<1>3. [v EXCEPT !.project = f] = u
  BY DEF ViewTyped
<1>4. w = u
  BY <1>2, <1>3
<1>5. f = [q \in Project |-> f[q]]
  BY DEF f
<1>6. ViewTyped(u)
  BY <1>5 DEF ViewTyped
<1>7. QED
  BY <1>4, <1>6 DEF f

LEMMA ViewTask ==
    ASSUME NEW v, ViewTyped(v), NEW c \in Task, NEW x
    PROVE  LET w == [v EXCEPT !.task[c] = x]
           IN  /\ w = [project |-> v.project, task |-> [d \in Task |-> IF d = c THEN x ELSE v.task[d]],
                       sub |-> v.sub, dep |-> v.dep]
               /\ ViewTyped(w)
<1> DEFINE w == [v EXCEPT !.task[c] = x]
           f == [d \in Task |-> IF d = c THEN x ELSE v.task[d]]
           u == [project |-> v.project, task |-> f, sub |-> v.sub, dep |-> v.dep]
<1>1. [v.task EXCEPT ![c] = x] = f
  BY DEF ViewTyped
<1>2. w = [v EXCEPT !.task = f]
  BY <1>1
<1> HIDE DEF f
<1>3. [v EXCEPT !.task = f] = u
  BY DEF ViewTyped
<1>4. w = u
  BY <1>2, <1>3
<1>5. f = [d \in Task |-> f[d]]
  BY DEF f
<1>6. ViewTyped(u)
  BY <1>5 DEF ViewTyped
<1>7. QED
  BY <1>4, <1>6 DEF f

LEMMA ViewSub ==
    ASSUME NEW v, ViewTyped(v), NEW s \in Subtask, NEW x \in {None} \cup SubShown
    PROVE  LET w == [v EXCEPT !.sub[s] = x]
           IN  /\ w = [project |-> v.project, task |-> v.task,
                       sub |-> [d \in Subtask |-> IF d = s THEN x ELSE v.sub[d]], dep |-> v.dep]
               /\ ViewTyped(w)
<1> DEFINE w == [v EXCEPT !.sub[s] = x]
           f == [d \in Subtask |-> IF d = s THEN x ELSE v.sub[d]]
           u == [project |-> v.project, task |-> v.task, sub |-> f, dep |-> v.dep]
<1>1. [v.sub EXCEPT ![s] = x] = f
  BY DEF ViewTyped
<1>2. w = [v EXCEPT !.sub = f]
  BY <1>1
<1>3. f \in [Subtask -> {None} \cup SubShown]
  BY DEF ViewTyped
<1> HIDE DEF f
<1>4. [v EXCEPT !.sub = f] = u
  BY DEF ViewTyped
<1>5. w = u
  BY <1>2, <1>4
<1>6. ViewTyped(u)
  BY <1>3 DEF ViewTyped
<1>7. QED
  BY <1>5, <1>6 DEF f

LEMMA ViewDep ==
    ASSUME NEW v, ViewTyped(v), NEW D, D \subseteq Linkable
    PROVE  LET w == [v EXCEPT !.dep = D]
           IN  /\ w = [project |-> v.project, task |-> v.task, sub |-> v.sub, dep |-> D]
               /\ ViewTyped(w)
<1> DEFINE u == [project |-> v.project, task |-> v.task, sub |-> v.sub, dep |-> D]
<1>1. [v EXCEPT !.dep = D] = u
  BY DEF ViewTyped
<1>2. ViewTyped(u)
  BY DEF ViewTyped
<1>3. QED
  BY <1>1, <1>2

-----------------------------------------------------------------------------
(* Requests about a project.                                               *)
LEMMA LabelOps ==
    ASSUME NEW n \in Label
    PROVE  Dated(n) \in Label /\ Again(n) \in Label
  BY DEF Label, Dated, Again

LEMMA NewProjectRow ==
    ASSUME NEW u \in User, NEW n \in Name
    PROVE  NewProject(u, Plain(n)) \in ProjectRow /\ NewProject(u, Plain(n)) # None
           /\ ~NewProject(u, Plain(n)).deleted
<1>1. Plain(n) \in Label
  BY DEF Plain, Label
<1>2. NewProject(u, Plain(n)) \in ProjectRow
  BY <1>1 DEF NewProject, ProjectRow
<1>3. QED
  BY <1>2, RowAssumption DEF NewProject

FreedRows(S, p, row) ==
    [[q \in Project |-> IF q \in S THEN [project[q] EXCEPT !.name = Dated(@)] ELSE project[q]] EXCEPT ![p] = row]

LEMMA CommitProjectRows ==
    ASSUME Typed, NEW p \in Project, NEW row \in ProjectRow, NEW S, S \subseteq Stored(project),
           NEW new, new = FreedRows(S, p, row)
    PROVE  /\ new \in [Project -> {None} \cup ProjectRow] /\ new[p] = row
           /\ \A q \in Project \ {p} :
                 /\ q \notin S => new[q] = project[q]
                 /\ q \in S => new[q] # None /\ new[q].deleted = project[q].deleted
<1> DEFINE f == [q \in Project |-> IF q \in S THEN [project[q] EXCEPT !.name = Dated(@)] ELSE project[q]]
<1>1. ASSUME NEW q \in S
      PROVE  /\ [project[q] EXCEPT !.name = Dated(@)] \in ProjectRow
             /\ [project[q] EXCEPT !.name = Dated(@)].deleted = project[q].deleted
  <2>1. project[q] \in ProjectRow
    BY RowIn
  <2>2. Dated(project[q].name) \in Label
    BY <2>1, LabelOps DEF ProjectRow
  <2>3. QED
    BY <2>1, <2>2 DEF ProjectRow
<1>2. \A q \in S : q \in Project /\ f[q] \in ProjectRow /\ f[q].deleted = project[q].deleted
  BY <1>1, StoredIn
<1>3. f \in [Project -> {None} \cup ProjectRow] /\ \A q \in Project \ S : f[q] = project[q]
  BY <1>1 DEF Typed
<1>4. new = [f EXCEPT ![p] = row]
  BY DEF FreedRows
<1> HIDE DEF f
<1>5. QED
  BY <1>2, <1>3, <1>4, RowAssumption

LEMMA CommitProjectInv ==
    ASSUME GraphInv, NEW t \in Thread, Overlaps(t), CommitProject(t)
    PROVE  GraphInv'
<1> DEFINE r == reqs[t]
           new == [[q \in Project |-> IF q \in r.seen THEN [project[q] EXCEPT !.name = Dated(@)] ELSE project[q]]
                      EXCEPT ![r.on] = NewProject(r.by, Plain(r.to))]
<1>0. Typed /\ Kept /\ CheckedEdgesAreLegal /\ NoTaskOutlivesProject /\ Followed
  BY DEF GraphInv
<1>1. UNCHANGED <<task, dep, sub, undo, file, acts, loose>> /\ Ends(t) /\ At(t, {"createProject"}, "commit")
      /\ \/ project' = new /\ told' = [told EXCEPT !.project[r.on] = ShownProject(new[r.on])]
         \/ UNCHANGED <<project, told>>
  BY DEF CommitProject, bounds
<1>2. /\ r # Idle /\ r.kind = "createProject" /\ r.by \in User /\ KeptProject(r)
      /\ reqs'[t] = Idle /\ Others(t) /\ Slots
  BY <1>0, <1>1, InFlight, Ending
<1>3. r.on \in Project /\ r.to \in Name /\ r.seen \subseteq Stored(project)
      /\ \A q \in r.seen \ raced : project[q].deleted
  BY <1>2 DEF KeptProject
<1> DEFINE row == NewProject(r.by, Plain(r.to))
<1>4. row \in ProjectRow /\ row # None /\ ~row.deleted
  BY <1>2, <1>3, NewProjectRow
<1> HIDE DEF row
<1>a. new = FreedRows(r.seen, r.on, row)
  BY DEF row, FreedRows
<1> HIDE DEF new
<1>5. /\ new \in [Project -> {None} \cup ProjectRow] /\ new[r.on] = row
      /\ \A q \in Project \ {r.on} :
            /\ q \notin r.seen => new[q] = project[q]
            /\ q \in r.seen => new[q] # None /\ new[q].deleted = project[q].deleted
  BY <1>0, <1>3, <1>4, <1>a, CommitProjectRows
<1>6. raced \subseteq raced' /\ acts' \in Nat
  BY <1>0, <1>1 DEF Overlaps, Typed
<1>7. project' \in [Project -> {None} \cup ProjectRow]
      /\ \A q \in Project : project[q] # None => project'[q] # None
  BY <1>0, <1>1, <1>4, <1>5 DEF Typed
<1>8. Steady(t)
  BY <1>1, <1>7 DEF Steady
<1>9. Linkable' = Linkable /\ Stored(task)' = Stored(task) /\ Alive(task)' = Alive(task)
  BY <1>1 DEF Linkable, Stored, Alive
<1>10. ViewTyped(told)' /\ told'.task = told.task /\ told'.sub = told.sub /\ told'.dep = told.dep
       /\ \A q \in Project : told'.project[q] =
             IF project' = new /\ q = r.on /\ ~UNCHANGED <<project, told>> THEN ShownProject(row) ELSE told.project[q]
  <2>1. CASE UNCHANGED <<project, told>>
    BY <1>0, <1>9, <2>1, ViewStays DEF Typed
  <2>2. CASE ~UNCHANGED <<project, told>>
    <3>1. ViewTyped(told)
      BY <1>0 DEF Typed
    <3>2. told' = [told EXCEPT !.project[r.on] = ShownProject(row)] /\ project' = new
      BY <1>1, <1>5, <2>2
    <3>3. told' = [project |-> [q \in Project |-> IF q = r.on THEN ShownProject(row) ELSE told.project[q]],
                   task |-> told.task, sub |-> told.sub, dep |-> told.dep]
          /\ ViewTyped(told')
      BY <1>3, <3>1, <3>2, ViewProject
    <3>4. ViewTyped(told)'
      BY <1>9, <3>3 DEF ViewTyped
    <3>5. QED
      BY <2>2, <3>2, <3>3, <3>4
  <2>3. QED
    BY <2>1, <2>2
<1>11. Typed'
  BY <1>0, <1>1, <1>2, <1>6, <1>7, <1>8, <1>9, <1>10, TypedStep DEF Typed
<1>12. CheckedEdgesAreLegal'
  BY <1>0, <1>1, LegalStep
<1>13. NoTaskOutlivesProject'
  <2>1. \A q \in Alive(project) : q \in Alive(project)'
    BY <1>0, <1>1, <1>4, <1>5, <1>11, AliveIn DEF Alive, Stored, Typed
  <2>2. QED
    BY <1>0, <1>1, <1>6, <1>9, <2>1, OutliveStep
<1>14. Followed'
  <2>0. \A x, kinds : r.kind \notin kinds => ~Debt(r, x, kinds)
    BY <1>2 DEF Debt, OwesAll
  <2>1. \A p \in Project \ raced' : ProjectFollows(p)'
    <3>1. ASSUME NEW p \in Project \ raced'
          PROVE  \/ told'.project[p] = ShownProject(project'[p])
                 \/ /\ told'.project[p] = told.project[p]
                    /\ ShownProject(project'[p]) = ShownProject(project[p])
      <4>1. CASE UNCHANGED <<project, told>>
        BY <4>1
      <4>2. CASE ~UNCHANGED <<project, told>> /\ p = r.on
        BY <1>1, <1>5, <1>10, <4>2
      <4>3. CASE ~UNCHANGED <<project, told>> /\ p # r.on
        <5>1. p \in r.seen => project[p].deleted
          BY <1>3, <1>6
        <5>2. ShownProject(new[p]) = ShownProject(project[p])
          BY <1>5, <4>3, <5>1 DEF ShownProject
        <5>3. QED
          BY <1>1, <1>10, <4>3, <5>2
      <4>4. QED
        BY <4>1, <4>2, <4>3
    <3>2. QED
      BY <1>0, <1>2, <1>6, <2>0, <3>1, ProjectsFollow
  <2>2. \A c \in Task \ raced' : TaskFollows(c)'
    BY <1>0, <1>1, <1>2, <1>6, <1>10, <1>11, <2>0, TasksFollow
  <2>3. \A s \in Subtask \ raced' : SubFollows(s)'
    BY <1>0, <1>1, <1>2, <1>6, <1>9, <1>10, <2>0, SubsFollow
  <2>4. \A e \in Edge \ raced' : EdgeFollows(e)'
    BY <1>0, <1>1, <1>2, <1>6, <1>9, <1>10, <2>0, EdgesFollow
  <2>5. QED
    BY <2>1, <2>2, <2>3, <2>4, FollowedStep
<1>15. QED
  BY <1>2, <1>8, <1>11, <1>12, <1>13, <1>14, IdleNow, StepInv

(* A request that gives up.                                                *)
LEMMA QuietEnd ==
    ASSUME GraphInv, NEW t \in Thread, Overlaps(t), Ends(t),
           UNCHANGED <<project, task, dep, sub, told, undo, file, acts, loose>>,
           \A x, kinds : "none" \notin kinds => ~Debt(reqs[t], x, kinds)
    PROVE  GraphInv'
<1>0. Typed /\ Kept /\ CheckedEdgesAreLegal /\ NoTaskOutlivesProject /\ Followed
  BY DEF GraphInv
<1>1. reqs'[t] = Idle /\ Others(t) /\ Slots
  BY <1>0, Ending
<1>2. raced \subseteq raced' /\ Steady(t) /\ acts' \in Nat
  BY <1>0 DEF Overlaps, Steady, Typed
<1>3. Typed'
  BY <1>0, <1>1, <1>2, TypedSame
<1>4. CheckedEdgesAreLegal' /\ NoTaskOutlivesProject' /\ Followed'
  BY <1>0, <1>1, <1>2, <1>3, QuietStep
<1>5. QED
  BY <1>1, <1>2, <1>3, <1>4, IdleNow, StepInv

LEMMA PatchedRow ==
    ASSUME NEW row \in ProjectRow, NEW to \in Name \cup BOOLEAN
    PROVE  /\ Patched(row, to) \in ProjectRow /\ Patched(row, to) # None
           /\ Patched(row, to).deleted = row.deleted
<1>1. to \in Name => Plain(to) \in Label
  BY DEF Plain, Label
<1>2. Patched(row, to) \in ProjectRow /\ Patched(row, to).deleted = row.deleted
  BY <1>1 DEF Patched, ProjectRow
<1>3. QED
  BY <1>2, RowAssumption

LEMMA WriteProjectInv ==
    ASSUME GraphInv, NEW t \in Thread, Overlaps(t), WriteProject(t)
    PROVE  GraphInv'
<1> DEFINE r == reqs[t]
           new == [project EXCEPT ![r.on] = Patched(@, r.to)]
<1>0. Typed /\ Kept /\ CheckedEdgesAreLegal /\ NoTaskOutlivesProject /\ Followed
  BY DEF GraphInv
<1>1. UNCHANGED <<task, dep, sub, told, undo, file, acts, loose>> /\ At(t, {"patchProject"}, "write")
      /\ \/ project' = new /\ Goto(t, "tell")
         \/ UNCHANGED project /\ Ends(t)
  BY DEF WriteProject, bounds
<1>2. /\ r # Idle /\ IsRequest(r) /\ r.by \in User /\ r.kind = "patchProject" /\ r.pc = "write"
      /\ KeptProject(r) /\ KeptTask(r) /\ KeptSub(r) /\ KeptEdge(r) /\ KeptAll(r)
  BY <1>0, <1>1, InFlight
<1>3. \A x, kinds : ~Debt(r, x, kinds)
  BY <1>2 DEF Debt, OwesAll
<1>4. CASE UNCHANGED project /\ Ends(t)
  BY <1>1, <1>3, <1>4, QuietEnd
<1>5. CASE project' = new /\ Goto(t, "tell")
  <2>1. r.on \in Stored(project) /\ r.to \in Name \cup BOOLEAN /\ r.seen \in ProjectRow
        /\ (r.on \notin raced => project[r.on] = r.seen)
    BY <1>2 DEF KeptProject
  <2>2. r.on \in Project /\ project[r.on] \in ProjectRow /\ project[r.on] # None
    BY <1>0, <2>1, RowIn, StoredIn
  <2> DEFINE row == Patched(project[r.on], r.to)
  <2>3. row \in ProjectRow /\ row # None /\ row.deleted = project[r.on].deleted
    BY <2>1, <2>2, PatchedRow
  <2> HIDE DEF row
  <2>4. project' = [p \in Project |-> IF p = r.on THEN row ELSE project[p]]
    BY <1>0, <1>5, <2>2 DEF Typed, row
  <2>5. /\ reqs'[t] = [r EXCEPT !.pc = "tell"] /\ Others(t) /\ Slots /\ IsRequest(reqs'[t])
        /\ reqs'[t].kind = r.kind /\ reqs'[t].by = r.by /\ reqs'[t].on = r.on
        /\ reqs'[t].to = r.to /\ reqs'[t].seen = r.seen /\ reqs'[t].pc = "tell"
    BY <1>0, <1>2, <1>5, Going
  <2>6. /\ project' \in [Project -> {None} \cup ProjectRow]
        /\ \A p \in Project : project[p] # None => project'[p] # None
        /\ \A p \in Project \ {r.on} : project'[p] = project[p]
        /\ project'[r.on] = row
    BY <1>0, <2>2, <2>3, <2>4 DEF Typed
  <2>7. Steady(t)
    BY <1>1, <2>6 DEF Steady
  <2>8. Linkable' = Linkable /\ Stored(task)' = Stored(task) /\ Alive(task)' = Alive(task)
    BY <1>1 DEF Linkable, Stored, Alive
  <2>9. raced \subseteq raced' /\ acts' \in Nat /\ ViewTyped(told)'
    BY <1>0, <1>1, <2>8, ViewStays DEF Overlaps, Typed
  <2>10. Typed'
    BY <1>0, <1>1, <2>5, <2>6, <2>7, <2>8, <2>9, TypedStep DEF Typed
  <2>11. KeptOf(reqs[t])'
    <3>1. r.on \in Stored(project)'
      BY <2>1, <2>2, <2>3, <2>6, <2>10, StoredIn DEF Stored, Typed
    <3>2. r.on \notin raced' => project'[r.on] = Patched(r.seen, r.to)
      BY <2>1, <2>6, <2>9 DEF row
    <3>3. KeptProject(reqs[t])'
      BY <1>2, <2>1, <2>5, <3>1, <3>2 DEF KeptProject, Patched
    <3>4. KeptTask(reqs[t])' /\ KeptSub(reqs[t])' /\ KeptEdge(reqs[t])' /\ KeptAll(reqs[t])'
      BY <1>2, <2>5 DEF KeptTask, KeptSub, KeptEdge, KeptAll
    <3>5. IsRequest(reqs[t])' /\ reqs'[t].by \in User
      BY <1>2, <2>5 DEF IsRequest
    <3>6. QED
      BY <3>3, <3>4, <3>5 DEF KeptOf
  <2>12. CheckedEdgesAreLegal'
    BY <1>0, <1>1, LegalStep
  <2>13. NoTaskOutlivesProject'
    <3>1. \A q \in Alive(project) : q \in Alive(project)'
      BY <1>0, <2>3, <2>6, <2>10, AliveIn DEF Alive, Stored, Typed
    <3>2. QED
      BY <1>0, <1>1, <2>8, <2>9, <3>1, OutliveStep
  <2>14. Followed'
    <3>1. \A p \in Project \ raced' : ProjectFollows(p)'
      <4>1. \A p \in Project \ raced' : p = r.on => Debt(reqs'[t], p, {"patchProject"})
        BY <1>2, <2>5 DEF Debt
      <4>2. QED
        BY <1>0, <1>1, <1>3, <2>5, <2>6, <2>9, <4>1, ProjectsFollow
    <3>2. \A c \in Task \ raced' : TaskFollows(c)'
      BY <1>0, <1>1, <1>3, <2>5, <2>9, <2>10, TasksFollow
    <3>3. \A s \in Subtask \ raced' : SubFollows(s)'
      BY <1>0, <1>1, <1>3, <2>5, <2>8, <2>9, SubsFollow
    <3>4. \A e \in Edge \ raced' : EdgeFollows(e)'
      BY <1>0, <1>1, <1>3, <2>5, <2>8, <2>9, EdgesFollow
    <3>5. QED
      BY <3>1, <3>2, <3>3, <3>4, FollowedStep
  <2>15. ~At(t, {"createTask"}, "write")'
    BY <1>2, <2>5 DEF At
  <2>16. QED
    BY <2>5, <2>7, <2>10, <2>11, <2>12, <2>13, <2>14, <2>15, StepInv
<1>6. QED
  BY <1>1, <1>4, <1>5

(* A request that announces what it has done, and ends.                    *)
LEMMA TellInv ==
    ASSUME GraphInv, NEW t \in Thread, Overlaps(t), Ends(t),
           UNCHANGED <<project, task, dep, sub, file, acts, loose>>, ViewTyped(told'),
           undo' = undo \/ \E u \in User : \E x : PayloadTyped(x) /\ undo' = [undo EXCEPT ![u] = x],
           \A p \in Project \ raced :
               \/ told'.project[p] = ShownProject(project[p])
               \/ told'.project[p] = told.project[p] /\ ~Debt(reqs[t], p, {"patchProject"}),
           \A c \in Task \ raced :
               \/ told'.task[c] = (IF c \in Alive(task) THEN ShownTask(task[c]) ELSE None)
               \/ told'.task[c] = told.task[c] /\ ~Debt(reqs[t], c, {"createTask", "patchTask"}),
           \A s \in Subtask \ raced :
               \/ told'.sub[s] = ShownSub(sub[s])
               \/ told'.sub[s] = told.sub[s] /\ ~Debt(reqs[t], s, {"createSub", "patchSub", "deleteSub"}),
           \A e \in Edge \ raced :
               \/ e \in told'.dep <=> e \in dep
               \/ (e \in told'.dep <=> e \in told.dep) /\ ~Debt(reqs[t], e, {"link", "unlink"})
    PROVE  GraphInv'
<1>0. Typed /\ Kept /\ CheckedEdgesAreLegal /\ NoTaskOutlivesProject /\ Followed
  BY DEF GraphInv
<1>1. reqs'[t] = Idle /\ Others(t) /\ Slots
  BY <1>0, Ending
<1>2. raced \subseteq raced' /\ Steady(t) /\ acts' \in Nat
  BY <1>0 DEF Overlaps, Steady, Typed
<1>3. Linkable' = Linkable /\ Stored(task)' = Stored(task) /\ Alive(task)' = Alive(task)
      /\ Alive(project)' = Alive(project)
  BY DEF Linkable, Stored, Alive
<1>4. ViewTyped(told)'
  BY <1>3 DEF ViewTyped
<1>5. Typed'
  BY <1>0, <1>1, <1>2, <1>3, <1>4, TypedStep DEF Typed
<1>6. CheckedEdgesAreLegal' /\ NoTaskOutlivesProject'
  BY <1>0, <1>2, <1>3, LegalStep, OutliveStep
<1>7. \A p \in Project \ raced' : ProjectFollows(p)'
  BY <1>0, <1>1, <1>2, ProjectsFollow
<1>8. \A c \in Task \ raced' : TaskFollows(c)'
  BY <1>0, <1>1, <1>2, <1>3, <1>5, TasksFollow
<1>9. \A s \in Subtask \ raced' : SubFollows(s)'
  BY <1>0, <1>1, <1>2, <1>3, SubsFollow
<1>10. \A e \in Edge \ raced' : EdgeFollows(e)'
  BY <1>0, <1>1, <1>2, <1>3, EdgesFollow
<1>11. Followed'
  BY <1>7, <1>8, <1>9, <1>10, FollowedStep
<1>12. QED
  BY <1>1, <1>2, <1>5, <1>6, <1>11, IdleNow, StepInv

LEMMA TellProjectInv ==
    ASSUME GraphInv, NEW t \in Thread, Overlaps(t), TellProject(t)
    PROVE  GraphInv'
<1> DEFINE r == reqs[t]
           x == ShownProject(Patched(r.seen, r.to))
<1>0. Typed /\ Kept /\ ViewTyped(told)
  BY DEF GraphInv, Typed
<1>1. UNCHANGED <<project, task, dep, sub, undo, file, acts, loose>> /\ At(t, {"patchProject"}, "tell")
      /\ Ends(t) /\ told' = [told EXCEPT !.project[r.on] = x]
  BY DEF TellProject, Tell, db, bounds
<1>2. r.kind = "patchProject" /\ r.pc = "tell" /\ KeptProject(r)
  BY <1>0, <1>1, InFlight
<1>3. r.on \in Project /\ (r.on \notin raced => project[r.on] = Patched(r.seen, r.to))
  BY <1>0, <1>2, StoredIn DEF KeptProject
<1>4. r.on \notin raced => x = ShownProject(project[r.on])
  BY <1>3 DEF ShownProject
<1> HIDE DEF x
<1>5. /\ told' = [project |-> [p \in Project |-> IF p = r.on THEN x ELSE told.project[p]],
                  task |-> told.task, sub |-> told.sub, dep |-> told.dep]
      /\ ViewTyped(told')
  BY <1>0, <1>1, <1>3, ViewProject
<1>6. \A p \in Project : told'.project[p] = IF p = r.on THEN x ELSE told.project[p]
  BY <1>5
<1>7. told'.task = told.task /\ told'.sub = told.sub /\ told'.dep = told.dep
  BY <1>5
<1>8. \A y, kinds : Debt(r, y, kinds) => y = r.on /\ "patchProject" \in kinds
  BY <1>2 DEF Debt, OwesAll
<1>9. \A p \in Project \ raced :
         \/ told'.project[p] = ShownProject(project[p])
         \/ told'.project[p] = told.project[p] /\ ~Debt(reqs[t], p, {"patchProject"})
  BY <1>4, <1>6, <1>8
<1>10. QED
  BY <1>1, <1>5, <1>7, <1>8, <1>9, TellInv

LEMMA TellTaskInv ==
    ASSUME GraphInv, NEW t \in Thread, Overlaps(t), TellTask(t)
    PROVE  GraphInv'
<1> DEFINE r == reqs[t]
           K == {"createTask", "patchTask"}
<1>0. Typed /\ Kept /\ ViewTyped(told)
  BY DEF GraphInv, Typed
<1>1. UNCHANGED <<project, task, dep, sub, undo, file, acts, loose>> /\ At(t, K, "tell")
      /\ Ends(t) /\ told' = [told EXCEPT !.task[r.on] = r.seen]
  BY DEF TellTask, Tell, db, bounds
<1>2. r.kind \in K /\ r.pc = "tell" /\ KeptTask(r)
  BY <1>0, <1>1, InFlight
<1>3. /\ r.on \in Task
      /\ r.on \notin raced => r.on \in Alive(task) /\ r.seen = ShownTask(task[r.on])
  BY <1>0, <1>2, StoredIn DEF KeptTask
<1>5. /\ told' = [project |-> told.project, task |-> [c \in Task |-> IF c = r.on THEN r.seen ELSE told.task[c]],
                  sub |-> told.sub, dep |-> told.dep]
      /\ ViewTyped(told')
  <2> DEFINE id == r.on
             x == r.seen
  <2>1. id \in Task /\ told' = [told EXCEPT !.task[id] = x]
    BY <1>1, <1>3
  <2> HIDE DEF id, x
  <2>2. /\ told' = [project |-> told.project, task |-> [c \in Task |-> IF c = id THEN x ELSE told.task[c]],
                    sub |-> told.sub, dep |-> told.dep]
        /\ ViewTyped(told')
    BY <1>0, <2>1, ViewTask
  <2>3. QED
    BY <2>2 DEF id, x
<1>6. \A c \in Task : told'.task[c] = IF c = r.on THEN r.seen ELSE told.task[c]
  BY <1>5
<1>7. told'.project = told.project /\ told'.sub = told.sub /\ told'.dep = told.dep
  BY <1>5
<1>8. \A y, kinds : Debt(r, y, kinds) => y = r.on /\ r.kind \in kinds
  BY <1>2 DEF Debt, OwesAll
<1>9. \A c \in Task \ raced :
         \/ told'.task[c] = (IF c \in Alive(task) THEN ShownTask(task[c]) ELSE None)
         \/ told'.task[c] = told.task[c] /\ ~Debt(reqs[t], c, {"createTask", "patchTask"})
  BY <1>3, <1>6, <1>8
<1>10. QED
  BY <1>1, <1>2, <1>5, <1>7, <1>8, <1>9, TellInv

LEMMA TellSubtaskInv ==
    ASSUME GraphInv, NEW t \in Thread, Overlaps(t), TellSubtask(t)
    PROVE  GraphInv'
<1> DEFINE r == reqs[t]
           K == {"createSub", "patchSub"}
<1>0. Typed /\ Kept /\ ViewTyped(told)
  BY DEF GraphInv, Typed
<1>1. UNCHANGED <<project, task, dep, sub, undo, file, acts, loose>> /\ At(t, K, "tell")
      /\ Ends(t) /\ told' = IF r.seen = None THEN told ELSE [told EXCEPT !.sub[r.on] = r.seen]
  BY DEF TellSubtask, Tell, db, bounds
<1>2. r.kind \in K /\ r.pc = "tell" /\ KeptSub(r)
  BY <1>0, <1>1, InFlight
<1>3. /\ r.on \in Subtask /\ r.seen \in {None} \cup SubShown
      /\ r.on \notin raced => sub[r.on] # None /\ r.seen = ShownSub(sub[r.on])
  BY <1>2 DEF KeptSub
<1>4. r.on \notin raced => r.seen # None
  <2>1. r.on \notin raced => sub[r.on] \in SubRow
    BY <1>0, <1>3, StoredIn, RowIn
  <2>2. r.on \notin raced => ShownSub(sub[r.on]) \in SubShown
    BY <1>3, <2>1 DEF ShownSub, SubRow, SubShown
  <2>3. QED
    BY <1>3, <2>2, RowAssumption
<1>5. /\ ViewTyped(told') /\ told'.project = told.project /\ told'.task = told.task /\ told'.dep = told.dep
      /\ \A s \in Subtask : told'.sub[s] = IF s = r.on /\ r.seen # None THEN r.seen ELSE told.sub[s]
  <2>1. CASE r.seen = None
    BY <1>0, <1>1, <2>1
  <2>2. CASE r.seen # None
    <3>1. /\ told' = [project |-> told.project, task |-> told.task,
                      sub |-> [s \in Subtask |-> IF s = r.on THEN r.seen ELSE told.sub[s]], dep |-> told.dep]
          /\ ViewTyped(told')
      BY <1>0, <1>1, <1>3, <2>2, ViewSub
    <3>2. QED
      BY <2>2, <3>1
  <2>3. QED
    BY <2>1, <2>2
<1>6. \A y, kinds : Debt(r, y, kinds) => y = r.on /\ r.kind \in kinds
  BY <1>2 DEF Debt, OwesAll
<1>7. \A s \in Subtask \ raced :
         \/ told'.sub[s] = ShownSub(sub[s])
         \/ told'.sub[s] = told.sub[s] /\ ~Debt(reqs[t], s, {"createSub", "patchSub", "deleteSub"})
  BY <1>3, <1>4, <1>5, <1>6
<1>8. QED
  BY <1>1, <1>2, <1>5, <1>6, <1>7, TellInv

LEMMA ToastTyped ==
    ASSUME NEW x, PayloadTyped(x), NEW id
    PROVE  PayloadTyped(Toast(id, x))
  BY DEF PayloadTyped, Toast

LEMMA TellSubtaskDeleteInv ==
    ASSUME GraphInv, NEW t \in Thread, Overlaps(t), TellSubtaskDelete(t)
    PROVE  GraphInv'
<1> DEFINE r == reqs[t]
<1>0. Typed /\ Kept /\ ViewTyped(told)
  BY DEF GraphInv, Typed
<1>1. UNCHANGED <<project, task, dep, sub, file, acts, loose>> /\ At(t, {"deleteSub"}, "tell")
      /\ Ends(t) /\ told' = [told EXCEPT !.sub[r.on] = None]
      /\ undo' = IF r.to THEN undo ELSE [undo EXCEPT ![r.by] = Toast(r.on, r.seen)]
  BY DEF TellSubtaskDelete, db, bounds
<1>2. r.kind = "deleteSub" /\ r.pc = "tell" /\ KeptSub(r) /\ r.by \in User
  BY <1>0, <1>1, InFlight
<1>3. r.on \in Subtask /\ PayloadTyped(r.seen) /\ (r.on \notin raced => sub[r.on] = None)
  BY <1>2 DEF KeptSub
<1>4. undo' = undo \/ \E u \in User : \E x : PayloadTyped(x) /\ undo' = [undo EXCEPT ![u] = x]
  BY <1>1, <1>2, <1>3, ToastTyped
<1>5. /\ told' = [project |-> told.project, task |-> told.task,
                  sub |-> [s \in Subtask |-> IF s = r.on THEN None ELSE told.sub[s]], dep |-> told.dep]
      /\ ViewTyped(told')
  BY <1>0, <1>1, <1>3, ViewSub
<1>6. /\ told'.project = told.project /\ told'.task = told.task /\ told'.dep = told.dep
      /\ \A s \in Subtask : told'.sub[s] = IF s = r.on THEN None ELSE told.sub[s]
  BY <1>5
<1>7. \A y, kinds : Debt(r, y, kinds) => y = r.on /\ r.kind \in kinds
  BY <1>2 DEF Debt, OwesAll
<1>8. \A s \in Subtask \ raced :
         \/ told'.sub[s] = ShownSub(sub[s])
         \/ told'.sub[s] = told.sub[s] /\ ~Debt(reqs[t], s, {"createSub", "patchSub", "deleteSub"})
  BY <1>3, <1>6, <1>7 DEF ShownSub
<1>9. UNCHANGED <<project, task, dep, sub, file, acts, loose>> /\ Ends(t)
  BY <1>1
<1>10. QED
  BY <1>2, <1>4, <1>5, <1>6, <1>7, <1>8, <1>9, TellInv

LEMMA TellEdgeInv ==
    ASSUME GraphInv, NEW t \in Thread, Overlaps(t), TellEdge(t)
    PROVE  GraphInv'
<1> DEFINE r == reqs[t]
           D == IF r.kind = "link" THEN told.dep \cup {r.on} ELSE told.dep \ {r.on}
<1>0. Typed /\ Kept /\ ViewTyped(told)
  BY DEF GraphInv, Typed
<1>1. At(t, {"link", "unlink"}, "tell")
  BY DEF TellEdge, At
<1>2. r.kind \in {"link", "unlink"} /\ r.pc = "tell" /\ KeptEdge(r) /\ r.by \in User
  BY <1>0, <1>1, InFlight
<1>3. /\ UNCHANGED <<project, task, dep, sub, file, acts, loose>> /\ Ends(t)
      /\ told' = [told EXCEPT !.dep = D]
      /\ \/ undo' = undo
         \/ undo' = [undo EXCEPT ![r.by] = Toast(r.on, [Nothing EXCEPT !.deps = {r.on}])]
  BY <1>2 DEF TellEdge, Tell, At, db, bounds
<1>4. /\ r.on \in Linkable
      /\ r.on \notin raced => (r.on \in dep <=> r.kind = "link")
  BY <1>2 DEF KeptEdge
<1>5. D \subseteq Linkable /\ \A e : e \in D <=> IF e = r.on THEN r.kind = "link" ELSE e \in told.dep
  BY <1>0, <1>4 DEF ViewTyped
<1> HIDE DEF D
<1>6. told' = [project |-> told.project, task |-> told.task, sub |-> told.sub, dep |-> D] /\ ViewTyped(told')
  BY <1>0, <1>3, <1>5, ViewDep
<1>7. told'.project = told.project /\ told'.task = told.task /\ told'.sub = told.sub /\ told'.dep = D
  BY <1>6
<1>8. \A y, kinds : Debt(r, y, kinds) => y = r.on /\ r.kind \in kinds
  BY <1>2 DEF Debt, OwesAll
<1>9. \A e \in Edge \ raced :
         \/ e \in told'.dep <=> e \in dep
         \/ (e \in told'.dep <=> e \in told.dep) /\ ~Debt(reqs[t], e, {"link", "unlink"})
  BY <1>4, <1>5, <1>7, <1>8
<1>10. PayloadTyped([Nothing EXCEPT !.deps = {r.on}])
  <2> DEFINE x == [Nothing EXCEPT !.deps = {r.on}]
  <2>1. x.tasks = {} /\ x.subs = << >> /\ x.deps = {r.on}
    BY DEF Nothing
  <2>2. DOMAIN x.subs = {}
    BY <2>1
  <2>3. QED
    BY <1>4, <2>1, <2>2 DEF PayloadTyped
<1>11. undo' = undo \/ \E u \in User : \E x : PayloadTyped(x) /\ undo' = [undo EXCEPT ![u] = x]
  BY <1>2, <1>3, <1>10, ToastTyped
<1>12. UNCHANGED <<project, task, dep, sub, file, acts, loose>> /\ Ends(t)
  BY <1>3
<1>13. QED
  BY <1>2, <1>6, <1>7, <1>8, <1>9, <1>11, <1>12, TellInv

LEMMA TellAllInv ==
    ASSUME GraphInv, NEW t \in Thread, Overlaps(t), TellAll(t)
    PROVE  GraphInv'
<1>0. Typed
  BY DEF GraphInv
<1>1. UNCHANGED <<project, task, dep, sub, undo, file, acts, loose>> /\ Ends(t) /\ told' = Everything
  BY DEF TellAll, Tell, db, bounds
<1>2. /\ ViewTyped(Everything)
      /\ \A p \in Project : Everything.project[p] = ShownProject(project[p])
      /\ \A c \in Task : Everything.task[c] = (IF c \in Alive(task) THEN ShownTask(task[c]) ELSE None)
      /\ \A s \in Subtask : Everything.sub[s] = ShownSub(sub[s])
      /\ Everything.dep = dep
  BY <1>0, EverythingIs DEF Typed
<1>3. QED
  BY <1>1, <1>2, TellInv

-----------------------------------------------------------------------------
(* Deleting a task, or a project with its tasks.                           *)
LEMMA DeletedRow ==
    ASSUME NEW row \in TaskRow
    PROVE  LET gone == [row EXCEPT !.deleted = TRUE]
           IN gone \in TaskRow /\ gone # None /\ gone.deleted /\ gone.project = row.project
  BY RowAssumption DEF TaskRow

LEMMA DeletedProjectRow ==
    ASSUME NEW row \in ProjectRow
    PROVE  LET gone == [row EXCEPT !.deleted = TRUE]
           IN gone \in ProjectRow /\ gone # None /\ gone.deleted
  BY RowAssumption DEF ProjectRow

(* Tasks of S are gone, and their rows, subtasks and edges leave the       *)
(* devices that are told of L.                                             *)
LEMMA GoneTasks ==
    ASSUME GraphInv, NEW t \in Thread, Overlaps(t), Others(t), Typed', NEW S, NEW L, NEW v,
           UNCHANGED <<dep, sub, loose>>, ViewTyped(v), told' = Without(v, L),
           v.task = told.task, v.sub = told.sub, v.dep = told.dep,
           S \subseteq Alive(task), L \subseteq Task,
           \A c \in Task : task'[c] = IF c \in S THEN [task[c] EXCEPT !.deleted = TRUE] ELSE task[c],
           \A c \in Task \ raced : c \in L => c \notin Alive(task)',
           \A c \in Task \ raced : c \in S => c \in L,
           \A x, kinds : "none" \notin kinds => ~Debt(reqs[t], x, kinds)
    PROVE  /\ CheckedEdgesAreLegal'
           /\ \A c \in Task \ raced' : TaskFollows(c)'
           /\ \A s \in Subtask \ raced' : SubFollows(s)'
           /\ \A e \in Edge \ raced' : EdgeFollows(e)'
           /\ \A c \in Alive(task)' : c \in Alive(task) /\ c \notin S /\ task'[c] = task[c]
<1>0. Typed /\ CheckedEdgesAreLegal /\ Followed /\ raced \subseteq raced'
  BY DEF GraphInv, Overlaps
<1>1. \A c \in S : /\ task'[c] # None /\ task'[c].deleted /\ task'[c].project = task[c].project
  BY <1>0, AliveStored, RowIn, DeletedRow
<1>2. \A c \in Alive(task)' : c \in Alive(task) /\ c \notin S /\ task'[c] = task[c]
  BY <1>0, <1>1, AliveIn DEF Alive, Stored, Typed
<1>3. CheckedEdgesAreLegal'
  <2>1. \A c \in Task : task'[c].project = task[c].project
    BY <1>1
  <2>2. \A e \in dep : e[1] \in Task /\ e[2] \in Task
    BY <1>0 DEF Typed, Linkable, Stored
  <2>3. QED
    BY <1>0, <2>1, <2>2, LegalStep
<1>4. /\ \A c \in Task : told'.task[c] = (IF c \in L THEN None ELSE told.task[c])
      /\ \A s \in Subtask : told'.sub[s] =
            (IF told.sub[s] # None /\ told.sub[s].task \in L THEN None ELSE told.sub[s])
      /\ told'.dep = told.dep \ Touching(told.dep, L)
  BY WithoutIs
<1>5. \A c \in Task \ raced' : TaskFollows(c)'
  <2>1. ASSUME NEW c \in Task \ raced'
        PROVE  \/ told'.task[c] = (IF c \in Alive(task)' THEN ShownTask(task'[c]) ELSE None)
               \/ told'.task[c] = told.task[c] /\ task'[c] = task[c]
    BY <1>0, <1>4
  <2>2. QED
    BY <1>0, <2>1, TasksFollow
<1>6. \A s \in Subtask \ raced' : SubFollows(s)'
  <2> DEFINE K == {"createSub", "patchSub", "deleteSub"}
  <2>1. ASSUME NEW s \in Subtask \ raced', sub'[s] # None => sub'[s].task \in Alive(task)' \ raced'
        PROVE  told'.sub[s] = ShownSub(sub'[s]) \/ Owed(s, K)'
    <3>1. sub[s] # None => sub[s].task \in Alive(task) \ raced /\ sub[s].task \in Task /\ sub[s].task \notin L
      BY <1>0, <1>2, <2>1, AliveStored
    <3>2. told.sub[s] = ShownSub(sub[s]) \/ Owed(s, K)
      BY <1>0, <3>1 DEF Followed, SubFollows
    <3>3. Owed(s, K) => Owed(s, K)'
      BY OwedStays
    <3>4. CASE told.sub[s] = ShownSub(sub[s])
      <4>1. told.sub[s] # None => sub[s] # None /\ told.sub[s].task = sub[s].task
        BY <3>4 DEF ShownSub
      <4>2. told'.sub[s] = told.sub[s]
        BY <1>4, <3>1, <4>1
      <4>3. QED
        BY <3>4, <4>2 DEF ShownSub
    <3>5. QED
      BY <3>2, <3>3, <3>4
  <2>2. QED
    BY <2>1 DEF SubFollows, ShownSub
<1>7. \A e \in Edge \ raced' : EdgeFollows(e)'
  <2>1. ASSUME NEW e \in Edge \ raced', {e[1], e[2]} \subseteq Alive(task)' \ raced'
        PROVE  (e \in told'.dep <=> e \in told.dep) /\ {e[1], e[2]} \subseteq Alive(task)
    <3>1. e[1] \in Task /\ e[2] \in Task /\ e[1] \notin L /\ e[2] \notin L
      BY <1>0, <2>1 DEF Edge
    <3>2. e \in told'.dep <=> e \in told.dep
      BY <1>4, <3>1 DEF Touching
    <3>3. QED
      BY <1>2, <2>1, <3>2
  <2>2. QED
    BY <1>0, <2>1, EdgesFollow
<1>8. QED
  BY <1>2, <1>3, <1>5, <1>6, <1>7

LEMMA CommitDeleteProjectInv ==
    ASSUME GraphInv, NEW t \in Thread, Overlaps(t), CommitDeleteProject(t)
    PROVE  GraphInv'
<1> DEFINE r == reqs[t]
           S == TasksOf(r.on)
           L == r.seen.tasks
           v == [told EXCEPT !.project[r.on] = None]
<1>0. Typed /\ Kept /\ NoTaskOutlivesProject /\ Followed /\ ViewTyped(told) /\ raced \subseteq raced'
  BY DEF GraphInv, Typed, Overlaps
<1>1. /\ At(t, {"deleteProject"}, "commit") /\ Ends(t) /\ UNCHANGED <<dep, sub, file, acts, loose>>
      /\ project' = [project EXCEPT ![r.on].deleted = TRUE]
      /\ task' = [c \in Task |-> IF c \in S THEN [task[c] EXCEPT !.deleted = TRUE] ELSE task[c]]
      /\ told' = Without(v, L)
      /\ undo' = IF project[r.on].shared THEN undo ELSE [undo EXCEPT ![r.by] = Toast(r.on, r.seen)]
  BY DEF CommitDeleteProject, Doomed, bounds
<1>2. /\ r.kind = "deleteProject" /\ r.by \in User /\ KeptProject(r)
      /\ reqs'[t] = Idle /\ Others(t) /\ Slots
  BY <1>0, <1>1, InFlight, Ending
<1>3. /\ r.on \in Stored(project) /\ PayloadTyped(r.seen) /\ L \subseteq Task
      /\ \A c \in Task \ raced : c \in L <=> c \in S
  <2>1. r.on \in Stored(project) /\ PayloadTyped(r.seen) /\ \A c \in Task \ raced : c \in L <=> c \in S
    BY <1>2 DEF KeptProject
  <2>2. L \subseteq Task
    BY <1>0, <2>1, AliveStored DEF PayloadTyped
  <2>3. QED
    BY <2>1, <2>2
<1>4. r.on \in Project /\ project[r.on] \in ProjectRow
  BY <1>0, <1>3, StoredIn, RowIn
<1>5. /\ project' \in [Project -> {None} \cup ProjectRow]
      /\ \A p \in Project \ {r.on} : project'[p] = project[p]
      /\ project'[r.on] # None /\ project'[r.on].deleted
  <2> DEFINE row == [project[r.on] EXCEPT !.deleted = TRUE]
  <2>1. row \in ProjectRow /\ row # None /\ row.deleted
    BY <1>4, DeletedProjectRow
  <2>2. project' = [project EXCEPT ![r.on] = row]
    BY <1>1
  <2> HIDE DEF row
  <2>3. QED
    BY <1>0, <1>4, <2>1, <2>2 DEF Typed
<1>6. S \subseteq Alive(task) /\ \A c \in Task : c \in S => task[c] \in TaskRow
  BY <1>0, AliveStored, RowIn DEF TasksOf
<1>7. /\ task' \in [Task -> {None} \cup TaskRow]
      /\ \A c \in Task : task[c] # None <=> task'[c] # None
      /\ \A c \in S : task'[c].deleted
  BY <1>0, <1>1, <1>6, DeletedRow, AliveStored, StoredIn DEF Typed
<1>8. Steady(t)
  BY <1>1, <1>5, <1>7 DEF Steady
<1>9. Linkable' = Linkable /\ Stored(task)' = Stored(task)
  BY <1>0, <1>7 DEF Linkable, Stored, Typed
<1>10. /\ ViewTyped(v) /\ v.task = told.task /\ v.sub = told.sub /\ v.dep = told.dep
       /\ \A p \in Project : v.project[p] = IF p = r.on THEN None ELSE told.project[p]
  <2>1. /\ v = [project |-> [p \in Project |-> IF p = r.on THEN None ELSE told.project[p]],
                task |-> told.task, sub |-> told.sub, dep |-> told.dep]
        /\ ViewTyped(v)
    BY <1>0, <1>4, ViewProject
  <2> HIDE DEF v
  <2>2. QED
    BY <2>1
<1> HIDE DEF v
<1>11. /\ ViewTyped(told)' /\ told'.project = v.project
  <2>1. ViewTyped(told') /\ told'.project = v.project
    BY <1>1, <1>10, WithoutIs
  <2>2. QED
    BY <1>9, <2>1 DEF ViewTyped
<1>12. Typed'
  <2>1. acts' \in Nat
    BY <1>0, <1>1 DEF Typed
  <2>2. undo' = undo \/ \E u \in User : \E x : PayloadTyped(x) /\ undo' = [undo EXCEPT ![u] = x]
    BY <1>1, <1>2, <1>3, ToastTyped
  <2>3. sub' \in [Subtask -> {None} \cup SubRow] /\ dep' \subseteq Linkable'
    BY <1>0, <1>1, <1>9 DEF Typed
  <2>4. QED
    BY <1>0, <1>1, <1>2, <1>5, <1>7, <1>8, <1>11, <2>1, <2>2, <2>3, TypedStep
<1>13. \A x, kinds : "none" \notin kinds => ~Debt(r, x, kinds)
  BY <1>1, <1>2 DEF Debt, OwesAll, At
<1>14. /\ \A c \in Task \ raced : c \in L => c \notin Alive(task)'
       /\ \A c \in Task \ raced : c \in S => c \in L
  BY <1>3, <1>7, <1>12, AliveIn DEF Alive, Stored
<1> HIDE DEF S, L
<1>15. /\ CheckedEdgesAreLegal'
       /\ \A c \in Task \ raced' : TaskFollows(c)'
       /\ \A s \in Subtask \ raced' : SubFollows(s)'
       /\ \A e \in Edge \ raced' : EdgeFollows(e)'
       /\ \A c \in Alive(task)' : c \in Alive(task) /\ c \notin S /\ task'[c] = task[c]
  BY <1>1, <1>2, <1>3, <1>6, <1>10, <1>12, <1>13, <1>14, GoneTasks
<1>16. NoTaskOutlivesProject'
  <2>1. ASSUME NEW c \in Alive(task)', task[c].project \in Alive(project)
        PROVE  task[c].project \in Alive(project)'
    <3>1. task[c].project # r.on
      BY <1>15 DEF S, TasksOf
    <3>2. QED
      BY <1>0, <1>5, <2>1, <3>1, AliveIn DEF Alive, Stored, Typed
  <2>2. QED
    BY <1>0, <1>1, <1>15, <2>1, OutliveStep
<1>17. \A p \in Project \ raced' : ProjectFollows(p)'
  <2>1. \A p \in Project : p = r.on => told'.project[p] = ShownProject(project'[p])
    BY <1>5, <1>10, <1>11 DEF ShownProject
  <2>2. \A p \in Project : p # r.on => told'.project[p] = told.project[p] /\ project'[p] = project[p]
    BY <1>5, <1>10, <1>11
  <2>3. QED
    BY <1>0, <1>2, <1>13, <2>1, <2>2, ProjectsFollow
<1>18. QED
  BY <1>2, <1>8, <1>12, <1>15, <1>16, <1>17, FollowedStep, IdleNow, StepInv

LEMMA CommitDeleteTaskInv ==
    ASSUME GraphInv, NEW t \in Thread, Overlaps(t), CommitDeleteTask(t)
    PROVE  GraphInv'
<1> DEFINE r == reqs[t]
           L == {r.on}
           S == L \cap Alive(task)
<1>0. Typed /\ Kept /\ NoTaskOutlivesProject /\ Followed /\ ViewTyped(told) /\ raced \subseteq raced'
  BY DEF GraphInv, Typed, Overlaps
<1>1. /\ At(t, {"deleteTask"}, "commit") /\ Ends(t) /\ UNCHANGED <<project, dep, sub, file, acts, loose>>
      /\ task' = [task EXCEPT ![r.on].deleted = TRUE]
      /\ told' = Without(told, L)
      /\ undo' = undo \/ undo' = [undo EXCEPT ![r.by] = Toast(r.on, r.seen)]
  BY DEF CommitDeleteTask, bounds
<1>2. /\ r.kind = "deleteTask" /\ r.by \in User /\ KeptTask(r)
      /\ reqs'[t] = Idle /\ Others(t) /\ Slots
  BY <1>0, <1>1, InFlight, Ending
<1>3. r.on \in Stored(task) /\ PayloadTyped(r.seen)
  BY <1>2 DEF KeptTask
<1>4. r.on \in Task /\ task[r.on] \in TaskRow /\ task[r.on] # None
  BY <1>0, <1>3, StoredIn, RowIn
<1> DEFINE row == [task[r.on] EXCEPT !.deleted = TRUE]
<1>5. row \in TaskRow /\ row # None /\ row.deleted /\ row.project = task[r.on].project
  BY <1>4, DeletedRow
<1>6. r.on \notin Alive(task) => row = task[r.on]
  BY <1>0, <1>4, AliveIn DEF TaskRow
<1>7. task' = [task EXCEPT ![r.on] = row]
  BY <1>1
<1>a. \A c \in Task : c \in S => c = r.on
  OBVIOUS
<1> HIDE DEF row, S, L
<1>8. /\ task' \in [Task -> {None} \cup TaskRow]
      /\ \A c \in Task : task'[c] = IF c = r.on THEN row ELSE task[c]
  BY <1>0, <1>4, <1>5, <1>7 DEF Typed
<1>9. \A c \in Task : task'[c] = IF c \in S THEN [task[c] EXCEPT !.deleted = TRUE] ELSE task[c]
  <2>1. r.on \in S <=> r.on \in Alive(task)
    BY DEF S, L
  <2>2. \A c \in Task \ {r.on} : c \notin S /\ task'[c] = task[c]
    BY <1>a, <1>8
  <2>3. task'[r.on] = IF r.on \in S THEN [task[r.on] EXCEPT !.deleted = TRUE] ELSE task[r.on]
    BY <1>4, <1>6, <1>8, <2>1 DEF row
  <2>4. QED
    BY <2>2, <2>3
<1>10. Steady(t)
  BY <1>1, <1>4, <1>5, <1>8 DEF Steady
<1>11. Linkable' = Linkable /\ Stored(task)' = Stored(task)
  BY <1>0, <1>4, <1>5, <1>8 DEF Linkable, Stored, Typed
<1>12. ViewTyped(told)' /\ told'.project = told.project
  <2>1. ViewTyped(told') /\ told'.project = told.project
    BY <1>0, <1>1, WithoutIs DEF L
  <2>2. QED
    BY <1>11, <2>1 DEF ViewTyped
<1>13. Typed'
  <2>1. acts' \in Nat
    BY <1>0, <1>1 DEF Typed
  <2>2. undo' = undo \/ \E u \in User : \E x : PayloadTyped(x) /\ undo' = [undo EXCEPT ![u] = x]
    BY <1>1, <1>2, <1>3, ToastTyped
  <2>3. /\ sub' \in [Subtask -> {None} \cup SubRow] /\ dep' \subseteq Linkable'
        /\ project' \in [Project -> {None} \cup ProjectRow]
    BY <1>0, <1>1, <1>11 DEF Typed
  <2>4. QED
    BY <1>0, <1>1, <1>2, <1>8, <1>10, <1>12, <2>1, <2>2, <2>3, TypedStep
<1>14. \A x, kinds : "none" \notin kinds => ~Debt(r, x, kinds)
  BY <1>1, <1>2 DEF Debt, OwesAll, At
<1>15. /\ \A c \in Task \ raced : c \in L => c \notin Alive(task)'
       /\ \A c \in Task \ raced : c \in S => c \in L
       /\ S \subseteq Alive(task) /\ L \subseteq Task
  BY <1>4, <1>5, <1>8, <1>13, AliveIn DEF Alive, Stored, S, L
<1>b. UNCHANGED <<dep, sub, loose>> /\ told' = Without(told, L) /\ ViewTyped(told)
      /\ told.task = told.task /\ told.sub = told.sub /\ told.dep = told.dep
  BY <1>0, <1>1 DEF L
<1>16. /\ CheckedEdgesAreLegal'
       /\ \A c \in Task \ raced' : TaskFollows(c)'
       /\ \A s \in Subtask \ raced' : SubFollows(s)'
       /\ \A e \in Edge \ raced' : EdgeFollows(e)'
       /\ \A c \in Alive(task)' : c \in Alive(task) /\ c \notin S /\ task'[c] = task[c]
  BY <1>2, <1>9, <1>13, <1>14, <1>15, <1>b, GoneTasks
<1>17. NoTaskOutlivesProject'
  <2>1. Alive(project)' = Alive(project)
    BY <1>1 DEF Alive, Stored
  <2>2. QED
    BY <1>0, <1>1, <1>16, <2>1, OutliveStep
<1>18. \A p \in Project \ raced' : ProjectFollows(p)'
  BY <1>0, <1>1, <1>2, <1>12, <1>14, ProjectsFollow
<1>19. QED
  BY <1>2, <1>10, <1>13, <1>16, <1>17, <1>18, FollowedStep, IdleNow, StepInv

-----------------------------------------------------------------------------
(* Creating and changing a task.                                           *)
LEMMA NewTaskRow ==
    ASSUME NEW u \in User, NEW p \in Project
    PROVE  /\ NewTask(u, p) \in TaskRow /\ NewTask(u, p) # None
           /\ NewTask(u, p).deleted = FALSE /\ NewTask(u, p).project = p
<1>1. NewTask(u, p) \in TaskRow /\ NewTask(u, p).deleted = FALSE /\ NewTask(u, p).project = p
  BY DEF NewTask, TaskRow
<1>2. QED
  BY <1>1, RowAssumption

LEMMA MovedRow ==
    ASSUME NEW row \in TaskRow, NEW p \in Project, NEW new, new = [row EXCEPT !.project = p]
    PROVE  new \in TaskRow /\ new # None /\ new.deleted = row.deleted /\ new.project = p
<1>1. new \in TaskRow /\ new.deleted = row.deleted /\ new.project = p
  BY DEF TaskRow
<1>2. QED
  BY <1>1, RowAssumption

LEMMA WriteTaskInv ==
    ASSUME GraphInv, NEW t \in Thread, Overlaps(t), WriteTask(t)
    PROVE  GraphInv'
<1> DEFINE r == reqs[t]
           c == r.on
           K == {"createTask", "patchTask"}
           row == IF r.kind = "createTask" THEN NewTask(r.by, r.to)
                  ELSE IF r.to \in Project THEN [task[c] EXCEPT !.project = r.to]
                  ELSE [task[c] EXCEPT !.done = r.to]
<1>0. Typed /\ Kept /\ CheckedEdgesAreLegal /\ NoTaskOutlivesProject /\ Followed
      /\ dep \subseteq Linkable /\ told.dep \subseteq Linkable
  BY DEF GraphInv, Typed, ViewTyped
<1>1. /\ At(t, K, "write") /\ Goto(t, "readback") /\ UNCHANGED <<project, dep, sub, told, undo, file, acts>>
      /\ task' = [task EXCEPT ![c] = row]
      /\ loose' = IF r.kind = "patchTask" /\ r.to \in Project
                  THEN loose \cup {e \in Touching(dep, {c}) : ~Placed({e}) \subseteq r.seen} ELSE loose
  BY DEF WriteTask, bounds
<1>2. /\ r # Idle /\ IsRequest(r) /\ r.by \in User /\ r.kind \in K /\ r.pc = "write" /\ KeptTask(r)
  BY <1>0, <1>1, InFlight
<1>3. /\ c \in Task /\ (r.to \in Project => r.to \in Alive(project) \cup raced)
      /\ r.kind = "createTask" => task[c] = None /\ r.to \in Project
      /\ r.kind = "patchTask" => c \in Stored(task) /\ r.to \in BOOLEAN \cup Project /\ c \in Alive(task) \cup raced
  BY <1>0, <1>2, StoredIn DEF KeptTask
<1>4. r.kind = "patchTask" => task[c] \in TaskRow /\ task[c] # None
  BY <1>0, <1>3, RowIn, StoredIn
<1>5. /\ row \in TaskRow /\ row # None
      /\ row.project = IF r.to \in Project THEN r.to ELSE task[c].project
      /\ row.deleted = IF r.kind = "createTask" THEN FALSE ELSE task[c].deleted
  <2>1. CASE r.kind = "createTask"
    <3>1. NewTask(r.by, r.to) \in TaskRow /\ NewTask(r.by, r.to) # None
          /\ NewTask(r.by, r.to).deleted = FALSE /\ NewTask(r.by, r.to).project = r.to
      BY <1>2, <1>3, <2>1, NewTaskRow
    <3>2. QED
      BY <1>3, <2>1, <3>1
  <2>2. CASE r.kind = "patchTask" /\ r.to \in Project
    <3>1. row = [task[c] EXCEPT !.project = r.to]
      BY <2>2
    <3>2. QED
      BY <1>4, <2>2, <3>1, MovedRow
  <2>3. CASE r.kind = "patchTask" /\ r.to \notin Project
    <3>1. row = [task[c] EXCEPT !.done = r.to] /\ r.to \in BOOLEAN
      BY <1>3, <2>3
    <3>2. row \in TaskRow /\ row.deleted = task[c].deleted /\ row.project = task[c].project
      BY <1>4, <2>3, <3>1 DEF TaskRow
    <3>3. QED
      BY <2>3, <3>2, RowAssumption
  <2>4. QED
    BY <1>2, <2>1, <2>2, <2>3
<1> HIDE DEF row
<1>6. /\ task' \in [Task -> {None} \cup TaskRow]
      /\ \A d \in Task : task'[d] = IF d = c THEN row ELSE task[d]
  BY <1>0, <1>1, <1>3, <1>5 DEF Typed
<1>7. /\ reqs'[t] = [r EXCEPT !.pc = "readback"] /\ Others(t) /\ Slots /\ IsRequest(reqs'[t])
      /\ reqs'[t].kind = r.kind /\ reqs'[t].by = r.by /\ reqs'[t].on = c
      /\ reqs'[t].to = r.to /\ reqs'[t].seen = r.seen /\ reqs'[t].pc = "readback"
  BY <1>0, <1>1, <1>2, Going
<1>8. Steady(t)
  BY <1>1, <1>2, <1>3, <1>4, <1>5, <1>6 DEF Steady, At
<1>9. raced \subseteq raced' /\ acts' \in Nat /\ loose \subseteq loose'
  BY <1>0, <1>1 DEF Overlaps, Typed
<1>10. /\ project' \in [Project -> {None} \cup ProjectRow] /\ sub' \in [Subtask -> {None} \cup SubRow]
       /\ \A s \in Subtask : sub'[s] # None => sub'[s] = sub[s]
       /\ Alive(project)' = Alive(project)
  BY <1>0, <1>1 DEF Typed, Alive, Stored
<1>11. Linkable \subseteq Linkable' /\ Stored(task) \subseteq Stored(task)'
  BY <1>0, <1>6, <1>8, <1>10, Grows
<1>12. Typed'
  <2>1. ViewTyped(told)' /\ dep' \subseteq Linkable'
    BY <1>0, <1>1, <1>11, ViewStays
  <2>2. QED
    BY <1>0, <1>1, <1>6, <1>7, <1>8, <1>9, <1>10, <2>1, TypedStep
<1>13. c \in Stored(task)' /\ (r.kind = "createTask" => c \in Alive(task)')
       /\ \A d \in Task : ~(d = c /\ r.kind = "createTask") => (d \in Alive(task)' <=> d \in Alive(task))
  BY <1>0, <1>2, <1>3, <1>4, <1>5, <1>6, <1>12, AliveIn, StoredIn DEF Alive, Stored, Typed
<1>14. KeptOf(reqs[t])'
  <2>1. c \in Alive(task)' \cup raced'
    BY <1>2, <1>3, <1>9, <1>13
  <2>2. KeptTask(reqs[t])'
    BY <1>2, <1>3, <1>7, <1>13, <2>1 DEF KeptTask
  <2>3. KeptProject(reqs[t])' /\ KeptSub(reqs[t])' /\ KeptEdge(reqs[t])' /\ KeptAll(reqs[t])'
    BY <1>2, <1>7 DEF KeptProject, KeptSub, KeptEdge, KeptAll
  <2>4. QED
    BY <1>2, <1>7, <2>2, <2>3 DEF KeptOf, IsRequest
<1>15. \A e \in Linkable : e[1] \in Task /\ e[2] \in Task /\ (r.kind = "createTask" => e[1] # c /\ e[2] # c)
  BY <1>0, <1>3, StoredIn DEF Linkable
<1>16. CheckedEdgesAreLegal'
  <2>1. ASSUME NEW e \in dep' \ loose'
        PROVE  task'[e[1]].project = task[e[1]].project /\ task'[e[2]].project = task[e[2]].project
    <3>1. e \in dep \ loose /\ e \in Linkable /\ e \in Edge
      BY <1>0, <1>1, <1>9, <2>1, <1>15 DEF Linkable, Edge, Stored
    <3>2. CASE r.kind = "createTask" \/ r.to \notin Project \/ (e[1] # c /\ e[2] # c)
      BY <1>5, <1>6, <1>15, <3>1, <3>2
    <3>3. CASE r.kind = "patchTask" /\ r.to \in Project /\ (e[1] = c \/ e[2] = c)
      <4> DEFINE p == task[e[1]].project
      <4>1. task[e[2]].project = p
        BY <1>0, <3>1 DEF CheckedEdgesAreLegal
      <4>2. Placed({e}) \subseteq r.seen
        BY <1>1, <2>1, <3>1, <3>3 DEF Touching
      <4>3. <<e, p, p>> \in r.seen
        BY <4>1, <4>2 DEF Placed
      <4>4. p \in Project
        BY <1>0, <3>1, RowIn DEF Linkable
      <4>5. p = r.to
        BY <1>2, <3>1, <3>3, <4>3, <4>4 DEF KeptTask
      <4>6. QED
        BY <1>5, <1>6, <1>15, <3>1, <3>3, <4>1, <4>5
    <3>4. QED
      BY <1>2, <3>2, <3>3
  <2>2. QED
    BY <1>0, <1>1, <1>9, <2>1, LegalStep
<1>17. NoTaskOutlivesProject'
  <2>1. ASSUME NEW d \in Alive(task)'
        PROVE  \/ d \in Alive(task) /\ task'[d].project = task[d].project
               \/ task'[d].project \in Alive(project)' \cup raced'
    <3>1. d \in Task
      BY <1>12, <2>1 DEF Alive, Stored, Typed
    <3>2. CASE d = c /\ r.to \in Project
      BY <1>3, <1>5, <1>6, <1>9, <1>10, <3>2
    <3>3. CASE d # c \/ r.to \notin Project
      BY <1>3, <1>5, <1>6, <1>13, <2>1, <3>1, <3>3
    <3>4. QED
      BY <3>2, <3>3
  <2>2. QED
    BY <1>0, <1>9, <1>10, <2>1, OutliveStep
<1>18. Followed'
  <2>0. \A x, kinds : "none" \notin kinds => ~Debt(r, x, kinds)
    BY <1>2 DEF Debt, OwesAll
  <2>1. \A p \in Project \ raced' : ProjectFollows(p)'
    BY <1>0, <1>1, <1>7, <1>9, <2>0, ProjectsFollow
  <2>2. \A d \in Task \ raced' : TaskFollows(d)'
    <3>1. Debt(reqs'[t], c, K)
      BY <1>2, <1>7 DEF Debt
    <3>2. \A d \in Task : d # c => task'[d] = task[d]
      BY <1>6
    <3>3. QED
      BY <1>0, <1>1, <1>7, <1>9, <1>12, <2>0, <3>1, <3>2, TasksFollow
  <2>3. \A s \in Subtask \ raced' : SubFollows(s)'
    <3>1. \A s \in Subtask : sub[s] # None => sub[s].task \in Task /\ ~(r.kind = "createTask" /\ sub[s].task = c)
      BY <1>0, <1>3, RowIn, StoredIn
    <3>2. \A s \in Subtask : sub[s] # None /\ sub[s].task \in Alive(task)' => sub[s].task \in Alive(task)
      BY <1>13, <3>1
    <3>3. QED
      BY <1>0, <1>1, <1>7, <1>9, <2>0, <3>2, SubsFollow
  <2>4. \A e \in Edge \ raced' : EdgeFollows(e)'
    <3>1. ASSUME NEW e \in Edge, {e[1], e[2]} \subseteq Alive(task)'
          PROVE  (e \in told.dep <=> e \in dep) \/ {e[1], e[2]} \subseteq Alive(task)
      BY <1>0, <1>13, <1>15, <3>1 DEF Edge
    <3>2. QED
      BY <1>0, <1>1, <1>7, <1>9, <2>0, <3>1, EdgesFollow
  <2>5. QED
    BY <2>1, <2>2, <2>3, <2>4, FollowedStep
<1>19. ~At(t, {"createTask"}, "write")'
  BY <1>7 DEF At
<1>20. QED
  BY <1>7, <1>8, <1>12, <1>14, <1>16, <1>17, <1>18, <1>19, StepInv

-----------------------------------------------------------------------------
(* Creating, changing and deleting a subtask.                              *)
LEMMA SubWritten ==
    ASSUME GraphInv, NEW t \in Thread, Overlaps(t), Others(t), Slots,
           UNCHANGED <<project, task, dep, told, undo, file, acts, loose>>,
           NEW s \in Subtask, NEW x \in {None} \cup SubRow, x # None => x.task \in Stored(task),
           sub' = [sub EXCEPT ![s] = x],
           \A y, kinds : "none" \notin kinds => ~Debt(reqs[t], y, kinds),
           Debt(reqs'[t], s, {"createSub", "patchSub", "deleteSub"}),
           KeptOf(reqs[t])', ~At(t, {"createTask"}, "write")'
    PROVE  GraphInv'
<1>0. Typed /\ Kept /\ CheckedEdgesAreLegal /\ NoTaskOutlivesProject /\ Followed
  BY DEF GraphInv
<1>1. \A d \in Subtask : sub'[d] = IF d = s THEN x ELSE sub[d]
  BY <1>0 DEF Typed
<1>2. /\ sub' \in [Subtask -> {None} \cup SubRow]
      /\ \A d \in Subtask : sub'[d] # None => sub'[d] = sub[d] \/ sub'[d].task \in Stored(task)'
  <2>1. Stored(task)' = Stored(task)
    BY DEF Stored
  <2>2. QED
    BY <1>0, <1>1, <2>1 DEF Typed
<1>3. raced \subseteq raced' /\ Steady(t) /\ acts' \in Nat
  BY <1>0 DEF Overlaps, Steady, Typed
<1>4. Linkable' = Linkable /\ Alive(task)' = Alive(task) /\ Alive(project)' = Alive(project)
  BY DEF Linkable, Stored, Alive
<1>5. Typed'
  <2>1. ViewTyped(told)'
    BY <1>0, <1>4, ViewStays
  <2>2. QED
    BY <1>0, <1>2, <1>3, <1>4, <2>1, TypedStep DEF Typed
<1>6. CheckedEdgesAreLegal' /\ NoTaskOutlivesProject'
  BY <1>0, <1>3, <1>4, LegalStep, OutliveStep
<1>7. \A p \in Project \ raced' : ProjectFollows(p)'
  BY <1>0, <1>3, ProjectsFollow
<1>8. \A c \in Task \ raced' : TaskFollows(c)'
  BY <1>0, <1>3, <1>5, TasksFollow
<1>9. \A d \in Subtask \ raced' : SubFollows(d)'
  BY <1>0, <1>1, <1>3, <1>4, SubsFollow
<1>10. \A e \in Edge \ raced' : EdgeFollows(e)'
  BY <1>0, <1>3, <1>4, EdgesFollow
<1>11. QED
  BY <1>3, <1>5, <1>6, <1>7, <1>8, <1>9, <1>10, FollowedStep, StepInv

LEMMA WriteSubtaskInv ==
    ASSUME GraphInv, NEW t \in Thread, Overlaps(t), WriteSubtask(t)
    PROVE  GraphInv'
<1> DEFINE r == reqs[t]
           s == r.on
           K == {"createSub", "patchSub"}
           x == IF r.kind = "createSub" THEN NewSub(r.by, r.to)
                ELSE IF sub[s] = None THEN None ELSE [sub[s] EXCEPT !.done = r.to]
<1>0. Typed /\ Kept
  BY DEF GraphInv
<1>1. /\ At(t, K, "write") /\ Goto(t, "readback")
      /\ UNCHANGED <<project, task, dep, told, undo, file, acts, loose>>
      /\ sub' = [sub EXCEPT ![s] = x]
  BY DEF WriteSubtask, bounds
<1>2. r # Idle /\ IsRequest(r) /\ r.by \in User /\ r.kind \in K /\ r.pc = "write" /\ KeptSub(r)
  BY <1>0, <1>1, InFlight
<1>3. /\ s \in Subtask
      /\ r.kind = "createSub" => r.to \in Stored(task) /\ r.to \in Task
      /\ r.kind = "patchSub" => r.to \in BOOLEAN /\ (s \notin raced => sub[s] # None)
  BY <1>0, <1>2, AliveStored DEF KeptSub
<1>4. x \in {None} \cup SubRow /\ (x # None => x.task \in Stored(task))
      /\ (r.kind = "createSub" \/ sub[s] # None => x # None)
  <2>1. CASE r.kind = "createSub"
    <3>1. NewSub(r.by, r.to) \in SubRow /\ NewSub(r.by, r.to).task = r.to
      BY <1>2, <1>3, <2>1 DEF NewSub, SubRow
    <3>2. QED
      BY <1>3, <2>1, <3>1, RowAssumption
  <2>2. CASE r.kind # "createSub" /\ sub[s] = None
    BY <2>2
  <2>3. CASE r.kind # "createSub" /\ sub[s] # None
    <3>1. x = [sub[s] EXCEPT !.done = r.to] /\ r.to \in BOOLEAN
      BY <1>2, <1>3, <2>3
    <3>2. sub[s] \in SubRow /\ sub[s].task \in Stored(task)
      BY <1>0, <1>3, <2>3, RowIn, StoredIn
    <3> HIDE DEF x
    <3>3. x \in SubRow /\ x.task = sub[s].task
      BY <3>1, <3>2 DEF SubRow
    <3>4. QED
      BY <3>2, <3>3, RowAssumption
  <2>4. QED
    BY <2>1, <2>2, <2>3
<1> HIDE DEF x
<1>5. /\ reqs'[t] = [r EXCEPT !.pc = "readback"] /\ Others(t) /\ Slots /\ IsRequest(reqs'[t])
      /\ reqs'[t].kind = r.kind /\ reqs'[t].by = r.by /\ reqs'[t].on = s
      /\ reqs'[t].to = r.to /\ reqs'[t].seen = r.seen /\ reqs'[t].pc = "readback"
  BY <1>0, <1>1, <1>2, Going
<1>6. \A y, kinds : "none" \notin kinds => ~Debt(r, y, kinds)
  BY <1>2 DEF Debt, OwesAll
<1>7. Debt(reqs'[t], s, {"createSub", "patchSub", "deleteSub"})
  BY <1>2, <1>5 DEF Debt
<1>8. KeptOf(reqs[t])'
  <2>1. sub'[s] = x /\ Stored(task)' = Stored(task) /\ raced \subseteq raced'
    BY <1>0, <1>1, <1>3 DEF Typed, Stored, Overlaps
  <2>2. KeptSub(reqs[t])'
    BY <1>2, <1>3, <1>4, <1>5, <2>1 DEF KeptSub
  <2>3. KeptProject(reqs[t])' /\ KeptTask(reqs[t])' /\ KeptEdge(reqs[t])' /\ KeptAll(reqs[t])'
    BY <1>2, <1>5 DEF KeptProject, KeptTask, KeptEdge, KeptAll
  <2>4. QED
    BY <1>2, <1>5, <2>2, <2>3 DEF KeptOf, IsRequest
<1>9. ~At(t, {"createTask"}, "write")'
  BY <1>5 DEF At
<1>10. QED
  BY <1>1, <1>3, <1>4, <1>5, <1>6, <1>7, <1>8, <1>9, SubWritten

LEMMA WriteSubtaskDeleteInv ==
    ASSUME GraphInv, NEW t \in Thread, Overlaps(t), WriteSubtaskDelete(t)
    PROVE  GraphInv'
<1> DEFINE r == reqs[t]
           s == r.on
<1>0. Typed /\ Kept
  BY DEF GraphInv
<1>1. /\ At(t, {"deleteSub"}, "write") /\ Goto(t, "tell")
      /\ UNCHANGED <<project, task, dep, told, undo, file, acts, loose>>
      /\ sub' = [sub EXCEPT ![s] = None]
  BY DEF WriteSubtaskDelete, bounds
<1>2. r # Idle /\ IsRequest(r) /\ r.by \in User /\ r.kind = "deleteSub" /\ r.pc = "write" /\ KeptSub(r)
  BY <1>0, <1>1, InFlight
<1>3. s \in Subtask /\ PayloadTyped(r.seen)
  BY <1>2 DEF KeptSub
<1>5. /\ reqs'[t] = [r EXCEPT !.pc = "tell"] /\ Others(t) /\ Slots /\ IsRequest(reqs'[t])
      /\ reqs'[t].kind = r.kind /\ reqs'[t].by = r.by /\ reqs'[t].on = s
      /\ reqs'[t].to = r.to /\ reqs'[t].seen = r.seen /\ reqs'[t].pc = "tell"
  BY <1>0, <1>1, <1>2, Going
<1>6. \A y, kinds : "none" \notin kinds => ~Debt(r, y, kinds)
  BY <1>2 DEF Debt, OwesAll
<1>7. Debt(reqs'[t], s, {"createSub", "patchSub", "deleteSub"})
  BY <1>2, <1>5 DEF Debt
<1>8. KeptOf(reqs[t])'
  <2>1. sub'[s] = None /\ Stored(task)' = Stored(task) /\ Linkable' = Linkable
    BY <1>0, <1>1, <1>3 DEF Typed, Stored, Linkable
  <2>2. PayloadTyped(reqs[t].seen)'
    BY <1>3, <1>5, <2>1 DEF PayloadTyped
  <2>3. KeptSub(reqs[t])'
    BY <1>2, <1>3, <1>5, <2>1, <2>2 DEF KeptSub
  <2>4. KeptProject(reqs[t])' /\ KeptTask(reqs[t])' /\ KeptEdge(reqs[t])' /\ KeptAll(reqs[t])'
    BY <1>2, <1>5 DEF KeptProject, KeptTask, KeptEdge, KeptAll
  <2>5. QED
    BY <1>2, <1>5, <2>3, <2>4 DEF KeptOf, IsRequest
<1>9. ~At(t, {"createTask"}, "write")'
  BY <1>5 DEF At
<1>10. QED
  BY <1>1, <1>3, <1>5, <1>6, <1>7, <1>8, <1>9, SubWritten

-----------------------------------------------------------------------------
(* Inserting and deleting an edge.                                         *)
LEMMA EdgeWritten ==
    ASSUME GraphInv, NEW t \in Thread, Overlaps(t), Others(t), Slots,
           UNCHANGED <<project, task, sub, told, undo, file, acts>>, loose \subseteq loose',
           NEW e \in Linkable, dep' \subseteq Linkable, \A d : d # e => (d \in dep' <=> d \in dep),
           CheckedEdgesAreLegal',
           \A y, kinds : "none" \notin kinds => ~Debt(reqs[t], y, kinds),
           Debt(reqs'[t], e, {"link", "unlink"}),
           KeptOf(reqs[t])', ~At(t, {"createTask"}, "write")'
    PROVE  GraphInv'
<1>0. Typed /\ Kept /\ NoTaskOutlivesProject /\ Followed
  BY DEF GraphInv
<1>1. raced \subseteq raced' /\ Steady(t) /\ acts' \in Nat
  BY <1>0 DEF Overlaps, Steady, Typed
<1>2. Linkable' = Linkable /\ Alive(task)' = Alive(task) /\ Alive(project)' = Alive(project)
  BY DEF Linkable, Stored, Alive
<1>3. Typed'
  <2>1. ViewTyped(told)' /\ \A s \in Subtask : sub'[s] # None => sub'[s] = sub[s]
    BY <1>0, <1>2, ViewStays
  <2>2. QED
    BY <1>0, <1>1, <1>2, <2>1, TypedStep DEF Typed
<1>4. NoTaskOutlivesProject'
  BY <1>0, <1>1, <1>2, OutliveStep
<1>5. \A p \in Project \ raced' : ProjectFollows(p)'
  BY <1>0, <1>1, ProjectsFollow
<1>6. \A c \in Task \ raced' : TaskFollows(c)'
  BY <1>0, <1>1, <1>3, TasksFollow
<1>7. \A s \in Subtask \ raced' : SubFollows(s)'
  BY <1>0, <1>1, <1>2, SubsFollow
<1>8. \A d \in Edge \ raced' : EdgeFollows(d)'
  BY <1>0, <1>1, <1>2, EdgesFollow
<1>9. QED
  BY <1>1, <1>3, <1>4, <1>5, <1>6, <1>7, <1>8, FollowedStep, StepInv

(* An edge from a to b closes no cycle when b does not lead to a.          *)
LEMMA StillUnreached ==
    ASSUME NEW E, NEW a \in Task, NEW b \in Task, a \notin ReachFrom(E, b)
    PROVE  a \notin ReachFrom(E \cup {<<a, b>>}, b)
<1>1. PICK S \in SUBSET Task : b \in S /\ Closed(S, E) /\ a \notin S
  BY Unreached
<1>2. Closed(S, E \cup {<<a, b>>})
  BY <1>1 DEF Closed
<1>3. QED
  BY <1>1, <1>2, Unreached

LEMMA WriteLinkInv ==
    ASSUME GraphInv, NEW t \in Thread, Overlaps(t), WriteLink(t)
    PROVE  GraphInv'
<1> DEFINE r == reqs[t]
           e == r.on
<1>0. Typed /\ Kept /\ CheckedEdgesAreLegal /\ dep \subseteq Linkable
  BY DEF GraphInv, Typed
<1>1. /\ At(t, {"link"}, "write") /\ UNCHANGED <<project, task, sub, told, undo, file, acts>>
      /\ dep' = dep \cup {e}
      /\ loose' = IF Grounds(e[1], e[2]) = r.seen \/ e \in dep THEN loose ELSE loose \cup {e}
      /\ IF e \in dep THEN Ends(t) ELSE Goto(t, "tell")
  BY DEF WriteLink, bounds
<1>2. r # Idle /\ IsRequest(r) /\ r.by \in User /\ r.kind = "link" /\ r.pc = "write" /\ KeptEdge(r)
  BY <1>0, <1>1, InFlight
<1>3. e \in Linkable /\ (\A p, q \in r.seen.at : p = q) /\ e[1] \notin ReachFrom(r.seen.dep, e[2])
  BY <1>2 DEF KeptEdge
<1>4. e[1] \in Task /\ e[2] \in Task /\ e = <<e[1], e[2]>>
  BY <1>0, <1>3, StoredIn DEF Linkable
<1>5. \A y, kinds : "none" \notin kinds => ~Debt(r, y, kinds)
  BY <1>2 DEF Debt, OwesAll
<1>6. CASE e \in dep
  BY <1>1, <1>5, <1>6, QuietEnd
<1>7. CASE e \notin dep
  <2>1. /\ reqs'[t] = [r EXCEPT !.pc = "tell"] /\ Others(t) /\ Slots /\ IsRequest(reqs'[t])
        /\ reqs'[t].kind = r.kind /\ reqs'[t].by = r.by /\ reqs'[t].on = e
        /\ reqs'[t].to = r.to /\ reqs'[t].seen = r.seen /\ reqs'[t].pc = "tell"
    BY <1>0, <1>1, <1>2, <1>7, Going
  <2>2. Debt(reqs'[t], e, {"link", "unlink"})
    BY <1>2, <2>1 DEF Debt
  <2>3. KeptOf(reqs[t])'
    <3>1. Linkable' = Linkable /\ e \in dep'
      BY <1>1 DEF Linkable, Stored
    <3>2. KeptEdge(reqs[t])'
      BY <1>2, <1>3, <2>1, <3>1 DEF KeptEdge, ReachFrom
    <3>3. KeptProject(reqs[t])' /\ KeptTask(reqs[t])' /\ KeptSub(reqs[t])' /\ KeptAll(reqs[t])'
      BY <1>2, <2>1 DEF KeptProject, KeptTask, KeptSub, KeptAll
    <3>4. QED
      BY <1>2, <2>1, <3>2, <3>3 DEF KeptOf, IsRequest
  <2>4. CheckedEdgesAreLegal'
    <3>1. CASE Grounds(e[1], e[2]) = r.seen
      <4>1. r.seen.dep = dep /\ task[e[1]].project = task[e[2]].project
        BY <1>3, <3>1 DEF Grounds
      <4> DEFINE E == dep \ loose
                 A == {e}
                 F == dep \cup {e}
      <4>2. e[1] \notin ReachFrom(F, e[2])
        BY <1>3, <1>4, <4>1, StillUnreached
      <4>3. F \in SUBSET Edge /\ E \cup A \subseteq F /\ Acyclic(E) /\ \A g \in A : g[1] \notin ReachFrom(F, g[2])
        BY <1>0, <1>3, <4>2, StoredIn DEF Linkable, Edge, CheckedEdgesAreLegal
      <4>4. Acyclic(E \cup A) /\ E \cup A \in SUBSET Edge
        <5> HIDE DEF E, A, F
        <5>1. QED
          BY <4>3, MoreEdges
      <4>5. dep' \ loose' \subseteq E \cup A
        BY <1>1, <3>1
      <4>6. Acyclic(dep' \ loose')
        BY <4>4, <4>5, FewerEdges
      <4>7. Acyclic(dep \ loose)'
        BY <4>6 DEF Acyclic, ReachFrom
      <4>8. \A d \in dep' \ loose' : task'[d[1]].project = task'[d[2]].project
        BY <1>0, <1>1, <4>1, <4>5 DEF CheckedEdgesAreLegal
      <4>9. QED
        BY <4>7, <4>8 DEF CheckedEdgesAreLegal
    <3>2. CASE Grounds(e[1], e[2]) # r.seen
      <4>1. dep' \ loose' \subseteq dep \ loose /\ dep \ loose \in SUBSET Edge
        BY <1>0, <1>1, <1>7, <3>2, StoredIn DEF Linkable, Edge
      <4>2. Acyclic(dep' \ loose')
        BY <1>0, <4>1, FewerEdges DEF CheckedEdgesAreLegal
      <4>3. Acyclic(dep \ loose)'
        BY <4>2 DEF Acyclic, ReachFrom
      <4>4. QED
        BY <1>0, <1>1, <4>1, <4>3 DEF CheckedEdgesAreLegal
    <3>3. QED
      BY <3>1, <3>2
  <2>5. ~At(t, {"createTask"}, "write")'
    BY <2>1 DEF At
  <2>6. loose \subseteq loose' /\ dep' \subseteq Linkable /\ \A d : d # e => (d \in dep' <=> d \in dep)
    BY <1>0, <1>1, <1>3
  <2>7. QED
    BY <1>1, <1>3, <1>5, <2>1, <2>2, <2>3, <2>4, <2>5, <2>6, EdgeWritten
<1>8. QED
  BY <1>6, <1>7

LEMMA WriteUnlinkInv ==
    ASSUME GraphInv, NEW t \in Thread, Overlaps(t), WriteUnlink(t)
    PROVE  GraphInv'
<1> DEFINE r == reqs[t]
           e == r.on
<1>0. Typed /\ Kept /\ CheckedEdgesAreLegal /\ dep \subseteq Linkable
  BY DEF GraphInv, Typed
<1>1. /\ At(t, {"unlink"}, "write") /\ UNCHANGED <<project, task, sub, told, undo, file, acts, loose>>
      /\ dep' = dep \ {e} /\ Goto(t, "tell")
  BY DEF WriteUnlink, bounds
<1>2. r # Idle /\ IsRequest(r) /\ r.by \in User /\ r.kind = "unlink" /\ r.pc = "write" /\ KeptEdge(r)
  BY <1>0, <1>1, InFlight
<1>3. e \in Linkable
  BY <1>2 DEF KeptEdge
<1>4. \A y, kinds : "none" \notin kinds => ~Debt(r, y, kinds)
  BY <1>2 DEF Debt, OwesAll
<1>5. /\ reqs'[t] = [r EXCEPT !.pc = "tell"] /\ Others(t) /\ Slots /\ IsRequest(reqs'[t])
      /\ reqs'[t].kind = r.kind /\ reqs'[t].by = r.by /\ reqs'[t].on = e
      /\ reqs'[t].to = r.to /\ reqs'[t].seen = r.seen /\ reqs'[t].pc = "tell"
  BY <1>0, <1>1, <1>2, Going
<1>6. Debt(reqs'[t], e, {"link", "unlink"})
  BY <1>2, <1>5 DEF Debt
<1>7. KeptOf(reqs[t])'
  <2>1. Linkable' = Linkable /\ e \notin dep'
    BY <1>1 DEF Linkable, Stored
  <2>2. KeptEdge(reqs[t])'
    BY <1>2, <1>3, <1>5, <2>1 DEF KeptEdge
  <2>3. KeptProject(reqs[t])' /\ KeptTask(reqs[t])' /\ KeptSub(reqs[t])' /\ KeptAll(reqs[t])'
    BY <1>2, <1>5 DEF KeptProject, KeptTask, KeptSub, KeptAll
  <2>4. QED
    BY <1>2, <1>5, <2>2, <2>3 DEF KeptOf, IsRequest
<1>8. CheckedEdgesAreLegal'
  BY <1>0, <1>1, LegalStep
<1>9. ~At(t, {"createTask"}, "write")'
  BY <1>5 DEF At
<1>10. loose \subseteq loose' /\ dep' \subseteq Linkable /\ \A d : d # e => (d \in dep' <=> d \in dep)
  BY <1>0, <1>1
<1>11. QED
  BY <1>1, <1>3, <1>4, <1>5, <1>6, <1>7, <1>8, <1>9, <1>10, EdgeWritten

-----------------------------------------------------------------------------
(* Bulk requests: from the first row they write, they owe everything.      *)
LEMMA BulkInv ==
    ASSUME GraphInv, NEW t \in Thread, Overlaps(t), NEW from, At(t, {"restore", "import"}, from),
           NEW pc \in {"tasks", "subs", "deps", "tell"}, Goto(t, pc), reqs[t].kind = "restore" => pc # "tasks",
           UNCHANGED <<told, undo, file, acts>>,
           project' \in [Project -> {None} \cup ProjectRow],
           task' \in [Task -> {None} \cup TaskRow],
           sub' \in [Subtask -> {None} \cup SubRow],
           \A p \in Project : project[p] # None => project'[p] # None,
           \A c \in Task : task'[c] # None <=> task[c] # None,
           \A s \in Subtask : sub'[s] # None => sub'[s] = sub[s] \/ sub'[s].task \in Stored(task),
           dep' \subseteq Linkable,
           CheckedEdgesAreLegal', NoTaskOutlivesProject'
    PROVE  GraphInv'
<1> DEFINE r == reqs[t]
<1>0. Typed /\ Kept /\ Followed
  BY DEF GraphInv
<1>1. /\ r # Idle /\ IsRequest(r) /\ r.by \in User /\ r.kind \in {"restore", "import"} /\ KeptAll(r)
  BY <1>0, InFlight
<1>2. /\ reqs'[t] = [r EXCEPT !.pc = pc] /\ Others(t) /\ Slots /\ IsRequest(reqs'[t])
      /\ reqs'[t].kind = r.kind /\ reqs'[t].by = r.by /\ reqs'[t].on = r.on
      /\ reqs'[t].to = r.to /\ reqs'[t].seen = r.seen /\ reqs'[t].pc = pc
  BY <1>0, <1>1, Going
<1>3. raced \subseteq raced' /\ Steady(t) /\ acts' \in Nat
  BY <1>0 DEF Overlaps, Steady, Typed
<1>4. Stored(task)' = Stored(task) /\ Linkable' = Linkable /\ \A x : PayloadTyped(x) => PayloadTyped(x)'
  <2>1. Stored(task)' = Stored(task) /\ Linkable' = Linkable
    BY <1>0 DEF Stored, Linkable, Typed
  <2>2. QED
    BY <1>0, <1>3, <2>1, Grows
<1>5. Typed'
  <2>1. ViewTyped(told)' /\ dep' \subseteq Linkable'
    BY <1>0, <1>4, ViewStays
  <2>2. QED
    BY <1>0, <1>2, <1>3, <1>4, <2>1, TypedStep
<1>6. KeptOf(reqs[t])'
  <2>1. r.kind = "restore" => PayloadTyped(reqs[t].seen)'
    BY <1>1, <1>2, <1>4 DEF KeptAll, PayloadTyped
  <2>2. KeptAll(reqs[t])'
    BY <1>1, <1>2, <2>1 DEF KeptAll, ReachFrom
  <2>3. KeptProject(reqs[t])' /\ KeptTask(reqs[t])' /\ KeptSub(reqs[t])' /\ KeptEdge(reqs[t])'
    BY <1>1, <1>2 DEF KeptProject, KeptTask, KeptSub, KeptEdge
  <2>4. QED
    BY <1>1, <1>2, <2>2, <2>3 DEF KeptOf, IsRequest
<1>7. Followed'
  <2>1. \A x, kinds : Debt(reqs'[t], x, kinds)
    BY <1>1, <1>2 DEF Debt, OwesAll
  <2>2. \A x, kinds : Owed(x, kinds)'
    BY <2>1, OwesNow
  <2>3. QED
    BY <2>2 DEF Followed, ProjectFollows, TaskFollows, SubFollows, EdgeFollows
<1>8. ~At(t, {"createTask"}, "write")'
  BY <1>1, <1>2 DEF At
<1>9. QED
  BY <1>2, <1>3, <1>5, <1>6, <1>7, <1>8, StepInv

LEMMA RevivedRow ==
    ASSUME NEW row \in TaskRow
    PROVE  LET back == [row EXCEPT !.deleted = FALSE]
           IN back \in TaskRow /\ back # None /\ back.project = row.project
  BY RowAssumption DEF TaskRow

LEMMA RestoreTasksInv ==
    ASSUME GraphInv, NEW t \in Thread, Overlaps(t), RestoreTasks(t)
    PROVE  GraphInv'
<1> DEFINE r == reqs[t]
           S == Revived(t)
<1>0. Typed /\ Kept /\ CheckedEdgesAreLegal /\ NoTaskOutlivesProject
  BY DEF GraphInv
<1>1. /\ At(t, {"restore"}, "tasks") /\ Goto(t, "subs") /\ loose' = loose \cup S
      /\ UNCHANGED <<project, dep, sub, told, undo, file, acts>>
      /\ task' = [c \in Task |-> IF c \in S THEN [task[c] EXCEPT !.deleted = FALSE] ELSE task[c]]
  BY DEF RestoreTasks, bounds
<1>2. r.kind = "restore" /\ PayloadTyped(r.seen) /\ At(t, {"restore", "import"}, "tasks")
  BY <1>0, <1>1, InFlight DEF KeptAll, At
<1>3. \A c \in S : c \in Task /\ task[c] \in TaskRow /\ task[c] # None
  BY <1>0, <1>2, RowIn, StoredIn DEF Revived, PayloadTyped
<1> HIDE DEF S
<1>4. /\ task' \in [Task -> {None} \cup TaskRow]
      /\ \A c \in Task : task'[c] # None <=> task[c] # None
      /\ \A c \in Task : task'[c].project = task[c].project
      /\ \A c \in Task : c \notin S => task'[c] = task[c]
  BY <1>0, <1>1, <1>3, RevivedRow DEF Typed
<1>5. /\ project' \in [Project -> {None} \cup ProjectRow] /\ sub' \in [Subtask -> {None} \cup SubRow]
      /\ dep' \subseteq Linkable /\ \A e \in dep : e[1] \in Task /\ e[2] \in Task
      /\ raced \subseteq raced' /\ Alive(project)' = Alive(project)
  BY <1>0, <1>1 DEF Typed, Linkable, Stored, Overlaps, Alive
<1>6. CheckedEdgesAreLegal'
  BY <1>0, <1>1, <1>4, <1>5, LegalStep
<1>7. NoTaskOutlivesProject'
  <2>1. ASSUME NEW c \in Alive(task)', c \notin S
        PROVE  c \in Alive(task) /\ task'[c] = task[c]
    <3>1. c \in Task /\ task'[c] # None /\ ~task'[c].deleted
      BY <1>4 DEF Alive, Stored
    <3>2. QED
      BY <1>0, <1>4, <2>1, <3>1, AliveIn
  <2>2. QED
    BY <1>0, <1>1, <1>5, <2>1, OutliveStep
<1>8. QED
  BY <1>1, <1>2, <1>4, <1>5, <1>6, <1>7, BulkInv

LEMMA RestoreSubsInv ==
    ASSUME GraphInv, NEW t \in Thread, Overlaps(t), RestoreSubs(t)
    PROVE  GraphInv'
<1> DEFINE r == reqs[t]
           u == r.by
           old == r.seen.subs
           back == {s \in DOMAIN old :
                      task[old[s].task].owner = u /\ (sub[s] # None => sub[s].owner = u)}
<1>0. Typed /\ Kept /\ CheckedEdgesAreLegal /\ NoTaskOutlivesProject
  BY DEF GraphInv
<1>1. /\ At(t, {"restore"}, "subs") /\ Goto(t, "deps")
      /\ UNCHANGED <<project, task, dep, told, undo, file, acts, loose>>
      /\ sub' = [s \in Subtask |->
                     IF s \notin back THEN sub[s]
                     ELSE IF sub[s] = None THEN [old[s] EXCEPT !.owner = u]
                     ELSE [sub[s] EXCEPT !.done = old[s].done]]
  BY DEF RestoreSubs, bounds
<1>2. r.kind = "restore" /\ r.by \in User /\ PayloadTyped(r.seen) /\ At(t, {"restore", "import"}, "subs")
  BY <1>0, <1>1, InFlight DEF KeptAll, At
<1>3. \A s \in back : s \in Subtask /\ old[s] \in SubRow /\ old[s].task \in Stored(task)
  BY <1>2 DEF PayloadTyped
<1> HIDE DEF back, old
<1>4. ASSUME NEW s \in Subtask
      PROVE  /\ sub'[s] \in {None} \cup SubRow
             /\ sub'[s] # None => sub'[s] = sub[s] \/ sub'[s].task \in Stored(task)
  <2>1. CASE s \notin back
    BY <1>0, <1>1, <2>1 DEF Typed
  <2>2. CASE s \in back /\ sub[s] = None
    <3>1. sub'[s] = [old[s] EXCEPT !.owner = u] /\ u \in User
      BY <1>1, <1>2, <2>2
    <3>2. sub'[s] \in SubRow /\ sub'[s].task = old[s].task
      BY <1>3, <2>2, <3>1 DEF SubRow
    <3>3. QED
      BY <1>3, <2>2, <3>2
  <2>3. CASE s \in back /\ sub[s] # None
    <3>1. sub'[s] = [sub[s] EXCEPT !.done = old[s].done]
      BY <1>1, <2>3
    <3>2. sub[s] \in SubRow /\ sub[s].task \in Stored(task) /\ old[s].done \in BOOLEAN
      BY <1>0, <1>3, <2>3, RowIn, StoredIn DEF SubRow
    <3>3. sub'[s] \in SubRow /\ sub'[s].task = sub[s].task
      BY <3>1, <3>2 DEF SubRow
    <3>4. QED
      BY <3>2, <3>3
  <2>4. QED
    BY <2>1, <2>2, <2>3
<1>5. sub' \in [Subtask -> {None} \cup SubRow]
  BY <1>1, <1>4
<1>6. /\ project' \in [Project -> {None} \cup ProjectRow] /\ task' \in [Task -> {None} \cup TaskRow]
      /\ dep' \subseteq Linkable /\ raced \subseteq raced'
      /\ Alive(project)' = Alive(project) /\ Alive(task)' = Alive(task)
  BY <1>0, <1>1 DEF Typed, Overlaps, Alive, Stored
<1>7. CheckedEdgesAreLegal' /\ NoTaskOutlivesProject'
  BY <1>0, <1>1, <1>6, LegalStep, OutliveStep
<1>8. QED
  BY <1>1, <1>2, <1>4, <1>5, <1>6, <1>7, BulkInv

LEMMA RestoreDepsInv ==
    ASSUME GraphInv, NEW t \in Thread, Overlaps(t), RestoreDeps(t)
    PROVE  GraphInv'
<1>0. Typed /\ Kept /\ CheckedEdgesAreLegal /\ NoTaskOutlivesProject
  BY DEF GraphInv
<1>1. /\ At(t, {"restore"}, "deps") /\ Goto(t, "tell")
      /\ UNCHANGED <<project, task, sub, told, undo, file, acts>>
  BY DEF RestoreDeps, bounds
<1>2. PICK back : back \subseteq reqs[t].seen.deps /\ dep' = dep \cup back /\ loose' = loose \cup back
  BY DEF RestoreDeps
<1>3. reqs[t].kind = "restore" /\ PayloadTyped(reqs[t].seen) /\ At(t, {"restore", "import"}, "deps")
  BY <1>0, <1>1, InFlight DEF KeptAll, At
<1>4. dep' \subseteq Linkable
  BY <1>0, <1>2, <1>3 DEF Typed, PayloadTyped
<1>5. /\ project' \in [Project -> {None} \cup ProjectRow] /\ task' \in [Task -> {None} \cup TaskRow]
      /\ sub' \in [Subtask -> {None} \cup SubRow] /\ raced \subseteq raced'
      /\ Alive(project)' = Alive(project) /\ Alive(task)' = Alive(task)
  BY <1>0, <1>1 DEF Typed, Overlaps, Alive, Stored
<1>6. CheckedEdgesAreLegal' /\ NoTaskOutlivesProject'
  BY <1>0, <1>1, <1>2, <1>5, LegalStep, OutliveStep
<1>7. QED
  BY <1>1, <1>3, <1>4, <1>5, <1>6, BulkInv

LEMMA ImportedRows ==
    ASSUME Typed, FileTyped, NEW u, NEW p \in Project
    PROVE  /\ Imported(u)[p] \in {None} \cup ProjectRow
           /\ project[p] # None => Imported(u)[p] # None
           /\ p \in Alive(project) => ~Imported(u)[p].deleted
<1> DEFINE ps == DOMAIN file.project
           held(q) == \E o \in Alive(project) \ {q} :
                         project[o].owner = u /\ project[o].name = file.project[q].name
<1>1. CASE p \in ps
  <2> DEFINE row == file.project[p]
             name == IF held(p) THEN Again(row.name) ELSE row.name
  <2>1. Imported(u)[p] = [row EXCEPT !.deleted = FALSE, !.name = name]
    BY <1>1 DEF Imported
  <2>2. row \in ProjectRow
    BY <1>1 DEF FileTyped
  <2>3. name \in Label
    <3>1. row.name \in Label
      BY <2>2 DEF ProjectRow
    <3>2. QED
      BY <3>1, LabelOps
  <2> HIDE DEF row, name
  <2>4. [row EXCEPT !.deleted = FALSE, !.name = name] \in ProjectRow
    BY <2>2, <2>3 DEF ProjectRow
  <2>5. [row EXCEPT !.deleted = FALSE, !.name = name].deleted = FALSE
    BY <2>2 DEF ProjectRow
  <2>6. QED
    BY <2>1, <2>4, <2>5, RowAssumption
<1>2. CASE p \notin ps
  <2> DEFINE freed == /\ project[p] # None /\ project[p].deleted /\ project[p].owner = u
                      /\ \E q \in ps : file.project[q].name = project[p].name
  <2>1. Imported(u)[p] = IF freed THEN [project[p] EXCEPT !.name = Dated(@)] ELSE project[p]
    BY <1>2 DEF Imported
  <2>2. freed => project[p] # None /\ project[p].deleted
    OBVIOUS
  <2>3. p \in Alive(project) => project[p] # None /\ ~project[p].deleted
    BY AliveIn
  <2> HIDE DEF freed
  <2>4. CASE freed
    <3>1. project[p] \in ProjectRow
      BY <2>2, <2>4, RowIn, StoredIn
    <3>2. Dated(project[p].name) \in Label
      BY <3>1, LabelOps DEF ProjectRow
    <3>3. Imported(u)[p] \in ProjectRow
      BY <2>1, <2>4, <3>1, <3>2 DEF ProjectRow
    <3>4. QED
      BY <2>2, <2>3, <2>4, <3>3, RowAssumption
  <2>5. CASE ~freed
    BY <2>1, <2>3, <2>5 DEF Typed
  <2>6. QED
    BY <2>4, <2>5
<1>3. QED
  BY <1>1, <1>2

LEMMA ImportProjectsInv ==
    ASSUME GraphInv, NEW t \in Thread, Overlaps(t), ImportProjects(t)
    PROVE  GraphInv'
<1> DEFINE r == reqs[t]
<1>0. Typed /\ Kept /\ CheckedEdgesAreLegal /\ NoTaskOutlivesProject
  BY DEF GraphInv
<1>1. /\ At(t, {"import"}, "projects") /\ UNCHANGED <<task, dep, sub, told, undo, file, acts, loose>>
      /\ \/ project' = Imported(r.by) /\ Goto(t, "tasks")
         \/ UNCHANGED project /\ Ends(t)
  BY DEF ImportProjects, bounds
<1>2. r.kind = "import" /\ r.pc = "projects" /\ FileTyped /\ At(t, {"restore", "import"}, "projects")
  BY <1>0, <1>1, InFlight DEF KeptAll, At, Typed
<1>3. CASE UNCHANGED project /\ Ends(t)
  <2>1. \A x, kinds : "none" \notin kinds => ~Debt(r, x, kinds)
    BY <1>2 DEF Debt, OwesAll
  <2>2. QED
    BY <1>1, <1>3, <2>1, QuietEnd
<1>4. CASE project' = Imported(r.by) /\ Goto(t, "tasks")
  <2>1. /\ project' \in [Project -> {None} \cup ProjectRow]
        /\ \A p \in Project : project[p] # None => project'[p] # None
        /\ \A p \in Alive(project) : p \in Project /\ project'[p] # None /\ ~project'[p].deleted
    <3>1. project' = [p \in Project |-> project'[p]]
      BY <1>4 DEF Imported
    <3>2. \A p \in Project : /\ project'[p] \in {None} \cup ProjectRow
                             /\ project[p] # None => project'[p] # None
                             /\ p \in Alive(project) => ~project'[p].deleted
      BY <1>0, <1>2, <1>4, ImportedRows
    <3>3. QED
      BY <1>0, <3>1, <3>2, AliveIn
  <2>2. Alive(project) \subseteq Alive(project)'
    BY <2>1 DEF Alive, Stored
  <2>3. /\ task' \in [Task -> {None} \cup TaskRow] /\ sub' \in [Subtask -> {None} \cup SubRow]
        /\ dep' \subseteq Linkable /\ raced \subseteq raced' /\ Alive(task)' = Alive(task)
    BY <1>0, <1>1 DEF Typed, Overlaps, Alive, Stored
  <2>4. CheckedEdgesAreLegal'
    BY <1>0, <1>1, LegalStep
  <2>5. NoTaskOutlivesProject'
    BY <1>0, <1>1, <2>2, <2>3, OutliveStep
  <2>6. QED
    BY <1>1, <1>2, <1>4, <2>1, <2>3, <2>4, <2>5, BulkInv
<1>5. QED
  BY <1>1, <1>3, <1>4

LEMMA ImportTasksInv ==
    ASSUME GraphInv, NEW t \in Thread, Overlaps(t), ImportTasks(t)
    PROVE  GraphInv'
<1> DEFINE r == reqs[t]
           S == Accepted
           moved == {c \in Accepted : task[c].project # file.task[c].project}
<1>0. Typed /\ Kept /\ CheckedEdgesAreLegal /\ NoTaskOutlivesProject
  BY DEF GraphInv
<1>1. /\ At(t, {"import"}, "tasks") /\ Goto(t, "subs")
      /\ UNCHANGED <<project, dep, sub, told, undo, file, acts>>
      /\ task' = [c \in Task |-> IF c \in S THEN [file.task[c] EXCEPT !.deleted = FALSE] ELSE task[c]]
      /\ loose' = loose \cup S \cup Touching(dep, moved)
  BY DEF ImportTasks, bounds
<1>2. r.kind = "import" /\ FileTyped /\ At(t, {"restore", "import"}, "tasks")
  BY <1>0, <1>1, InFlight DEF KeptAll, At, Typed
<1>3. \A c \in S : c \in Task /\ task[c] # None /\ file.task[c] \in TaskRow
  BY <1>0, <1>2, StoredIn DEF Accepted, FileTyped
<1>4. \A c \in Task : c \in moved <=> c \in S /\ task[c].project # file.task[c].project
  OBVIOUS
<1> HIDE DEF S, moved
<1>5. \A c \in S : /\ task'[c] \in TaskRow /\ task'[c] # None
                   /\ task'[c].project = file.task[c].project
  BY <1>1, <1>3, RevivedRow
<1>6. /\ task' \in [Task -> {None} \cup TaskRow]
      /\ \A c \in Task : task'[c] # None <=> task[c] # None
      /\ \A c \in Task : c \notin moved => task'[c].project = task[c].project
      /\ \A c \in Task : c \notin S => task'[c] = task[c]
  BY <1>0, <1>1, <1>3, <1>4, <1>5 DEF Typed
<1>7. /\ project' \in [Project -> {None} \cup ProjectRow] /\ sub' \in [Subtask -> {None} \cup SubRow]
      /\ dep' \subseteq Linkable /\ \A e \in dep : e[1] \in Task /\ e[2] \in Task
      /\ raced \subseteq raced' /\ Alive(project)' = Alive(project)
  BY <1>0, <1>1 DEF Typed, Linkable, Stored, Overlaps, Alive
<1>8. CheckedEdgesAreLegal'
  <2>1. ASSUME NEW e \in dep' \ loose'
        PROVE  e[1] \notin moved /\ e[2] \notin moved /\ e \in dep /\ e \notin loose
    BY <1>1, <2>1 DEF Touching
  <2>2. QED
    BY <1>0, <1>6, <1>7, <2>1, LegalStep
<1>9. NoTaskOutlivesProject'
  <2>1. ASSUME NEW c \in Alive(task)', c \notin S
        PROVE  c \in Alive(task) /\ task'[c] = task[c]
    <3>1. c \in Task /\ task'[c] # None /\ ~task'[c].deleted
      BY <1>6 DEF Alive, Stored
    <3>2. QED
      BY <1>0, <1>6, <2>1, <3>1, AliveIn
  <2>2. QED
    BY <1>0, <1>1, <1>7, <2>1, OutliveStep
<1>10. QED
  BY <1>1, <1>2, <1>6, <1>7, <1>8, <1>9, BulkInv

LEMMA ImportSubsInv ==
    ASSUME GraphInv, NEW t \in Thread, Overlaps(t), ImportSubs(t)
    PROVE  GraphInv'
<1>0. Typed /\ Kept /\ CheckedEdgesAreLegal /\ NoTaskOutlivesProject
  BY DEF GraphInv
<1> DEFINE taken == {s \in DOMAIN file.sub :
                       /\ file.sub[s].task \in Accepted
                       /\ sub[s] # None => sub[s].owner = reqs[t].by}
<1>1. /\ At(t, {"import"}, "subs") /\ Goto(t, "deps")
      /\ UNCHANGED <<project, task, dep, told, undo, file, acts, loose>>
      /\ sub' = [s \in Subtask |-> IF s \in taken THEN file.sub[s] ELSE sub[s]]
  BY DEF ImportSubs, bounds
<1>2. reqs[t].kind = "import" /\ FileTyped /\ At(t, {"restore", "import"}, "subs")
  BY <1>0, <1>1, InFlight DEF KeptAll, At, Typed
<1>3. \A s \in taken : file.sub[s] \in SubRow /\ file.sub[s].task \in Stored(task)
  BY <1>2 DEF FileTyped, Accepted
<1> HIDE DEF taken
<1>4. /\ sub' \in [Subtask -> {None} \cup SubRow]
      /\ \A s \in Subtask : sub'[s] # None => sub'[s] = sub[s] \/ sub'[s].task \in Stored(task)
  BY <1>0, <1>1, <1>3 DEF Typed
<1>5. /\ project' \in [Project -> {None} \cup ProjectRow] /\ task' \in [Task -> {None} \cup TaskRow]
      /\ dep' \subseteq Linkable /\ raced \subseteq raced'
      /\ Alive(project)' = Alive(project) /\ Alive(task)' = Alive(task)
  BY <1>0, <1>1 DEF Typed, Overlaps, Alive, Stored
<1>6. CheckedEdgesAreLegal' /\ NoTaskOutlivesProject'
  BY <1>0, <1>1, <1>5, LegalStep, OutliveStep
<1>7. QED
  BY <1>1, <1>2, <1>4, <1>5, <1>6, BulkInv

LEMMA ImportDepsInv ==
    ASSUME GraphInv, NEW t \in Thread, Overlaps(t), ImportDeps(t)
    PROVE  GraphInv'
<1> DEFINE r == reqs[t]
           new == {e \in r.seen.accepted : e[1] \in Accepted /\ e[2] \in Accepted} \ dep
           out == IF dep = r.seen.dep THEN {e \in new : ~InPlace(e)} ELSE new
<1>0. Typed /\ Kept /\ CheckedEdgesAreLegal /\ NoTaskOutlivesProject
  BY DEF GraphInv
<1>1. /\ At(t, {"import"}, "deps") /\ Goto(t, "tell")
      /\ UNCHANGED <<project, task, sub, told, undo, file, acts>>
      /\ dep' = dep \cup new /\ loose' = loose \cup out
  BY DEF ImportDeps, bounds
<1>2. /\ r.kind = "import" /\ FileTyped /\ At(t, {"restore", "import"}, "deps")
      /\ r.seen.accepted \subseteq file.dep
      /\ \A e \in r.seen.accepted \ r.seen.dep :
            /\ file.task[e[1]].project = file.task[e[2]].project
            /\ e[1] \notin ReachFrom(r.seen.dep \cup r.seen.accepted, e[2])
  BY <1>0, <1>1, InFlight DEF KeptAll, At, Typed
<1>3. dep \subseteq Linkable /\ r.seen.accepted \subseteq Linkable /\ Linkable \in SUBSET Edge
  BY <1>0, <1>2, StoredIn DEF Typed, FileTyped, Linkable, Edge
<1>4. new \subseteq r.seen.accepted /\ (\A e \in new : e \notin dep)
      /\ (dep = r.seen.dep => \A e \in new : e \notin out => InPlace(e))
      /\ (dep # r.seen.dep => new = out)
  OBVIOUS
<1> HIDE DEF new, out
<1>5. dep' \subseteq Linkable
  BY <1>1, <1>3, <1>4
<1>6. /\ project' \in [Project -> {None} \cup ProjectRow] /\ task' \in [Task -> {None} \cup TaskRow]
      /\ sub' \in [Subtask -> {None} \cup SubRow] /\ raced \subseteq raced'
      /\ Alive(project)' = Alive(project) /\ Alive(task)' = Alive(task)
  BY <1>0, <1>1 DEF Typed, Overlaps, Alive, Stored
<1>7. NoTaskOutlivesProject'
  BY <1>0, <1>1, <1>6, OutliveStep
<1>8. CheckedEdgesAreLegal'
  <2>1. CASE dep = r.seen.dep
    <3> DEFINE E == dep \ loose
               F == dep \cup r.seen.accepted
    <3>1. F \in SUBSET Edge /\ E \cup new \subseteq F /\ Acyclic(E)
          /\ \A g \in new : g[1] \notin ReachFrom(F, g[2])
      BY <1>0, <1>2, <1>3, <1>4, <2>1 DEF CheckedEdgesAreLegal
    <3>2. Acyclic(E \cup new) /\ E \cup new \in SUBSET Edge
      <4> HIDE DEF E, F
      <4>1. QED
        BY <3>1, MoreEdges
    <3>3. dep' \ loose' \subseteq E \cup new
      BY <1>1
    <3>4. Acyclic(dep' \ loose')
      BY <3>2, <3>3, FewerEdges
    <3>5. Acyclic(dep \ loose)'
      BY <3>4 DEF Acyclic, ReachFrom
    <3>6. ASSUME NEW e \in dep' \ loose'
          PROVE  task'[e[1]].project = task'[e[2]].project
      <4>1. CASE e \in E
        BY <1>0, <1>1, <4>1 DEF CheckedEdgesAreLegal
      <4>2. CASE e \in new
        <5>1. InPlace(e)
          BY <1>1, <1>4, <2>1, <3>6, <4>2
        <5>2. file.task[e[1]].project = file.task[e[2]].project
          BY <1>2, <1>4, <2>1, <4>2
        <5>3. QED
          BY <1>1, <5>1, <5>2 DEF InPlace
      <4>3. QED
        BY <3>3, <3>6, <4>1, <4>2
    <3>7. QED
      BY <3>5, <3>6 DEF CheckedEdgesAreLegal
  <2>2. CASE dep # r.seen.dep
    BY <1>0, <1>1, <1>4, <2>2, LegalStep
  <2>3. QED
    BY <2>1, <2>2
<1>9. QED
  BY <1>1, <1>2, <1>5, <1>6, <1>7, <1>8, BulkInv

-----------------------------------------------------------------------------
(* The export, and the initial states.                                     *)
LEMMA ExportInv ==
    ASSUME GraphInv, NEW u \in User, Export(u)
    PROVE  GraphInv'
<1> DEFINE ps == {p \in Stored(project) : project[p].owner = u}
           cs == {c \in Stored(task) : task[c].owner = u}
           ss == {s \in Stored(sub) : sub[s].owner = u}
           es == Made(u)
<1>0. Typed /\ Kept /\ NewIds /\ CheckedEdgesAreLegal /\ NoTaskOutlivesProject /\ Followed
  BY DEF GraphInv
<1>1. /\ file = None /\ acts' = acts + 1 /\ UNCHANGED <<project, task, dep, sub, told, undo, reqs, raced, loose>>
      /\ file' = [by |-> u, project |-> Restrict(project, ps), task |-> Restrict(task, cs),
                  sub |-> Restrict(sub, ss), dep |-> es]
  BY DEF Export, db
<1>2. /\ \A p \in ps : p \in Stored(project) /\ project[p] \in ProjectRow
      /\ \A c \in cs : c \in Stored(task) /\ task[c] \in TaskRow
      /\ \A s \in ss : s \in Subtask /\ sub[s] \in SubRow
      /\ es \subseteq Linkable
  BY <1>0, RowIn, StoredIn DEF Typed, Made
<1> HIDE DEF ps, cs, ss, es
<1>3. /\ file'.by = u /\ file'.project = [p \in ps |-> project[p]] /\ file'.task = [c \in cs |-> task[c]]
      /\ file'.sub = [s \in ss |-> sub[s]] /\ file'.dep = es
  BY <1>1 DEF Restrict
<1>4. /\ Stored(task)' = Stored(task) /\ Stored(project)' = Stored(project) /\ Stored(sub)' = Stored(sub)
      /\ Linkable' = Linkable /\ Alive(task)' = Alive(task) /\ Alive(project)' = Alive(project)
  BY <1>1 DEF Stored, Linkable, Alive
<1>5. FileTyped'
  BY <1>2, <1>3, <1>4 DEF FileTyped
<1>6. Typed'
  <2>1. \A v \in User : undo[v] # None => PayloadTyped(undo[v])'
    BY <1>0, <1>1, <1>4 DEF Typed, PayloadTyped
  <2>2. QED
    BY <1>0, <1>1, <1>4, <1>5, <2>1 DEF Typed, ViewTyped
<1>7. Kept'
  <2>1. ASSUME NEW o \in Thread, reqs'[o] # Idle
        PROVE  KeptOf(reqs[o])'
    <3>1. KeptOf(reqs[o])
      BY <1>0, <1>1, <2>1 DEF Kept, KeptOf
    <3>2. QED
      BY <1>1, <3>1, KeptSame
  <2>2. QED
    BY <2>1 DEF Kept, KeptOf
<1>8. NewIds'
  BY <1>0, <1>1 DEF NewIds, At
<1>9. CheckedEdgesAreLegal'
  BY <1>0, <1>1, LegalStep
<1>10. NoTaskOutlivesProject'
  BY <1>0, <1>1, <1>4, OutliveStep
<1>11. Followed'
  <2>1. \A x, kinds : Owed(x, kinds) => Owed(x, kinds)'
    BY <1>1 DEF Owed, Debt, OwesAll
  <2>2. \A p \in Project \ raced' : ProjectFollows(p)'
    BY <1>0, <1>1, <2>1 DEF Followed, ProjectFollows, ShownProject
  <2>3. \A c \in Task \ raced' : TaskFollows(c)'
    BY <1>0, <1>1, <1>4, <2>1 DEF Followed, TaskFollows, ShownTask
  <2>4. \A s \in Subtask \ raced' : SubFollows(s)'
    BY <1>0, <1>1, <1>4, <2>1 DEF Followed, SubFollows, ShownSub
  <2>5. \A e \in Edge \ raced' : EdgeFollows(e)'
    BY <1>0, <1>1, <1>4, <2>1 DEF Followed, EdgeFollows
  <2>6. QED
    BY <2>2, <2>3, <2>4, <2>5, FollowedStep
<1>12. QED
  BY <1>6, <1>7, <1>8, <1>9, <1>10, <1>11 DEF GraphInv

LEMMA InitInv ==
    ASSUME Init
    PROVE  GraphInv
<1>1. project \in [Project -> {None} \cup ProjectRow] /\ \A p \in Stored(project) : ~project[p].deleted
  <2>1. PICK ps \in SUBSET First, shared \in BOOLEAN, name \in Injection(First, Name) :
          project = [p \in Project |->
              IF p \in ps THEN [NewProject(Owner, Plain(name[p])) EXCEPT !.shared = shared] ELSE None]
    BY DEF Init
  <2>2. ASSUME NEW p \in ps
        PROVE  /\ [NewProject(Owner, Plain(name[p])) EXCEPT !.shared = shared] \in ProjectRow
               /\ ~[NewProject(Owner, Plain(name[p])) EXCEPT !.shared = shared].deleted
    <3>1. name[p] \in Name /\ Owner \in User
      BY <2>1, OwnerAssumption DEF Injection
    <3>2. NewProject(Owner, Plain(name[p])) \in ProjectRow /\ ~NewProject(Owner, Plain(name[p])).deleted
      BY <3>1, NewProjectRow
    <3>3. QED
      BY <3>2 DEF ProjectRow
  <2>3. QED
    BY <2>1, <2>2 DEF Stored
<1>2. task \in [Task -> {None} \cup TaskRow]
      /\ \A c \in Stored(task) : task[c].project \in Stored(project) /\ ~task[c].deleted
  <2>1. /\ task \in [Task -> {None} \cup {NewTask(Owner, p) : p \in Stored(project)}]
        /\ Stored(project) \subseteq Project /\ Owner \in User
    BY <1>1, OwnerAssumption DEF Init, Stored
  <2>2. \A p \in Stored(project) : /\ NewTask(Owner, p) \in TaskRow /\ ~NewTask(Owner, p).deleted
                                   /\ NewTask(Owner, p).project = p
    BY <2>1, NewTaskRow
  <2>3. QED
    BY <2>1, <2>2 DEF Stored
<1>3. sub \in [Subtask -> {None} \cup SubRow] /\ \A s \in Stored(sub) : sub[s].task \in Stored(task)
  <2>1. PICK on \in [Subtask -> Stored(task)] :
          sub = [s \in Subtask |-> IF s \in FirstSubs /\ "patchSub" \in scene.kinds THEN NewSub(Owner, on[s]) ELSE None]
    BY DEF Init
  <2>2. Stored(task) \subseteq Task
    BY <1>2 DEF Stored
  <2>3. \A s \in Subtask : NewSub(Owner, on[s]) \in SubRow /\ NewSub(Owner, on[s]).task \in Stored(task)
    BY <2>1, <2>2, OwnerAssumption DEF NewSub, SubRow
  <2>4. QED
    BY <2>1, <2>3 DEF Stored
<1>4. dep \subseteq Linkable /\ Acyclic(dep) /\ \A e \in dep : task[e[1]].project = task[e[2]].project
  <2>1. PICK edges \in SUBSET (FirstTasks \X FirstTasks) :
          /\ Acyclic(edges) /\ dep = edges
          /\ \A e \in edges : {e[1], e[2]} \subseteq Stored(task) /\ task[e[1]].project = task[e[2]].project
    BY DEF Init
  <2>2. QED
    BY <2>1 DEF Linkable
<1>5. /\ told = Everything /\ undo = [u \in User |-> None] /\ file = None /\ reqs = [t \in Thread |-> Idle]
      /\ acts = 0 /\ raced = {} /\ loose = {}
  BY DEF Init
<1>6. /\ ViewTyped(told)
      /\ \A p \in Project : told.project[p] = ShownProject(project[p])
      /\ \A c \in Task : told.task[c] = (IF c \in Alive(task) THEN ShownTask(task[c]) ELSE None)
      /\ \A s \in Subtask : told.sub[s] = ShownSub(sub[s])
      /\ told.dep = dep
  BY <1>3, <1>4, <1>5, EverythingIs
<1>7. Typed
  BY <1>1, <1>2, <1>3, <1>4, <1>5, <1>6 DEF Typed
<1>8. Kept /\ NewIds
  BY <1>5 DEF Kept, NewIds, At, Idle
<1>9. CheckedEdgesAreLegal
  <2>1. dep \ loose = dep
    BY <1>5
  <2>2. QED
    BY <1>4, <2>1 DEF CheckedEdgesAreLegal
<1>10. NoTaskOutlivesProject
  BY <1>1, <1>2 DEF NoTaskOutlivesProject, Alive
<1>11. Followed
  BY <1>6 DEF Followed, ProjectFollows, TaskFollows, SubFollows, EdgeFollows
<1>12. QED
  BY <1>7, <1>8, <1>9, <1>10, <1>11 DEF GraphInv

(* With no request in flight, nothing is owed.                             *)
LEMMA NothingOwed ==
    ASSUME GraphInv
    PROVE  DevicesFollow
<1> SUFFICES ASSUME \A t \in Thread : reqs[t] = Idle
             PROVE  /\ \A p \in Project \ raced : told.project[p] = Everything.project[p]
                    /\ \A c \in Task \ raced : told.task[c] = Everything.task[c]
                    /\ \A s \in Subtask \ raced :
                          (sub[s] # None => sub[s].task \in Alive(task) \ raced) => told.sub[s] = Everything.sub[s]
                    /\ \A e \in Edge \ raced :
                          {e[1], e[2]} \subseteq Alive(task) \ raced => (e \in told.dep <=> e \in dep)
  BY DEF DevicesFollow
<1>1. Typed /\ Followed
  BY DEF GraphInv
<1>2. \A x, kinds : "none" \notin kinds => ~Owed(x, kinds)
  BY DEF Owed, Debt, OwesAll, Idle
<1>3. /\ \A p \in Project : Everything.project[p] = ShownProject(project[p])
      /\ \A c \in Task : Everything.task[c] = (IF c \in Alive(task) THEN ShownTask(task[c]) ELSE None)
      /\ \A s \in Subtask : Everything.sub[s] = ShownSub(sub[s])
  BY <1>1, EverythingIs DEF Typed
<1>4. \A p \in Project \ raced : told.project[p] = Everything.project[p]
  BY <1>1, <1>2, <1>3 DEF Followed, ProjectFollows
<1>5. \A c \in Task \ raced : told.task[c] = Everything.task[c]
  BY <1>1, <1>2, <1>3 DEF Followed, TaskFollows
<1>6. \A s \in Subtask \ raced :
         (sub[s] # None => sub[s].task \in Alive(task) \ raced) => told.sub[s] = Everything.sub[s]
  BY <1>1, <1>2, <1>3 DEF Followed, SubFollows
<1>7. \A e \in Edge \ raced :
         {e[1], e[2]} \subseteq Alive(task) \ raced => (e \in told.dep <=> e \in dep)
  BY <1>1, <1>2 DEF Followed, EdgeFollows
<1>8. QED
  BY <1>4, <1>5, <1>6, <1>7

LEMMA StutterInv ==
    ASSUME GraphInv, UNCHANGED vars
    PROVE  GraphInv'
<1>0. Typed /\ Kept /\ NewIds /\ CheckedEdgesAreLegal /\ NoTaskOutlivesProject /\ Followed
  BY DEF GraphInv
<1>1. UNCHANGED <<project, task, dep, sub, told, undo, file, reqs, acts, raced, loose>>
  BY DEF vars, db, bounds
<1>2. /\ Stored(task)' = Stored(task) /\ Stored(project)' = Stored(project) /\ Stored(sub)' = Stored(sub)
      /\ Linkable' = Linkable /\ Alive(task)' = Alive(task) /\ Alive(project)' = Alive(project)
  BY <1>1 DEF Stored, Linkable, Alive
<1>3. Typed'
  <2>1. Slots /\ acts' \in Nat
    BY <1>0, <1>1 DEF Typed, Slots
  <2>2. QED
    BY <1>0, <1>1, <2>1, TypedSame
<1>4. Kept'
  <2>1. ASSUME NEW o \in Thread, reqs'[o] # Idle
        PROVE  KeptOf(reqs[o])'
    <3>1. KeptOf(reqs[o])
      BY <1>0, <1>1, <2>1 DEF Kept, KeptOf
    <3>2. QED
      BY <1>1, <3>1, KeptSame
  <2>2. QED
    BY <2>1 DEF Kept, KeptOf
<1>5. NewIds'
  BY <1>0, <1>1 DEF NewIds, At
<1>6. CheckedEdgesAreLegal' /\ NoTaskOutlivesProject'
  BY <1>0, <1>1, <1>2, LegalStep, OutliveStep
<1>7. Followed'
  <2>1. \A x, kinds : Owed(x, kinds) => Owed(x, kinds)'
    BY <1>1 DEF Owed, Debt, OwesAll
  <2>2. \A p \in Project \ raced' : ProjectFollows(p)'
    BY <1>0, <1>1, <2>1 DEF Followed, ProjectFollows, ShownProject
  <2>3. \A c \in Task \ raced' : TaskFollows(c)'
    BY <1>0, <1>1, <1>2, <2>1 DEF Followed, TaskFollows, ShownTask
  <2>4. \A s \in Subtask \ raced' : SubFollows(s)'
    BY <1>0, <1>1, <1>2, <2>1 DEF Followed, SubFollows, ShownSub
  <2>5. \A e \in Edge \ raced' : EdgeFollows(e)'
    BY <1>0, <1>1, <1>2, <2>1 DEF Followed, EdgeFollows
  <2>6. QED
    BY <2>2, <2>3, <2>4, <2>5, FollowedStep
<1>8. QED
  BY <1>3, <1>4, <1>5, <1>6, <1>7 DEF GraphInv

LEMMA NextInv ==
    ASSUME GraphInv, [Next]_vars
    PROVE  GraphInv'
<1>1. ASSUME NEW t \in Thread, Arrives(t), Overlaps(t)
      PROVE  GraphInv'
  <2>1. CASE CreateProject(t) \/ PatchProject(t) \/ DeleteProject(t)
    BY <1>1, <2>1, ProjectStarts
  <2>2. CASE CreateTask(t) \/ PatchTask(t) \/ DeleteTask(t)
    BY <1>1, <2>2, TaskStarts
  <2>3. CASE CreateSubtask(t) \/ PatchSubtask(t) \/ DeleteSubtask(t)
    BY <1>1, <2>3, SubStarts
  <2>4. CASE Link(t) \/ Unlink(t)
    BY <1>1, <2>4, EdgeStarts
  <2>5. CASE Restore(t) \/ Import(t)
    BY <1>1, <2>5, BulkStarts
  <2>6. QED
    BY <1>1, <2>1, <2>2, <2>3, <2>4, <2>5 DEF Arrives
<1>2. ASSUME NEW t \in Thread, Proceeds(t), Overlaps(t)
      PROVE  GraphInv'
  <2>1. CASE CommitProject(t)
    BY <1>2, <2>1, CommitProjectInv
  <2>2. CASE WriteProject(t)
    BY <1>2, <2>2, WriteProjectInv
  <2>3. CASE TellProject(t)
    BY <1>2, <2>3, TellProjectInv
  <2>4. CASE CommitDeleteProject(t)
    BY <1>2, <2>4, CommitDeleteProjectInv
  <2>5. CASE WriteTask(t)
    BY <1>2, <2>5, WriteTaskInv
  <2>6. CASE ReadTaskBack(t) \/ ReadSubtaskBack(t)
    BY <1>2, <2>6, ReadBackInv
  <2>7. CASE TellTask(t)
    BY <1>2, <2>7, TellTaskInv
  <2>8. CASE CommitDeleteTask(t)
    BY <1>2, <2>8, CommitDeleteTaskInv
  <2>9. CASE WriteSubtask(t)
    BY <1>2, <2>9, WriteSubtaskInv
  <2>10. CASE TellSubtask(t)
    BY <1>2, <2>10, TellSubtaskInv
  <2>11. CASE WriteSubtaskDelete(t)
    BY <1>2, <2>11, WriteSubtaskDeleteInv
  <2>12. CASE TellSubtaskDelete(t)
    BY <1>2, <2>12, TellSubtaskDeleteInv
  <2>13. CASE WriteLink(t)
    BY <1>2, <2>13, WriteLinkInv
  <2>14. CASE WriteUnlink(t)
    BY <1>2, <2>14, WriteUnlinkInv
  <2>15. CASE TellEdge(t)
    BY <1>2, <2>15, TellEdgeInv
  <2>16. CASE RestoreTasks(t)
    BY <1>2, <2>16, RestoreTasksInv
  <2>17. CASE RestoreSubs(t)
    BY <1>2, <2>17, RestoreSubsInv
  <2>18. CASE RestoreDeps(t)
    BY <1>2, <2>18, RestoreDepsInv
  <2>19. CASE TellAll(t)
    BY <1>2, <2>19, TellAllInv
  <2>20. CASE ImportProjects(t)
    BY <1>2, <2>20, ImportProjectsInv
  <2>21. CASE ImportTasks(t)
    BY <1>2, <2>21, ImportTasksInv
  <2>22. CASE ImportSubs(t)
    BY <1>2, <2>22, ImportSubsInv
  <2>23. CASE ImportDeps(t)
    BY <1>2, <2>23, ImportDepsInv
  <2>24. QED
    BY <1>2, <2>1, <2>2, <2>3, <2>4, <2>5, <2>6, <2>7, <2>8, <2>9, <2>10, <2>11, <2>12, <2>13, <2>14,
       <2>15, <2>16, <2>17, <2>18, <2>19, <2>20, <2>21, <2>22, <2>23 DEF Proceeds
<1>3. ASSUME NEW t \in Thread, Die(t), Overlaps(t)
      PROVE  GraphInv'
  BY <1>3, DieInv
<1>4. ASSUME NEW u \in User, Export(u)
      PROVE  GraphInv'
  BY <1>4, ExportInv
<1>5. CASE UNCHANGED vars
  BY <1>5, StutterInv
<1>6. QED
  BY <1>1, <1>2, <1>3, <1>4, <1>5 DEF Next

-----------------------------------------------------------------------------
(* The inductive invariant: the shape of the tables, what each request in  *)
(* flight may still rely on, and what it owes the devices.                 *)
THEOREM GraphInvariant == Spec => []GraphInv
<1>1. Init => GraphInv
  BY InitInv
<1>2. GraphInv /\ [Next]_vars => GraphInv'
  BY NextInv
<1>3. QED
  BY <1>1, <1>2, PTL DEF Spec

(* However requests overlap, and wherever the Worker dies: the edges that  *)
(* were inserted on a check that still held form no cycle and stay within  *)
(* a project (POST /tasks/:id/deps, PATCH /tasks/:id, POST /import).       *)
THEOREM CheckedEdgesStayLegal == Spec => []CheckedEdgesAreLegal
<1>1. GraphInv => CheckedEdgesAreLegal
  BY DEF GraphInv
<1>2. QED
  BY <1>1, GraphInvariant, PTL

(* DELETE /projects/:id leaves no live task in the project, but for one    *)
(* whose request had checked before, or that an undo or import brought back.*)
THEOREM NoTaskEverOutlivesProject == Spec => []NoTaskOutlivesProject
<1>1. GraphInv => NoTaskOutlivesProject
  BY DEF GraphInv
<1>2. QED
  BY <1>1, GraphInvariant, PTL

(* A device that has applied every event shows the database whenever no    *)
(* request is in flight, but for what overlapping or dead requests were    *)
(* about: every handler announces what it has written.                     *)
THEOREM DevicesAlwaysFollow == Spec => []DevicesFollow
<1>1. GraphInv => DevicesFollow
  BY NothingOwed
<1>2. QED
  BY <1>1, GraphInvariant, PTL
=============================================================================
