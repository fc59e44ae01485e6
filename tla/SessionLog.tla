----------------------------- MODULE SessionLog -----------------------------
(***************************************************************************)
(* The tracked time of one user: the rows of time_sessions, the requests   *)
(* that enter, edit, delete, undo, export and import them, and the timer   *)
(* of the user's hub that opens and closes them meanwhile.  A request reads *)
(* and checks first, and writes later; what it writes is guarded by the    *)
(* statement itself.                                                       *)
(*                                                                         *)
(* Abstractions: the reads a handler makes before its first write are one  *)
(* step, except where it reads a session twice.  Notes, names, the caps    *)
(* and the order of the log are left out.  Of the hub there is the session *)
(* it runs and one operation at a time whose batch is answered (UserHub    *)
(* has the rest).  Tasks and subtasks do not change.  Session ids are never *)
(* reused.  session.* events only make a device reload its reports.        *)
(***************************************************************************)
EXTENDS Integers, FiniteSets

CONSTANTS Session, Task, Subtask,
          TaskOf,     \* [Subtask -> Task]
          Mine,       \* tasks the user created; the others are of a group
          Thread,     \* bound: requests in flight at once
          None,
          Tolerance,  \* SESSION_RULES.futureToleranceMs
          Horizon,    \* bound: the last instant at which anything is started
          ActMax,     \* bound: requests and operations of the timer
          Kinds       \* what this instance does

ASSUME TaskAssumption == TaskOf \in [Subtask -> Task] /\ Mine \subseteq Task
ASSUME TimeAssumption == Tolerance \in Nat /\ Horizon \in Nat
VARIABLES
    sess,     \* D1 time_sessions: id -> row, or None
    running,  \* the session the hub runs, or None
    op,       \* the operation the hub is in the middle of, or None
    reqs,     \* the requests in flight
    undo,     \* the payload of the last undo toast, or None
    file,     \* the last export: the closed rows in it, or None
    now, acts,
    made,     \* history: session -> what last wrote it, as of when
    used      \* ids given out

hub == <<running, op>>
vars == <<sess, hub, reqs, undo, file, now, acts, made, used>>

-----------------------------------------------------------------------------
Time == 0..(Horizon + Tolerance)

SessionRow == [task : Task, sub : Subtask \cup {None}, from : Time, to : Time \cup {None}]
Log == [Session -> SessionRow \cup {None}]

PlainRequest == [kind : {"create", "patch", "delete", "restore"}, on : Session,
                 pc : {"running?", "write"}, row : SessionRow, asof : Nat]
ImportRequest == [kind : {"import"}, on : SUBSET Session, pc : {"write"}, row : Log, asof : Nat]
TimerOp == [kind : {"start", "stop", "switch"}, on : Session, row : SessionRow, at : Time]
Toast == [on : Session, row : SessionRow]

ASSUME NoneAssumption ==
    /\ None \notin Subtask \cup Session \cup Nat
    /\ None \notin SessionRow /\ None \notin Log /\ None \notin TimerOp /\ None \notin Toast
    /\ None \notin PlainRequest /\ None \notin ImportRequest

Row(c, s, from, to) == [task |-> c, sub |-> s, from |-> from, to |-> to]

Stored == {s \in Session : sess[s] # None}
Open == {s \in Stored : sess[s].to = None}

By(what, at) == [what |-> what, asof |-> at]

Fits(c, s) == s # None => TaskOf[s] = c

(* Bulk writes drop a link that does not fit.                              *)
Linked(r) == IF Fits(r.task, r.sub) THEN r ELSE [r EXCEPT !.sub = None]

(* checkSessionTimes: `to` is None when the row it was read from was open. *)
TimesOK(from, to) ==
    /\ to # None => from < to /\ to <= now + Tolerance
    /\ from <= now + Tolerance

(* Mutant: an open session occupies nothing.                               *)
OverlapsClosed(rows, r, asof, but) ==
    {s \in Stored \ {but} :
        /\ rows[s].task = r.task /\ rows[s].to # None
        /\ r.to # None /\ rows[s].from < r.to /\ rows[s].to > r.from}

(* OVERLAP_PREDICATE, as of an instant: a comparison with NULL is never true. *)
Overlaps(rows, r, asof, but) ==
    {s \in Stored \ {but} :
        /\ rows[s].task = r.task
        /\ r.to # None /\ rows[s].from < r.to
        /\ (IF rows[s].to = None THEN asof ELSE rows[s].to) > r.from}

-----------------------------------------------------------------------------
Starts(t, kind, on, pc, row) ==
    /\ kind \in Kinds /\ reqs[t] = None /\ acts < ActMax /\ now <= Horizon
    /\ acts' = acts + 1
    /\ reqs' = [reqs EXCEPT ![t] = [kind |-> kind, on |-> on, pc |-> pc, row |-> row, asof |-> now]]

At(t, kind, pc) == reqs[t] # None /\ reqs[t].kind = kind /\ reqs[t].pc = pc

Ends(t) == reqs' = [reqs EXCEPT ![t] = None]

Init ==
    /\ sess = [s \in Session |-> None]
    /\ running = None /\ op = None
    /\ reqs = [t \in Thread |-> None]
    /\ undo = None /\ file = None
    /\ now = 0 /\ acts = 0
    /\ made = [s \in Session |-> By("none", 0)]
    /\ used = {}

Tick ==
    /\ now < Horizon
    /\ now' = now + 1
    /\ UNCHANGED <<sess, hub, reqs, undo, file, acts, made, used>>

-----------------------------------------------------------------------------
(* POST /sessions: the checks, then the guarded INSERT with its event.     *)
CreateSession(t) ==
    \E s \in Session \ used, c \in Task, b \in Subtask \cup {None}, from, to \in Time :
        LET r == Row(c, b, from, to) IN
        /\ Fits(c, b) /\ TimesOK(from, to) /\ Overlaps(sess, r, now, None) = {}
        /\ Starts(t, "create", s, "write", r)
        /\ used' = used \cup {s}
        /\ UNCHANGED <<sess, hub, undo, file, now, made>>

(* Mutant: what the request has checked is not checked again.              *)
InsertUnguarded(q) == TRUE

InsertSessionGuarded(q) == Overlaps(sess, q.row, q.asof, None) = {}

CommitCreate(t) ==
    /\ At(t, "create", "write")
    /\ LET q == reqs[t] IN
       IF InsertSessionGuarded(q)
       THEN /\ sess' = [sess EXCEPT ![q.on] = q.row]
            /\ made' = [made EXCEPT ![q.on] = By("guarded", q.asof)]
       ELSE UNCHANGED <<sess, made>>                                \* 409
    /\ Ends(t)
    /\ UNCHANGED <<hub, undo, file, now, acts, used>>

(* PATCH and DELETE read the session, then ask whether it is running.      *)
ReadSession(t, kind) ==
    \E s \in Stored :
        /\ Starts(t, kind, s, "running?", sess[s])
        /\ UNCHANGED <<sess, hub, undo, file, now, made, used>>

(* Mutant: the running session may be edited.                              *)
MayRun(s) == TRUE

NotRunning(s) == s \notin Open

(* What PATCH may make of the row as it was read.                          *)
Patched(r) ==
    {Row(c, b, from, to) : c \in Task, b \in Subtask \cup {None}, from \in Time, to \in {r.to} \cup Time}

PatchSession(t) ==
    /\ At(t, "patch", "running?") /\ NotRunning(reqs[t].on)
    /\ \E r \in Patched(reqs[t].row) :
          /\ Fits(r.task, r.sub) /\ TimesOK(r.from, r.to)
          /\ Overlaps(sess, r, now, reqs[t].on) = {}
          /\ reqs' = [reqs EXCEPT ![t].pc = "write", ![t].row = r, ![t].asof = now]
    /\ UNCHANGED <<sess, hub, undo, file, now, acts, made, used>>

(* 409 running_session, overlap, 422.                                      *)
Refuse(t) ==
    /\ reqs[t] # None /\ reqs[t].pc = "running?"
    /\ Ends(t)
    /\ UNCHANGED <<sess, hub, undo, file, now, acts, made, used>>

UpdateSessionGuarded(q) == q.on \in Stored /\ Overlaps(sess, q.row, q.asof, q.on) = {}

(* The batch fails where it would leave two open sessions.                 *)
CommitPatch(t) ==
    /\ At(t, "patch", "write")
    /\ LET q == reqs[t]
           reopens == q.row.to = None /\ Open \ {q.on} # {}
       IN  IF UpdateSessionGuarded(q) /\ ~reopens
           THEN /\ sess' = [sess EXCEPT ![q.on] = q.row]
                /\ made' = [made EXCEPT ![q.on] = By("guarded", q.asof)]
           ELSE UNCHANGED <<sess, made>>                            \* 404, 409, 500
    /\ Ends(t)
    /\ UNCHANGED <<hub, undo, file, now, acts, used>>

DeleteSession(t) ==
    /\ At(t, "delete", "running?") /\ NotRunning(reqs[t].on)
    /\ reqs' = [reqs EXCEPT ![t].pc = "write"]
    /\ UNCHANGED <<sess, hub, undo, file, now, acts, made, used>>

CommitDelete(t) ==
    /\ At(t, "delete", "write")
    /\ sess' = [sess EXCEPT ![reqs[t].on] = None]
    /\ undo' = [on |-> reqs[t].on, row |-> reqs[t].row]
    /\ Ends(t)
    /\ UNCHANGED <<hub, file, now, acts, made, used>>

-----------------------------------------------------------------------------
(* POST /restore: no overlap is looked for, an open session ends now, and  *)
(* one on a task that somebody else created is left out.                   *)
Restore(t) ==
    /\ undo # None
    /\ Starts(t, "restore", undo.on, "write", [undo.row EXCEPT !.to = IF @ = None THEN now ELSE @])
    /\ undo' = None
    /\ UNCHANGED <<sess, hub, file, now, made, used>>

RestoreSession(t) ==
    /\ At(t, "restore", "write")
    /\ LET q == reqs[t] IN
       IF q.row.from < q.row.to /\ q.row.task \in Mine /\ q.on \notin Stored
       THEN /\ sess' = [sess EXCEPT ![q.on] = Linked(q.row)]
            /\ made' = [made EXCEPT ![q.on] = By("bulk", q.asof)]
       ELSE UNCHANGED <<sess, made>>
    /\ Ends(t)
    /\ UNCHANGED <<hub, undo, file, now, acts, used>>

(* GET /export.                                                            *)
Export ==
    /\ "export" \in Kinds /\ acts < ActMax /\ now <= Horizon
    /\ file' = [s \in Session |-> IF s \in Open THEN None ELSE sess[s]]
    /\ file' # file /\ \E s \in Session : file'[s] # None
    /\ acts' = acts + 1
    /\ UNCHANGED <<sess, hub, reqs, undo, now, made, used>>

(* POST /import of that file in merge mode, in chunks, here of one row.    *)
(* Only a row with the same task and times as another is left out.         *)
Import(t) ==
    /\ file # None
    /\ Starts(t, "import", {s \in Session : file[s] # None}, "write", file)
    /\ UNCHANGED <<sess, hub, undo, file, now, made, used>>

Twin(s, r) == \E o \in Stored \ {s} : /\ sess[o].task = r.task
                                      /\ sess[o].from = r.from /\ sess[o].to = r.to

(* An id that is there keeps its subtask.                                  *)
Merged(s, r) == IF sess[s] = None THEN Linked(r) ELSE [r EXCEPT !.sub = sess[s].sub]

ImportSession(t) ==
    /\ At(t, "import", "write")
    /\ \E s \in reqs[t].on :
          /\ IF Twin(s, reqs[t].row[s]) THEN UNCHANGED <<sess, made>>
             ELSE /\ sess' = [sess EXCEPT ![s] = Merged(s, reqs[t].row[s])]
                  /\ made' = [made EXCEPT ![s] = By("bulk", now)]
          /\ IF reqs[t].on = {s} THEN Ends(t) ELSE reqs' = [reqs EXCEPT ![t].on = @ \ {s}]
    /\ UNCHANGED <<hub, undo, file, now, acts, used>>

-----------------------------------------------------------------------------
(* The timer of the hub: an operation takes the time, then sends its batch. *)
TimerBegins(kind, s, c, b) ==
    /\ kind \in Kinds /\ op = None /\ acts < ActMax /\ now <= Horizon
    /\ acts' = acts + 1
    /\ op' = [kind |-> kind, on |-> s, row |-> Row(c, b, now, None), at |-> now]
    /\ UNCHANGED <<sess, running, reqs, undo, file, now, made>>

TimerStart ==
    /\ running = None
    /\ \E s \in Session \ used, c \in Task, b \in Subtask \cup {None} :
          Fits(c, b) /\ TimerBegins("start", s, c, b) /\ used' = used \cup {s}

TimerStop ==
    /\ running # None
    /\ TimerBegins("stop", running, sess[running].task, None)
    /\ UNCHANGED used

TimerSwitch ==
    /\ running # None
    /\ \E s \in Session \ used, c \in Task, b \in Subtask \cup {None} :
          Fits(c, b) /\ TimerBegins("switch", s, c, b) /\ used' = used \cup {s}

Closed(rows, s, at) == [rows EXCEPT ![s].to = at]

(* idx_sessions_running fails the batch; the hub then asks the mirror.     *)
TimerCommit ==
    /\ op # None
    /\ LET after == IF op.kind = "start" THEN sess ELSE Closed(sess, running, op.at)
           open == {s \in Stored : after[s].to = None}
       IN  IF op.kind = "stop"
           THEN sess' = after /\ running' = None /\ UNCHANGED made
           ELSE IF open = {}
           THEN /\ sess' = [after EXCEPT ![op.on] = op.row]
                /\ running' = op.on
                /\ made' = [made EXCEPT ![op.on] = By(IF op.at = now THEN "timer" ELSE "late", op.at)]
           ELSE UNCHANGED <<sess, running, made>>
    /\ op' = None
    /\ UNCHANGED <<reqs, undo, file, now, acts, used>>

-----------------------------------------------------------------------------
Request(t) ==
    \/ CreateSession(t) \/ CommitCreate(t)
    \/ ReadSession(t, "patch") \/ PatchSession(t) \/ CommitPatch(t)
    \/ ReadSession(t, "delete") \/ DeleteSession(t) \/ CommitDelete(t)
    \/ Refuse(t)
    \/ Restore(t) \/ RestoreSession(t)
    \/ Import(t) \/ ImportSession(t)

Timer == TimerStart \/ TimerStop \/ TimerSwitch \/ TimerCommit

Next == Tick \/ (\E t \in Thread : Request(t)) \/ Export \/ Timer

Spec == Init /\ [][Next]_vars
=============================================================================
