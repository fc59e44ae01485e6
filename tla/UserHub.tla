------------------------------ MODULE UserHub ------------------------------
(***************************************************************************)
(* One user's UserHub Durable Object: the authority for the running timer  *)
(* and for the pomodoro cycle, with the D1 rows it writes (time_sessions,  *)
(* the active_timers mirror), its own durable storage (the 'pomo' key and  *)
(* the alarm) and its memory, which an eviction loses.                     *)
(*                                                                         *)
(* A handler is a thread of steps, cut exactly where the code awaits D1:   *)
(* the object's input gate is open during such an await, so another        *)
(* request may run between two steps.  Storage calls (kv, getAlarm,        *)
(* setAlarm) close the gate and end no step.  reqs[r].pc names the await a *)
(* request is suspended at.  A D1 batch is one step of its own, and the    *)
(* code that resumes after it another: the answer can be late.             *)
(*                                                                         *)
(* Abstractions: a (task, subtask) pair is a member of Task, so            *)
(* validateSubtask is one more way for the check step to answer 4xx; the   *)
(* running session's task and start are those of its row, which nothing    *)
(* edits while it is open; session ids, in the order ulid() makes them,    *)
(* are 1, 2, ...; a tick is longer than the millisecond a switch leaves    *)
(* between two sessions and than rearmAlarm's one second of slack; the     *)
(* events a handler logs and broadcasts are the matter of SyncFeed; and a  *)
(* batch that is under way when the object is evicted has been applied by  *)
(* then, or never is.                                                      *)
(***************************************************************************)
EXTENDS Integers, FiniteSets

CONSTANTS Req,              \* handler threads that can be in flight at once
          Task,             \* (task, subtask) pairs a timer can run on
          None,
          Settings,         \* the pomodoro settings a user may save
          DefaultSettings,  \* UserHub's initial `settings` field
          TwelveHours,      \* the nudge threshold, in ticks
          OneHour,          \* the nudge period, in ticks
          Edits,            \* what other routes do to D1 (see the edit actions)
          Faults,           \* the ways a D1 call may fail in this instance
          SlowHandlers,     \* may the clock tick while a handler is suspended?
          MaxFaults,        \* bound: failed D1 calls
          MaxEvictions,     \* bound: evictions and crashes of the object
          MaxSessions,      \* bound: sessions ever opened
          MaxTime,          \* bound: the clock
          Horizon           \* bound: requests arrive no later than this

SessionId == 1..MaxSessions

SettingsRecord == [enabled : BOOLEAN, focus : Int, brk : Int, auto : BOOLEAN]

ASSUME NoneAssumption == None \notin Int

ASSUME BoundAssumption == MaxSessions \in Nat

ASSUME TimeAssumption == TwelveHours \in Int /\ OneHour \in Int

ASSUME SettingsAssumption == Settings \subseteq SettingsRecord /\ DefaultSettings \in SettingsRecord

VARIABLES
    rows,      \* D1 time_sessions: what is known of each session id
    mirror,    \* D1 active_timers: the session the recovery row names, or None
    taskState, \* D1 tasks and projects: "live", "archived" or "deleted"
    settings,  \* D1 settings row
    kvPomo,    \* DO storage: the 'pomo' key, or None
    alarm,     \* DO storage: the time the alarm is set to, or None
    loaded,    \* memory: ensureLoaded has finished
    running,   \* memory: the running session, or None
    pomo,      \* memory: the pomodoro state
    cfg,       \* memory: the settings in force
    nudgeAt,   \* memory: nudgeNextAt
    reqs,      \* memory: the handlers in flight
    notes,     \* /notify calls on their way to the object
    clock, nextId, faults, evictions

dbvars  == <<rows, mirror>>
orgvars == <<taskState, settings, notes>>
dovars  == <<kvPomo, alarm>>
memvars == <<loaded, running, pomo, cfg, nudgeAt>>
othervars == <<dbvars, orgvars, dovars, memvars, clock, nextId, faults, evictions>>   \* all but reqs
vars    == <<rows, mirror, taskState, settings, kvPomo, alarm, loaded, running,
             pomo, cfg, nudgeAt, reqs, notes, clock, nextId, faults, evictions>>

-----------------------------------------------------------------------------
(* Pomodoro states *)

IdlePomo == [phase |-> "idle", task |-> None, acc |-> 0, resume |-> None, ends |-> None]

FocusPomo(t, at) == [IdlePomo EXCEPT !.phase = "focus", !.task = t, !.resume = at]

ReadyPomo(t) == [IdlePomo EXCEPT !.phase = "ready", !.task = t]

(* Focus time including the segment in flight. *)
Live(p, now) == p.acc + (IF p.resume # None THEN now - p.resume ELSE 0)

(* Mutant: a stop forgets to freeze. *)
NotFrozen(p, at) == p

(* Tracking stops: the segment in flight joins the accumulated time. *)
Frozen(p, at) == IF p.phase = "focus" /\ p.resume # None
                 THEN [p EXCEPT !.acc = @ + (at - p.resume), !.resume = None]
                 ELSE p

(* Tracking resumes: a segment in flight is left alone. *)
Resumed(p, at) == IF p.resume = None THEN [p EXCEPT !.resume = at] ELSE p

-----------------------------------------------------------------------------
(* The alarm *)

NudgeDue(run, nudge) == IF nudge # None THEN nudge ELSE rows[run].start + TwelveHours

(* Mutants: a deadline is left out. *)
NoBreakDeadline(p) == {}
NoFocusDeadline(p, run, s) == {}

BreakDeadline(p) == IF p.phase = "break" /\ p.ends # None THEN {p.ends} ELSE {}

FocusDeadline(p, run, s) == IF p.phase = "focus" /\ run # None /\ Live(p, clock) < s.focus
                            THEN {clock + s.focus - Live(p, clock)} ELSE {}

NudgeDeadline(run, nudge) == IF run # None /\ NudgeDue(run, nudge) > clock
                             THEN {NudgeDue(run, nudge)} ELSE {}

Deadlines(p, run, s, nudge) ==
    BreakDeadline(p) \cup FocusDeadline(p, run, s) \cup NudgeDeadline(run, nudge)

Earliest(S) == CHOOSE t \in S : \A u \in S : t <= u

(* rearmAlarm sets the alarm to the next deadline; it never deletes one. *)
Rearm == LET due == Deadlines(pomo', running', cfg', nudgeAt')
         IN  alarm' = IF due = {} THEN alarm ELSE Earliest(due)

-----------------------------------------------------------------------------
(* D1 *)

NoRow == [st |-> "none", task |-> None, start |-> 0, end |-> 0]

NoFault == UNCHANGED faults

(* A D1 call fails in way f. *)
Fault(f) == f \in Faults /\ faults < MaxFaults /\ faults' = faults + 1

(* Mutant: a session of no length is deleted instead. *)
EndedOrDropped(rs, s, at) == IF rs[s].start = at THEN [rs EXCEPT ![s] = NoRow]
                             ELSE [rs EXCEPT ![s].st = "ended", ![s].end = at]

(* UPDATE time_sessions SET ended_at = at WHERE id = s: also on an ended row. *)
Ended(rs, s, at) == [rs EXCEPT ![s].st = "ended", ![s].end = at]

Inserted(rs, s, t, at) == [rs EXCEPT ![s] = [st |-> "open", task |-> t, start |-> at, end |-> 0]]

(* idx_sessions_running: at most one row with ended_at NULL per user. *)
IndexAllowsOpen(rs) == \A s \in SessionId : rs[s].st # "open"

(* A batch is a transaction.  It applies and is acknowledged; or applies and
   the answer is lost; or is rejected, by the index or by a fault. *)
Batch(legal, apply, acknowledged, failed) ==
    \/ legal /\ apply /\ acknowledged /\ NoFault
    \/ legal /\ apply /\ failed /\ Fault("unacknowledged")
    \/ UNCHANGED dbvars /\ failed /\ (IF legal THEN Fault("rejected") ELSE NoFault)

(* loadRunningFromD1: the session the mirror names; a failed read is null. *)
ReadMirror(s) == \/ s = mirror /\ NoFault
                 \/ s = None /\ Fault("unreadable")

-----------------------------------------------------------------------------
(* Handler threads *)

Free == [pc |-> "free", from |-> "fetch", task |-> None, sess |-> None,
         old |-> None, at |-> 0, stage |-> "none", engaged |-> FALSE]

At(r, pc) == reqs[r].pc = pc

Thread(pc) == [Free EXCEPT !.pc = pc]

(* Thread r becomes h; goes on to the await pc; replies. *)
Put(r, h) == reqs' = [reqs EXCEPT ![r] = h]

Goto(r, pc) == Put(r, [reqs[r] EXCEPT !.pc = pc])

Done(r) == Put(r, Free)

(* The alarm handler: before its first stage, and with only rearmAlarm left. *)
AlarmBody(now) == [Thread("alarm") EXCEPT !.from = "alarm", !.stage = "nudge", !.at = now]

AlarmTail == [AlarmBody(0) EXCEPT !.stage = "end"]

(* Mutant: the cycle is not saved. *)
RearmUnsaved(r) ==
    /\ UNCHANGED kvPomo
    /\ IF running' # None THEN Put(r, Thread("rearm")) /\ UNCHANGED alarm
                          ELSE Done(r) /\ Rearm

(* pomo' is set: persist it, rearm the alarm and reply.  persistPomo awaits D1
   when a timer runs (the mirror's copy, never read back); otherwise the code
   runs on. *)
PersistRearm(r) ==
    /\ kvPomo' = pomo'
    /\ IF running' # None THEN Put(r, Thread("rearm")) /\ UNCHANGED alarm
                          ELSE Done(r) /\ Rearm

(* A break begins. *)
BreakBegins(r) ==
    /\ pomo' = [phase |-> "break", task |-> pomo.task, acc |-> 0, resume |-> None,
                ends |-> clock + cfg.brk]
    /\ PersistRearm(r)

(* timerStart and timerStop return to the handler that called them; they have
   just awaited D1 when they succeed. *)
Succeed(r) == Put(r, CASE reqs[r].from = "pomoBreak" -> Thread("break.set")
                       [] reqs[r].from = "alarm"     -> AlarmTail
                       [] OTHER                      -> Free)

(* pomoBreak ignores the failure; an auto-start rolls back to "ready". *)
Fail(r) ==
    CASE reqs[r].from = "pomoBreak" -> BreakBegins(r)
      [] reqs[r].from = "alarm" ->
            /\ pomo' = ReadyPomo(reqs[r].task) /\ kvPomo' = pomo'
            /\ Put(r, AlarmTail) /\ UNCHANGED alarm
      [] OTHER -> Done(r) /\ UNCHANGED <<pomo, dovars>>

-----------------------------------------------------------------------------
(* ensureLoaded.  A request that finds `loaded` false runs all of it, however
   many others are doing so and whatever happened meanwhile. *)

Load(r) ==
    /\ At(r, "free") /\ ~loaded /\ clock <= Horizon
    /\ Put(r, Thread("load"))
    /\ UNCHANGED othervars

(* An unreadable settings row reads as {}: the mode is off, durations stay. *)
LoadSettings(r) ==
    /\ At(r, "load")
    /\ \/ cfg' = settings /\ NoFault
       \/ cfg' = [cfg EXCEPT !.enabled = FALSE, !.auto = FALSE] /\ Fault("unreadable")
    /\ Goto(r, "load.mirror")
    /\ UNCHANGED <<dbvars, orgvars, dovars, loaded, running, pomo, nudgeAt,
                   clock, nextId, evictions>>

LoadMirror(r) ==
    /\ At(r, "load.mirror")
    /\ \E s \in SessionId \cup {None} :
          ReadMirror(s) /\ Put(r, [reqs[r] EXCEPT !.pc = "load.pomo", !.sess = s])
    /\ UNCHANGED <<dbvars, orgvars, dovars, memvars, clock, nextId, evictions>>

LoadPomo(r) ==
    /\ At(r, "load.pomo")
    /\ running' = reqs[r].sess
    /\ LET stored == IF kvPomo # None THEN kvPomo ELSE pomo
           seeded == stored.phase = "focus" /\ running' # None /\ stored.resume = None
       IN  /\ pomo' = IF seeded THEN Resumed(stored, clock) ELSE stored
           /\ kvPomo' = IF seeded THEN pomo' ELSE kvPomo
    /\ Goto(r, "load.done")
    /\ UNCHANGED <<dbvars, orgvars, alarm, loaded, cfg, nudgeAt, clock, nextId, faults, evictions>>

LoadDone(r) ==
    /\ At(r, "load.done")
    /\ loaded' = TRUE
    /\ UNCHANGED <<running, pomo, cfg, nudgeAt>>
    /\ Rearm
    /\ Put(r, IF reqs[r].from = "alarm" THEN AlarmBody(clock) ELSE Thread("ready"))
    /\ UNCHANGED <<dbvars, orgvars, kvPomo, clock, nextId, faults, evictions>>

(* A fetch reaches its handler: the object is loaded, or this one loaded it. *)
Entering(r) == (At(r, "free") /\ loaded /\ clock <= Horizon) \/ At(r, "ready")

(* Every thread in flight can still open a session within the bound. *)
Room == nextId + Cardinality(Req) - 1 <= MaxSessions

(* The answers that change nothing: GET /state, 409 already_running and
   not_running, 422, a skip of an idle cycle. *)
Refuse(r) ==
    /\ At(r, "ready")
    /\ Done(r)
    /\ UNCHANGED othervars

-----------------------------------------------------------------------------
(* timerStart *)

StartThread(t, from) == [Thread("start.check") EXCEPT !.from = from, !.task = t]

TimerStart(r) ==
    /\ Entering(r) /\ Room
    /\ running = None
    /\ \E t \in Task : Put(r, StartThread(t, "fetch"))
    /\ UNCHANGED othervars

(* The task is live, so the cycle engages, the session is built and the batch
   is sent; nobody looks at `running` again. *)
StartCheck(r) ==
    /\ At(r, "start.check") /\ nextId \in SessionId
    /\ taskState[reqs[r].task] = "live"
    /\ LET engaged == reqs[r].from = "fetch" /\ cfg.enabled
       IN  /\ pomo' = IF engaged /\ pomo.phase # "focus"
                      THEN FocusPomo(reqs[r].task, clock) ELSE pomo
           /\ Put(r, [reqs[r] EXCEPT !.pc = "start.batch", !.sess = nextId, !.at = clock,
                                      !.engaged = engaged])
    /\ nextId' = nextId + 1
    /\ UNCHANGED <<dbvars, orgvars, dovars, loaded, running, cfg, nudgeAt, clock, faults, evictions>>

StartNotFound(r) ==
    /\ At(r, "start.check")
    /\ taskState[reqs[r].task] # "live"
    /\ UNCHANGED <<loaded, running, cfg, nudgeAt>>
    /\ Fail(r)
    /\ UNCHANGED <<dbvars, orgvars, clock, nextId, faults, evictions>>

(* Mutants: the insert is not mirrored; a failed batch counts as confirmed. *)
StartUnmirrored(r) ==
    /\ At(r, "start.batch")
    /\ Batch(IndexAllowsOpen(rows),
             rows' = Inserted(rows, reqs[r].sess, reqs[r].task, reqs[r].at) /\ UNCHANGED mirror,
             Goto(r, "start.done"), Goto(r, "resync"))
    /\ UNCHANGED <<orgvars, dovars, memvars, clock, nextId, evictions>>

StartAnyway(r) ==
    /\ At(r, "start.batch")
    /\ LET q == reqs[r]
       IN  Batch(IndexAllowsOpen(rows),
                 rows' = Inserted(rows, q.sess, q.task, q.at) /\ mirror' = q.sess,
                 Goto(r, "start.done"), Goto(r, "start.done"))
    /\ UNCHANGED <<orgvars, dovars, memvars, clock, nextId, evictions>>

StartBatch(r) ==
    /\ At(r, "start.batch")
    /\ LET q == reqs[r]
       IN  Batch(IndexAllowsOpen(rows),
                 rows' = Inserted(rows, q.sess, q.task, q.at) /\ mirror' = q.sess,
                 Goto(r, "start.done"), Goto(r, "resync"))
    /\ UNCHANGED <<orgvars, dovars, memvars, clock, nextId, evictions>>

(* Memory advances; then the friends are told (an await). *)
StartDone(r) ==
    /\ At(r, "start.done")
    /\ running' = reqs[r].sess /\ nudgeAt' = None
    /\ Goto(r, "start.pomo")
    /\ UNCHANGED <<dbvars, orgvars, dovars, loaded, pomo, cfg, clock, nextId, faults, evictions>>

(* In a focus phase the segment starts at the session's start and is saved. *)
StartPomo(r) ==
    /\ At(r, "start.pomo")
    /\ UNCHANGED <<loaded, running, cfg, nudgeAt>>
    /\ IF pomo.phase = "focus"
       THEN /\ pomo' = [Resumed(pomo, reqs[r].at) EXCEPT
                            !.task = IF @ = None THEN reqs[r].task ELSE @]
            /\ kvPomo' = pomo'
            /\ IF running # None THEN Goto(r, "start.rearm") /\ UNCHANGED alarm
                                 ELSE Succeed(r) /\ Rearm
       ELSE UNCHANGED <<pomo, dovars>> /\ Succeed(r)
    /\ UNCHANGED <<dbvars, orgvars, clock, nextId, faults, evictions>>

StartRearm(r) ==
    /\ At(r, "start.rearm")
    /\ UNCHANGED memvars /\ Rearm
    /\ Succeed(r)
    /\ UNCHANGED <<dbvars, orgvars, kvPomo, clock, nextId, faults, evictions>>

(* A batch of start, stop or switch failed: memory is what the mirror says. *)
Resync(r) ==
    /\ At(r, "resync")
    /\ \E s \in SessionId \cup {None} :
          ReadMirror(s) /\ Put(r, [reqs[r] EXCEPT !.pc = "resynced", !.sess = s])
    /\ UNCHANGED <<dbvars, orgvars, dovars, memvars, clock, nextId, evictions>>

Resynced(r) ==
    /\ At(r, "resynced")
    /\ running' = reqs[r].sess
    /\ UNCHANGED <<loaded, cfg, nudgeAt>>
    /\ Fail(r)
    /\ UNCHANGED <<dbvars, orgvars, clock, nextId, faults, evictions>>

-----------------------------------------------------------------------------
(* timerStop *)

StopThread(from) == [Thread("stop.batch") EXCEPT !.from = from,
                                 !.sess = running, !.at = clock]

TimerStop(r) ==
    /\ Entering(r)
    /\ running # None
    /\ Put(r, StopThread("fetch"))
    /\ UNCHANGED othervars

(* Mutant: the recovery row stays. *)
StopUnmirrored(r) ==
    /\ At(r, "stop.batch")
    /\ Batch(TRUE,
             rows' = Ended(rows, reqs[r].sess, reqs[r].at) /\ UNCHANGED mirror,
             Goto(r, "stop.done"), Goto(r, "resync"))
    /\ UNCHANGED <<orgvars, dovars, memvars, clock, nextId, evictions>>

(* Ends the session it read, and deletes the user's mirror row whatever it names. *)
StopBatch(r) ==
    /\ At(r, "stop.batch")
    /\ Batch(TRUE,
             rows' = Ended(rows, reqs[r].sess, reqs[r].at) /\ mirror' = None,
             Goto(r, "stop.done"), Goto(r, "resync"))
    /\ UNCHANGED <<orgvars, dovars, memvars, clock, nextId, evictions>>

(* Focus freezes; persisting it suspends the handler with `running` still set. *)
StopFreeze(r) ==
    /\ At(r, "stop.done")
    /\ Frozen(pomo, reqs[r].at) # pomo /\ running # None
    /\ pomo' = Frozen(pomo, reqs[r].at) /\ kvPomo' = pomo'
    /\ Goto(r, "stop.clear")
    /\ UNCHANGED <<dbvars, orgvars, alarm, loaded, running, cfg, nudgeAt,
                   clock, nextId, faults, evictions>>

(* Mutant: `running` is left set. *)
StopUncleared(r) ==
    /\ At(r, "stop.clear") \/ At(r, "stop.done")
    /\ pomo' = IF At(r, "stop.done") THEN Frozen(pomo, reqs[r].at) ELSE pomo
    /\ kvPomo' = IF pomo' = pomo THEN kvPomo ELSE pomo'
    /\ UNCHANGED <<loaded, running, cfg, nudgeAt>>
    /\ Rearm
    /\ Succeed(r)
    /\ UNCHANGED <<dbvars, orgvars, clock, nextId, faults, evictions>>

StopClear(r) ==
    /\ \/ At(r, "stop.clear") /\ UNCHANGED <<pomo, kvPomo>>
       \/ /\ At(r, "stop.done")
          /\ running = None \/ Frozen(pomo, reqs[r].at) = pomo
          /\ pomo' = Frozen(pomo, reqs[r].at)
          /\ kvPomo' = IF pomo' = pomo THEN kvPomo ELSE pomo'
    /\ running' = None /\ nudgeAt' = None
    /\ UNCHANGED <<loaded, cfg>>
    /\ Rearm
    /\ Succeed(r)
    /\ UNCHANGED <<dbvars, orgvars, clock, nextId, faults, evictions>>

-----------------------------------------------------------------------------
(* timerSwitch *)

TimerSwitch(r) ==
    /\ Entering(r) /\ Room
    /\ \E t \in Task :
          Put(r, IF running = None THEN StartThread(t, "fetch")   \* tolerated as a start
                 ELSE [Thread("switch.check") EXCEPT !.task = t])
    /\ UNCHANGED othervars

(* 404 and 422; the TypeError of reading running.task_id after another request
   stopped the timer (500); or the same target, nothing to switch. *)
SwitchRefused(r) ==
    /\ At(r, "switch.check")
    /\ \/ taskState[reqs[r].task] = "archived"
       \/ running = None
       \/ running # None /\ rows[running].task = reqs[r].task
    /\ Done(r)
    /\ UNCHANGED othervars

(* The lookup asks for the task and its project, not whether they are live. *)
Switchable(t) == taskState[t] # "archived"

SwitchCheck(r) ==
    /\ At(r, "switch.check") /\ nextId \in SessionId
    /\ Switchable(reqs[r].task)
    /\ running # None /\ rows[running].task # reqs[r].task
    /\ pomo' = IF cfg.enabled /\ pomo.phase # "idle"
               THEN [pomo EXCEPT !.task = reqs[r].task] ELSE pomo
    /\ Put(r, [reqs[r] EXCEPT !.pc = "switch.batch", !.sess = nextId, !.old = running,
                               !.at = clock, !.engaged = cfg.enabled])
    /\ nextId' = nextId + 1
    /\ UNCHANGED <<dbvars, orgvars, dovars, loaded, running, cfg, nudgeAt, clock, faults, evictions>>

(* Mutant: the old session ends when the batch runs, not when the new one starts. *)
SwitchLate(r) ==
    /\ At(r, "switch.batch")
    /\ LET q == reqs[r]
           ended == Ended(rows, q.old, clock)
       IN  Batch(IndexAllowsOpen(ended),
                 /\ rows' = Inserted(ended, q.sess, q.task, q.at)
                 /\ mirror' = IF mirror = None THEN None ELSE q.sess,
                 Goto(r, "switch.done"), Goto(r, "resync"))
    /\ UNCHANGED <<orgvars, dovars, memvars, clock, nextId, evictions>>

(* One transaction: end the old row, insert the new one, point the mirror row,
   if there is one, at it. *)
SwitchBatch(r) ==
    /\ At(r, "switch.batch")
    /\ LET q == reqs[r]
           ended == Ended(rows, q.old, q.at)
       IN  Batch(IndexAllowsOpen(ended),
                 /\ rows' = Inserted(ended, q.sess, q.task, q.at)
                 /\ mirror' = IF mirror = None THEN None ELSE q.sess,
                 Goto(r, "switch.done"), Goto(r, "resync"))
    /\ UNCHANGED <<orgvars, dovars, memvars, clock, nextId, evictions>>

SwitchDone(r) ==
    /\ At(r, "switch.done")
    /\ running' = reqs[r].sess /\ nudgeAt' = None
    /\ UNCHANGED <<loaded, pomo, cfg>>
    /\ IF reqs[r].engaged
       THEN kvPomo' = pomo /\ Goto(r, "rearm") /\ UNCHANGED alarm
       ELSE Rearm /\ Done(r) /\ UNCHANGED kvPomo
    /\ UNCHANGED <<dbvars, orgvars, clock, nextId, faults, evictions>>

-----------------------------------------------------------------------------
(* The last await of several handlers was persistPomo's; they rearm and reply. *)
RearmAndReply(r) ==
    /\ At(r, "rearm")
    /\ UNCHANGED memvars /\ Rearm
    /\ Done(r)
    /\ UNCHANGED <<dbvars, orgvars, kvPomo, clock, nextId, faults, evictions>>

-----------------------------------------------------------------------------
(* pomoStart, pomoBreak, pomoSkip *)

(* With no timer: start one on the named task or the cycle's, or 422 no_task. *)
PomoStartTimer(t, p) ==
    LET target == IF t # None THEN t ELSE p.task
    IN  IF target = None THEN Free ELSE StartThread(target, "pomoStart")

(* Focus begins from every phase but focus, before a target task is known. *)
PomoStart(r) ==
    /\ Entering(r) /\ Room
    /\ \E t \in Task \cup {None} :
       LET anchor == IF t # None THEN t
                     ELSE IF running # None THEN rows[running].task ELSE None
       IN  /\ pomo' = IF pomo.phase = "focus" THEN pomo ELSE FocusPomo(anchor, None)
           /\ kvPomo' = pomo'
           /\ Put(r, IF running # None THEN [Thread("pomoStart") EXCEPT !.task = t]
                     ELSE PomoStartTimer(t, pomo'))
    /\ UNCHANGED <<dbvars, orgvars, alarm, loaded, running, cfg, nudgeAt,
                   clock, nextId, faults, evictions>>

PomoStartCont(r) ==
    /\ At(r, "pomoStart")
    /\ IF running = None
       THEN Put(r, PomoStartTimer(reqs[r].task, pomo)) /\ UNCHANGED <<pomo, kvPomo>>
       ELSE IF pomo.phase = "focus"
       THEN /\ pomo' = Resumed(pomo, clock) /\ kvPomo' = pomo'
            /\ Goto(r, "rearm")
       ELSE UNCHANGED <<pomo, kvPomo>> /\ Goto(r, "rearm")
    /\ UNCHANGED <<dbvars, orgvars, alarm, loaded, running, cfg, nudgeAt,
                   clock, nextId, faults, evictions>>

(* Mutant: the timer keeps running. *)
BreakWhileRunning(r) ==
    /\ Entering(r)
    /\ UNCHANGED <<loaded, running, cfg, nudgeAt>>
    /\ BreakBegins(r)
    /\ UNCHANGED <<dbvars, orgvars, clock, nextId, faults, evictions>>

(* The timer is stopped first; the answer of timerStop is not looked at. *)
PomoBreak(r) ==
    /\ Entering(r)
    /\ UNCHANGED <<loaded, running, cfg, nudgeAt>>
    /\ IF running # None
       THEN Put(r, StopThread("pomoBreak")) /\ UNCHANGED <<pomo, dovars>>
       ELSE BreakBegins(r)
    /\ UNCHANGED <<dbvars, orgvars, clock, nextId, faults, evictions>>

BreakSet(r) ==
    /\ At(r, "break.set")
    /\ UNCHANGED <<loaded, running, cfg, nudgeAt>>
    /\ BreakBegins(r)
    /\ UNCHANGED <<dbvars, orgvars, clock, nextId, faults, evictions>>

PomoSkip(r) ==
    /\ Entering(r)
    /\ pomo.phase # "idle"
    /\ pomo' = IdlePomo
    /\ UNCHANGED <<loaded, running, cfg, nudgeAt>>
    /\ PersistRearm(r)
    /\ UNCHANGED <<dbvars, orgvars, clock, nextId, faults, evictions>>

-----------------------------------------------------------------------------
(* /notify *)

(* applySettings: the event of PUT /settings carries the whole settings; the
   one of PATCH /me carries none, and reads as the mode being off. *)
Applied(n) == IF n.kind = "settings" THEN n.set
              ELSE [cfg EXCEPT !.enabled = FALSE, !.auto = FALSE]

NotifySettings(r) ==
    /\ Entering(r)
    /\ \E n \in notes :
          /\ n.kind \in {"settings", "profile"}
          /\ notes' = notes \ {n}
          /\ cfg' = Applied(n)
    /\ UNCHANGED <<loaded, running, nudgeAt>>
    /\ IF ~cfg'.enabled /\ pomo.phase # "idle"
       THEN pomo' = IdlePomo /\ PersistRearm(r)
       ELSE UNCHANGED <<pomo, dovars>> /\ Done(r)
    /\ UNCHANGED <<dbvars, taskState, settings, clock, nextId, faults, evictions>>

(* invalidateDeletedTasks: a cycle anchored to the deleted task is cancelled,
   in memory. *)
AnchorGone(t) == IF pomo.task = t THEN IdlePomo ELSE pomo

NotifyDeleted(r) ==
    /\ Entering(r)
    /\ \E n \in notes :
          /\ n.kind = "deleted"
          /\ notes' = notes \ {n}
          /\ UNCHANGED <<loaded, running, cfg, nudgeAt>>
          /\ IF running # None /\ rows[running].task = n.task
             THEN /\ Put(r, [StopThread("fetch") EXCEPT !.pc = "gone.batch", !.task = n.task])
                  /\ UNCHANGED <<pomo, alarm>>
             ELSE /\ pomo' = AnchorGone(n.task)
                  /\ IF pomo' # pomo THEN Rearm ELSE UNCHANGED alarm
                  /\ Done(r)
    /\ UNCHANGED <<dbvars, taskState, settings, kvPomo, clock, nextId, faults, evictions>>

(* Not caught: a failed batch abandons the notification. *)
GoneBatch(r) ==
    /\ At(r, "gone.batch")
    /\ Batch(TRUE,
             rows' = Ended(rows, reqs[r].sess, reqs[r].at) /\ mirror' = None,
             Goto(r, "gone.done"), Done(r))
    /\ UNCHANGED <<orgvars, dovars, memvars, clock, nextId, evictions>>

(* Mutant: `running` is left set. *)
GoneUncleared(r) ==
    /\ At(r, "gone.done")
    /\ UNCHANGED <<running, nudgeAt>>
    /\ pomo' = Frozen(pomo, reqs[r].at) /\ kvPomo' = pomo'
    /\ Goto(r, "gone.anchor")
    /\ UNCHANGED <<dbvars, orgvars, alarm, loaded, cfg, clock, nextId, faults, evictions>>

GoneDone(r) ==
    /\ At(r, "gone.done")
    /\ running' = None /\ nudgeAt' = None
    /\ pomo' = Frozen(pomo, reqs[r].at) /\ kvPomo' = pomo'
    /\ Goto(r, "gone.anchor")
    /\ UNCHANGED <<dbvars, orgvars, alarm, loaded, cfg, clock, nextId, faults, evictions>>

GoneAnchor(r) ==
    /\ At(r, "gone.anchor")
    /\ pomo' = AnchorGone(reqs[r].task)
    /\ UNCHANGED <<loaded, running, cfg, nudgeAt>>
    /\ Rearm
    /\ Done(r)
    /\ UNCHANGED <<dbvars, orgvars, kvPomo, clock, nextId, faults, evictions>>

-----------------------------------------------------------------------------
(* alarm: its stages run on until one has to await D1.  stage is the first
   stage still ahead, `at` the time the handler read when it began. *)

NudgeIsDue(q) == q.stage = "nudge" /\ running # None /\ q.at >= NudgeDue(running, nudgeAt)

FocusIsOver(q) == /\ q.stage \in {"nudge", "focus"} /\ pomo.phase = "focus" /\ running # None
                  /\ Live(pomo, q.at) >= cfg.focus

BreakIsOver(q) == /\ q.stage # "end" /\ pomo.phase = "break"
                  /\ pomo.ends # None /\ q.at >= pomo.ends

Alarming(r) == \E q \in Req \ {r} : reqs[q].from = "alarm"

AlarmFires(r) ==
    /\ At(r, "free") /\ ~Alarming(r)
    /\ alarm # None /\ alarm <= clock
    /\ alarm' = None
    /\ Put(r, IF loaded THEN AlarmBody(clock) ELSE [Thread("load") EXCEPT !.from = "alarm"])
    /\ UNCHANGED <<dbvars, orgvars, kvPomo, memvars, clock, nextId, faults, evictions>>

AlarmNudge(r) ==
    /\ At(r, "alarm") /\ NudgeIsDue(reqs[r])
    /\ nudgeAt' = reqs[r].at + OneHour
    /\ Put(r, [reqs[r] EXCEPT !.stage = "focus"])
    /\ UNCHANGED <<dbvars, orgvars, dovars, loaded, running, pomo, cfg,
                   clock, nextId, faults, evictions>>

AlarmDecide(r) ==
    /\ At(r, "alarm") /\ ~NudgeIsDue(reqs[r]) /\ FocusIsOver(reqs[r])
    /\ pomo' = [pomo EXCEPT !.phase = "decide", !.acc = IF @ < cfg.focus THEN cfg.focus ELSE @]
    /\ kvPomo' = pomo'
    /\ Put(r, [reqs[r] EXCEPT !.stage = "break"])
    /\ UNCHANGED <<dbvars, orgvars, alarm, loaded, running, cfg, nudgeAt,
                   clock, nextId, faults, evictions>>

AlarmBreakOver(r) ==
    /\ At(r, "alarm") /\ ~NudgeIsDue(reqs[r]) /\ BreakIsOver(reqs[r])
    /\ pomo' = [pomo EXCEPT !.phase = "ready", !.ends = None]
    /\ kvPomo' = pomo'
    /\ Goto(r, "alarm.auto")
    /\ UNCHANGED <<dbvars, orgvars, alarm, loaded, running, cfg, nudgeAt,
                   clock, nextId, faults, evictions>>

(* Auto-start, if configured: focus again, on a timer of its own if none runs. *)
AlarmAuto(r) ==
    /\ At(r, "alarm.auto")
    /\ UNCHANGED <<loaded, running, cfg, nudgeAt>>
    /\ IF cfg.auto /\ pomo.task # None
       THEN /\ pomo' = FocusPomo(pomo.task, None)
            /\ Put(r, IF running = None THEN StartThread(pomo.task, "alarm") ELSE AlarmTail)
            /\ UNCHANGED alarm
       ELSE UNCHANGED pomo /\ Rearm /\ Done(r)
    /\ UNCHANGED <<dbvars, orgvars, kvPomo, clock, nextId, faults, evictions>>

AlarmRearm(r) ==
    /\ At(r, "alarm")
    /\ ~NudgeIsDue(reqs[r]) /\ ~FocusIsOver(reqs[r]) /\ ~BreakIsOver(reqs[r])
    /\ UNCHANGED memvars /\ Rearm
    /\ Done(r)
    /\ UNCHANGED <<dbvars, orgvars, kvPomo, clock, nextId, faults, evictions>>

(* A D1 call that nobody catches throws: the task lookup of timerStart and
   timerSwitch, the sync_log append of the alarm and of invalidateDeletedTasks.
   The runtime retries an alarm. *)
Throws(r) ==
    /\ \/ (At(r, "start.check") \/ At(r, "switch.check")) /\ Fault("unreadable")
       \/ /\ \/ At(r, "alarm") /\ reqs[r].stage # "nudge"
             \/ At(r, "alarm.auto")
             \/ At(r, "gone.anchor")
          /\ Fault("rejected")
    /\ alarm' = IF reqs[r].from = "alarm" /\ alarm = None THEN clock ELSE alarm
    /\ Done(r)
    /\ UNCHANGED <<dbvars, orgvars, kvPomo, memvars, clock, nextId, evictions>>

-----------------------------------------------------------------------------
(* What happens around the object *)

(* PUT /settings: the row and its event commit together; then the notify. *)
SaveSettings ==
    /\ "settings" \in Edits
    /\ \E s \in Settings :
          /\ settings' = s
          /\ notes' = notes \cup {[kind |-> "settings", set |-> s, task |-> None]}
    /\ UNCHANGED <<dbvars, taskState, dovars, memvars, reqs, clock, nextId, faults, evictions>>

(* PATCH /me announces a profile change with the same event type. *)
PatchProfile ==
    /\ "profile" \in Edits
    /\ notes' = notes \cup {[kind |-> "profile", set |-> None, task |-> None]}
    /\ UNCHANGED <<dbvars, taskState, settings, dovars, memvars, reqs,
                   clock, nextId, faults, evictions>>

(* DELETE /tasks/:id (and a project's, for each of its tasks). *)
TombstoneTask ==
    /\ "tombstone" \in Edits
    /\ \E t \in Task :
          /\ taskState[t] # "deleted"
          /\ taskState' = [taskState EXCEPT ![t] = "deleted"]
          /\ notes' = notes \cup {[kind |-> "deleted", set |-> None, task |-> t]}
    /\ UNCHANGED <<dbvars, settings, dovars, memvars, reqs, clock, nextId, faults, evictions>>

(* DELETE /groups/:id tombstones the group's tasks; its event is group.deleted,
   which the hub only relays. *)
DeleteGroup ==
    /\ "group" \in Edits
    /\ \E t \in Task :
          /\ taskState[t] # "deleted"
          /\ taskState' = [taskState EXCEPT ![t] = "deleted"]
    /\ UNCHANGED <<dbvars, settings, notes, dovars, memvars, reqs, clock, nextId, faults, evictions>>

(* PATCH /projects/:id archives and restores; nothing tells the hub. *)
ArchiveProject ==
    /\ "archive" \in Edits
    /\ \E t \in Task :
          /\ taskState[t] # "deleted"
          /\ taskState' = [taskState EXCEPT ![t] = IF @ = "live" THEN "archived" ELSE "live"]
    /\ UNCHANGED <<dbvars, settings, notes, dovars, memvars, reqs, clock, nextId, faults, evictions>>

(* POST /restore clears the tombstone. *)
UndoDelete ==
    /\ "undo" \in Edits
    /\ \E t \in Task :
          /\ taskState[t] = "deleted"
          /\ taskState' = [taskState EXCEPT ![t] = "live"]
    /\ UNCHANGED <<dbvars, settings, notes, dovars, memvars, reqs, clock, nextId, faults, evictions>>

(* notifyHub is best effort. *)
LoseNotify ==
    /\ Fault("unnotified")
    /\ \E n \in notes : notes' = notes \ {n}
    /\ UNCHANGED <<dbvars, taskState, settings, dovars, memvars, reqs, clock, nextId, evictions>>

(* The object is evicted, or crashes: memory and threads go, storage stays.
   An interrupted alarm is retried. *)
Evict ==
    /\ evictions < MaxEvictions
    /\ evictions' = evictions + 1
    /\ loaded' = FALSE /\ running' = None /\ pomo' = IdlePomo
    /\ cfg' = DefaultSettings /\ nudgeAt' = None
    /\ reqs' = [r \in Req |-> Free]
    /\ alarm' = IF alarm = None /\ \E r \in Req : reqs[r].from = "alarm" THEN clock ELSE alarm
    /\ UNCHANGED <<dbvars, orgvars, kvPomo, clock, nextId, faults>>

Tick ==
    /\ clock < MaxTime
    /\ SlowHandlers \/ \A r \in Req : At(r, "free")
    /\ clock' = clock + 1
    /\ UNCHANGED <<dbvars, orgvars, dovars, memvars, reqs, nextId, faults, evictions>>

-----------------------------------------------------------------------------
Init ==
    /\ rows = [s \in SessionId |-> NoRow] /\ mirror = None
    /\ taskState = [t \in Task |-> "live"] /\ settings \in Settings
    /\ kvPomo = None /\ alarm = None
    /\ loaded = FALSE /\ running = None /\ pomo = IdlePomo
    /\ cfg = DefaultSettings /\ nudgeAt = None
    /\ reqs = [r \in Req |-> Free] /\ notes = {}
    /\ clock = 1 /\ nextId = 1 /\ faults = 0 /\ evictions = 0

(* Requests and notifications reach their handlers. *)
Arrive(r) == \/ Load(r) \/ Refuse(r) \/ TimerStart(r) \/ TimerStop(r) \/ TimerSwitch(r)
             \/ PomoStart(r) \/ PomoBreak(r) \/ PomoSkip(r)

Notified(r) == NotifySettings(r) \/ NotifyDeleted(r)

(* A thread goes on from the await it is suspended at. *)
LoadStep(r) == LoadSettings(r) \/ LoadMirror(r) \/ LoadPomo(r) \/ LoadDone(r)

TimerStep(r) ==
    \/ StartCheck(r) \/ StartNotFound(r) \/ StartBatch(r) \/ StartDone(r) \/ StartPomo(r)
    \/ StartRearm(r) \/ Resync(r) \/ Resynced(r) \/ StopBatch(r) \/ StopFreeze(r) \/ StopClear(r)
    \/ SwitchRefused(r) \/ SwitchCheck(r) \/ SwitchBatch(r) \/ SwitchDone(r) \/ RearmAndReply(r)
    \/ PomoStartCont(r) \/ BreakSet(r) \/ GoneBatch(r) \/ GoneDone(r) \/ GoneAnchor(r)

AlarmStep(r) == \/ AlarmNudge(r) \/ AlarmDecide(r) \/ AlarmBreakOver(r) \/ AlarmAuto(r)
                \/ AlarmRearm(r)

Around == \/ SaveSettings \/ PatchProfile \/ TombstoneTask \/ DeleteGroup \/ ArchiveProject
          \/ UndoDelete \/ LoseNotify \/ Evict \/ Tick

Next == \/ \E r \in Req : \/ Arrive(r) \/ Notified(r) \/ AlarmFires(r)
                          \/ LoadStep(r) \/ TimerStep(r) \/ AlarmStep(r) \/ Throws(r)
        \/ Around

Spec == Init /\ [][Next]_vars

-----------------------------------------------------------------------------
(* Safety of the session log, whatever interleaves, fails or crashes *)

SessionOrNone == SessionId \cup {None}
TaskOrNone == Task \cup {None}
TimeOrNone == Int \cup {None}

Row == [st : {"none", "open", "ended"}, task : TaskOrNone, start : Int, end : Int]

Pomo == [phase : {"idle", "focus", "decide", "break", "ready"}, task : TaskOrNone,
         acc : Int, resume : TimeOrNone, ends : TimeOrNone]

ASSUME PomoAssumption == None \notin Pomo

Pc == {"free", "load", "load.mirror", "load.pomo", "load.done", "ready",
       "start.check", "start.batch", "start.done", "start.pomo", "start.rearm",
       "stop.batch", "stop.done", "stop.clear", "switch.check", "switch.batch", "switch.done",
       "resync", "resynced", "rearm", "pomoStart", "break.set",
       "gone.batch", "gone.done", "gone.anchor", "alarm", "alarm.auto"}

Handler == [pc : Pc, from : {"fetch", "pomoStart", "pomoBreak", "alarm"}, task : TaskOrNone,
            sess : SessionOrNone, old : SessionOrNone, at : Int,
            stage : {"none", "nudge", "focus", "break", "end"}, engaged : BOOLEAN]

Note == [kind : {"settings"}, set : Settings, task : {None}]
        \cup [kind : {"profile"}, set : {None}, task : {None}]
        \cup [kind : {"deleted"}, set : {None}, task : Task]

LogTyped == rows \in [SessionId -> Row] /\ mirror \in SessionOrNone

OrgTyped == /\ taskState \in [Task -> {"live", "archived", "deleted"}]
            /\ settings \in Settings /\ notes \subseteq Note

StoreTyped == kvPomo \in Pomo \cup {None} /\ alarm \in TimeOrNone

MemoryTyped == /\ loaded \in BOOLEAN /\ running \in SessionOrNone /\ pomo \in Pomo
               /\ cfg \in SettingsRecord /\ nudgeAt \in TimeOrNone

CountsTyped == /\ clock \in Int /\ nextId \in 1..(MaxSessions + 1)
               /\ faults \in Nat /\ evictions \in Nat

HandlersTyped == reqs \in [Req -> Handler]

(* Every variable stays in the set the code's types give it: what is null in
   the code is None here and never a number, an id or a task. *)
TypeOK == LogTyped /\ OrgTyped /\ StoreTyped /\ MemoryTyped /\ CountsTyped /\ HandlersTyped

Open == {s \in SessionId : rows[s].st = "open"}

(* The single-timer invariant (FR-S1): however the handlers of timerStart,
   timerStop, timerSwitch and invalidateDeletedTasks interleave, fail or die,
   time_sessions never holds two rows of the user with ended_at NULL. *)
OneOpenSession == \A s, t \in Open : s = t

(* The recovery row of active_timers never outlives the session it names: what
   ensureLoaded makes `running` after a restart is a session still open. *)
MirrorIsOpen == mirror # None => mirror \in Open

(* Memory never runs a session D1 does not know ("in-memory state only advances
   once D1 confirms"), even when the answer of a batch was lost. *)
RunningIsRecorded == running # None => rows[running].st # "none"

(* What handler h learnt of the log before its await is still so after it: the
   session it is about to open is its own and not in the log rs yet; one it is
   about to close, or to make `running`, is in the log. *)
Opening == {"start.batch", "switch.batch"}

Knows(h, rs, next) ==
    /\ h.pc \in Opening => h.sess \in 1..(next - 1) /\ rs[h.sess].st = "none"
    /\ h.pc = "switch.batch" => h.old # None /\ rs[h.old].st # "none"
    /\ h.pc \in {"stop.batch", "gone.batch", "start.done", "switch.done"} =>
          h.sess # None /\ rs[h.sess].st # "none"
    /\ h.pc \in {"load.pomo", "resynced"} /\ h.sess # None => rs[h.sess].st # "none"

HandlersKnow == \A r \in Req : Knows(reqs[r], rows, nextId)

DistinctIds == \A q, r \in Req : q # r /\ reqs[q].pc \in Opening /\ reqs[r].pc \in Opening =>
                                  reqs[q].sess # reqs[r].sess

FutureIds == \A s \in SessionId : s >= nextId => rows[s].st = "none"

(* The inductive invariant behind the three properties above. *)
LogInv == /\ OneOpenSession /\ MirrorIsOpen /\ RunningIsRecorded
          /\ HandlersKnow /\ DistinctIds /\ FutureIds

OpenSession == IF Open = {} THEN None ELSE CHOOSE s \in Open : TRUE

ClosedSessions == {s \in SessionId : rows[s].st = "ended"}

(* What clients may rely on: the hub's D1 log is a single timer's. *)
TimerPromise == INSTANCE SingleTimer WITH
    Sessions <- SessionId, open <- OpenSession, done <- ClosedSessions

(* A session opens once, is closed once, and never opens again: UserHub
   implements SingleTimer. *)
ImplementsSingleTimer == TimerPromise!TimerSpec
=============================================================================
