--------------------------- MODULE UserHubChecks ---------------------------
(***************************************************************************)
(* What UserHub promises about the timer and the pomodoro cycle beyond the *)
(* safety of the session log: agreement of memory, mirror and log when no  *)
(* handler is suspended; what a crash may cost; focus time; the alarm.     *)
(***************************************************************************)
EXTENDS UserHub, FiniteSetsExt

(* No handler is suspended at an await. *)
AtRest == \A r \in Req : reqs[r].pc = "free"

Settled == AtRest /\ loaded

Span(row, at) == CASE row.st = "open" -> at - row.start
                   [] row.st = "ended" -> row.end - row.start
                   [] row.st = "none" -> 0

(* All the time the session log accounts for. *)
Tracked == SumFunction([s \in SessionId |-> Span(rows[s], clock)])

(* When nothing is in flight, an open row is the one the recovery row names:
   a restart finds it again and the user can stop it.  Crashes, lost answers
   and failed reads do not break this as long as requests do not overlap. *)
OpenIsRecoverable == AtRest => \A s \in Open : mirror = s

(* Memory, recovery row and log tell the same story at rest. *)
AtRestAgree == Settled => running = mirror /\ Open = {running} \ {None}

(* The log is history: nothing writes a session again once it has ended. *)
EndedIsFinal ==
    [][\A s \in SessionId : rows[s].st = "ended" => rows'[s] = rows[s]]_rows

(* Sessions never overlap (FR-S1: a switch leaves no overlap): by the time one
   starts, every earlier one has ended. *)
Ordered(log) ==
    \A s, t \in SessionId : s < t /\ log[s].st # "none" /\ log[t].st # "none" =>
        log[s].st = "ended" /\ log[s].end <= log[t].start

NoOverlap == Ordered(rows)

(* What an object promises between two evictions (a crash may cut a change
   of phase in two). *)
SoFar == Settled /\ evictions = 0

(* Focus counts tracked time only (FR-F1); and it does count while the timer
   runs. *)
FocusIsTracked ==
    SoFar /\ pomo.phase = "focus" =>
        /\ Live(pomo, clock) <= Tracked
        /\ running # None => pomo.resume # None

(* What a restart would read of the cycle is what memory holds. *)
PomoIsDurable == SoFar => pomo = (IF kvPomo = None THEN IdlePomo ELSE kvPomo)

(* A break is never spent tracking (FR-F3). *)
BreakNeverTracks == SoFar /\ pomo.phase = "break" => running = None

ArmedBy(t) == alarm # None /\ alarm <= (IF t > clock THEN t ELSE clock)

(* The alarm comes no later than the end of a break, and than the moment the
   focus goal is reached; while a timer runs (12 h nudge) it is always set. *)
DeadlinesAreArmed ==
    /\ Settled /\ pomo.phase = "break" => ArmedBy(pomo.ends)
    /\ Settled /\ pomo.phase = "focus" /\ running # None /\ Live(pomo, clock) < cfg.focus =>
          ArmedBy(clock + cfg.focus - Live(pomo, clock))
    /\ SoFar /\ running # None => alarm # None

-----------------------------------------------------------------------------
(* What makes these inductive where requests do not overlap, and the answer
   of the one batch that nobody guards (invalidateDeletedTasks) is not lost. *)
Serial == /\ \A q, r \in Req : q = r
          /\ "tombstone" \notin Edits \/ "unacknowledged" \notin Faults

Loading == {"load", "load.mirror", "load.pomo", "load.done"}

(* Awaits between a batch and the answer's effect on memory. *)
Unsettled == {"start.done", "switch.done", "stop.done", "stop.clear", "gone.done",
              "resync", "resynced"}

(* What memory, or a handler, takes for the running session. *)
Recalls(s) == s = mirror \/ (s = None /\ "unreadable" \in Faults)

HandlerRecalls(h) ==
    /\ h.pc \notin Loading \cup {"free"} => loaded
    /\ h.pc \notin Unsettled /\ (loaded \/ h.pc = "load.done") => Recalls(running)
    /\ h.pc \in {"load.pomo", "resynced"} => Recalls(h.sess)
    /\ h.pc \in {"start.check", "start.batch"} => running = None
    /\ h.pc \in {"start.done", "switch.done"} => mirror # None /\ h.sess = mirror
    /\ h.pc \in {"stop.batch", "gone.batch"} => mirror # None /\ h.sess = mirror
    /\ h.pc = "switch.batch" => mirror # None /\ h.old = mirror
    /\ h.pc \in {"stop.done", "stop.clear", "gone.done"} => mirror = None
    /\ h.pc = "gone.batch" => "unacknowledged" \notin Faults

(* Rows are closed at the time their handler read, which is no later than now,
   and a handler that will open one has looked at the clock after all that. *)
Past(log, at) ==
    \A s \in SessionId :
        /\ log[s].st # "none" => log[s].start <= at
        /\ log[s].st = "ended" => log[s].end <= at

HandlerInTime(h) ==
    /\ h.pc \in Opening => h.sess = nextId - 1
    /\ h.pc \in Opening \cup {"stop.batch", "gone.batch"} => h.at <= clock /\ Past(rows, h.at)

SerialInv ==
    /\ Open = {mirror} \ {None} /\ Past(rows, clock) /\ NoOverlap
    /\ \A n \in notes : n.kind = "deleted" => "unacknowledged" \notin Faults
    /\ \A r \in Req : HandlerRecalls(reqs[r]) /\ HandlerInTime(reqs[r])

(* What makes the promises of the cycle inductive where, besides, no D1 call
   fails and the pomodoro mode stays on ... *)
Calm == /\ Serial
        /\ {"rejected", "unacknowledged", "unreadable"} \cap Faults = {}
        /\ {"tombstone", "profile"} \cap Edits = {} /\ \A s \in Settings : s.enabled

Starting == {"start.batch", "start.done", "start.pomo", "start.rearm"}
Stopping == {"stop.batch", "stop.done", "stop.clear"}

Saved == pomo = (IF kvPomo = None THEN IdlePomo ELSE kvPomo)

HandlerCycles(h) ==
    /\ h.pc \notin {"resync", "resynced", "gone.batch", "gone.done", "gone.anchor"}
    /\ loaded \/ h.pc \in {"load.mirror", "load.pomo", "load.done"} => cfg.enabled
    /\ h.from = "pomoBreak" => h.pc \in Stopping
    /\ h.pc = "start.check" => pomo.phase = "focus" \/ h.from = "fetch"
    /\ h.pc \in Starting => pomo.phase = "focus"
    /\ h.pc \in {"break.set"} => running = None
    /\ h.pc \in {"start.pomo", "start.rearm", "pomoStart", "switch.done"} => running # None

(* ... until the first eviction: the cycle is in storage, unless the handler
   that changed it still has to save it; a break has no timer ... *)
HandlerSaves(h) ==
    /\ \/ Saved
       \/ h.pc \in {"start.batch", "start.done", "start.pomo"}
       \/ h.pc = "start.check" /\ h.from = "alarm"
       \/ h.pc \in {"switch.batch", "switch.done"} /\ h.engaged
    /\ loaded \/ (kvPomo = None /\ pomo = IdlePomo /\ mirror = None)
    /\ pomo.phase = "break" => running = None
    /\ h.pc = "alarm.auto" => running = None

(* ... and focus has been counted at most once for the time in the log. *)
HandlerCounts(h) ==
    pomo.phase = "focus" =>
        /\ h.pc \notin {"start.batch", "start.done", "start.pomo", "stop.done"} => Live(pomo, clock) <= Tracked
        /\ h.pc = "stop.done" => Live(pomo, h.at) <= Tracked
        /\ h.pc = "start.batch" => pomo.acc <= Tracked
        /\ h.pc \in {"start.done", "start.pomo"} =>
              pomo.acc + clock - h.at <= Tracked
        /\ h.pc \in {"start.batch", "start.done", "start.pomo"} => pomo.resume \in {None, h.at}
        /\ running # None /\ h.pc \notin {"pomoStart", "start.pomo", "stop.clear"} => pomo.resume # None
        /\ pomo.resume # None /\ h.pc \notin {"start.batch", "stop.done"} => mirror # None

CycleInv ==
    /\ \A n \in notes : n.kind = "settings"
    /\ \A s \in SessionId : rows[s].st = "ended" => rows[s].start <= rows[s].end
    /\ \A r \in Req : HandlerCycles(reqs[r])
    /\ evictions = 0 => \A r \in Req : HandlerSaves(reqs[r]) /\ HandlerCounts(reqs[r])

(* The alarm: where, besides, a handler ends before the clock moves on, and the
   settings stay as they are, whoever will not rearm it has it armed. *)
Prompt == /\ Calm /\ ~SlowHandlers /\ "settings" \notin Edits
          /\ TwelveHours > 0 /\ OneHour > 0

BreaksEnd(p) == p.phase = "break" => p.ends # None

Armed ==
    /\ pomo.phase = "break" => ArmedBy(pomo.ends)
    /\ pomo.phase = "focus" /\ running # None /\ Live(pomo, clock) < cfg.focus =>
          ArmedBy(clock + cfg.focus - Live(pomo, clock))

Waiting(h) == h.pc \in {"free", "ready", "switch.check"} \/ (h.pc = "start.check" /\ h.from # "alarm")

(* The alarm is set, or will be by the 12 h nudge. *)
Expected == alarm # None \/ NudgeDue(running, nudgeAt) > clock

HandlerArms(h) ==
    /\ loaded /\ Waiting(h) => Armed
    /\ h.pc \in Starting \cup {"switch.batch", "switch.done"} => h.at = clock
    /\ h.pc \in {"start.done", "switch.done"} => rows[h.sess].start = clock
    /\ h.pc = "alarm" /\ h.stage = "nudge" => h.at = clock
    /\ evictions = 0 /\ loaded /\ running # None =>
          /\ Waiting(h) => alarm # None
          /\ Expected \/ (h.pc = "alarm" /\ h.stage = "nudge")

ArmsInv ==
    /\ notes = {} /\ BreaksEnd(pomo) /\ (kvPomo # None => BreaksEnd(kvPomo))
    /\ \A r \in Req : HandlerArms(reqs[r])

-----------------------------------------------------------------------------
(* Handlers go on when D1 answers, the clock runs, and a due alarm is delivered
   (the runtime retries it); requests, edits, faults and evictions need not
   happen.  However often a handler makes the clock wait, it goes on. *)
Fairness ==
    /\ SF_vars(Tick)
    /\ \A r \in Req : /\ WF_vars(LoadStep(r)) /\ WF_vars(TimerStep(r)) /\ WF_vars(AlarmStep(r))
                      /\ WF_vars(At(r, "ready") /\ Arrive(r))
    /\ WF_vars(\E r \in Req : AlarmFires(r))

FairSpec == Spec /\ Fairness

(* A break ends by itself, by the alarm, even across a restart: it never stays
   the stored state for ever, unless it ends beyond the clock's bound. *)
StoredBreak(t) == kvPomo # None /\ kvPomo.phase = "break" /\ kvPomo.ends = t

BreakEnds == \A t \in 1..MaxTime : StoredBreak(t) ~> ~StoredBreak(t)
=============================================================================
