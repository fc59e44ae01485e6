--------------------------- MODULE UserHubProofs ---------------------------
(***************************************************************************)
(* Proofs about UserHub, for any number of handlers, tasks, sessions,      *)
(* faults and evictions.                                                   *)
(*                                                                         *)
(*   1  types: TypeCorrect                                                 *)
(*   2  the session log: LogInvariant, and what it gives                   *)
(*      (OneOpenSession, RecoveryRowIsTruthful, MemoryTracksLog and the    *)
(*      refinement of SingleTimer)                                         *)
(*   3  one request at a time (ASSUME Serial): SerialInvariant, and what   *)
(*      it gives                                                           *)
(*   4  the pomodoro cycle (ASSUME Calm): CycleInvariant, and what it      *)
(*      gives                                                              *)
(*   5  the alarm (ASSUME Prompt): AlarmCoversDeadlines                    *)
(*                                                                         *)
(* Each part's invariant is inductive beside those of the parts before it. *)
(***************************************************************************)
EXTENDS UserHubChecks, FiniteSetTheorems, WellFoundedInduction, TLAPS

-----------------------------------------------------------------------------
(* Types *)

LEMMA FreeTyped == Free \in Handler
  BY DEF Free, Handler, Pc, TaskOrNone, SessionOrNone

LEMMA IdleTyped == IdlePomo \in Pomo
  BY DEF IdlePomo, Pomo, TaskOrNone, TimeOrNone

LEMMA InitTyped == Init => TypeOK
  <1> SUFFICES ASSUME Init PROVE TypeOK
      OBVIOUS
  <1>1. LogTyped
        BY DEF Init, LogTyped, NoRow, Row, TaskOrNone, SessionOrNone
  <1>2. OrgTyped
        BY DEF Init, OrgTyped
  <1>3. StoreTyped
        BY DEF Init, StoreTyped, TimeOrNone
  <1>4. MemoryTyped
        BY IdleTyped, SettingsAssumption DEF Init, MemoryTyped, SessionOrNone, TimeOrNone
  <1>5. CountsTyped
        BY BoundAssumption DEF Init, CountsTyped
  <1>6. HandlersTyped
        BY FreeTyped DEF Init, HandlersTyped
  <1> QED
        BY <1>1, <1>2, <1>3, <1>4, <1>5, <1>6 DEF TypeOK

(* What the helpers on the pomodoro state return. *)
LEMMA PomoHelpersTyped ==
    ASSUME NEW p \in Pomo, NEW at \in Int, NEW t \in TaskOrNone
    PROVE  /\ Live(p, at) \in Int
           /\ Frozen(p, at) \in Pomo
           /\ Resumed(p, at) \in Pomo
           /\ FocusPomo(t, at) \in Pomo
           /\ FocusPomo(t, None) \in Pomo
           /\ ReadyPomo(t) \in Pomo
  <1>1. p.acc \in Int /\ (p.resume # None => p.resume \in Int)
        BY DEF Pomo, TimeOrNone
  <1>2. Live(p, at) \in Int
        BY <1>1 DEF Live
  <1>3. Frozen(p, at) \in Pomo
    <2>1. ASSUME p.resume # None
          PROVE  [p EXCEPT !.acc = @ + (at - p.resume), !.resume = None] \in Pomo
      <3>1. p.acc + (at - p.resume) \in Int
            BY <1>1, <2>1
      <3> QED
            BY <3>1 DEF Pomo, TimeOrNone
    <2> QED
          BY <2>1 DEF Frozen
  <1>4. Resumed(p, at) \in Pomo
    <2>1. [p EXCEPT !.resume = at] \in Pomo
          BY DEF Pomo, TimeOrNone
    <2> QED
          BY <2>1 DEF Resumed
  <1>5. FocusPomo(t, at) \in Pomo
        BY IdleTyped DEF FocusPomo, Pomo, TimeOrNone
  <1>6. FocusPomo(t, None) \in Pomo
        BY IdleTyped DEF FocusPomo, Pomo, TimeOrNone
  <1>7. ReadyPomo(t) \in Pomo
        BY IdleTyped DEF ReadyPomo, Pomo, TimeOrNone
  <1> QED
        BY <1>2, <1>3, <1>4, <1>5, <1>6, <1>7

(* A set made of at most three integers has a least element. *)
LEMMA EarliestTyped ==
    ASSUME NEW A, NEW B, NEW C, NEW x \in Int, NEW y \in Int, NEW z \in Int,
           A \in {{}, {x}}, B \in {{}, {y}}, C \in {{}, {z}}, A \cup B \cup C # {}
    PROVE  Earliest(A \cup B \cup C) \in Int
  <1> DEFINE S == A \cup B \cup C
  <1>1. \A s \in S : s \in Int
        OBVIOUS
  <1>2. \E t \in S : \A u \in S : t <= u
        OBVIOUS
  <1> QED
        BY <1>1, <1>2 DEF Earliest

(* Whatever the deadlines are, rearmAlarm leaves a time or no alarm. *)
LEMMA RearmTyped ==
    ASSUME LogTyped, StoreTyped, MemoryTyped', CountsTyped, Rearm
    PROVE  alarm' \in TimeOrNone
  <1> DEFINE due == Deadlines(pomo', running', cfg', nudgeAt')
             x == IF pomo'.ends # None THEN pomo'.ends ELSE 0
             y == clock + cfg'.focus - Live(pomo', clock)
             z == IF running' # None THEN NudgeDue(running', nudgeAt') ELSE 0
             A == IF pomo'.phase = "break" /\ pomo'.ends # None THEN {pomo'.ends} ELSE {}
             B == IF pomo'.phase = "focus" /\ running' # None /\ Live(pomo', clock) < cfg'.focus
                  THEN {clock + cfg'.focus - Live(pomo', clock)} ELSE {}
             C == IF running' # None /\ NudgeDue(running', nudgeAt') > clock
                  THEN {NudgeDue(running', nudgeAt')} ELSE {}
  <1>1. x \in Int
        BY DEF MemoryTyped, Pomo, TimeOrNone
  <1>2. y \in Int
    <2>1. Live(pomo', clock) \in Int
          BY PomoHelpersTyped DEF MemoryTyped, CountsTyped, TaskOrNone
    <2>2. cfg'.focus \in Int
          BY DEF MemoryTyped, SettingsRecord
    <2> QED
          BY <2>1, <2>2 DEF CountsTyped
  <1>3. z \in Int
    <2>1. CASE running' # None
      <3>1. rows[running'].start \in Int
            BY <2>1 DEF LogTyped, MemoryTyped, SessionOrNone, Row
      <3> QED
            BY <2>1, <3>1, TimeAssumption DEF NudgeDue, MemoryTyped, TimeOrNone
    <2> QED
          BY <2>1
  <1>4. A \in {{}, {x}} /\ B \in {{}, {y}} /\ C \in {{}, {z}}
        OBVIOUS
  <1>5. due = A \cup B \cup C
        BY DEF Deadlines, BreakDeadline, FocusDeadline, NudgeDeadline
  <1>6. due # {} => Earliest(due) \in Int
        BY <1>1, <1>2, <1>3, <1>4, <1>5, EarliestTyped
  <1> QED
        BY <1>6 DEF Rearm, StoreTyped, TimeOrNone
(* Handlers *)

LEMMA ThreadTyped == \A pc \in Pc : Thread(pc) \in Handler
  BY FreeTyped DEF Thread, Handler

LEMMA StartThreadTyped ==
    \A t \in TaskOrNone, f \in {"fetch", "pomoStart", "pomoBreak", "alarm"} :
        StartThread(t, f) \in Handler
  <1>1. Thread("start.check") \in Handler
        BY ThreadTyped DEF Pc
  <1> QED
        BY <1>1 DEF StartThread, Handler

LEMMA StopThreadTyped ==
    ASSUME MemoryTyped, CountsTyped
    PROVE  StopThread("fetch") \in Handler /\ StopThread("pomoBreak") \in Handler
  <1>1. Thread("stop.batch") \in Handler
        BY ThreadTyped DEF Pc
  <1> QED
        BY <1>1 DEF StopThread, Handler, MemoryTyped, CountsTyped

LEMMA AlarmTyped == AlarmTail \in Handler /\ \A at \in Int : AlarmBody(at) \in Handler
  <1>1. Thread("alarm") \in Handler
        BY ThreadTyped DEF Pc
  <1>2. ASSUME NEW at \in Int
        PROVE  AlarmBody(at) \in Handler
        BY <1>1 DEF AlarmBody, Handler
  <1>3. AlarmBody(0) \in Handler
        BY <1>2
  <1> QED
        BY <1>2, <1>3 DEF AlarmTail, Handler

LEMMA PutTyped ==
    ASSUME HandlersTyped, NEW r \in Req, NEW h \in Handler, Put(r, h)
    PROVE  HandlersTyped'
  BY DEF HandlersTyped, Put

LEMMA GotoTyped ==
    ASSUME HandlersTyped, NEW r \in Req, NEW pc \in Pc, Goto(r, pc)
    PROVE  HandlersTyped'
  <1>1. [reqs[r] EXCEPT !.pc = pc] \in Handler
        BY DEF HandlersTyped, Handler
  <1> QED
        BY <1>1, PutTyped DEF Goto

LEMMA DoneTyped ==
    ASSUME HandlersTyped, NEW r \in Req, Done(r)
    PROVE  HandlersTyped'
  BY FreeTyped, PutTyped DEF Done

LEMMA SucceedTyped ==
    ASSUME HandlersTyped, NEW r \in Req, Succeed(r)
    PROVE  HandlersTyped'
  <1>1. Thread("break.set") \in Handler
        BY ThreadTyped DEF Pc
  <1> QED
        BY <1>1, FreeTyped, AlarmTyped, PutTyped DEF Succeed

(* Persisting the cycle, then rearming or waiting for D1 to answer. *)
LEMMA PersistRearmTyped ==
    ASSUME TypeOK, MemoryTyped', NEW r \in Req, PersistRearm(r)
    PROVE  StoreTyped' /\ HandlersTyped'
  <1>1. Thread("rearm") \in Handler
        BY ThreadTyped DEF Pc
  <1>2. HandlersTyped'
        BY <1>1, PutTyped, DoneTyped DEF PersistRearm, TypeOK
  <1>3. alarm' \in TimeOrNone
        BY RearmTyped DEF PersistRearm, TypeOK, StoreTyped
  <1> QED
        BY <1>2, <1>3 DEF PersistRearm, StoreTyped, MemoryTyped

LEMMA BreakBeginsTyped ==
    ASSUME TypeOK, NEW r \in Req, UNCHANGED <<loaded, cfg, nudgeAt>>,
           running' \in SessionOrNone, BreakBegins(r)
    PROVE  MemoryTyped' /\ StoreTyped' /\ HandlersTyped'
  <1>1. clock + cfg.brk \in Int
        BY DEF TypeOK, MemoryTyped, CountsTyped, SettingsRecord
  <1>2. pomo' \in Pomo
        BY <1>1 DEF BreakBegins, TypeOK, MemoryTyped, Pomo, TimeOrNone
  <1>3. MemoryTyped'
        BY <1>2 DEF TypeOK, MemoryTyped
  <1> QED
        BY <1>3, PersistRearmTyped DEF BreakBegins

LEMMA FailTyped ==
    ASSUME TypeOK, NEW r \in Req, UNCHANGED <<loaded, cfg, nudgeAt>>,
           running' \in SessionOrNone, Fail(r)
    PROVE  MemoryTyped' /\ StoreTyped' /\ HandlersTyped'
  <1>1. CASE reqs[r].from = "pomoBreak"
        BY <1>1, BreakBeginsTyped DEF Fail
  <1>2. CASE reqs[r].from = "alarm"
    <2>1. pomo' = ReadyPomo(reqs[r].task) /\ kvPomo' = pomo' /\ Put(r, AlarmTail) /\ UNCHANGED alarm
          BY <1>2 DEF Fail
    <2>2. pomo' \in Pomo
          BY <2>1, IdleTyped DEF ReadyPomo, TypeOK, HandlersTyped, Handler, Pomo
    <2> QED
          BY <2>1, <2>2, AlarmTyped, PutTyped DEF TypeOK, MemoryTyped, StoreTyped
  <1>3. CASE reqs[r].from \notin {"pomoBreak", "alarm"}
    <2>1. Done(r) /\ UNCHANGED <<pomo, dovars>>
          BY <1>3 DEF Fail
    <2> QED
          BY <2>1, DoneTyped DEF TypeOK, MemoryTyped, StoreTyped, dovars
  <1> QED
        BY <1>1, <1>2, <1>3

(* A step keeps the parts of TypeOK whose variables it leaves alone. *)
LEMMA Frame ==
    ASSUME TypeOK, HandlersTyped',
           UNCHANGED dbvars \/ LogTyped',
           UNCHANGED orgvars \/ OrgTyped',
           UNCHANGED dovars \/ StoreTyped',
           UNCHANGED memvars \/ MemoryTyped',
           UNCHANGED <<clock, nextId, faults, evictions>> \/ CountsTyped'
    PROVE  TypeOK'
  <1>1. LogTyped'
        BY DEF TypeOK, LogTyped, dbvars
  <1>2. OrgTyped'
        BY DEF TypeOK, OrgTyped, orgvars
  <1>3. StoreTyped'
        BY DEF TypeOK, StoreTyped, dovars
  <1>4. MemoryTyped'
        BY DEF TypeOK, MemoryTyped, memvars
  <1>5. CountsTyped'
        BY DEF TypeOK, CountsTyped
  <1> QED
        BY <1>1, <1>2, <1>3, <1>4, <1>5 DEF TypeOK

(* A handler that built the session it is about to open. *)
LEMMA SentTyped ==
    ASSUME NEW h \in Handler, NEW pc \in Pc, NEW s \in SessionOrNone, NEW o \in SessionOrNone,
           NEW at \in Int, NEW e \in BOOLEAN
    PROVE  /\ [h EXCEPT !.pc = pc, !.sess = s, !.at = at, !.engaged = e] \in Handler
           /\ [h EXCEPT !.pc = pc, !.sess = s, !.old = o, !.at = at, !.engaged = e] \in Handler
  BY DEF Handler

LEMMA ReadMirrorTyped ==
    ASSUME CountsTyped, UNCHANGED <<clock, nextId, evictions>>, NEW s, ReadMirror(s)
    PROVE  CountsTyped'
  BY DEF ReadMirror, NoFault, Fault, CountsTyped

LEMMA InsertedTyped ==
    \A rs \in [SessionId -> Row], s \in SessionOrNone, t \in TaskOrNone, at \in Int :
        Inserted(rs, s, t, at) \in [SessionId -> Row]
  <1>1. \A t \in TaskOrNone, at \in Int :
            [st |-> "open", task |-> t, start |-> at, end |-> 0] \in Row
        BY DEF Row
  <1> QED
        BY <1>1 DEF Inserted

LEMMA EndedTyped ==
    \A rs \in [SessionId -> Row], s \in SessionOrNone, at \in Int :
        Ended(rs, s, at) \in [SessionId -> Row]
  <1> SUFFICES ASSUME NEW rs \in [SessionId -> Row], NEW s \in SessionOrNone, NEW at \in Int
               PROVE  Ended(rs, s, at) \in [SessionId -> Row]
      OBVIOUS
  <1>1. \A w \in Row : [w EXCEPT !.st = "ended", !.end = at] \in Row
      BY DEF Row
  <1>2. CASE s \in SessionId
    <2>1. Ended(rs, s, at) = [rs EXCEPT ![s] = [rs[s] EXCEPT !.st = "ended", !.end = at]]
        <3>1. rs[s] \in Row
            BY <1>2
        <3>2. [[rs[s] EXCEPT !.st = "ended"] EXCEPT !.end = at] = [rs[s] EXCEPT !.st = "ended", !.end = at]
            BY <3>1 DEF Row
        <3> QED
            BY <1>2, <3>2 DEF Ended
    <2> QED
        BY <1>1, <1>2, <2>1
  <1>3. CASE s \notin SessionId
      BY <1>3 DEF Ended
  <1> QED
      BY <1>2, <1>3

(* ensureLoaded. *)
LEMMA LoadTyped ==
    ASSUME TypeOK, NEW r \in Req, Load(r) \/ LoadStep(r)
    PROVE  TypeOK'
  <1>1. CASE Load(r)
    <2>1. HandlersTyped'
          BY <1>1, ThreadTyped, PutTyped DEF Load, TypeOK, Pc
    <2> QED
          BY <1>1, <2>1, Frame DEF Load, othervars
  <1>2. CASE LoadSettings(r)
    <2>1. HandlersTyped'
          BY <1>2, GotoTyped DEF LoadSettings, TypeOK, Pc
    <2>2. cfg' \in SettingsRecord
      <3>1. settings \in SettingsRecord /\ cfg \in SettingsRecord
            BY SettingsAssumption DEF TypeOK, MemoryTyped, OrgTyped
      <3>2. \A c \in SettingsRecord : [c EXCEPT !.enabled = FALSE, !.auto = FALSE] \in SettingsRecord
            BY DEF SettingsRecord
      <3> QED
            BY <1>2, <3>1, <3>2 DEF LoadSettings
    <2>3. MemoryTyped'
          BY <1>2, <2>2 DEF LoadSettings, TypeOK, MemoryTyped
    <2>4. CountsTyped'
          BY <1>2 DEF LoadSettings, NoFault, Fault, TypeOK, CountsTyped
    <2> QED
          BY <1>2, <2>1, <2>3, <2>4, Frame DEF LoadSettings
  <1>3. CASE LoadMirror(r)
    <2>1. \E s \in SessionOrNone : Put(r, [reqs[r] EXCEPT !.pc = "load.pomo", !.sess = s])
          BY <1>3 DEF LoadMirror, SessionOrNone
    <2>0. reqs[r] \in Handler
          BY DEF TypeOK, HandlersTyped
    <2>2. \A s \in SessionOrNone : [reqs[r] EXCEPT !.pc = "load.pomo", !.sess = s] \in Handler
          BY <2>0 DEF Handler, Pc
    <2>3. HandlersTyped'
          BY <2>1, <2>2, PutTyped DEF TypeOK
    <2>4. CountsTyped'
          BY <1>3, ReadMirrorTyped DEF LoadMirror, TypeOK
    <2> QED
          BY <1>3, <2>3, <2>4, Frame DEF LoadMirror
  <1>4. CASE LoadPomo(r)
    <2>1. HandlersTyped'
          BY <1>4, GotoTyped DEF LoadPomo, TypeOK, Pc
    <2>2. (IF kvPomo # None THEN kvPomo ELSE pomo) \in Pomo
          BY DEF TypeOK, StoreTyped, MemoryTyped
    <2>3. pomo' \in Pomo /\ kvPomo' \in Pomo \cup {None}
          BY <1>4, <2>2, PomoHelpersTyped DEF LoadPomo, TypeOK, CountsTyped, StoreTyped, TaskOrNone
    <2>4. MemoryTyped' /\ StoreTyped'
          BY <1>4, <2>3 DEF LoadPomo, TypeOK, HandlersTyped, Handler, MemoryTyped, StoreTyped
    <2> QED
          BY <1>4, <2>1, <2>4, Frame DEF LoadPomo
  <1>5. CASE LoadDone(r)
    <2>1. HandlersTyped'
          BY <1>5, AlarmTyped, ThreadTyped, PutTyped DEF LoadDone, TypeOK, CountsTyped, Pc
    <2>2. MemoryTyped'
          BY <1>5 DEF LoadDone, TypeOK, MemoryTyped
    <2>3. StoreTyped'
          BY <1>5, <2>2, RearmTyped DEF LoadDone, TypeOK, StoreTyped
    <2> QED
          BY <1>5, <2>1, <2>2, <2>3, Frame DEF LoadDone
  <1> QED
        BY <1>1, <1>2, <1>3, <1>4, <1>5 DEF LoadStep

(* timerStart, with the recovery common to start, stop and switch. *)
LEMMA StartTyped ==
    ASSUME TypeOK, NEW r \in Req, TimerStart(r) \/ StartCheck(r) \/ StartNotFound(r) \/ StartBatch(r) \/ StartDone(r)
           \/ StartPomo(r) \/ StartRearm(r) \/ Resync(r) \/ Resynced(r)
    PROVE  TypeOK'
  <1>1. CASE TimerStart(r)
    <2>1. HandlersTyped'
          BY <1>1, StartThreadTyped, PutTyped DEF TimerStart, TypeOK, TaskOrNone
    <2> QED
          BY <1>1, <2>1, Frame DEF TimerStart, othervars
  <1>2. CASE StartCheck(r)
    <2>1. nextId \in SessionOrNone /\ clock \in Int /\ cfg.enabled \in BOOLEAN
          BY <1>2 DEF StartCheck, TypeOK, CountsTyped, MemoryTyped, SettingsRecord, SessionOrNone
    <2>2. PICK e \in BOOLEAN :
              Put(r, [reqs[r] EXCEPT !.pc = "start.batch", !.sess = nextId, !.at = clock,
                                     !.engaged = e])
          BY <1>2, <2>1 DEF StartCheck
    <2>3. HandlersTyped'
      <3>1. reqs[r] \in Handler /\ "start.batch" \in Pc
            BY DEF TypeOK, HandlersTyped, Pc
      <3>2. [reqs[r] EXCEPT !.pc = "start.batch", !.sess = nextId, !.at = clock, !.engaged = e]
                \in Handler
            BY <2>1, <3>1, SentTyped
      <3> QED
            BY <2>2, <3>2, PutTyped DEF TypeOK
    <2>4. FocusPomo(reqs[r].task, clock) \in Pomo
          BY PomoHelpersTyped, IdleTyped DEF TypeOK, CountsTyped, HandlersTyped, Handler
    <2>5. MemoryTyped'
          BY <1>2, <2>4 DEF StartCheck, TypeOK, MemoryTyped
    <2>6. CountsTyped'
          BY <1>2, BoundAssumption DEF StartCheck, TypeOK, CountsTyped, SessionId
    <2> QED
          BY <1>2, <2>3, <2>5, <2>6, Frame DEF StartCheck
  <1>3. CASE StartNotFound(r)
    <2>1. MemoryTyped' /\ StoreTyped' /\ HandlersTyped'
          BY <1>3, FailTyped DEF StartNotFound, TypeOK, MemoryTyped
    <2> QED
          BY <1>3, <2>1, Frame DEF StartNotFound
  <1>4. CASE StartBatch(r)
    <2>1. CountsTyped' /\ HandlersTyped'
      <3>1. CountsTyped'
            BY <1>4 DEF StartBatch, Batch, NoFault, Fault, TypeOK, CountsTyped
      <3>2. Goto(r, "start.done") \/ Goto(r, "resync")
            BY <1>4 DEF StartBatch, Batch
      <3> QED
            BY <3>1, <3>2, GotoTyped DEF TypeOK, Pc
    <2>2. reqs[r] \in Handler
          BY DEF TypeOK, HandlersTyped
    <2>3. \/ rows' = Inserted(rows, reqs[r].sess, reqs[r].task, reqs[r].at) /\ mirror' = reqs[r].sess
          \/ UNCHANGED dbvars
          BY <1>4 DEF StartBatch, Batch
    <2>4. LogTyped'
          BY <2>2, <2>3, InsertedTyped DEF TypeOK, LogTyped, Handler, dbvars
    <2> QED
          BY <1>4, <2>1, <2>4, Frame DEF StartBatch
  <1>5. CASE StartDone(r)
    <2>1. HandlersTyped'
          BY <1>5, GotoTyped DEF StartDone, TypeOK, Pc
    <2>2. MemoryTyped'
          BY <1>5 DEF StartDone, TypeOK, MemoryTyped, HandlersTyped, Handler, TimeOrNone
    <2> QED
          BY <1>5, <2>1, <2>2, Frame DEF StartDone
  <1>6. CASE StartPomo(r)
    <2>1. Resumed(pomo, reqs[r].at) \in Pomo
          BY PomoHelpersTyped DEF TypeOK, MemoryTyped, HandlersTyped, Handler, TaskOrNone
    <2>2. \A p \in Pomo : [p EXCEPT !.task = IF @ = None THEN reqs[r].task ELSE @] \in Pomo
          BY DEF TypeOK, HandlersTyped, Handler, Pomo
    <2>3. pomo' \in Pomo
          BY <1>6, <2>1, <2>2 DEF StartPomo, TypeOK, MemoryTyped
    <2>4. MemoryTyped'
          BY <1>6, <2>3 DEF StartPomo, TypeOK, MemoryTyped
    <2>5. StoreTyped'
          BY <1>6, <2>3, <2>4, RearmTyped DEF StartPomo, TypeOK, StoreTyped, dovars
    <2>6. HandlersTyped'
          BY <1>6, GotoTyped, SucceedTyped DEF StartPomo, TypeOK, Pc
    <2> QED
          BY <1>6, <2>1, <2>2, <2>3, <2>4, <2>5, <2>6, Frame DEF StartPomo
  <1>7. CASE StartRearm(r)
    <2>1. HandlersTyped'
          BY <1>7, SucceedTyped DEF StartRearm, TypeOK
    <2>2. MemoryTyped'
          BY <1>7 DEF StartRearm, TypeOK, MemoryTyped, memvars
    <2>3. StoreTyped'
          BY <1>7, <2>2, RearmTyped DEF StartRearm, TypeOK, StoreTyped
    <2> QED
          BY <1>7, <2>1, <2>2, <2>3, Frame DEF StartRearm
  <1>8. CASE Resync(r)
    <2>1. \E s \in SessionOrNone : Put(r, [reqs[r] EXCEPT !.pc = "resynced", !.sess = s])
          BY <1>8 DEF Resync, SessionOrNone
    <2>0. reqs[r] \in Handler
          BY DEF TypeOK, HandlersTyped
    <2>2. \A s \in SessionOrNone : [reqs[r] EXCEPT !.pc = "resynced", !.sess = s] \in Handler
          BY <2>0 DEF Handler, Pc
    <2>3. HandlersTyped'
          BY <2>1, <2>2, PutTyped DEF TypeOK
    <2>4. CountsTyped'
          BY <1>8, ReadMirrorTyped DEF Resync, TypeOK
    <2> QED
          BY <1>8, <2>3, <2>4, Frame DEF Resync
  <1>9. CASE Resynced(r)
    <2>1. running' \in SessionOrNone
          BY <1>9 DEF Resynced, TypeOK, HandlersTyped, Handler
    <2>2. MemoryTyped' /\ StoreTyped' /\ HandlersTyped'
          BY <1>9, <2>1, FailTyped DEF Resynced
    <2> QED
          BY <1>9, <2>1, <2>2, Frame DEF Resynced
  <1> QED
        BY <1>1, <1>2, <1>3, <1>4, <1>5, <1>6, <1>7, <1>8, <1>9

(* timerStop. *)
LEMMA StopTyped ==
    ASSUME TypeOK, NEW r \in Req,
           TimerStop(r) \/ StopBatch(r) \/ StopFreeze(r) \/ StopClear(r)
    PROVE  TypeOK'
  <1>1. CASE TimerStop(r)
    <2>1. HandlersTyped'
          BY <1>1, StopThreadTyped, PutTyped DEF TimerStop, TypeOK
    <2> QED
          BY <1>1, <2>1, Frame DEF TimerStop, othervars
  <1>2. CASE StopBatch(r)
    <2>1. CountsTyped' /\ HandlersTyped'
      <3>1. CountsTyped'
            BY <1>2 DEF StopBatch, Batch, NoFault, Fault, TypeOK, CountsTyped
      <3>2. Goto(r, "stop.done") \/ Goto(r, "resync")
            BY <1>2 DEF StopBatch, Batch
      <3> QED
            BY <3>1, <3>2, GotoTyped DEF TypeOK, Pc
    <2>2. (rows' = Ended(rows, reqs[r].sess, reqs[r].at) /\ mirror' = None) \/ UNCHANGED dbvars
          BY <1>2 DEF StopBatch, Batch
    <2>3. LogTyped'
      <3>1. reqs[r] \in Handler
            BY DEF TypeOK, HandlersTyped
      <3>2. Ended(rows, reqs[r].sess, reqs[r].at) \in [SessionId -> Row]
            BY <3>1, EndedTyped DEF TypeOK, LogTyped, Handler
      <3> QED
            BY <2>2, <3>2 DEF TypeOK, LogTyped, SessionOrNone, dbvars
    <2> QED
          BY <1>2, <2>1, <2>3, Frame DEF StopBatch
  <1>3. CASE StopFreeze(r)
    <2>1. HandlersTyped'
          BY <1>3, GotoTyped DEF StopFreeze, TypeOK, Pc
    <2>2. pomo' \in Pomo
          BY <1>3, PomoHelpersTyped DEF StopFreeze, TypeOK, MemoryTyped, HandlersTyped, Handler, TaskOrNone
    <2>3. MemoryTyped' /\ StoreTyped'
          BY <1>3, <2>2 DEF StopFreeze, TypeOK, MemoryTyped, StoreTyped
    <2> QED
          BY <1>3, <2>1, <2>2, <2>3, Frame DEF StopFreeze
  <1>4. CASE StopClear(r)
    <2>1. HandlersTyped'
          BY <1>4, SucceedTyped DEF StopClear, TypeOK
    <2>2. Frozen(pomo, reqs[r].at) \in Pomo
          BY PomoHelpersTyped DEF TypeOK, MemoryTyped, HandlersTyped, Handler, TaskOrNone
    <2>3. MemoryTyped'
          BY <1>4, <2>2 DEF StopClear, TypeOK, MemoryTyped, SessionOrNone, TimeOrNone
    <2>4. StoreTyped'
          BY <1>4, <2>3, RearmTyped DEF StopClear, TypeOK, MemoryTyped, StoreTyped
    <2> QED
          BY <1>4, <2>1, <2>2, <2>3, <2>4, Frame DEF StopClear
  <1> QED
        BY <1>1, <1>2, <1>3, <1>4

(* timerSwitch, and the last await of several handlers. *)
LEMMA SwitchTyped ==
    ASSUME TypeOK, NEW r \in Req,
           TimerSwitch(r) \/ SwitchRefused(r) \/ SwitchCheck(r) \/ SwitchBatch(r)
           \/ SwitchDone(r) \/ RearmAndReply(r)
    PROVE  TypeOK'
  <1>1. CASE TimerSwitch(r)
    <2>1. \A t \in Task : [Thread("switch.check") EXCEPT !.task = t] \in Handler
          BY ThreadTyped DEF Handler, Pc, TaskOrNone
    <2>2. HandlersTyped'
          BY <1>1, <2>1, StartThreadTyped, PutTyped DEF TimerSwitch, TypeOK, TaskOrNone
    <2> QED
          BY <1>1, <2>2, Frame DEF TimerSwitch, othervars
  <1>2. CASE SwitchRefused(r)
    <2>1. HandlersTyped'
          BY <1>2, DoneTyped DEF SwitchRefused, TypeOK
    <2> QED
          BY <1>2, <2>1, Frame DEF SwitchRefused, othervars
  <1>3. CASE SwitchCheck(r)
    <2>1. nextId \in SessionOrNone /\ running \in SessionOrNone /\ clock \in Int /\ cfg.enabled \in BOOLEAN
          BY <1>3 DEF SwitchCheck, TypeOK, CountsTyped, MemoryTyped, SettingsRecord, SessionOrNone
    <2>2. reqs[r] \in Handler /\ "switch.batch" \in Pc
          BY DEF TypeOK, HandlersTyped, Pc
    <2>3. [reqs[r] EXCEPT !.pc = "switch.batch", !.sess = nextId, !.old = running, !.at = clock,
                            !.engaged = cfg.enabled] \in Handler
          BY <2>1, <2>2, SentTyped
    <2>4. HandlersTyped'
          BY <1>3, <2>3, PutTyped DEF SwitchCheck, TypeOK
    <2>5. [pomo EXCEPT !.task = reqs[r].task] \in Pomo
          BY <2>2 DEF TypeOK, MemoryTyped, Handler, Pomo
    <2>6. MemoryTyped'
          BY <1>3, <2>5 DEF SwitchCheck, TypeOK, MemoryTyped
    <2>7. CountsTyped'
          BY <1>3, BoundAssumption DEF SwitchCheck, TypeOK, CountsTyped, SessionId
    <2> QED
          BY <1>3, <2>4, <2>6, <2>7, Frame DEF SwitchCheck
  <1>4. CASE SwitchBatch(r)
    <2>1. CountsTyped' /\ HandlersTyped'
      <3>1. CountsTyped'
            BY <1>4 DEF SwitchBatch, Batch, NoFault, Fault, TypeOK, CountsTyped
      <3>2. Goto(r, "switch.done") \/ Goto(r, "resync")
            BY <1>4 DEF SwitchBatch, Batch
      <3> QED
            BY <3>1, <3>2, GotoTyped DEF TypeOK, Pc
    <2>2. \/ /\ rows' = Inserted(Ended(rows, reqs[r].old, reqs[r].at), reqs[r].sess, reqs[r].task, reqs[r].at)
             /\ mirror' \in {None, reqs[r].sess}
          \/ UNCHANGED dbvars
          BY <1>4 DEF SwitchBatch, Batch
    <2>3. reqs[r] \in Handler
          BY DEF TypeOK, HandlersTyped
    <2>4. Ended(rows, reqs[r].old, reqs[r].at) \in [SessionId -> Row]
          BY <2>3, EndedTyped DEF TypeOK, LogTyped, Handler
    <2>5. LogTyped'
      <3>1. Inserted(Ended(rows, reqs[r].old, reqs[r].at), reqs[r].sess, reqs[r].task, reqs[r].at)
                \in [SessionId -> Row]
            BY <2>3, <2>4, InsertedTyped DEF Handler
      <3> QED
            BY <2>2, <2>3, <3>1 DEF TypeOK, LogTyped, Handler, SessionOrNone, dbvars
    <2> QED
          BY <1>4, <2>1, <2>5, Frame DEF SwitchBatch
  <1>5. CASE SwitchDone(r)
    <2>1. HandlersTyped'
          BY <1>5, GotoTyped, DoneTyped DEF SwitchDone, TypeOK, Pc
    <2>2. MemoryTyped'
          BY <1>5 DEF SwitchDone, TypeOK, MemoryTyped, HandlersTyped, Handler, TimeOrNone
    <2>3. StoreTyped'
          BY <1>5, <2>2, RearmTyped DEF SwitchDone, TypeOK, MemoryTyped, StoreTyped
    <2> QED
          BY <1>5, <2>1, <2>2, <2>3, Frame DEF SwitchDone
  <1>6. CASE RearmAndReply(r)
    <2>1. HandlersTyped'
          BY <1>6, DoneTyped DEF RearmAndReply, TypeOK
    <2>2. MemoryTyped'
          BY <1>6 DEF RearmAndReply, TypeOK, MemoryTyped, memvars
    <2>3. StoreTyped'
          BY <1>6, <2>2, RearmTyped DEF RearmAndReply, TypeOK, StoreTyped
    <2> QED
          BY <1>6, <2>1, <2>2, <2>3, Frame DEF RearmAndReply
  <1> QED
        BY <1>1, <1>2, <1>3, <1>4, <1>5, <1>6

LEMMA PomoStartTimerTyped ==
    ASSUME NEW p \in Pomo, NEW t \in TaskOrNone
    PROVE  PomoStartTimer(t, p) \in Handler
  <1>1. p.task \in TaskOrNone
        BY DEF Pomo
  <1> QED
        BY <1>1, FreeTyped, StartThreadTyped DEF PomoStartTimer

(* pomoStart, pomoBreak and pomoSkip. *)
LEMMA PomoTyped ==
    ASSUME TypeOK, NEW r \in Req,
           PomoStart(r) \/ PomoStartCont(r) \/ PomoBreak(r) \/ BreakSet(r) \/ PomoSkip(r)
    PROVE  TypeOK'
  <1>1. CASE PomoStart(r)
    <2>1. PICK t \in TaskOrNone, anchor \in TaskOrNone :
              /\ pomo' = IF pomo.phase = "focus" THEN pomo ELSE FocusPomo(anchor, None)
              /\ kvPomo' = pomo'
              /\ Put(r, IF running # None THEN [Thread("pomoStart") EXCEPT !.task = t]
                        ELSE PomoStartTimer(t, pomo'))
          BY <1>1 DEF PomoStart, TypeOK, LogTyped, MemoryTyped, SessionOrNone, TaskOrNone, Row
    <2>2. pomo' \in Pomo
          BY <2>1, IdleTyped DEF FocusPomo, TypeOK, MemoryTyped, Pomo, TimeOrNone
    <2>3. [Thread("pomoStart") EXCEPT !.task = t] \in Handler
          BY ThreadTyped DEF Handler, Pc
    <2>4. HandlersTyped'
          BY <2>1, <2>2, <2>3, PomoStartTimerTyped, PutTyped DEF TypeOK
    <2>5. MemoryTyped' /\ StoreTyped'
          BY <1>1, <2>1, <2>2 DEF PomoStart, TypeOK, MemoryTyped, StoreTyped
    <2> QED
          BY <1>1, <2>4, <2>5, Frame DEF PomoStart
  <1>2. CASE PomoStartCont(r)
    <2>1. pomo' \in Pomo
          BY <1>2, PomoHelpersTyped DEF PomoStartCont, TypeOK, MemoryTyped, CountsTyped, TaskOrNone
    <2>2. MemoryTyped' /\ StoreTyped'
          BY <1>2, <2>1 DEF PomoStartCont, TypeOK, MemoryTyped, StoreTyped
    <2>3. PomoStartTimer(reqs[r].task, pomo) \in Handler
          BY PomoStartTimerTyped DEF TypeOK, MemoryTyped, HandlersTyped, Handler
    <2>4. HandlersTyped'
          BY <1>2, <2>3, PutTyped, GotoTyped DEF PomoStartCont, TypeOK, Pc
    <2> QED
          BY <1>2, <2>2, <2>4, Frame DEF PomoStartCont
  <1>3. CASE PomoBreak(r)
    <2>1. running' \in SessionOrNone
          BY <1>3 DEF PomoBreak, TypeOK, MemoryTyped
    <2>2. MemoryTyped' /\ StoreTyped' /\ HandlersTyped'
          BY <1>3, <2>1, StopThreadTyped, PutTyped, BreakBeginsTyped DEF PomoBreak, TypeOK, MemoryTyped, StoreTyped, dovars
    <2> QED
          BY <1>3, <2>1, <2>2, Frame DEF PomoBreak
  <1>4. CASE BreakSet(r)
    <2>1. running' \in SessionOrNone
          BY <1>4 DEF BreakSet, TypeOK, MemoryTyped
    <2>2. MemoryTyped' /\ StoreTyped' /\ HandlersTyped'
          BY <1>4, <2>1, BreakBeginsTyped DEF BreakSet
    <2> QED
          BY <1>4, <2>1, <2>2, Frame DEF BreakSet
  <1>5. CASE PomoSkip(r)
    <2>1. MemoryTyped'
          BY <1>5, IdleTyped DEF PomoSkip, TypeOK, MemoryTyped
    <2>2. StoreTyped' /\ HandlersTyped'
          BY <1>5, <2>1, PersistRearmTyped DEF PomoSkip
    <2> QED
          BY <1>5, <2>1, <2>2, Frame DEF PomoSkip
  <1> QED
        BY <1>1, <1>2, <1>3, <1>4, <1>5

(* /notify. *)
LEMMA NotifyTyped ==
    ASSUME TypeOK, NEW r \in Req,
           NotifySettings(r) \/ NotifyDeleted(r) \/ GoneBatch(r) \/ GoneDone(r) \/ GoneAnchor(r)
    PROVE  TypeOK'
  <1>1. CASE NotifySettings(r)
    <2>1. OrgTyped'
          BY <1>1 DEF NotifySettings, TypeOK, OrgTyped
    <2>2. cfg' \in SettingsRecord
          BY <1>1, SettingsAssumption DEF NotifySettings, Applied, Note, TypeOK, OrgTyped, MemoryTyped, SettingsRecord
    <2>3. MemoryTyped'
          BY <1>1, <2>2, IdleTyped DEF NotifySettings, TypeOK, MemoryTyped
    <2>4. StoreTyped' /\ HandlersTyped'
          BY <1>1, <2>3, PersistRearmTyped, DoneTyped DEF NotifySettings, TypeOK, StoreTyped, dovars
    <2>5. CountsTyped'
          BY <1>1 DEF NotifySettings, TypeOK, CountsTyped
    <2> QED
          BY <1>1, <2>1, <2>2, <2>3, <2>4, <2>5, Frame DEF NotifySettings
  <1>2. CASE NotifyDeleted(r)
    <2>1. PICK n \in notes :
              /\ n.kind = "deleted"
              /\ notes' = notes \ {n}
              /\ UNCHANGED <<loaded, running, cfg, nudgeAt>>
              /\ IF running # None /\ rows[running].task = n.task
                 THEN /\ Put(r, [StopThread("fetch") EXCEPT !.pc = "gone.batch", !.task = n.task])
                      /\ UNCHANGED <<pomo, alarm>>
                 ELSE /\ pomo' = AnchorGone(n.task)
                      /\ IF pomo' # pomo THEN Rearm ELSE UNCHANGED alarm
                      /\ Done(r)
          BY <1>2 DEF NotifyDeleted
    <2>2. n.task \in Task /\ OrgTyped'
          BY <1>2, <2>1 DEF NotifyDeleted, TypeOK, OrgTyped, Note
    <2>3. MemoryTyped'
          BY <2>1, IdleTyped DEF AnchorGone, TypeOK, MemoryTyped
    <2>4. StoreTyped'
          BY <1>2, <2>1, <2>3, RearmTyped DEF NotifyDeleted, TypeOK, StoreTyped
    <2>5. [StopThread("fetch") EXCEPT !.pc = "gone.batch", !.task = n.task] \in Handler
          BY <2>2, StopThreadTyped DEF TypeOK, Handler, Pc, TaskOrNone
    <2>6. HandlersTyped'
          BY <2>1, <2>5, PutTyped, DoneTyped DEF TypeOK
    <2> QED
          BY <1>2, <2>2, <2>3, <2>4, <2>6, Frame DEF NotifyDeleted
  <1>3. CASE GoneBatch(r)
    <2>1. CountsTyped'
          BY <1>3 DEF GoneBatch, Batch, NoFault, Fault, TypeOK, CountsTyped
    <2>2. HandlersTyped'
          BY <1>3, GotoTyped, DoneTyped DEF GoneBatch, Batch, TypeOK, Pc
    <2>3. (rows' = Ended(rows, reqs[r].sess, reqs[r].at) /\ mirror' = None) \/ UNCHANGED dbvars
          BY <1>3 DEF GoneBatch, Batch
    <2>4. reqs[r] \in Handler
          BY DEF TypeOK, HandlersTyped
    <2>5. Ended(rows, reqs[r].sess, reqs[r].at) \in [SessionId -> Row]
          BY <2>4, EndedTyped DEF TypeOK, LogTyped, Handler
    <2>6. LogTyped'
          BY <2>3, <2>5 DEF TypeOK, LogTyped, SessionOrNone, dbvars
    <2> QED
          BY <1>3, <2>1, <2>2, <2>6, Frame DEF GoneBatch
  <1>4. CASE GoneDone(r)
    <2>1. HandlersTyped'
          BY <1>4, GotoTyped DEF GoneDone, TypeOK, Pc
    <2>2. pomo' \in Pomo
          BY <1>4, PomoHelpersTyped DEF GoneDone, TypeOK, MemoryTyped, HandlersTyped, Handler, TaskOrNone
    <2>3. MemoryTyped' /\ StoreTyped'
          BY <1>4, <2>2 DEF GoneDone, TypeOK, MemoryTyped, StoreTyped, SessionOrNone, TimeOrNone
    <2> QED
          BY <1>4, <2>1, <2>2, <2>3, Frame DEF GoneDone
  <1>5. CASE GoneAnchor(r)
    <2>1. HandlersTyped'
          BY <1>5, DoneTyped DEF GoneAnchor, TypeOK
    <2>2. MemoryTyped'
          BY <1>5, IdleTyped DEF GoneAnchor, AnchorGone, TypeOK, MemoryTyped
    <2>3. StoreTyped'
          BY <1>5, <2>2, RearmTyped DEF GoneAnchor, TypeOK, StoreTyped
    <2> QED
          BY <1>5, <2>1, <2>2, <2>3, Frame DEF GoneAnchor
  <1> QED
        BY <1>1, <1>2, <1>3, <1>4, <1>5

(* alarm. *)
LEMMA AlarmHandlerTyped ==
    ASSUME TypeOK, NEW r \in Req, AlarmFires(r) \/ AlarmStep(r) \/ Throws(r)
    PROVE  TypeOK'
  <1>1. CASE AlarmFires(r)
    <2>1. [Thread("load") EXCEPT !.from = "alarm"] \in Handler
          BY ThreadTyped DEF Handler, Pc
    <2>2. HandlersTyped'
          BY <1>1, <2>1, AlarmTyped, PutTyped DEF AlarmFires, TypeOK, CountsTyped
    <2>3. StoreTyped'
          BY <1>1 DEF AlarmFires, TypeOK, StoreTyped, TimeOrNone
    <2> QED
          BY <1>1, <2>1, <2>2, <2>3, Frame DEF AlarmFires
  <1>2. CASE AlarmNudge(r)
    <2>1. [reqs[r] EXCEPT !.stage = "focus"] \in Handler
          BY DEF TypeOK, HandlersTyped, Handler
    <2>2. HandlersTyped'
          BY <1>2, <2>1, PutTyped DEF AlarmNudge, TypeOK
    <2>3. reqs[r].at + OneHour \in Int
          BY TimeAssumption DEF TypeOK, HandlersTyped, Handler
    <2>4. MemoryTyped'
          BY <1>2, <2>3 DEF AlarmNudge, TypeOK, MemoryTyped, TimeOrNone
    <2> QED
          BY <1>2, <2>1, <2>2, <2>3, <2>4, Frame DEF AlarmNudge
  <1>3. CASE AlarmDecide(r)
    <2>1. [reqs[r] EXCEPT !.stage = "break"] \in Handler
          BY DEF TypeOK, HandlersTyped, Handler
    <2>2. HandlersTyped'
          BY <1>3, <2>1, PutTyped DEF AlarmDecide, TypeOK
    <2>3. (IF pomo.acc < cfg.focus THEN cfg.focus ELSE pomo.acc) \in Int
          BY DEF TypeOK, MemoryTyped, Pomo, SettingsRecord
    <2>4. pomo' \in Pomo
          BY <1>3, <2>3 DEF AlarmDecide, TypeOK, MemoryTyped, Pomo
    <2>5. MemoryTyped' /\ StoreTyped'
          BY <1>3, <2>4 DEF AlarmDecide, TypeOK, MemoryTyped, StoreTyped
    <2> QED
          BY <1>3, <2>2, <2>5, Frame DEF AlarmDecide
  <1>4. CASE AlarmBreakOver(r)
    <2>1. HandlersTyped'
          BY <1>4, GotoTyped DEF AlarmBreakOver, TypeOK, Pc
    <2>2. pomo' \in Pomo
          BY <1>4 DEF AlarmBreakOver, TypeOK, MemoryTyped, Pomo, TimeOrNone
    <2>3. MemoryTyped' /\ StoreTyped'
          BY <1>4, <2>2 DEF AlarmBreakOver, TypeOK, MemoryTyped, StoreTyped
    <2> QED
          BY <1>4, <2>1, <2>2, <2>3, Frame DEF AlarmBreakOver
  <1>5. CASE AlarmAuto(r)
    <2>1. pomo.task \in TaskOrNone
          BY DEF TypeOK, MemoryTyped, Pomo
    <2>2. HandlersTyped'
          BY <1>5, <2>1, StartThreadTyped, AlarmTyped, PutTyped, DoneTyped DEF AlarmAuto, TypeOK
    <2>3. pomo' \in Pomo
          BY <1>5, <2>1, IdleTyped DEF AlarmAuto, FocusPomo, TypeOK, MemoryTyped, Pomo, TimeOrNone
    <2>4. MemoryTyped'
          BY <1>5, <2>3 DEF AlarmAuto, TypeOK, MemoryTyped
    <2>5. StoreTyped'
          BY <1>5, <2>4, RearmTyped DEF AlarmAuto, TypeOK, StoreTyped
    <2> QED
          BY <1>5, <2>2, <2>4, <2>5, Frame DEF AlarmAuto
  <1>6. CASE AlarmRearm(r)
    <2>1. HandlersTyped'
          BY <1>6, DoneTyped DEF AlarmRearm, TypeOK
    <2>2. MemoryTyped'
          BY <1>6 DEF AlarmRearm, TypeOK, MemoryTyped, memvars
    <2>3. StoreTyped'
          BY <1>6, <2>2, RearmTyped DEF AlarmRearm, TypeOK, StoreTyped
    <2> QED
          BY <1>6, <2>1, <2>2, <2>3, Frame DEF AlarmRearm
  <1>7. CASE Throws(r)
    <2>1. HandlersTyped'
          BY <1>7, DoneTyped DEF Throws, TypeOK
    <2>2. StoreTyped'
          BY <1>7 DEF Throws, TypeOK, CountsTyped, StoreTyped, TimeOrNone
    <2>3. CountsTyped'
          BY <1>7 DEF Throws, Fault, TypeOK, CountsTyped
    <2> QED
          BY <1>7, <2>1, <2>2, <2>3, Frame DEF Throws
  <1> QED
        BY <1>1, <1>2, <1>3, <1>4, <1>5, <1>6, <1>7 DEF AlarmStep

(* Requests refused, edits of the user's data, evictions and the clock. *)
LEMMA AroundTyped ==
    ASSUME TypeOK, Around \/ \E r \in Req : Refuse(r)
    PROVE  TypeOK'
  <1>1. ASSUME NEW r \in Req, Refuse(r)
        PROVE  TypeOK'
    <2>1. HandlersTyped'
          BY <1>1, DoneTyped DEF Refuse, TypeOK
    <2> QED
          BY <1>1, <2>1, Frame DEF Refuse, othervars
  <1>2. ASSUME UNCHANGED reqs
        PROVE  HandlersTyped'
        BY <1>2 DEF TypeOK, HandlersTyped
  <1>3. CASE SaveSettings
    <2>1. OrgTyped'
          BY <1>3 DEF SaveSettings, TypeOK, OrgTyped, Note
    <2> QED
          BY <1>2, <1>3, <2>1, Frame DEF SaveSettings
  <1>4. CASE PatchProfile
    <2>1. OrgTyped'
          BY <1>4 DEF PatchProfile, TypeOK, OrgTyped, Note
    <2> QED
          BY <1>2, <1>4, <2>1, Frame DEF PatchProfile
  <1>5. CASE TombstoneTask
    <2>1. OrgTyped'
          BY <1>5 DEF TombstoneTask, TypeOK, OrgTyped, Note
    <2> QED
          BY <1>2, <1>5, <2>1, Frame DEF TombstoneTask
  <1>6. CASE DeleteGroup
    <2>1. OrgTyped'
          BY <1>6 DEF DeleteGroup, TypeOK, OrgTyped
    <2> QED
          BY <1>2, <1>6, <2>1, Frame DEF DeleteGroup
  <1>7. CASE ArchiveProject
    <2>1. OrgTyped'
          BY <1>7 DEF ArchiveProject, TypeOK, OrgTyped
    <2> QED
          BY <1>2, <1>7, <2>1, Frame DEF ArchiveProject
  <1>8. CASE UndoDelete
    <2>1. OrgTyped'
          BY <1>8 DEF UndoDelete, TypeOK, OrgTyped
    <2> QED
          BY <1>2, <1>8, <2>1, Frame DEF UndoDelete
  <1>9. CASE LoseNotify
    <2>1. OrgTyped'
          BY <1>9 DEF LoseNotify, TypeOK, OrgTyped
    <2>2. CountsTyped'
          BY <1>9 DEF LoseNotify, Fault, TypeOK, CountsTyped
    <2> QED
          BY <1>2, <1>9, <2>1, <2>2, Frame DEF LoseNotify
  <1>10. CASE Evict
    <2>1. HandlersTyped'
          BY <1>10, FreeTyped DEF Evict, HandlersTyped
    <2>2. MemoryTyped'
          BY <1>10, IdleTyped, SettingsAssumption DEF Evict, MemoryTyped, SessionOrNone, TimeOrNone
    <2>3. StoreTyped'
          BY <1>10 DEF Evict, TypeOK, StoreTyped, CountsTyped, TimeOrNone
    <2>4. CountsTyped'
          BY <1>10 DEF Evict, TypeOK, CountsTyped
    <2> QED
          BY <1>10, <2>1, <2>2, <2>3, <2>4, Frame DEF Evict
  <1>11. CASE Tick
    <2>1. CountsTyped'
          BY <1>11 DEF Tick, TypeOK, CountsTyped
    <2> QED
          BY <1>2, <1>11, <2>1, Frame DEF Tick
  <1> QED
        BY <1>1, <1>3, <1>4, <1>5, <1>6, <1>7, <1>8, <1>9, <1>10, <1>11 DEF Around

LEMMA TypeStep == TypeOK /\ [Next]_vars => TypeOK'
  <1> SUFFICES ASSUME TypeOK, [Next]_vars
               PROVE  TypeOK'
      OBVIOUS
  <1>1. ASSUME NEW r \in Req,
               Arrive(r) \/ Notified(r) \/ AlarmFires(r) \/ LoadStep(r) \/ TimerStep(r) \/ AlarmStep(r)
               \/ Throws(r)
        PROVE  TypeOK'
    <2>1. CASE Arrive(r)
          BY <2>1, LoadTyped, StartTyped, StopTyped, SwitchTyped, PomoTyped, AroundTyped DEF Arrive
    <2>2. CASE TimerStep(r)
          BY <2>2, StartTyped, StopTyped, SwitchTyped, PomoTyped, NotifyTyped DEF TimerStep
    <2> QED
          BY <1>1, <2>1, <2>2, LoadTyped, NotifyTyped, AlarmHandlerTyped DEF Notified
  <1>2. CASE Around
        BY <1>2, AroundTyped
  <1>3. CASE UNCHANGED vars
        BY <1>3 DEF vars, TypeOK, LogTyped, OrgTyped, StoreTyped, MemoryTyped, CountsTyped, HandlersTyped
  <1> QED
        BY <1>1, <1>2, <1>3 DEF Next

(* The variables of the hub keep their types, whatever the number of handlers,
   tasks, sessions, faults and evictions: no handler ever leaves, say, a number
   where the code's types say null. *)
THEOREM TypeCorrect == Spec => []TypeOK
  <1>1. Init => TypeOK
        BY InitTyped
  <1>2. TypeOK /\ [Next]_vars => TypeOK'
        BY TypeStep
  <1> QED
        BY <1>1, <1>2, PTL DEF Spec

-----------------------------------------------------------------------------
(***************************************************************************)
(* PART 2: the session log.                                                *)
(*                                                                         *)
(* LogInv, and with it the single-timer invariant, the recovery row's and  *)
(* the hub's memory's, hold of UserHub whatever interleaves, fails or      *)
(* crashes, and the hub implements SingleTimer.                            *)
(***************************************************************************)

(* Awaits with which a handler carries knowledge of the log across. *)
Owing == Opening \cup {"stop.batch", "gone.batch", "start.done", "switch.done",
                       "load.pomo", "resynced"}

(* The step is of thread r alone, and leaves it at an await that owes nothing. *)
Only(r) == \A q \in Req \ {r} : reqs'[q] = reqs[q]

Light(r) == Only(r) /\ reqs'[r].pc \notin Owing

LEMMA PutOne ==
    ASSUME HandlersTyped, NEW r \in Req, NEW h, Put(r, h)
    PROVE  reqs'[r] = h /\ Only(r)
  BY DEF HandlersTyped, Put, Only

LEMMA PutLight ==
    ASSUME HandlersTyped, NEW r \in Req, NEW h, Put(r, h), h.pc \notin Owing
    PROVE  Light(r)
  BY PutOne DEF Light

LEMMA DoneLight ==
    ASSUME HandlersTyped, NEW r \in Req, Done(r)
    PROVE  Light(r)
  <1>1. Free.pc \notin Owing
        BY DEF Free, Owing, Opening
  <1> QED
        BY <1>1, PutLight DEF Done

LEMMA GotoLight ==
    ASSUME HandlersTyped, NEW r \in Req, NEW pc, pc \notin Owing, Goto(r, pc)
    PROVE  Light(r)
  <1>1. [reqs[r] EXCEPT !.pc = pc].pc = pc
        BY DEF HandlersTyped, Handler
  <1> QED
        BY <1>1, PutLight DEF Goto

LEMMA ThreadsLight ==
    /\ Free.pc \notin Owing
    /\ AlarmTail.pc \notin Owing
    /\ \A pc : Thread(pc).pc = pc
    /\ \A at : AlarmBody(at).pc \notin Owing
    /\ \A t, f : StartThread(t, f).pc \notin Owing
  <1>1. \A pc : Thread(pc).pc = pc
        BY DEF Thread, Free
  <1>2. \A at : AlarmBody(at).pc \notin Owing /\ AlarmTail.pc \notin Owing
        BY DEF AlarmBody, AlarmTail, Thread, Free, Owing, Opening
  <1>3. \A t, f : StartThread(t, f).pc \notin Owing
        BY DEF StartThread, Thread, Free, Owing, Opening
  <1> QED
        BY <1>1, <1>2, <1>3 DEF Free, Owing, Opening

LEMMA SucceedLight ==
    ASSUME HandlersTyped, NEW r \in Req, Succeed(r)
    PROVE  Light(r)
  BY ThreadsLight, PutLight DEF Succeed, Owing, Opening

LEMMA PersistRearmLight ==
    ASSUME HandlersTyped, NEW r \in Req, PersistRearm(r)
    PROVE  Light(r)
  BY ThreadsLight, PutLight, DoneLight DEF PersistRearm, Owing, Opening

LEMMA FailLight ==
    ASSUME HandlersTyped, NEW r \in Req, Fail(r)
    PROVE  Light(r)
  BY ThreadsLight, PutLight, DoneLight, PersistRearmLight DEF Fail, BreakBegins

-----------------------------------------------------------------------------
(* How the invariant survives a step *)

(* A step of thread r that takes no session id: what the others know stays true
   as long as a row never goes back to "none", and only r's own row appears. *)
LEMMA Keeps ==
    ASSUME TypeOK, LogInv, NEW r \in Req, Only(r),
           nextId' = nextId, reqs'[r].pc \notin Opening,
           Knows(reqs'[r], rows', nextId'),
           \A s \in SessionId : rows[s].st # "none" => rows'[s].st # "none",
           \A s \in SessionId : rows[s].st = "none" =>
               rows'[s].st = "none" \/ (reqs[r].pc \in Opening /\ s = reqs[r].sess),
           OneOpenSession', MirrorIsOpen', RunningIsRecorded'
    PROVE  LogInv'
  <1>1. ASSUME NEW q \in Req
        PROVE  Knows(reqs'[q], rows', nextId')
    <2>1. CASE q = r
          BY <2>1
    <2>2. CASE q # r
      <3>1. reqs'[q] = reqs[q] /\ Knows(reqs[q], rows, nextId) /\ reqs[q] \in Handler
            BY <2>2 DEF Only, LogInv, HandlersKnow, TypeOK, HandlersTyped
      <3>2. reqs[q].pc \in Opening => reqs[q].sess \in SessionId /\ rows'[reqs[q].sess].st = "none"
        <4>1. reqs[q].pc \in Opening => reqs[q].sess \in SessionId /\ rows[reqs[q].sess].st = "none"
              BY <3>1, BoundAssumption DEF Knows, SessionId, TypeOK, CountsTyped
        <4>2. reqs[q].pc \in Opening /\ reqs[r].pc \in Opening => reqs[q].sess # reqs[r].sess
              BY <2>2 DEF LogInv, DistinctIds
        <4> QED
              BY <4>1, <4>2
      <3> QED
            BY <3>1, <3>2, NoneAssumption DEF Knows, Handler, SessionOrNone
    <2> QED
          BY <2>1, <2>2
  <1>2. HandlersKnow'
        BY <1>1 DEF HandlersKnow
  <1>3. DistinctIds'
        BY DEF Only, LogInv, DistinctIds
  <1>4. FutureIds'
    <2>1. reqs[r].pc \in Opening => reqs[r].sess < nextId
          BY BoundAssumption DEF LogInv, HandlersKnow, Knows, TypeOK, CountsTyped
    <2>2. nextId \in Int /\ SessionId \subseteq Int
          BY DEF TypeOK, CountsTyped, SessionId
    <2>3. ASSUME NEW s \in SessionId, s >= nextId
          PROVE  rows'[s].st = "none"
          BY <2>1, <2>2, <2>3 DEF LogInv, FutureIds
    <2> QED
          BY <2>3 DEF FutureIds
  <1> QED
        BY <1>2, <1>3, <1>4 DEF LogInv

(* Log and recovery row untouched. *)
LEMMA Untouched ==
    ASSUME TypeOK, LogInv, UNCHANGED dbvars, running' = None \/ rows[running'].st # "none"
    PROVE  OneOpenSession' /\ MirrorIsOpen' /\ RunningIsRecorded'
  BY DEF LogInv, OneOpenSession, MirrorIsOpen, RunningIsRecorded, Open, dbvars

LEMMA KeepsUntouched ==
    ASSUME TypeOK, LogInv, NEW r \in Req, Only(r), UNCHANGED <<dbvars, nextId>>,
           reqs'[r].pc \notin Opening, Knows(reqs'[r], rows, nextId),
           running' = None \/ rows[running'].st # "none"
    PROVE  LogInv'
  <1>1. rows' = rows /\ nextId' = nextId
        BY DEF dbvars
  <1> QED
        BY <1>1, Untouched, Keeps DEF dbvars

LEMMA LightKeeps ==
    ASSUME TypeOK, LogInv, NEW r \in Req, Light(r), UNCHANGED <<dbvars, nextId>>,
           running' \in {running, None}
    PROVE  LogInv'
  <1>1. Knows(reqs'[r], rows, nextId) /\ reqs'[r].pc \notin Opening
        BY DEF Light, Owing, Opening, Knows
  <1>2. running' = None \/ rows[running'].st # "none"
        BY DEF LogInv, RunningIsRecorded
  <1> QED
        BY <1>1, <1>2, KeepsUntouched DEF Light

(* Steps around the object: no thread moves. *)
LEMMA StillKeeps ==
    ASSUME LogInv, UNCHANGED <<dbvars, running, reqs, nextId>>
    PROVE  LogInv'
  BY DEF LogInv, dbvars, OneOpenSession, MirrorIsOpen, RunningIsRecorded, Open,
         HandlersKnow, DistinctIds, FutureIds

-----------------------------------------------------------------------------
(* ensureLoaded: what it read of the recovery row is in the log. *)
LEMMA LoadKeeps ==
    ASSUME TypeOK, LogInv, NEW r \in Req, Load(r) \/ LoadStep(r)
    PROVE  LogInv'
  <1>0. HandlersTyped
        BY DEF TypeOK
  <1>1. CASE Load(r)
    <2>1. Light(r)
          BY <1>0, <1>1, ThreadsLight, PutLight DEF Load, Owing, Opening
    <2> QED
          BY <1>1, <2>1, LightKeeps DEF Load, othervars, memvars
  <1>2. CASE LoadSettings(r)
    <2>1. Light(r)
          BY <1>0, <1>2, GotoLight DEF LoadSettings, Owing, Opening
    <2> QED
          BY <1>2, <2>1, LightKeeps DEF LoadSettings
  <1>3. CASE LoadMirror(r)
    <2>1. PICK s \in SessionOrNone :
              ReadMirror(s) /\ Put(r, [reqs[r] EXCEPT !.pc = "load.pomo", !.sess = s])
          BY <1>3 DEF LoadMirror, SessionOrNone
    <2>2. s # None => rows[s].st # "none"
          BY <2>1 DEF ReadMirror, LogInv, MirrorIsOpen, Open
    <2>3. reqs'[r] = [reqs[r] EXCEPT !.pc = "load.pomo", !.sess = s] /\ Only(r)
          BY <1>0, <2>1, PutOne
    <2>4. reqs'[r].pc = "load.pomo" /\ reqs'[r].sess = s
          BY <1>0, <2>3 DEF HandlersTyped, Handler
    <2>5. Knows(reqs'[r], rows, nextId) /\ reqs'[r].pc \notin Opening
          BY <2>2, <2>4 DEF Knows, Opening
    <2>6. running' = None \/ rows[running'].st # "none"
          BY <1>3 DEF LoadMirror, memvars, LogInv, RunningIsRecorded
    <2> QED
          BY <1>3, <2>3, <2>5, <2>6, KeepsUntouched DEF LoadMirror
  <1>4. CASE LoadPomo(r)
    <2>1. Light(r)
          BY <1>0, <1>4, GotoLight DEF LoadPomo, Owing, Opening
    <2>2. running' = None \/ rows[running'].st # "none"
          BY <1>4 DEF LoadPomo, At, LogInv, HandlersKnow, Knows
    <2>3. Knows(reqs'[r], rows, nextId) /\ reqs'[r].pc \notin Opening
          BY <2>1 DEF Light, Owing, Opening, Knows
    <2> QED
          BY <1>4, <2>1, <2>2, <2>3, KeepsUntouched DEF LoadPomo, Light
  <1>5. CASE LoadDone(r)
    <2>1. Light(r)
          BY <1>0, <1>5, ThreadsLight, PutLight DEF LoadDone, Owing, Opening
    <2> QED
          BY <1>5, <2>1, LightKeeps DEF LoadDone
  <1> QED
        BY <1>1, <1>2, <1>3, <1>4, <1>5 DEF LoadStep

(* The steps of timerStart, timerStop and timerSwitch that write no row, take
   no id and learn nothing of the log. *)
LEMMA TimerLightKeeps ==
    ASSUME TypeOK, LogInv, NEW r \in Req,
           TimerStart(r) \/ StartNotFound(r) \/ StartPomo(r) \/ StartRearm(r) \/ StopFreeze(r)
           \/ StopClear(r) \/ TimerSwitch(r) \/ SwitchRefused(r) \/ RearmAndReply(r) \/ Refuse(r)
    PROVE  LogInv'
  <1>0. HandlersTyped
        BY DEF TypeOK
  <1>1. CASE TimerStart(r)
    <2>1. Light(r)
          BY <1>0, <1>1, ThreadsLight, PutLight DEF TimerStart
    <2> QED
          BY <1>1, <2>1, LightKeeps DEF TimerStart, othervars, memvars
  <1>2. CASE StartNotFound(r)
        BY <1>0, <1>2, FailLight, LightKeeps DEF StartNotFound
  <1>3. CASE StartPomo(r)
    <2>1. Light(r)
          BY <1>0, <1>3, GotoLight, SucceedLight DEF StartPomo, Owing, Opening
    <2> QED
          BY <1>3, <2>1, LightKeeps DEF StartPomo
  <1>4. CASE StartRearm(r)
        BY <1>0, <1>4, SucceedLight, LightKeeps DEF StartRearm, memvars
  <1>5. CASE StopFreeze(r)
    <2>1. Light(r)
          BY <1>0, <1>5, GotoLight DEF StopFreeze, Owing, Opening
    <2> QED
          BY <1>5, <2>1, LightKeeps DEF StopFreeze
  <1>6. CASE StopClear(r)
        BY <1>0, <1>6, SucceedLight, LightKeeps DEF StopClear
  <1>7. CASE TimerSwitch(r)
    <2>1. \A t \in Task : [Thread("switch.check") EXCEPT !.task = t].pc \notin Owing
          BY DEF Thread, Free, Owing, Opening
    <2>2. Light(r)
          BY <1>0, <1>7, <2>1, ThreadsLight, PutLight DEF TimerSwitch
    <2> QED
          BY <1>7, <2>2, LightKeeps DEF TimerSwitch, othervars, memvars
  <1>8. CASE SwitchRefused(r)
        BY <1>0, <1>8, DoneLight, LightKeeps DEF SwitchRefused, othervars, memvars
  <1>9. CASE RearmAndReply(r)
        BY <1>0, <1>9, DoneLight, LightKeeps DEF RearmAndReply, memvars
  <1>10. CASE Refuse(r)
        BY <1>0, <1>10, DoneLight, LightKeeps DEF Refuse, othervars, memvars
  <1> QED
        BY <1>1, <1>2, <1>3, <1>4, <1>5, <1>6, <1>7, <1>8, <1>9, <1>10

(* A handler that stops the timer knows the session it read. *)
LEMMA StopThreadKnows ==
    ASSUME TypeOK, LogInv, running # None, NEW f, NEW pc, pc \in {"stop.batch", "gone.batch"}, NEW t
    PROVE  /\ Knows([StopThread(f) EXCEPT !.pc = pc, !.task = t], rows, nextId)
           /\ Knows(StopThread(f), rows, nextId) /\ StopThread(f).pc = "stop.batch"
  <1>1. rows[running].st # "none"
        BY DEF LogInv, RunningIsRecorded
  <1> QED
        BY <1>1 DEF StopThread, Thread, Free, Knows, Opening

(* A session id is taken: the log has no row of it, and nobody else has it. *)
LEMMA TakesId ==
    ASSUME TypeOK, LogInv, NEW r \in Req, Only(r), nextId \in SessionId, nextId' = nextId + 1,
           reqs'[r].pc \in Opening, reqs'[r].sess = nextId,
           reqs'[r].pc = "switch.batch" => reqs'[r].old # None /\ rows[reqs'[r].old].st # "none",
           UNCHANGED <<dbvars, running>>
    PROVE  LogInv'
  <1>1. /\ OneOpenSession' /\ MirrorIsOpen' /\ RunningIsRecorded'
        BY Untouched DEF LogInv, RunningIsRecorded
  <1>2. rows' = rows /\ nextId \in Int /\ 1 <= nextId
        BY DEF dbvars, SessionId, TypeOK, CountsTyped
  <1>3. ASSUME NEW q \in Req
        PROVE  /\ Knows(reqs'[q], rows', nextId')
               /\ q # r /\ reqs'[q].pc \in Opening => reqs'[q].sess # nextId
    <2>1. CASE q = r
          BY <1>2, <2>1 DEF Knows, LogInv, FutureIds, Opening
    <2>2. CASE q # r
      <3>1. reqs'[q] = reqs[q] /\ Knows(reqs[q], rows, nextId)
            BY <2>2 DEF Only, LogInv, HandlersKnow
      <3> QED
            BY <1>2, <3>1 DEF Knows, Opening
    <2> QED
          BY <2>1, <2>2
  <1>4. HandlersKnow'
        BY <1>3 DEF HandlersKnow
  <1>5. DistinctIds'
        BY <1>3 DEF Only, LogInv, DistinctIds
  <1>6. FutureIds'
        BY <1>2 DEF LogInv, FutureIds, SessionId
  <1> QED
        BY <1>1, <1>4, <1>5, <1>6 DEF LogInv

-----------------------------------------------------------------------------
(* The batches *)

(* What Inserted and Ended do to a log. *)
LEMMA InsertedIs ==
    ASSUME TypeOK, NEW rs \in [SessionId -> Row], NEW i \in SessionId, NEW t, NEW at
    PROVE  \A s \in SessionId : Inserted(rs, i, t, at)[s].st = IF s = i THEN "open" ELSE rs[s].st
  BY DEF Inserted

LEMMA EndedIs ==
    ASSUME NEW rs \in [SessionId -> Row], NEW i \in SessionId, NEW at
    PROVE  \A s \in SessionId : Ended(rs, i, at)[s].st = IF s = i THEN "ended" ELSE rs[s].st
  BY DEF Ended, Row

(* A batch that changed nothing, or was rejected, and was answered. *)
LEMMA NothingWritten ==
    ASSUME TypeOK, LogInv, NEW r \in Req, UNCHANGED <<dbvars, nextId, running>>, Light(r)
    PROVE  LogInv'
  BY LightKeeps

(* The answer of a batch: go on with the same session, or reply, or resync. *)
LEMMA AnswerKnows ==
    ASSUME TypeOK, LogInv, NEW r \in Req, reqs[r].sess \in SessionId, rows'[reqs[r].sess].st # "none",
           NEW pc, pc \in {"start.done", "switch.done", "stop.done", "gone.done", "resync"},
           Goto(r, pc)
    PROVE  Only(r) /\ reqs'[r].pc \notin Opening /\ Knows(reqs'[r], rows', nextId')
  <1>1. reqs'[r] = [reqs[r] EXCEPT !.pc = pc] /\ Only(r)
        BY PutOne DEF Goto, TypeOK
  <1>2. reqs'[r].pc = pc /\ reqs'[r].sess = reqs[r].sess
        BY <1>1 DEF TypeOK, HandlersTyped, Handler
  <1>3. reqs[r].sess # None
        BY NoneAssumption DEF SessionId
  <1> QED
        BY <1>1, <1>2, <1>3 DEF Knows, Opening

(* Closing a session of the log, and dropping the recovery row. *)
LEMMA ClosingKeeps ==
    ASSUME TypeOK, LogInv, NEW r \in Req, NEW at, reqs[r].sess \in SessionId,
           reqs[r].pc \in {"stop.batch", "gone.batch"}, rows[reqs[r].sess].st # "none",
           rows' = Ended(rows, reqs[r].sess, at), mirror' = None, UNCHANGED <<running, nextId>>,
           Only(r), reqs'[r].pc \notin Opening, Knows(reqs'[r], rows', nextId')
    PROVE  LogInv'
  <1>1. \A s \in SessionId : rows'[s].st = IF s = reqs[r].sess THEN "ended" ELSE rows[s].st
        BY EndedIs DEF TypeOK, LogTyped
  <1>2. OneOpenSession'
        BY <1>1 DEF LogInv, OneOpenSession, Open
  <1>3. MirrorIsOpen'
        BY DEF MirrorIsOpen
  <1>4. RunningIsRecorded'
        BY <1>1 DEF LogInv, RunningIsRecorded, TypeOK, MemoryTyped, SessionOrNone
  <1> QED
        BY <1>1, <1>2, <1>3, <1>4, Keeps

(* Adding the session reqs[r] has an id for, when no row is open. *)
LEMMA OpeningKeeps ==
    ASSUME TypeOK, LogInv, NEW r \in Req, reqs[r].pc \in Opening, reqs[r].sess \in SessionId,
           NEW base \in [SessionId -> Row], IndexAllowsOpen(base),
           \A s \in SessionId : base[s].st = "none" <=> rows[s].st = "none",
           rows' = Inserted(base, reqs[r].sess, reqs[r].task, reqs[r].at),
           mirror' \in {None, reqs[r].sess}, UNCHANGED <<running, nextId>>,
           Only(r), reqs'[r].pc \notin Opening, Knows(reqs'[r], rows', nextId')
    PROVE  LogInv'
  <1>1. \A s \in SessionId : rows'[s].st = IF s = reqs[r].sess THEN "open" ELSE base[s].st
        BY InsertedIs
  <1>2. OneOpenSession' /\ MirrorIsOpen'
        BY <1>1 DEF IndexAllowsOpen, OneOpenSession, MirrorIsOpen, Open
  <1>3. RunningIsRecorded'
        BY <1>1 DEF LogInv, RunningIsRecorded, TypeOK, MemoryTyped, SessionOrNone
  <1> QED
        BY <1>1, <1>2, <1>3, Keeps

LEMMA BatchKeeps ==
    ASSUME TypeOK, LogInv, NEW r \in Req,
           StartBatch(r) \/ StopBatch(r) \/ SwitchBatch(r) \/ GoneBatch(r)
    PROVE  LogInv'
  <1>0. HandlersTyped /\ rows \in [SessionId -> Row] /\ Knows(reqs[r], rows, nextId)
        BY DEF TypeOK, LogTyped, LogInv, HandlersKnow
  <1>a. UNCHANGED <<running, nextId>>
        BY DEF StartBatch, StopBatch, SwitchBatch, GoneBatch, memvars
  <1>b. \A s \in 1..(nextId - 1) : s \in SessionId
        BY BoundAssumption DEF TypeOK, CountsTyped, SessionId
  <1>c. reqs[r].sess # None => reqs[r].sess \in SessionId
        BY <1>0 DEF HandlersTyped, Handler, SessionOrNone
  <1>1. CASE StartBatch(r)
    <2>1. reqs[r].pc = "start.batch" /\ reqs[r].sess \in SessionId
          BY <1>0, <1>b, <1>1 DEF StartBatch, At, Knows, Opening
    <2>2. Goto(r, "start.done") \/ Goto(r, "resync")
          BY <1>1 DEF StartBatch, Batch
    <2>3. CASE /\ IndexAllowsOpen(rows) /\ mirror' = reqs[r].sess
               /\ rows' = Inserted(rows, reqs[r].sess, reqs[r].task, reqs[r].at)
      <3>1. rows'[reqs[r].sess].st # "none"
            BY <1>0, <2>1, <2>3, InsertedIs
      <3>2. Only(r) /\ reqs'[r].pc \notin Opening /\ Knows(reqs'[r], rows', nextId')
            BY <2>1, <2>2, <3>1, AnswerKnows
      <3> QED
            BY <1>0, <1>a, <2>1, <2>3, <3>2, OpeningKeeps DEF Opening
    <2>4. CASE UNCHANGED dbvars /\ Goto(r, "resync")
      <3>1. Light(r)
            BY <1>0, <2>4, GotoLight DEF Owing, Opening
      <3> QED
            BY <1>a, <2>4, <3>1, NothingWritten
    <2> QED
          BY <1>1, <2>3, <2>4 DEF StartBatch, Batch
  <1>2. CASE StopBatch(r)
    <2>1. reqs[r].pc = "stop.batch" /\ reqs[r].sess \in SessionId /\ rows[reqs[r].sess].st # "none"
          BY <1>0, <1>c, <1>2 DEF StopBatch, At, Knows, Opening
    <2>2. Goto(r, "stop.done") \/ Goto(r, "resync")
          BY <1>2 DEF StopBatch, Batch
    <2>3. CASE rows' = Ended(rows, reqs[r].sess, reqs[r].at) /\ mirror' = None
      <3>1. rows'[reqs[r].sess].st # "none"
            BY <1>0, <2>1, <2>3, EndedIs
      <3>2. Only(r) /\ reqs'[r].pc \notin Opening /\ Knows(reqs'[r], rows', nextId')
            BY <2>1, <2>2, <3>1, AnswerKnows
      <3> QED
            BY <1>0, <1>a, <2>1, <2>3, <3>2, ClosingKeeps
    <2>4. CASE UNCHANGED dbvars /\ Goto(r, "resync")
      <3>1. Light(r)
            BY <1>0, <2>4, GotoLight DEF Owing, Opening
      <3> QED
            BY <1>a, <2>4, <3>1, NothingWritten
    <2> QED
          BY <1>2, <2>3, <2>4 DEF StopBatch, Batch
  <1>3. CASE SwitchBatch(r)
    <2>1. /\ reqs[r].pc = "switch.batch" /\ reqs[r].sess \in SessionId
          /\ reqs[r].old \in SessionId /\ rows[reqs[r].old].st # "none"
          BY <1>0, <1>b, <1>3 DEF SwitchBatch, At, Knows, Opening, HandlersTyped, Handler, SessionOrNone
    <2>2. Goto(r, "switch.done") \/ Goto(r, "resync")
          BY <1>3 DEF SwitchBatch, Batch
    <2> DEFINE base == Ended(rows, reqs[r].old, reqs[r].at)
    <2>3. CASE /\ IndexAllowsOpen(base) /\ mirror' \in {None, reqs[r].sess}
               /\ rows' = Inserted(base, reqs[r].sess, reqs[r].task, reqs[r].at)
      <3>1. base \in [SessionId -> Row]
            BY <1>0, EndedTyped DEF HandlersTyped, Handler
      <3>2. \A s \in SessionId : base[s].st = "none" <=> rows[s].st = "none"
            BY <1>0, <2>1, EndedIs
      <3>3. rows'[reqs[r].sess].st # "none"
            BY <2>1, <2>3, <3>1, InsertedIs
      <3>4. Only(r) /\ reqs'[r].pc \notin Opening /\ Knows(reqs'[r], rows', nextId')
            BY <2>1, <2>2, <3>3, AnswerKnows
      <3> HIDE DEF base
      <3> QED
            BY <1>a, <2>1, <2>3, <3>1, <3>2, <3>4, OpeningKeeps DEF Opening
    <2>4. CASE UNCHANGED dbvars /\ Goto(r, "resync")
      <3>1. Light(r)
            BY <1>0, <2>4, GotoLight DEF Owing, Opening
      <3> QED
            BY <1>a, <2>4, <3>1, NothingWritten
    <2> QED
          BY <1>3, <2>3, <2>4 DEF SwitchBatch, Batch
  <1>4. CASE GoneBatch(r)
    <2>1. reqs[r].pc = "gone.batch" /\ reqs[r].sess \in SessionId /\ rows[reqs[r].sess].st # "none"
          BY <1>0, <1>c, <1>4 DEF GoneBatch, At, Knows, Opening
    <2>2. Goto(r, "gone.done") \/ Done(r)
          BY <1>4 DEF GoneBatch, Batch
    <2>3. CASE rows' = Ended(rows, reqs[r].sess, reqs[r].at) /\ mirror' = None
      <3>1. rows'[reqs[r].sess].st # "none"
            BY <1>0, <2>1, <2>3, EndedIs
      <3>2. Only(r) /\ reqs'[r].pc \notin Opening /\ Knows(reqs'[r], rows', nextId')
        <4>1. CASE Goto(r, "gone.done")
              BY <2>1, <3>1, <4>1, AnswerKnows
        <4>2. CASE Done(r)
              BY <1>0, <4>2, DoneLight DEF Light, Owing, Opening, Knows
        <4> QED
              BY <2>2, <4>1, <4>2
      <3> QED
            BY <1>0, <1>a, <2>1, <2>3, <3>2, ClosingKeeps
    <2>4. CASE UNCHANGED dbvars /\ Done(r)
      <3>1. Light(r)
            BY <1>0, <2>4, DoneLight
      <3> QED
            BY <1>a, <2>4, <3>1, NothingWritten
    <2> QED
          BY <1>4, <2>3, <2>4 DEF GoneBatch, Batch
  <1> QED
        BY <1>1, <1>2, <1>3, <1>4

-----------------------------------------------------------------------------
(* Steps that take an id, learn of the log, or make a session `running`. *)
LEMMA TimerKnowingKeeps ==
    ASSUME TypeOK, LogInv, NEW r \in Req,
           StartCheck(r) \/ StartDone(r) \/ Resync(r) \/ Resynced(r)
           \/ TimerStop(r) \/ SwitchCheck(r) \/ SwitchDone(r)
    PROVE  LogInv'
  <1>0. HandlersTyped /\ Knows(reqs[r], rows, nextId) /\ reqs[r] \in Handler
        BY DEF TypeOK, HandlersTyped, LogInv, HandlersKnow
  <1>a. running = None \/ rows[running].st # "none"
        BY DEF LogInv, RunningIsRecorded
  <1>1. CASE StartCheck(r)
    <2>1. PICK e : Put(r, [reqs[r] EXCEPT !.pc = "start.batch", !.sess = nextId, !.at = clock,
                                          !.engaged = e])
          BY <1>1 DEF StartCheck
    <2>2. reqs'[r] = [reqs[r] EXCEPT !.pc = "start.batch", !.sess = nextId, !.at = clock,
                                     !.engaged = e] /\ Only(r)
          BY <1>0, <2>1, PutOne
    <2>3. reqs'[r].pc = "start.batch" /\ reqs'[r].sess = nextId
          BY <1>0, <2>2 DEF Handler
    <2> QED
          BY <1>1, <2>2, <2>3, TakesId DEF StartCheck, Opening
  <1>2. CASE StartDone(r)
    <2>1. Light(r)
          BY <1>0, <1>2, GotoLight DEF StartDone, Owing, Opening
    <2>2. running' = reqs[r].sess /\ rows[running'].st # "none"
          BY <1>0, <1>2 DEF StartDone, At, Knows
    <2>3. Knows(reqs'[r], rows, nextId) /\ reqs'[r].pc \notin Opening
          BY <2>1 DEF Light, Owing, Opening, Knows
    <2> QED
          BY <1>2, <2>1, <2>2, <2>3, KeepsUntouched DEF StartDone, Light
  <1>3. CASE Resync(r)
    <2>1. PICK s \in SessionOrNone :
              ReadMirror(s) /\ Put(r, [reqs[r] EXCEPT !.pc = "resynced", !.sess = s])
          BY <1>3 DEF Resync, SessionOrNone
    <2>2. s # None => rows[s].st # "none"
          BY <2>1 DEF ReadMirror, LogInv, MirrorIsOpen, Open
    <2>3. reqs'[r] = [reqs[r] EXCEPT !.pc = "resynced", !.sess = s] /\ Only(r)
          BY <1>0, <2>1, PutOne
    <2>4. reqs'[r].pc = "resynced" /\ reqs'[r].sess = s
          BY <1>0, <2>3 DEF Handler
    <2>5. Knows(reqs'[r], rows, nextId) /\ reqs'[r].pc \notin Opening
          BY <2>2, <2>4 DEF Knows, Opening
    <2> QED
          BY <1>a, <1>3, <2>3, <2>5, KeepsUntouched DEF Resync, memvars
  <1>4. CASE Resynced(r)
    <2>1. Light(r)
          BY <1>0, <1>4, FailLight DEF Resynced
    <2>2. running' = None \/ rows[running'].st # "none"
          BY <1>0, <1>4 DEF Resynced, At, Knows
    <2>3. Knows(reqs'[r], rows, nextId) /\ reqs'[r].pc \notin Opening
          BY <2>1 DEF Light, Owing, Opening, Knows
    <2> QED
          BY <1>4, <2>1, <2>2, <2>3, KeepsUntouched DEF Resynced, Light
  <1>5. CASE TimerStop(r)
    <2>1. reqs'[r] = StopThread("fetch") /\ Only(r)
          BY <1>0, <1>5, PutOne DEF TimerStop
    <2>2. Knows(reqs'[r], rows, nextId) /\ reqs'[r].pc \notin Opening
          BY <1>5, <2>1, StopThreadKnows DEF TimerStop, Opening
    <2> QED
          BY <1>a, <1>5, <2>1, <2>2, KeepsUntouched DEF TimerStop, othervars, memvars
  <1>6. CASE SwitchCheck(r)
    <2>1. Put(r, [reqs[r] EXCEPT !.pc = "switch.batch", !.sess = nextId, !.old = running,
                                 !.at = clock, !.engaged = cfg.enabled])
          BY <1>6 DEF SwitchCheck
    <2>2. reqs'[r] = [reqs[r] EXCEPT !.pc = "switch.batch", !.sess = nextId, !.old = running,
                                     !.at = clock, !.engaged = cfg.enabled] /\ Only(r)
          BY <1>0, <2>1, PutOne
    <2>3. reqs'[r].pc = "switch.batch" /\ reqs'[r].sess = nextId /\ reqs'[r].old = running
          BY <1>0, <2>2 DEF Handler
    <2> QED
          BY <1>a, <1>6, <2>2, <2>3, TakesId DEF SwitchCheck, Opening
  <1>7. CASE SwitchDone(r)
    <2>1. Light(r)
          BY <1>0, <1>7, GotoLight, DoneLight DEF SwitchDone, Owing, Opening
    <2>2. running' = reqs[r].sess /\ rows[running'].st # "none"
          BY <1>0, <1>7 DEF SwitchDone, At, Knows
    <2>3. Knows(reqs'[r], rows, nextId) /\ reqs'[r].pc \notin Opening
          BY <2>1 DEF Light, Owing, Opening, Knows
    <2> QED
          BY <1>7, <2>1, <2>2, <2>3, KeepsUntouched DEF SwitchDone, Light
  <1> QED
        BY <1>1, <1>2, <1>3, <1>4, <1>5, <1>6, <1>7

(* pomoStart, pomoBreak, pomoSkip. *)
LEMMA PomoKeeps ==
    ASSUME TypeOK, LogInv, NEW r \in Req,
           PomoStart(r) \/ PomoStartCont(r) \/ PomoBreak(r) \/ BreakSet(r) \/ PomoSkip(r)
    PROVE  LogInv'
  <1>0. HandlersTyped
        BY DEF TypeOK
  <1>b. \A t, p : PomoStartTimer(t, p).pc \notin Owing
        BY ThreadsLight DEF PomoStartTimer
  <1>1. CASE PomoStart(r)
    <2>1. \A t : [Thread("pomoStart") EXCEPT !.task = t].pc \notin Owing
          BY DEF Thread, Free, Owing, Opening
    <2>2. PICK t, p : Put(r, IF running # None THEN [Thread("pomoStart") EXCEPT !.task = t]
                             ELSE PomoStartTimer(t, p))
          BY <1>1 DEF PomoStart
    <2>3. Light(r)
          BY <1>0, <1>b, <2>1, <2>2, PutLight
    <2> QED
          BY <1>1, <2>3, LightKeeps DEF PomoStart
  <1>2. CASE PomoStartCont(r)
    <2>1. Light(r)
          BY <1>0, <1>b, <1>2, PutLight, GotoLight DEF PomoStartCont, Owing, Opening
    <2> QED
          BY <1>2, <2>1, LightKeeps DEF PomoStartCont
  <1>3. CASE PomoBreak(r)
    <2>1. CASE running # None
      <3>1. reqs'[r] = StopThread("pomoBreak") /\ Only(r)
            BY <1>0, <1>3, <2>1, PutOne DEF PomoBreak
      <3>2. Knows(reqs'[r], rows, nextId) /\ reqs'[r].pc \notin Opening
            BY <2>1, <3>1, StopThreadKnows DEF Opening
      <3>3. rows[running].st # "none"
            BY <2>1 DEF LogInv, RunningIsRecorded
      <3> QED
            BY <1>3, <3>1, <3>2, <3>3, KeepsUntouched DEF PomoBreak
    <2>2. CASE running = None
      <3>1. Light(r)
            BY <1>0, <1>3, <2>2, PersistRearmLight DEF PomoBreak, BreakBegins
      <3> QED
            BY <1>3, <3>1, LightKeeps DEF PomoBreak
    <2> QED
          BY <2>1, <2>2
  <1>4. CASE BreakSet(r)
        BY <1>0, <1>4, PersistRearmLight, LightKeeps DEF BreakSet, BreakBegins
  <1>5. CASE PomoSkip(r)
        BY <1>0, <1>5, PersistRearmLight, LightKeeps DEF PomoSkip
  <1> QED
        BY <1>1, <1>2, <1>3, <1>4, <1>5

(* /notify, its batch apart. *)
LEMMA NotifyKeeps ==
    ASSUME TypeOK, LogInv, NEW r \in Req,
           NotifySettings(r) \/ NotifyDeleted(r) \/ GoneDone(r) \/ GoneAnchor(r)
    PROVE  LogInv'
  <1>0. HandlersTyped
        BY DEF TypeOK
  <1>1. CASE NotifySettings(r)
    <2>1. Light(r)
          BY <1>0, <1>1, PersistRearmLight, DoneLight DEF NotifySettings
    <2> QED
          BY <1>1, <2>1, LightKeeps DEF NotifySettings
  <1>2. CASE NotifyDeleted(r)
    <2>1. CASE \E t : Put(r, [StopThread("fetch") EXCEPT !.pc = "gone.batch", !.task = t])
                      /\ running # None
      <3>1. PICK t : Put(r, [StopThread("fetch") EXCEPT !.pc = "gone.batch", !.task = t])
                     /\ running # None
            BY <2>1
      <3>2. PICK h : h = [StopThread("fetch") EXCEPT !.pc = "gone.batch", !.task = t]
            OBVIOUS
      <3>3. h.pc = "gone.batch"
        <4>1. StopThread("fetch") \in Handler
              BY StopThreadTyped DEF TypeOK
        <4> QED
              BY <3>2, <4>1 DEF Handler
      <3>a. reqs'[r] = h /\ Only(r)
            BY <1>0, <3>1, <3>2, PutOne
      <3>4. Knows(reqs'[r], rows, nextId) /\ reqs'[r].pc \notin Opening
        <4>1. Knows(h, rows, nextId)
              BY <3>1, <3>2, StopThreadKnows
        <4> QED
              BY <3>3, <3>a, <4>1 DEF Opening
      <3>5. rows[running].st # "none"
            BY <3>1 DEF LogInv, RunningIsRecorded
      <3> QED
            BY <1>2, <3>a, <3>4, <3>5, KeepsUntouched DEF NotifyDeleted
    <2>2. CASE Done(r)
          BY <1>0, <1>2, <2>2, DoneLight, LightKeeps DEF NotifyDeleted
    <2> QED
          BY <1>2, <2>1, <2>2 DEF NotifyDeleted
  <1>3. CASE GoneDone(r)
    <2>1. Light(r)
          BY <1>0, <1>3, GotoLight DEF GoneDone, Owing, Opening
    <2> QED
          BY <1>3, <2>1, LightKeeps DEF GoneDone
  <1>4. CASE GoneAnchor(r)
        BY <1>0, <1>4, DoneLight, LightKeeps DEF GoneAnchor
  <1> QED
        BY <1>1, <1>2, <1>3, <1>4

(* alarm. *)
LEMMA AlarmKeeps ==
    ASSUME TypeOK, LogInv, NEW r \in Req, AlarmFires(r) \/ AlarmStep(r) \/ Throws(r)
    PROVE  LogInv'
  <1>0. HandlersTyped
        BY DEF TypeOK
  <1>b. \A st : [reqs[r] EXCEPT !.stage = st].pc = reqs[r].pc
        BY DEF TypeOK, HandlersTyped, Handler
  <1>1. CASE AlarmFires(r)
    <2>1. [Thread("load") EXCEPT !.from = "alarm"].pc \notin Owing
          BY DEF Thread, Free, Owing, Opening
    <2>2. Light(r)
          BY <1>0, <1>1, <2>1, ThreadsLight, PutLight DEF AlarmFires
    <2> QED
          BY <1>1, <2>2, LightKeeps DEF AlarmFires, memvars
  <1>2. CASE AlarmNudge(r)
    <2>1. Light(r)
          BY <1>0, <1>b, <1>2, PutLight DEF AlarmNudge, At, Owing, Opening
    <2> QED
          BY <1>2, <2>1, LightKeeps DEF AlarmNudge
  <1>3. CASE AlarmDecide(r)
    <2>1. Light(r)
          BY <1>0, <1>b, <1>3, PutLight DEF AlarmDecide, At, Owing, Opening
    <2> QED
          BY <1>3, <2>1, LightKeeps DEF AlarmDecide
  <1>4. CASE AlarmBreakOver(r)
    <2>1. Light(r)
          BY <1>0, <1>4, GotoLight DEF AlarmBreakOver, Owing, Opening
    <2> QED
          BY <1>4, <2>1, LightKeeps DEF AlarmBreakOver
  <1>5. CASE AlarmAuto(r)
    <2>1. Light(r)
          BY <1>0, <1>5, ThreadsLight, PutLight, DoneLight DEF AlarmAuto
    <2> QED
          BY <1>5, <2>1, LightKeeps DEF AlarmAuto
  <1>6. CASE AlarmRearm(r)
        BY <1>0, <1>6, DoneLight, LightKeeps DEF AlarmRearm, memvars
  <1>7. CASE Throws(r)
        BY <1>0, <1>7, DoneLight, LightKeeps DEF Throws, memvars
  <1> QED
        BY <1>1, <1>2, <1>3, <1>4, <1>5, <1>6, <1>7 DEF AlarmStep

(* Edits, evictions, the clock. *)
LEMMA AroundKeeps ==
    ASSUME TypeOK, LogInv, Around
    PROVE  LogInv'
  <1>1. CASE Evict
    <2>1. \A r \in Req : reqs'[r].pc = "free"
          BY <1>1 DEF Evict, Free
    <2>2. running' = None
          BY <1>1 DEF Evict
    <2>3. OneOpenSession' /\ MirrorIsOpen' /\ RunningIsRecorded'
          BY <1>1, <2>2, Untouched DEF Evict
    <2> QED
          BY <1>1, <2>1, <2>3 DEF Evict, dbvars, LogInv, HandlersKnow, Knows, Opening, DistinctIds, FutureIds
  <1>2. CASE Around /\ ~Evict
    <2>1. UNCHANGED <<dbvars, running, reqs, nextId>>
          BY <1>2 DEF Around, SaveSettings, PatchProfile, TombstoneTask, DeleteGroup, ArchiveProject,
                      UndoDelete, LoseNotify, Tick, memvars
    <2> QED
          BY <2>1, StillKeeps
  <1> QED
        BY <1>1, <1>2

LEMMA LogInvStep == TypeOK /\ LogInv /\ [Next]_vars => LogInv'
  <1> SUFFICES ASSUME TypeOK, LogInv, [Next]_vars
               PROVE  LogInv'
      OBVIOUS
  <1>1. ASSUME NEW r \in Req,
               Arrive(r) \/ Notified(r) \/ AlarmFires(r) \/ LoadStep(r) \/ TimerStep(r) \/ AlarmStep(r)
               \/ Throws(r)
        PROVE  LogInv'
    <2>1. CASE Arrive(r)
          BY <2>1, LoadKeeps, TimerLightKeeps, TimerKnowingKeeps, PomoKeeps DEF Arrive
    <2>2. CASE TimerStep(r)
          BY <2>2, TimerLightKeeps, TimerKnowingKeeps, BatchKeeps, PomoKeeps, NotifyKeeps DEF TimerStep
    <2> QED
          BY <1>1, <2>1, <2>2, LoadKeeps, NotifyKeeps, AlarmKeeps DEF Notified
  <1>2. CASE Around
        BY <1>2, AroundKeeps
  <1>3. CASE UNCHANGED vars
        BY <1>3, StillKeeps DEF vars, dbvars
  <1> QED
        BY <1>1, <1>2, <1>3 DEF Next

LEMMA LogInvInit == Init => LogInv
  BY BoundAssumption DEF Init, LogInv, OneOpenSession, MirrorIsOpen, RunningIsRecorded, Open, NoRow,
         HandlersKnow, Knows, DistinctIds, FutureIds, Free, Opening

(* LogInv holds in every state; with it each property it is made of. *)
THEOREM LogInvariant == Spec => []LogInv
  <1>1. Init => LogInv
        BY LogInvInit
  <1>2. TypeOK /\ LogInv /\ [Next]_vars => LogInv'
        BY LogInvStep
  <1> QED
        BY <1>1, <1>2, TypeCorrect, PTL DEF Spec

(* The single-timer invariant: however handlers interleave, batches fail or
   lose their answer, and the object dies and comes back, no two sessions of
   the user are open. *)
THEOREM SingleOpenSession == Spec => []OneOpenSession
  <1>1. LogInv => OneOpenSession
        BY DEF LogInv
  <1> QED
        BY <1>1, LogInvariant, PTL

(* The recovery row of active_timers names an open session, or there is none:
   what ensureLoaded adopts was never a session that had ended. *)
THEOREM RecoveryRowIsOpen == Spec => []MirrorIsOpen
  <1>1. LogInv => MirrorIsOpen
        BY DEF LogInv
  <1> QED
        BY <1>1, LogInvariant, PTL

(* The hub's memory never runs a session D1 has no row of. *)
THEOREM RunningWasConfirmed == Spec => []RunningIsRecorded
  <1>1. LogInv => RunningIsRecorded
        BY DEF LogInv
  <1> QED
        BY <1>1, LogInvariant, PTL

-----------------------------------------------------------------------------
(* UserHub implements SingleTimer *)

St(s) == rows[s].st

(* The three ways the log changes: session i closes, perhaps not for the first
   time; session i opens; both, for two sessions, in one transaction. *)
Closes(i) == /\ St(i) # "none"
             /\ \A s \in SessionId : St(s)' = IF s = i THEN "ended" ELSE St(s)

Opens(i) == /\ St(i) = "none" /\ \A s \in SessionId : St(s) # "open"
            /\ \A s \in SessionId : St(s)' = IF s = i THEN "open" ELSE St(s)

Replaces(o, i) == /\ St(o) # "none" /\ St(i) = "none"
                  /\ \A s \in SessionId \ {o} : St(s) # "open"
                  /\ \A s \in SessionId : St(s)' = IF s = i THEN "open"
                                                   ELSE IF s = o THEN "ended" ELSE St(s)

LogStep == \/ UNCHANGED rows
           \/ \E i \in SessionId : Closes(i) \/ Opens(i)
           \/ \E o, i \in SessionId : Replaces(o, i)

LEMMA BatchSteps ==
    ASSUME TypeOK, LogInv, NEW r \in Req,
           StartBatch(r) \/ StopBatch(r) \/ SwitchBatch(r) \/ GoneBatch(r)
    PROVE  LogStep
  <1>0. rows \in [SessionId -> Row] /\ Knows(reqs[r], rows, nextId) /\ reqs[r] \in Handler
        BY DEF TypeOK, HandlersTyped, LogTyped, LogInv, HandlersKnow
  <1>a. reqs[r].sess # None => reqs[r].sess \in SessionId
        BY <1>0 DEF Handler, SessionOrNone
  <1>b. \A s \in 1..(nextId - 1) : s \in SessionId
        BY BoundAssumption DEF TypeOK, CountsTyped, SessionId
  <1>1. CASE UNCHANGED rows
        BY <1>1 DEF LogStep
  <1>2. CASE StartBatch(r) /\ rows' # rows
    <2>1. /\ reqs[r].sess \in SessionId /\ St(reqs[r].sess) = "none" /\ IndexAllowsOpen(rows)
          /\ rows' = Inserted(rows, reqs[r].sess, reqs[r].task, reqs[r].at)
          BY <1>0, <1>b, <1>2 DEF StartBatch, Batch, At, Knows, Opening, dbvars, St
    <2>2. \A s \in SessionId : rows'[s].st = IF s = reqs[r].sess THEN "open" ELSE rows[s].st
          BY <1>0, <2>1, InsertedIs
    <2>3. Opens(reqs[r].sess)
          BY <2>1, <2>2 DEF Opens, St, IndexAllowsOpen
    <2> QED
          BY <2>1, <2>3 DEF LogStep
  <1>3. CASE (StopBatch(r) \/ GoneBatch(r)) /\ rows' # rows
    <2>1. /\ reqs[r].sess \in SessionId /\ St(reqs[r].sess) # "none"
          /\ rows' = Ended(rows, reqs[r].sess, reqs[r].at)
          BY <1>0, <1>a, <1>3 DEF StopBatch, GoneBatch, Batch, At, Knows, dbvars, St
    <2>2. \A s \in SessionId : rows'[s].st = IF s = reqs[r].sess THEN "ended" ELSE rows[s].st
          BY <1>0, <2>1, EndedIs
    <2>3. Closes(reqs[r].sess)
          BY <2>1, <2>2 DEF Closes, St
    <2> QED
          BY <2>1, <2>3 DEF LogStep
  <1>4. CASE SwitchBatch(r) /\ rows' # rows
    <2> DEFINE base == Ended(rows, reqs[r].old, reqs[r].at)
    <2>1. /\ reqs[r].sess \in SessionId /\ St(reqs[r].sess) = "none"
          /\ reqs[r].old \in SessionId /\ St(reqs[r].old) # "none" /\ IndexAllowsOpen(base)
          /\ rows' = Inserted(base, reqs[r].sess, reqs[r].task, reqs[r].at)
          BY <1>0, <1>b, <1>4 DEF SwitchBatch, Batch, At, Knows, Opening, dbvars, St, Handler, SessionOrNone
    <2>2. base \in [SessionId -> Row]
          BY <1>0, EndedTyped DEF Handler
    <2>3. \A s \in SessionId : base[s].st = IF s = reqs[r].old THEN "ended" ELSE rows[s].st
          BY <1>0, <2>1, EndedIs
    <2> HIDE DEF base
    <2>4. \A s \in SessionId : rows'[s].st = IF s = reqs[r].sess THEN "open" ELSE base[s].st
          BY <2>1, <2>2, InsertedIs
    <2>5. Replaces(reqs[r].old, reqs[r].sess)
          BY <2>1, <2>3, <2>4 DEF Replaces, St, IndexAllowsOpen
    <2> QED
          BY <2>1, <2>5 DEF LogStep
  <1> QED
        BY <1>1, <1>2, <1>3, <1>4

(* No other action writes the log. *)
LEMMA OnlyBatchesWrite ==
    ASSUME [Next]_vars,
           ~ \E r \in Req : StartBatch(r) \/ StopBatch(r) \/ SwitchBatch(r) \/ GoneBatch(r)
    PROVE  UNCHANGED rows
  <1>1. CASE Around
        BY <1>1 DEF Around, SaveSettings, PatchProfile, TombstoneTask, DeleteGroup, ArchiveProject,
                    UndoDelete, LoseNotify, Evict, Tick, dbvars
  <1>2. ASSUME NEW r \in Req, Arrive(r) \/ Notified(r) \/ AlarmFires(r) \/ LoadStep(r) \/ AlarmStep(r)
               \/ Throws(r)
        PROVE  UNCHANGED rows
        BY <1>2 DEF Arrive, Load, Refuse, TimerStart, TimerStop, TimerSwitch, PomoStart, PomoBreak,
                    PomoSkip, Notified, NotifySettings, NotifyDeleted, AlarmFires, LoadStep,
                    LoadSettings, LoadMirror, LoadPomo, LoadDone, AlarmStep, AlarmNudge, AlarmDecide,
                    AlarmBreakOver, AlarmAuto, AlarmRearm, Throws, othervars, dbvars
  <1>3. ASSUME NEW r \in Req, TimerStep(r)
        PROVE  UNCHANGED rows
        BY <1>3 DEF TimerStep, StartCheck, StartNotFound, StartDone, StartPomo, StartRearm, Resync,
                    Resynced, StopFreeze, StopClear, SwitchRefused, SwitchCheck, SwitchDone,
                    RearmAndReply, PomoStartCont, BreakSet, GoneDone, GoneAnchor, othervars, dbvars
  <1> QED
        BY <1>1, <1>2, <1>3 DEF Next, vars

(* The open session of the abstract timer is the open row, which is unique. *)
IsOpenSession == /\ (\A s \in SessionId : St(s) # "open") => OpenSession = None
                 /\ \A s \in SessionId : St(s) = "open" => OpenSession = s

LEMMA OpenSessionIs == OneOpenSession => IsOpenSession
  <1> SUFFICES ASSUME OneOpenSession
               PROVE  IsOpenSession
      OBVIOUS
  <1>1. ASSUME NEW s \in SessionId, St(s) = "open"
        PROVE  OpenSession = s
    <2>1. s \in Open /\ \A u \in Open : u = s
          BY <1>1 DEF St, Open, OneOpenSession
    <2>2. (CHOOSE u \in Open : TRUE) \in Open
          BY <2>1
    <2> QED
          BY <2>1, <2>2 DEF OpenSession
  <1>2. ASSUME \A s \in SessionId : St(s) # "open"
        PROVE  OpenSession = None
        BY <1>2 DEF St, Open, OpenSession
  <1> QED
        BY <1>1, <1>2 DEF IsOpenSession

LEMMA StepRefines ==
    ASSUME LogTyped, OneOpenSession, OneOpenSession', LogStep
    PROVE  [TimerPromise!TimerNext]_<<OpenSession, ClosedSessions>>
  <1>a. \A s \in SessionId : s # None
        BY NoneAssumption DEF SessionId
  <1>b. IsOpenSession /\ IsOpenSession'
        BY OpenSessionIs, PTL
  <1>c. \A s \in SessionId : St(s) \in {"none", "open", "ended"}
        BY DEF LogTyped, Row, St
  <1>1. CASE UNCHANGED rows
        BY <1>1 DEF OpenSession, ClosedSessions, Open
  <1>2. ASSUME NEW i \in SessionId, Closes(i), St(i) = "open"
        PROVE  TimerPromise!Stop
    <2>1. OpenSession = i
          BY <1>2, <1>b DEF IsOpenSession
    <2>2. OpenSession' = None
          BY <1>2, <1>b DEF IsOpenSession, Closes, OneOpenSession, Open, St
    <2>3. ClosedSessions' = ClosedSessions \cup {i}
          BY <1>2 DEF Closes, ClosedSessions, St
    <2> QED
          BY <1>a, <2>1, <2>2, <2>3 DEF TimerPromise!Stop
  <1>3. ASSUME NEW i \in SessionId, Closes(i), St(i) # "open"
        PROVE  UNCHANGED <<OpenSession, ClosedSessions>>
    <2>1. St(i) = "ended"
          BY <1>c, <1>3 DEF Closes
    <2>2. \A s \in SessionId : rows'[s].st = rows[s].st
          BY <1>3, <2>1 DEF Closes, St
    <2>3. Open' = Open /\ ClosedSessions' = ClosedSessions
          BY <2>2 DEF Open, ClosedSessions
    <2> QED
          BY <2>3 DEF OpenSession
  <1>4. ASSUME NEW i \in SessionId, Opens(i)
        PROVE  TimerPromise!Start
    <2>1. OpenSession = None
          BY <1>4, <1>b DEF IsOpenSession, Opens
    <2>2. OpenSession' = i
          BY <1>4, <1>b DEF IsOpenSession, Opens
    <2>3. UNCHANGED ClosedSessions /\ i \notin ClosedSessions
          BY <1>4 DEF Opens, ClosedSessions, St
    <2> QED
          BY <1>a, <2>1, <2>2, <2>3 DEF TimerPromise!Start, TimerPromise!Fresh
  <1>5. ASSUME NEW o \in SessionId, NEW i \in SessionId, Replaces(o, i)
        PROVE  TimerPromise!Start \/ TimerPromise!Switch
    <2>1. OpenSession' = i
          BY <1>5, <1>b DEF IsOpenSession, Replaces
    <2>2. i # o /\ i \notin ClosedSessions
          BY <1>5 DEF Replaces, ClosedSessions, St
    <2>3. ClosedSessions' = ClosedSessions \cup {o}
          BY <1>5, <2>2 DEF Replaces, ClosedSessions, St
    <2>4. CASE St(o) = "open"
      <3>1. OpenSession = o
            BY <2>4, <1>b DEF IsOpenSession
      <3> QED
            BY <1>a, <2>1, <2>2, <2>3, <3>1 DEF TimerPromise!Switch, TimerPromise!Fresh
    <2>5. CASE St(o) # "open"
      <3>1. OpenSession = None
            BY <1>5, <2>5, <1>b DEF IsOpenSession, Replaces
      <3>2. UNCHANGED ClosedSessions
            BY <1>c, <1>5, <2>5 DEF Replaces, ClosedSessions, St
      <3> QED
            BY <1>a, <2>1, <2>2, <3>1, <3>2 DEF TimerPromise!Start, TimerPromise!Fresh
    <2> QED
          BY <2>4, <2>5
  <1> QED
        BY <1>1, <1>2, <1>3, <1>4, <1>5 DEF LogStep, TimerPromise!TimerNext

(* The hub implements SingleTimer for every number of handlers, sessions, faults
   and evictions: a session opens when none is open or in exchange for the one
   that is, it opens once, and it closes for good. *)
THEOREM HubImplementsTimer == Spec => ImplementsSingleTimer
  <1>1. Init => TimerPromise!TimerInit
        BY DEF Init, NoRow, OpenSession, ClosedSessions, Open, TimerPromise!TimerInit
  <1>2. TypeOK /\ LogInv /\ LogInv' /\ [Next]_vars
            => [TimerPromise!TimerNext]_<<OpenSession, ClosedSessions>>
    <2> SUFFICES ASSUME TypeOK, LogInv, LogInv', [Next]_vars
                 PROVE  [TimerPromise!TimerNext]_<<OpenSession, ClosedSessions>>
        OBVIOUS
    <2>1. LogStep
          BY BatchSteps, OnlyBatchesWrite DEF LogStep
    <2>2. LogTyped /\ OneOpenSession /\ OneOpenSession'
          BY DEF TypeOK, LogInv
    <2> QED
          BY <2>1, <2>2, StepRefines
  <1> QED
        BY <1>1, <1>2, TypeCorrect, LogInvariant, PTL
        DEF Spec, ImplementsSingleTimer, TimerPromise!TimerSpec, TimerPromise!tvars

-----------------------------------------------------------------------------
(***************************************************************************)
(* PART 3: requests handled one at a time.                                 *)
(*                                                                         *)
(* Under Serial no request is taken while another one waits.  SerialInv is *)
(* then inductive beside LogInv, and what it says of the log follows: an   *)
(* open session can be recovered, sessions do not overlap, memory and log  *)
(* agree at rest, and an ended session never changes.                      *)
(***************************************************************************)

(* The records of the handlers.                                            *)
Is(h, pc, from, task, sess, at, stage) ==
    /\ h.pc = pc /\ h.from = from /\ h.task = task /\ h.sess = sess
    /\ h.at = at /\ h.stage = stage /\ h.old = None /\ ~h.engaged

LEMMA Threads ==
    /\ \A pc : Is(Thread(pc), pc, "fetch", None, None, 0, "none")
    /\ \A t, f : Is(StartThread(t, f), "start.check", f, t, None, 0, "none")
    /\ \A f : Is(StopThread(f), "stop.batch", f, None, running, clock, "none")
    /\ \A at : Is(AlarmBody(at), "alarm", "alarm", None, None, at, "nudge")
    /\ Is(AlarmTail, "alarm", "alarm", None, None, 0, "end")
    /\ Is(Free, "free", "fetch", None, None, 0, "none")
<1>1. \A pc : Is(Thread(pc), pc, "fetch", None, None, 0, "none")
  BY DEF Thread, Free, Is
<1>2. \A t, f : Is(StartThread(t, f), "start.check", f, t, None, 0, "none")
  BY <1>1 DEF StartThread, Thread, Free, Is
<1>3. \A f : Is(StopThread(f), "stop.batch", f, None, running, clock, "none")
  BY <1>1 DEF StopThread, Thread, Free, Is
<1>4. \A at : Is(AlarmBody(at), "alarm", "alarm", None, None, at, "nudge")
  BY <1>1 DEF AlarmBody, Thread, Free, Is
<1>5. Is(AlarmTail, "alarm", "alarm", None, None, 0, "end")
  BY <1>1 DEF AlarmTail, AlarmBody, Thread, Free, Is
<1>6. Is(Free, "free", "fetch", None, None, 0, "none")
  BY DEF Free, Is
<1>7. QED
  BY <1>1, <1>2, <1>3, <1>4, <1>5, <1>6

LEMMA Goes ==
    ASSUME HandlersTyped, NEW r \in Req, NEW pc, Goto(r, pc)
    PROVE  /\ reqs'[r].pc = pc /\ reqs'[r].from = reqs[r].from /\ reqs'[r].task = reqs[r].task
           /\ reqs'[r].sess = reqs[r].sess /\ reqs'[r].old = reqs[r].old /\ reqs'[r].at = reqs[r].at
           /\ reqs'[r].stage = reqs[r].stage /\ reqs'[r].engaged = reqs[r].engaged
  BY DEF Goto, Put, HandlersTyped, Handler

(* A step that leaves the log alone and takes no id.                       *)
Harmless ==
    {"start.check", "free", "load", "load.mirror", "load.done", "ready", "start.pomo", "start.rearm",
     "switch.check", "rearm", "pomoStart", "break.set", "gone.anchor", "alarm", "alarm.auto", "resync"}

LEMMA LightSerial ==
    ASSUME Serial, TypeOK, SerialInv, NEW r \in Req, UNCHANGED <<rows, mirror, clock, nextId>>,
           notes' \subseteq notes, reqs'[r].pc \in Harmless,
           reqs'[r].pc \notin Loading \cup {"free"} => loaded',
           reqs'[r].pc = "start.check" => running' = None,
           reqs'[r].pc # "resync" /\ (loaded' \/ reqs'[r].pc = "load.done") => Recalls(running')
    PROVE  SerialInv'
<1>1. Open' = {mirror'} \ {None} /\ Past(rows, clock)' /\ NoOverlap'
  BY DEF SerialInv, Open, Past, NoOverlap, Ordered
<1>2. HandlerRecalls(reqs[r])' /\ HandlerInTime(reqs[r])'
  BY DEF HandlerRecalls, HandlerInTime, Harmless, Loading, Unsettled, Opening, Recalls
<1>3. \A q \in Req : q = r
  BY DEF Serial
<1>4. QED
  BY <1>1, <1>2, <1>3 DEF SerialInv

LEMMA LoadSerial ==
    ASSUME Serial, TypeOK, LogInv, SerialInv, NEW r \in Req, Load(r) \/ LoadStep(r)
    PROVE  SerialInv'
<1>0. HandlersTyped /\ HandlerRecalls(reqs[r])
  BY DEF TypeOK, SerialInv
<1>1. CASE Load(r)
  <2>1. reqs'[r].pc = "load" /\ ~loaded'
    BY <1>0, <1>1, Threads, PutOne DEF Load, othervars, memvars, Is
  <2>2. QED
    BY <1>1, <2>1, LightSerial DEF Load, othervars, memvars, orgvars, dbvars, Harmless, Loading
<1>2. CASE LoadSettings(r)
  <2>1. reqs'[r].pc = "load.mirror" /\ loaded' = loaded /\ running' = running
    BY <1>0, <1>2, Goes DEF LoadSettings
  <2>2. loaded => Recalls(running)
    BY <1>0, <1>2 DEF HandlerRecalls, At, LoadSettings, Unsettled
  <2>3. QED
    BY <1>2, <2>1, <2>2, LightSerial DEF LoadSettings, orgvars, dbvars, Harmless, Loading, Recalls
<1>3. CASE LoadMirror(r)
  <2>1. PICK s \in SessionOrNone :
              ReadMirror(s) /\ Put(r, [reqs[r] EXCEPT !.pc = "load.pomo", !.sess = s])
    BY <1>3 DEF LoadMirror, SessionOrNone
  <2>2. Recalls(s)
    BY <2>1 DEF ReadMirror, Fault, Recalls
  <2>8. reqs'[r] = [reqs[r] EXCEPT !.pc = "load.pomo", !.sess = s]
    BY <1>0, <2>1, PutOne
  <2>3. reqs'[r].pc = "load.pomo" /\ reqs'[r].sess = s
    BY <1>0, <2>8 DEF HandlersTyped, Handler
  <2>4. loaded => Recalls(running)
    BY <1>0, <1>3 DEF HandlerRecalls, At, LoadMirror, Unsettled
  <2>5. HandlerRecalls(reqs[r])' /\ HandlerInTime(reqs[r])'
    BY <1>3, <2>2, <2>3, <2>4 DEF HandlerRecalls, HandlerInTime, LoadMirror, Recalls, dbvars, memvars, Opening, Loading, Unsettled
  <2>6. Open' = {mirror'} \ {None} /\ Past(rows, clock)' /\ NoOverlap'
    BY <1>3 DEF SerialInv, LoadMirror, dbvars, Open, Past, NoOverlap, Ordered
  <2>7. QED
    BY <1>3, <2>5, <2>6 DEF SerialInv, Serial, LoadMirror, orgvars
<1>4. CASE LoadPomo(r)
  <2>1. reqs'[r].pc = "load.done" /\ Recalls(running')
    BY <1>0, <1>4, Goes DEF LoadPomo, At, HandlerRecalls
  <2>2. QED
    BY <1>4, <2>1, LightSerial DEF LoadPomo, orgvars, dbvars, Harmless, Loading, Recalls
<1>5. CASE LoadDone(r)
  <2>1. reqs'[r].pc \in {"ready", "alarm"} /\ Recalls(running) /\ running' = running /\ loaded'
    BY <1>0, <1>5, Threads, PutOne DEF LoadDone, Is, At, HandlerRecalls, Unsettled
  <2>2. QED
    BY <1>5, <2>1, LightSerial DEF LoadDone, orgvars, dbvars, Harmless, Loading, Recalls
<1>6. QED
  BY <1>1, <1>2, <1>3, <1>4, <1>5 DEF LoadStep
-----------------------------------------------------------------------------
(* The log when its open row is closed, and when one is opened.            *)
LEMMA EndedLog ==
    ASSUME NEW log \in [SessionId -> Row], NEW i \in SessionId, NEW at \in Int,
           Ordered(log), Past(log, at), \A s \in SessionId : log[s].st = "open" => s = i, log[i].st = "open"
    PROVE  /\ Ended(log, i, at) \in [SessionId -> Row]
           /\ \A s \in SessionId : Ended(log, i, at)[s].st # "open"
           /\ \A s \in SessionId : Ended(log, i, at)[s].st = "none" <=> log[s].st = "none"
           /\ Ordered(Ended(log, i, at)) /\ Past(Ended(log, i, at), at)
<1> DEFINE new == Ended(log, i, at)
<1>1. new \in [SessionId -> Row] 
  BY EndedTyped DEF SessionOrNone
<1>2. \A s \in SessionId :
         IF s = i THEN new[s].st = "ended" /\ new[s].end = at /\ new[s].start = log[s].start
         ELSE new[s] = log[s]
  BY DEF Ended, Row
<1>3. Past(new, at)
  BY <1>2 DEF Past
<1>4. Ordered(new)
  BY <1>2 DEF Ordered
<1>5. QED
  BY <1>1, <1>2, <1>3, <1>4

LEMMA InsertedLog ==
    ASSUME NEW log \in [SessionId -> Row], NEW i \in SessionId, NEW t \in TaskOrNone, NEW at \in Int,
           Ordered(log), Past(log, at), \A s \in SessionId : log[s].st # "open",
           \A s \in SessionId : log[s].st # "none" => s < i
    PROVE  /\ \A s \in SessionId : Inserted(log, i, t, at)[s].st = "open" <=> s = i
           /\ Ordered(Inserted(log, i, t, at)) /\ Past(Inserted(log, i, t, at), at)
<1> DEFINE new == Inserted(log, i, t, at)
<1>1. \A s \in SessionId :
         IF s = i THEN new[s].st = "open" /\ new[s].start = at
         ELSE new[s] = log[s]
  BY DEF Inserted
<1>2. Past(new, at)
  BY <1>1 DEF Past
<1>3. \A s \in SessionId : log[s].st \in {"none", "ended"}
  BY DEF Row
<1>4. Ordered(new)
  BY <1>1, <1>3 DEF Ordered, Past, SessionId
<1>5. QED
  BY <1>1, <1>2, <1>4

LEMMA PastLater ==
    ASSUME NEW log \in [SessionId -> Row], NEW at \in Int, NEW to \in Int, at <= to, Past(log, at)
    PROVE  Past(log, to)
  BY DEF Past, Row

-----------------------------------------------------------------------------
(* timerStart, timerStop and timerSwitch: the steps that leave the log      *)
(* alone.                                                                  *)
LEMMA SucceedLands ==
    ASSUME HandlersTyped, NEW r \in Req, Succeed(r)
    PROVE  reqs'[r].pc \in {"free", "break.set", "alarm"}
<1>1. PICK h \in {Thread("break.set"), AlarmTail, Free} : Put(r, h)
  BY DEF Succeed
<1>2. reqs'[r] = h
  BY <1>1, PutOne
<1>3. QED
  BY <1>2, Threads DEF Is

LEMMA PersistRearmLands ==
    ASSUME HandlersTyped, NEW r \in Req, PersistRearm(r)
    PROVE  reqs'[r].pc \in {"free", "rearm"}
<1>1. PICK h \in {Thread("rearm"), Free} : Put(r, h)
  BY DEF PersistRearm, Done
<1>2. reqs'[r] = h
  BY <1>1, PutOne
<1>3. QED
  BY <1>2, Threads DEF Is

LEMMA FailLands ==
    ASSUME HandlersTyped, NEW r \in Req, Fail(r)
    PROVE  reqs'[r].pc \in {"free", "rearm", "alarm"}
<1>1. CASE reqs[r].from = "pomoBreak"
  BY <1>1, PersistRearmLands DEF Fail, BreakBegins
<1>2. CASE reqs[r].from # "pomoBreak"
  <2>1. PICK h \in {AlarmTail, Free} : Put(r, h)
    BY <1>2 DEF Fail, Done
  <2>2. reqs'[r] = h
    BY <2>1, PutOne
  <2>3. QED
    BY <2>2, Threads DEF Is
<1>3. QED
  BY <1>1, <1>2

LEMMA TimerLightSerial ==
    ASSUME Serial, TypeOK, LogInv, SerialInv, NEW r \in Req,
           TimerStart(r) \/ StartNotFound(r) \/ StartPomo(r) \/ StartRearm(r)
           \/ Resynced(r) \/ StopClear(r) \/ SwitchRefused(r) \/ RearmAndReply(r) \/ Refuse(r)
           \/ TimerSwitch(r)
    PROVE  SerialInv'
<1>0. HandlersTyped /\ HandlerRecalls(reqs[r])
  BY DEF TypeOK, SerialInv
<1> USE DEF Harmless, Loading, Unsettled
<1>1. CASE TimerStart(r)
  <2>1. reqs'[r].pc = "start.check" /\ running' = None /\ loaded' = loaded
    BY <1>0, <1>1, Threads, PutOne DEF TimerStart, othervars, memvars, Is
  <2>2. loaded /\ Recalls(None)
    BY <1>0, <1>1 DEF TimerStart, Entering, At, HandlerRecalls
  <2>3. QED
    BY <1>1, <2>1, <2>2, LightSerial DEF TimerStart, othervars, orgvars, dbvars, Recalls
<1>2. CASE StartNotFound(r)
  <2>1. reqs'[r].pc \in {"free", "rearm", "alarm"}
    BY <1>0, <1>2, FailLands DEF StartNotFound
  <2>2. loaded /\ Recalls(running)
    BY <1>0, <1>2 DEF StartNotFound, At, HandlerRecalls
  <2>3. QED
    BY <1>2, <2>1, <2>2, LightSerial DEF StartNotFound, orgvars, dbvars, Recalls
<1>3. CASE StartPomo(r)
  <2>1. reqs'[r].pc \in {"start.rearm", "free", "break.set", "alarm"}
    BY <1>0, <1>3, SucceedLands, Goes DEF StartPomo
  <2>2. loaded /\ Recalls(running)
    BY <1>0, <1>3 DEF StartPomo, At, HandlerRecalls
  <2>3. QED
    BY <1>3, <2>1, <2>2, LightSerial DEF StartPomo, orgvars, dbvars, Recalls
<1>4. CASE StartRearm(r)
  <2>1. reqs'[r].pc \in {"free", "break.set", "alarm"}
    BY <1>0, <1>4, SucceedLands DEF StartRearm
  <2>2. loaded /\ Recalls(running)
    BY <1>0, <1>4 DEF StartRearm, At, HandlerRecalls
  <2>3. QED
    BY <1>4, <2>1, <2>2, LightSerial DEF StartRearm, orgvars, dbvars, memvars, Recalls
<1>5. CASE Resynced(r)
  <2>1. reqs'[r].pc \in {"free", "rearm", "alarm"}
    BY <1>0, <1>5, FailLands DEF Resynced
  <2>2. loaded /\ Recalls(running')
    BY <1>0, <1>5 DEF Resynced, At, HandlerRecalls
  <2>3. QED
    BY <1>5, <2>1, <2>2, LightSerial DEF Resynced, orgvars, dbvars, Recalls
<1>6. CASE StopClear(r)
  <2>1. reqs'[r].pc \in {"free", "break.set", "alarm"}
    BY <1>0, <1>6, SucceedLands DEF StopClear
  <2>2. loaded /\ Recalls(running')
    BY <1>0, <1>6 DEF StopClear, At, HandlerRecalls, Recalls
  <2>3. QED
    BY <1>6, <2>1, <2>2, LightSerial DEF StopClear, orgvars, dbvars, Recalls
<1>7. CASE SwitchRefused(r) \/ RearmAndReply(r) \/ Refuse(r)
  <2>1. reqs'[r].pc = "free" /\ running' = running /\ loaded' = loaded
    BY <1>0, <1>7, Threads, PutOne DEF SwitchRefused, RearmAndReply, Refuse, othervars, memvars, Done, Is
  <2>2. loaded /\ Recalls(running)
    BY <1>0, <1>7 DEF SwitchRefused, RearmAndReply, Refuse, At, HandlerRecalls
  <2>3. QED
    BY <1>7, <2>1, <2>2, LightSerial DEF SwitchRefused, RearmAndReply, Refuse, othervars, orgvars, dbvars, Recalls
<1>8. CASE TimerSwitch(r)
  <2>1. PICK t \in Task :
          Put(r, IF running = None THEN StartThread(t, "fetch") ELSE [Thread("switch.check") EXCEPT !.task = t])
    BY <1>8 DEF TimerSwitch
  <2>2. reqs'[r] = IF running = None THEN StartThread(t, "fetch")
                   ELSE [Thread("switch.check") EXCEPT !.task = t]
    BY <1>0, <2>1, PutOne
  <2>3. reqs'[r].pc = IF running = None THEN "start.check" ELSE "switch.check"
    <3>1. CASE running = None
      BY <2>2, <3>1, Threads DEF Is
    <3>2. CASE running # None
      BY <2>2, <3>2 DEF Thread, Free
    <3>3. QED
      BY <3>1, <3>2
  <2>4. loaded /\ Recalls(running) /\ running' = running /\ loaded' = loaded
    BY <1>0, <1>8 DEF TimerSwitch, Entering, At, HandlerRecalls, othervars, memvars
  <2>5. QED
    BY <1>8, <2>3, <2>4, LightSerial DEF TimerSwitch, othervars, orgvars, dbvars, Recalls
<1>9. QED
  BY <1>1, <1>2, <1>3, <1>4, <1>5, <1>6, <1>7, <1>8
LEMMA LandsLightly ==
    ASSUME Serial, TypeOK, SerialInv, NEW r \in Req, reqs[r].pc \notin Loading \cup {"free"} \/ loaded,
           UNCHANGED <<rows, mirror, clock, nextId, loaded>>, notes' \subseteq notes,
           reqs'[r].pc \in Harmless \ {"start.check", "load", "load.mirror", "load.done"},
           Recalls(running')
    PROVE  SerialInv'
<1>1. loaded
  BY DEF SerialInv, HandlerRecalls
<1>2. QED
  BY <1>1, LightSerial DEF Recalls

LEMMA StopThreadIs ==
    ASSUME HandlersTyped, NEW r \in Req, NEW f, Put(r, StopThread(f))
    PROVE  reqs'[r].pc = "stop.batch" /\ reqs'[r].sess = running /\ reqs'[r].at = clock
  BY PutOne, Threads DEF Is

LEMMA ResyncSerial ==
    ASSUME Serial, TypeOK, SerialInv, NEW r \in Req, Resync(r)
    PROVE  SerialInv'
<1>1. PICK s \in SessionOrNone : ReadMirror(s) /\ Put(r, [reqs[r] EXCEPT !.pc = "resynced", !.sess = s])
  BY DEF Resync, SessionOrNone
<1>2. reqs'[r] = [reqs[r] EXCEPT !.pc = "resynced", !.sess = s] /\ reqs[r] \in Handler
  BY <1>1, PutOne DEF TypeOK, HandlersTyped
<1>3. reqs'[r].pc = "resynced" /\ reqs'[r].sess = s
  BY <1>2 DEF Handler
<1>4. Recalls(s) /\ loaded
  BY <1>1 DEF ReadMirror, Fault, Recalls, SerialInv, HandlerRecalls, Resync, At, Loading
<1>5. HandlerRecalls(reqs[r])' /\ HandlerInTime(reqs[r])'
  BY <1>3, <1>4 DEF HandlerRecalls, HandlerInTime, Resync, Recalls, dbvars, memvars, Opening, Loading, Unsettled
<1>6. Open' = {mirror'} \ {None} /\ Past(rows, clock)' /\ NoOverlap'
  BY DEF SerialInv, Resync, dbvars, Open, Past, NoOverlap, Ordered
<1>7. QED
  BY <1>5, <1>6 DEF SerialInv, Serial, Resync, orgvars

(* A handler reads `running` and the clock, and asks D1 to end the session. *)
LEMMA StopsSerial ==
    ASSUME Serial, TypeOK, LogInv, SerialInv, NEW r \in Req, running # None,
           UNCHANGED <<rows, mirror, clock, nextId, loaded, running>>, notes' \subseteq notes,
           Entering(r), reqs'[r].pc \in {"stop.batch", "gone.batch"},
           reqs'[r].pc = "gone.batch" => "unacknowledged" \notin Faults,
           reqs'[r].sess = running, reqs'[r].at = clock
    PROVE  SerialInv'
<1>1. Open' = {mirror'} \ {None} /\ Past(rows, clock)' /\ NoOverlap'
  BY DEF SerialInv, Open, Past, NoOverlap, Ordered
<1>2. loaded /\ Recalls(running) /\ running = mirror
  BY DEF SerialInv, HandlerRecalls, Entering, At, Loading, Unsettled, Recalls
<1>3. HandlerRecalls(reqs[r])'
  BY <1>2 DEF HandlerRecalls, Loading, Unsettled, Recalls
<1>4. HandlerInTime(reqs[r])'
  <2>1. Past(rows', clock) /\ clock <= clock
    BY DEF SerialInv, TypeOK, CountsTyped
  <2>2. QED
    BY <2>1 DEF HandlerInTime, Opening
<1>5. \A q \in Req : q = r
  BY DEF Serial
<1>6. QED
  BY <1>1, <1>3, <1>4, <1>5 DEF SerialInv

LEMMA TimerStopSerial ==
    ASSUME Serial, TypeOK, LogInv, SerialInv, NEW r \in Req,
           TimerStop(r) \/ StopFreeze(r) \/ StartDone(r) \/ SwitchDone(r)
    PROVE  SerialInv'
<1>0. HandlersTyped /\ HandlerRecalls(reqs[r])
  BY DEF TypeOK, SerialInv
<1>1. CASE TimerStop(r)
  <2>1. reqs'[r].pc = "stop.batch" /\ reqs'[r].sess = running /\ reqs'[r].at = clock
    BY <1>0, <1>1, StopThreadIs DEF TimerStop
  <2>2. QED
    BY <1>1, <2>1, StopsSerial DEF TimerStop, othervars, orgvars, dbvars, memvars
<1>2. CASE StopFreeze(r)
  <2>1. reqs'[r].pc = "stop.clear"
    BY <1>0, <1>2, Goes DEF StopFreeze
  <2>2. loaded /\ mirror = None
    BY <1>0, <1>2 DEF StopFreeze, At, HandlerRecalls, Loading
  <2>3. Open' = {mirror'} \ {None} /\ Past(rows, clock)' /\ NoOverlap'
    BY <1>2 DEF StopFreeze, dbvars, SerialInv, Open, Past, NoOverlap, Ordered
  <2>4. HandlerRecalls(reqs[r])' /\ HandlerInTime(reqs[r])'
    BY <1>2, <2>1, <2>2 DEF StopFreeze, dbvars, HandlerRecalls, HandlerInTime, Loading, Unsettled, Opening
  <2>5. QED
    BY <1>2, <2>3, <2>4 DEF SerialInv, Serial, StopFreeze, orgvars
<1>3. CASE StartDone(r)
  <2>1. reqs'[r].pc = "start.pomo"
    BY <1>0, <1>3, Goes DEF StartDone
  <2>2. Recalls(running')
    BY <1>0, <1>3 DEF StartDone, At, HandlerRecalls, Recalls
  <2>3. QED
    BY <1>3, <2>1, <2>2, LandsLightly DEF StartDone, At, dbvars, orgvars, Harmless, Loading
<1>4. CASE SwitchDone(r)
  <2>1. reqs'[r].pc \in {"rearm", "free"}
    BY <1>0, <1>4, Goes, Threads, PutOne DEF SwitchDone, Done, Is
  <2>2. Recalls(running')
    BY <1>0, <1>4 DEF SwitchDone, At, HandlerRecalls, Recalls
  <2>3. QED
    BY <1>4, <2>1, <2>2, LandsLightly DEF SwitchDone, At, dbvars, orgvars, Harmless, Loading
<1>5. QED
  BY <1>1, <1>2, <1>3, <1>4

(* A handler has checked the task: it takes an id and the time. *)
LEMMA ChecksSerial ==
    ASSUME Serial, TypeOK, LogInv, SerialInv, NEW r \in Req, StartCheck(r) \/ SwitchCheck(r)
    PROVE  SerialInv'
<1>0. HandlersTyped /\ HandlerRecalls(reqs[r])
  BY DEF TypeOK, SerialInv
<1>1. /\ loaded /\ Recalls(running) /\ UNCHANGED <<rows, mirror, loaded, running, clock, notes>>
      /\ nextId' = nextId + 1
  BY <1>0 DEF StartCheck, SwitchCheck, At, HandlerRecalls, Loading, Unsettled, dbvars, orgvars
<1>2. /\ reqs'[r].pc \in {"start.batch", "switch.batch"} /\ reqs'[r].sess = nextId /\ reqs'[r].at = clock
      /\ reqs'[r].pc = "start.batch" => running = None
      /\ reqs'[r].pc = "switch.batch" => running # None /\ reqs'[r].old = running
  <2>1. CASE StartCheck(r)
    <3>1. running = None
      BY <1>0, <2>1 DEF StartCheck, At, HandlerRecalls
    <3>2. reqs'[r] = [reqs[r] EXCEPT !.pc = "start.batch", !.sess = nextId, !.at = clock,
                                     !.engaged = reqs[r].from = "fetch" /\ cfg.enabled]
      BY <1>0, <2>1, PutOne DEF StartCheck
    <3>3. QED
      BY <1>0, <3>1, <3>2 DEF HandlersTyped, Handler
  <2>2. CASE SwitchCheck(r)
    <3>1. running # None
      BY <2>2 DEF SwitchCheck
    <3>2. reqs'[r] = [reqs[r] EXCEPT !.pc = "switch.batch", !.sess = nextId, !.old = running,
                               !.at = clock, !.engaged = cfg.enabled]
      BY <1>0, <2>2, PutOne DEF SwitchCheck
    <3>3. QED
      BY <1>0, <3>1, <3>2 DEF HandlersTyped, Handler
  <2>3. QED
    BY <2>1, <2>2
<1>3. Open' = {mirror'} \ {None} /\ Past(rows, clock)' /\ NoOverlap'
  BY <1>1 DEF SerialInv, Open, Past, NoOverlap, Ordered
<1>4. HandlerRecalls(reqs[r])'
  BY <1>1, <1>2 DEF HandlerRecalls, Recalls, Loading, Unsettled
<1>5. HandlerInTime(reqs[r])'
  <2>1. Past(rows', clock) /\ clock <= clock /\ nextId = nextId' - 1
    BY <1>1 DEF SerialInv, TypeOK, CountsTyped
  <2>2. QED
    BY <1>1, <1>2, <2>1 DEF HandlerInTime, Opening
<1>6. QED
  BY <1>1, <1>3, <1>4, <1>5 DEF SerialInv, Serial

(* A batch that failed leaves the handler to resync, or to give up. *)
LEMMA RejectedSerial ==
    ASSUME Serial, TypeOK, LogInv, SerialInv, NEW r \in Req,
           reqs[r].pc \in {"start.batch", "stop.batch", "switch.batch", "gone.batch"},
           UNCHANGED <<dbvars, orgvars, memvars, clock, nextId>>, reqs'[r].pc \in {"resync", "free"}
    PROVE  SerialInv'
<1>1. Recalls(running)
  BY DEF SerialInv, HandlerRecalls, Loading, Unsettled
<1>2. QED
  BY <1>1, LandsLightly DEF dbvars, orgvars, memvars, Recalls, Harmless, Loading

LEMMA WrittenSerial ==
    ASSUME Serial, TypeOK, SerialInv, NEW r \in Req, NEW at \in Int, at <= clock,
           UNCHANGED <<orgvars, memvars, clock, nextId>>, rows' \in [SessionId -> Row],
           Open' = {mirror'} \ {None}, Ordered(rows'), Past(rows', at), loaded,
           \/ reqs'[r].pc = "resync"
           \/ reqs'[r].pc \in {"start.done", "switch.done"} /\ mirror' # None /\ reqs'[r].sess = mirror'
           \/ reqs'[r].pc \in {"stop.done", "gone.done"} /\ mirror' = None
    PROVE  SerialInv'
<1>1. Past(rows', clock)
  BY PastLater DEF TypeOK, CountsTyped
<1>2. HandlerRecalls(reqs[r])' /\ HandlerInTime(reqs[r])'
  BY DEF HandlerRecalls, HandlerInTime, Loading, Unsettled, Opening, memvars
<1>3. QED
  BY <1>1, <1>2 DEF SerialInv, NoOverlap, Serial, orgvars

LEMMA BatchSerial ==
    ASSUME Serial, TypeOK, LogInv, SerialInv, NEW r \in Req,
           StartBatch(r) \/ StopBatch(r) \/ SwitchBatch(r) \/ GoneBatch(r)
    PROVE  SerialInv'
<1>0. /\ HandlersTyped /\ HandlerRecalls(reqs[r]) /\ HandlerInTime(reqs[r]) /\ Knows(reqs[r], rows, nextId)
      /\ rows \in [SessionId -> Row] /\ reqs[r] \in Handler
  BY DEF TypeOK, LogTyped, HandlersTyped, SerialInv, LogInv, HandlersKnow
<1> DEFINE q == reqs[r]
<1>a. /\ loaded /\ q.at \in Int /\ q.at <= clock /\ Past(rows, q.at) /\ Ordered(rows)
      /\ UNCHANGED <<orgvars, memvars, clock, nextId>> /\ q.task \in TaskOrNone
  BY <1>0 DEF StartBatch, StopBatch, SwitchBatch, GoneBatch, At, HandlerRecalls, HandlerInTime, Loading,
              Opening, SerialInv, NoOverlap, Handler
<1>b. \A s \in SessionId : rows[s].st = "open" => s = mirror
  BY DEF SerialInv, Open
<1>c. mirror # None => mirror \in SessionId /\ rows[mirror].st = "open"
  BY DEF SerialInv, Open
<1>d. \A s \in SessionId : rows[s].st # "none" /\ s # nextId - 1 => s < nextId - 1
  BY DEF LogInv, FutureIds, SessionId, TypeOK, CountsTyped
<1>e. \A s \in SessionId : s # None
  BY NoneAssumption DEF SessionId
<1>f. q.pc \in Opening => q.sess = nextId - 1 /\ q.sess \in SessionId /\ rows[q.sess].st = "none"
  <2>1. q.sess \in SessionOrNone /\ nextId - 1 \in Int
    BY <1>0 DEF Handler, TypeOK, CountsTyped
  <2>2. QED
    BY <1>0, <2>1, NoneAssumption DEF HandlerInTime, Knows, SessionOrNone
<1>1. CASE StartBatch(r)
  <2>a. q.pc = "start.batch" /\ q.sess = nextId - 1 /\ q.sess \in SessionId /\ rows[q.sess].st = "none"
    BY <1>1, <1>f DEF StartBatch, At, Opening
  <2>1. CASE /\ IndexAllowsOpen(rows)
             /\ rows' = Inserted(rows, q.sess, q.task, q.at) /\ mirror' = q.sess
             /\ Goto(r, "start.done") \/ Goto(r, "resync")
    <3>1. /\ \A s \in SessionId : rows'[s].st = "open" <=> s = q.sess
          /\ Ordered(rows') /\ Past(rows', q.at)
      BY <1>0, <1>a, <1>d, <2>a, <2>1, InsertedLog DEF IndexAllowsOpen
    <3>2. rows' \in [SessionId -> Row]
      BY <1>0, <1>a, <2>1, <2>a, InsertedTyped DEF SessionOrNone
    <3>3. Open' = {mirror'} \ {None} /\ mirror' # None
      BY <1>e, <2>a, <2>1, <3>1 DEF Open
    <3>4. reqs'[r].pc \in {"start.done", "resync"} /\ reqs'[r].sess = q.sess
      BY <1>0, <2>1, Goes
    <3>5. QED
      BY <1>a, <2>1, <3>1, <3>2, <3>3, <3>4, WrittenSerial
  <2>2. CASE UNCHANGED dbvars /\ Goto(r, "resync")
    <3>1. reqs'[r].pc = "resync"
      BY <1>0, <2>2, Goes
    <3>2. QED
      BY <1>a, <2>a, <2>2, <3>1, RejectedSerial
  <2>3. QED
    BY <1>1, <2>1, <2>2 DEF StartBatch, Batch
<1>2. CASE StopBatch(r) \/ GoneBatch(r)
  <2>a. q.pc \in {"stop.batch", "gone.batch"} /\ q.sess = mirror /\ mirror # None
    BY <1>0, <1>2 DEF StopBatch, GoneBatch, At, HandlerRecalls
  <2>1. CASE /\ rows' = Ended(rows, q.sess, q.at) /\ mirror' = None
             /\ Goto(r, "stop.done") \/ Goto(r, "gone.done") \/ Goto(r, "resync")
    <3>1. /\ rows' \in [SessionId -> Row] /\ Ordered(rows') /\ Past(rows', q.at)
          /\ \A s \in SessionId : rows'[s].st # "open"
      BY <1>0, <1>a, <1>b, <1>c, <2>a, <2>1, EndedLog
    <3>2. Open' = {mirror'} \ {None}
      BY <2>1, <3>1 DEF Open
    <3>3. reqs'[r].pc \in {"stop.done", "gone.done", "resync"}
      BY <1>0, <2>1, Goes
    <3>4. QED
      BY <1>a, <2>1, <3>1, <3>2, <3>3, WrittenSerial
  <2>2. CASE UNCHANGED dbvars /\ (Goto(r, "resync") \/ Done(r))
    <3>1. reqs'[r].pc \in {"resync", "free"}
      BY <1>0, <2>2, Goes, PutOne, Threads DEF Done, Is
    <3>2. QED
      BY <1>a, <2>a, <2>2, <3>1, RejectedSerial
  <2>3. CASE GoneBatch(r) /\ Fault("unacknowledged")
    BY <1>0, <2>3 DEF GoneBatch, At, HandlerRecalls, Fault
  <2>4. QED
    BY <1>2, <2>1, <2>2, <2>3 DEF StopBatch, GoneBatch, Batch
<1>3. CASE SwitchBatch(r)
  <2>a. /\ q.pc = "switch.batch" /\ q.sess = nextId - 1 /\ q.sess \in SessionId /\ rows[q.sess].st = "none"
        /\ q.old = mirror /\ mirror # None
    BY <1>0, <1>3, <1>f DEF SwitchBatch, At, HandlerRecalls, Opening
  <2> DEFINE ended == Ended(rows, q.old, q.at)
  <2>b. /\ ended \in [SessionId -> Row] /\ Ordered(ended) /\ Past(ended, q.at)
        /\ \A s \in SessionId : ended[s].st # "open"
        /\ \A s \in SessionId : ended[s].st = "none" <=> rows[s].st = "none"
    BY <1>0, <1>a, <1>b, <1>c, <2>a, EndedLog
  <2>1. CASE /\ rows' = Inserted(ended, q.sess, q.task, q.at) /\ mirror' = q.sess
             /\ Goto(r, "switch.done") \/ Goto(r, "resync")
    <3>0. \A s \in SessionId : ended[s].st # "none" => s < q.sess
      BY <1>d, <2>a, <2>b
    <3>1. /\ \A s \in SessionId : rows'[s].st = "open" <=> s = q.sess
          /\ Ordered(rows') /\ Past(rows', q.at)
      BY <1>a, <2>a, <2>b, <2>1, <3>0, InsertedLog
    <3>2. rows' \in [SessionId -> Row]
      BY <1>a, <2>1, <2>a, <2>b, InsertedTyped DEF SessionOrNone
    <3>3. Open' = {mirror'} \ {None} /\ mirror' # None
      BY <1>e, <2>a, <2>1, <3>1 DEF Open
    <3>4. reqs'[r].pc \in {"switch.done", "resync"} /\ reqs'[r].sess = q.sess
      BY <1>0, <2>1, Goes
    <3>5. QED
      BY <1>a, <2>1, <3>1, <3>2, <3>3, <3>4, WrittenSerial
  <2>2. CASE UNCHANGED dbvars /\ Goto(r, "resync")
    <3>1. reqs'[r].pc = "resync"
      BY <1>0, <2>2, Goes
    <3>2. QED
      BY <1>a, <2>a, <2>2, <3>1, RejectedSerial
  <2>3. QED
    BY <1>3, <2>a, <2>1, <2>2 DEF SwitchBatch, Batch
<1>4. QED
  BY <1>1, <1>2, <1>3

LEMMA EnteringRecalls ==
    ASSUME SerialInv, NEW r \in Req, Entering(r)
    PROVE  loaded /\ Recalls(running)
  BY DEF SerialInv, HandlerRecalls, Entering, At, Loading, Unsettled

LEMMA PomoSerial ==
    ASSUME Serial, TypeOK, LogInv, SerialInv, NEW r \in Req,
           PomoStart(r) \/ PomoStartCont(r) \/ PomoBreak(r) \/ BreakSet(r) \/ PomoSkip(r)
    PROVE  SerialInv'
<1>0. HandlersTyped /\ HandlerRecalls(reqs[r])
  BY DEF TypeOK, SerialInv
<1>a. \A t, p : PomoStartTimer(t, p).pc \in {"free", "start.check"}
  BY Threads DEF PomoStartTimer, Is
<1> USE DEF Harmless, Loading
<1>1. CASE PomoStart(r)
  <2>1. PICK h : Put(r, h) /\ h.pc \in {"pomoStart", "free", "start.check"} /\ (h.pc = "start.check" => running = None)
    <3>1. PICK t \in Task \cup {None} :
             Put(r, IF running # None THEN [Thread("pomoStart") EXCEPT !.task = t]
                    ELSE PomoStartTimer(t, pomo'))
      BY <1>1 DEF PomoStart
    <3>2. CASE running = None
      BY <1>a, <3>1, <3>2
    <3>3. CASE running # None
      <4>1. [Thread("pomoStart") EXCEPT !.task = t].pc = "pomoStart"
        BY DEF Thread, Free
      <4>2. QED
        BY <3>1, <3>3, <4>1
    <3>4. QED
      BY <3>2, <3>3
  <2>2. reqs'[r].pc \in {"pomoStart", "free", "start.check"} /\ (reqs'[r].pc = "start.check" => running = None)
    BY <1>0, <2>1, PutOne
  <2>3. loaded /\ Recalls(running)
    BY <1>1, EnteringRecalls DEF PomoStart
  <2>4. QED
    BY <1>1, <2>2, <2>3, LightSerial DEF PomoStart, orgvars, dbvars, Recalls
<1>2. CASE PomoStartCont(r)
  <2>1. reqs'[r].pc \in {"rearm", "free", "start.check"} /\ (reqs'[r].pc = "start.check" => running = None)
    <3>1. CASE running = None
      BY <1>0, <1>2, <1>a, <3>1, PutOne DEF PomoStartCont
    <3>2. CASE running # None
      BY <1>0, <1>2, <3>2, Goes DEF PomoStartCont
    <3>3. QED
      BY <3>1, <3>2
  <2>2. loaded /\ Recalls(running)
    BY <1>0, <1>2 DEF PomoStartCont, At, HandlerRecalls, Unsettled
  <2>3. QED
    BY <1>2, <2>1, <2>2, LightSerial DEF PomoStartCont, orgvars, dbvars, Recalls
<1>3. CASE PomoBreak(r)
  <2>1. CASE running # None
    <3>1. reqs'[r].pc = "stop.batch" /\ reqs'[r].sess = running /\ reqs'[r].at = clock
      BY <1>0, <1>3, <2>1, StopThreadIs DEF PomoBreak
    <3>2. QED
      BY <1>3, <2>1, <3>1, StopsSerial DEF PomoBreak, orgvars, dbvars
  <2>2. CASE running = None
    <3>1. reqs'[r].pc \in {"free", "rearm"}
      BY <1>0, <1>3, <2>2, PersistRearmLands DEF PomoBreak, BreakBegins
    <3>2. loaded /\ Recalls(running)
      BY <1>3, EnteringRecalls DEF PomoBreak
    <3>3. QED
      BY <1>3, <3>1, <3>2, LightSerial DEF PomoBreak, orgvars, dbvars, Recalls
  <2>3. QED
    BY <2>1, <2>2
<1>4. CASE BreakSet(r) \/ PomoSkip(r)
  <2>1. reqs'[r].pc \in {"free", "rearm"}
    BY <1>0, <1>4, PersistRearmLands DEF BreakSet, PomoSkip, BreakBegins
  <2>2. loaded /\ Recalls(running)
    BY <1>0, <1>4, EnteringRecalls DEF BreakSet, PomoSkip, At, HandlerRecalls, Unsettled
  <2>3. QED
    BY <1>4, <2>1, <2>2, LightSerial DEF BreakSet, PomoSkip, orgvars, dbvars, Recalls
<1>5. QED
  BY <1>1, <1>2, <1>3, <1>4

LEMMA NotifySerial ==
    ASSUME Serial, TypeOK, LogInv, SerialInv, NEW r \in Req,
           NotifySettings(r) \/ NotifyDeleted(r) \/ GoneDone(r) \/ GoneAnchor(r)
    PROVE  SerialInv'
<1>0. HandlersTyped /\ HandlerRecalls(reqs[r])
  BY DEF TypeOK, SerialInv
<1>a. UNCHANGED <<rows, mirror, clock, nextId, loaded>> /\ notes' \subseteq notes
  BY DEF NotifySettings, NotifyDeleted, GoneDone, GoneAnchor, dbvars, orgvars
<1> USE DEF Harmless, Loading
<1>1. CASE NotifySettings(r)
  <2>1. reqs'[r].pc \in {"free", "rearm"}
    BY <1>0, <1>1, PersistRearmLands, PutOne, Threads DEF NotifySettings, Done, Is
  <2>2. loaded /\ Recalls(running')
    BY <1>1, EnteringRecalls DEF NotifySettings, Recalls
  <2>3. QED
    BY <1>a, <1>1, <2>1, <2>2, LightSerial
<1>2. CASE NotifyDeleted(r)
  <2>1. PICK n \in notes :
          /\ n.kind = "deleted" /\ running' = running
          /\ IF running # None /\ rows[running].task = n.task
             THEN Put(r, [StopThread("fetch") EXCEPT !.pc = "gone.batch", !.task = n.task])
             ELSE Done(r)
    BY <1>2 DEF NotifyDeleted
  <2>2. CASE running # None /\ rows[running].task = n.task
    <3>1. reqs'[r] = [StopThread("fetch") EXCEPT !.pc = "gone.batch", !.task = n.task]
      BY <1>0, <2>1, <2>2, PutOne
    <3>2. reqs'[r].pc = "gone.batch" /\ reqs'[r].sess = running /\ reqs'[r].at = clock
      BY <3>1 DEF StopThread, Thread, Free
    <3>3. "unacknowledged" \notin Faults
      BY <2>1 DEF SerialInv
    <3>4. QED
      BY <1>2, <1>a, <2>1, <2>2, <3>2, <3>3, StopsSerial DEF NotifyDeleted
  <2>3. CASE ~(running # None /\ rows[running].task = n.task)
    <3>1. reqs'[r].pc = "free"
      BY <1>0, <2>1, <2>3, PutOne, Threads DEF Done, Is
    <3>2. loaded /\ Recalls(running')
      BY <1>2, <2>1, EnteringRecalls DEF NotifyDeleted, Recalls
    <3>3. QED
      BY <1>a, <1>2, <3>1, <3>2, LightSerial
  <2>4. QED
    BY <2>2, <2>3
<1>3. CASE GoneDone(r)
  <2>1. reqs'[r].pc = "gone.anchor" /\ Recalls(running')
    BY <1>0, <1>3, Goes DEF GoneDone, At, HandlerRecalls, Recalls
  <2>2. QED
    BY <1>3, <1>a, <2>1, LandsLightly DEF GoneDone, At
<1>4. CASE GoneAnchor(r)
  <2>1. reqs'[r].pc = "free" /\ Recalls(running')
    BY <1>0, <1>4, PutOne, Threads DEF GoneAnchor, At, HandlerRecalls, Unsettled, Done, Is, Recalls
  <2>2. QED
    BY <1>4, <1>a, <2>1, LandsLightly DEF GoneAnchor, At
<1>5. QED
  BY <1>1, <1>2, <1>3, <1>4

LEMMA AlarmSerial ==
    ASSUME Serial, TypeOK, LogInv, SerialInv, NEW r \in Req, AlarmFires(r) \/ AlarmStep(r) \/ Throws(r)
    PROVE  SerialInv'
<1>0. HandlersTyped /\ HandlerRecalls(reqs[r])
  BY DEF TypeOK, SerialInv
<1>a. UNCHANGED <<rows, mirror, clock, nextId, loaded, running>> /\ notes' \subseteq notes
  BY DEF AlarmFires, AlarmStep, AlarmNudge, AlarmDecide, AlarmBreakOver, AlarmAuto, AlarmRearm, Throws,
         dbvars, orgvars, memvars
<1> USE DEF Harmless, Loading
<1>1. CASE AlarmFires(r)
  <2>1. reqs'[r].pc = IF loaded THEN "alarm" ELSE "load"
    <3>1. reqs'[r] = IF loaded THEN AlarmBody(clock) ELSE [Thread("load") EXCEPT !.from = "alarm"]
      BY <1>0, <1>1, PutOne DEF AlarmFires
    <3>2. CASE loaded
      BY <3>1, <3>2, Threads DEF Is
    <3>3. CASE ~loaded
      BY <3>1, <3>3 DEF Thread, Free
    <3>4. QED
      BY <3>2, <3>3
  <2>2. loaded => Recalls(running')
    BY <1>0, <1>1, <1>a DEF AlarmFires, At, HandlerRecalls, Unsettled, Recalls
  <2>3. QED
    BY <1>a, <2>1, <2>2, LightSerial
<1>2. CASE AlarmNudge(r) \/ AlarmDecide(r)
  <2>1. reqs'[r].pc = "alarm"
    <3>1. PICK st : Put(r, [reqs[r] EXCEPT !.stage = st])
      BY <1>2 DEF AlarmNudge, AlarmDecide
    <3>2. reqs'[r] = [reqs[r] EXCEPT !.stage = st]
      BY <1>0, <3>1, PutOne
    <3>3. QED
      BY <1>0, <1>2, <3>2 DEF HandlersTyped, Handler, AlarmNudge, AlarmDecide, At
  <2>2. Recalls(running')
    BY <1>0, <1>2, <1>a DEF AlarmNudge, AlarmDecide, At, HandlerRecalls, Unsettled, Recalls
  <2>3. QED
    BY <1>2, <1>a, <2>1, <2>2, LandsLightly DEF AlarmNudge, AlarmDecide, At
<1>3. CASE AlarmBreakOver(r)
  <2>1. reqs'[r].pc = "alarm.auto" /\ Recalls(running')
    BY <1>0, <1>3, <1>a, Goes DEF AlarmBreakOver, At, HandlerRecalls, Unsettled, Recalls
  <2>2. QED
    BY <1>3, <1>a, <2>1, LandsLightly DEF AlarmBreakOver, At
<1>4. CASE AlarmAuto(r)
  <2>1. PICK h \in {StartThread(pomo.task, "alarm"), AlarmTail, Free} :
           Put(r, h) /\ (h = StartThread(pomo.task, "alarm") => running = None)
    <3>1. StartThread(pomo.task, "alarm") # AlarmTail /\ StartThread(pomo.task, "alarm") # Free
      BY Threads DEF Is
    <3>2. QED
      BY <1>4, <3>1 DEF AlarmAuto, Done
  <2>2. reqs'[r].pc \in {"start.check", "alarm", "free"} /\ (reqs'[r].pc = "start.check" => running' = None)
    BY <1>0, <1>a, <2>1, PutOne, Threads DEF Is
  <2>3. loaded /\ Recalls(running')
    BY <1>0, <1>4, <1>a DEF AlarmAuto, At, HandlerRecalls, Unsettled, Recalls
  <2>4. QED
    BY <1>a, <2>2, <2>3, LightSerial
<1>5. CASE AlarmRearm(r) \/ Throws(r)
  <2>1. reqs'[r].pc = "free"
    BY <1>0, <1>5, PutOne, Threads DEF AlarmRearm, Throws, Done, Is
  <2>2. loaded /\ Recalls(running')
    BY <1>0, <1>5, <1>a DEF AlarmRearm, Throws, At, HandlerRecalls, Unsettled, Recalls
  <2>3. QED
    BY <1>a, <2>1, <2>2, LightSerial
<1>6. QED
  BY <1>1, <1>2, <1>3, <1>4, <1>5 DEF AlarmStep

LEMMA AroundSerial ==
    ASSUME Serial, TypeOK, LogInv, SerialInv, Around \/ UNCHANGED vars
    PROVE  SerialInv'
<1>1. CASE Evict
  <2>1. \A r \in Req : reqs'[r].pc = "free" /\ ~loaded' 
    BY <1>1 DEF Evict, Free
  <2>2. Open' = {mirror'} \ {None} /\ Past(rows, clock)' /\ NoOverlap' /\ notes' = notes
    BY <1>1 DEF Evict, SerialInv, Open, Past, NoOverlap, Ordered, dbvars, orgvars
  <2>3. \A r \in Req : HandlerRecalls(reqs[r])' /\ HandlerInTime(reqs[r])'
    BY <2>1 DEF HandlerRecalls, HandlerInTime, Loading, Unsettled, Opening
  <2>4. QED
    BY <2>2, <2>3 DEF SerialInv
<1>2. CASE Tick
  <2>1. UNCHANGED <<rows, mirror, notes, reqs, loaded, running, nextId>> /\ clock' = clock + 1 /\ clock \in Int
    BY <1>2 DEF Tick, dbvars, orgvars, memvars, TypeOK, CountsTyped
  <2>2. Past(rows', clock')
    BY <2>1, PastLater DEF SerialInv, TypeOK, LogTyped
  <2>3. \A r \in Req : HandlerRecalls(reqs[r])' /\ HandlerInTime(reqs[r])'
    <3>1. \A r \in Req : reqs[r].at \in Int
      BY DEF TypeOK, HandlersTyped, Handler
    <3>2. QED
      BY <2>1, <3>1 DEF SerialInv, HandlerRecalls, HandlerInTime, Recalls, Past
  <2>4. Open' = {mirror'} \ {None} /\ NoOverlap'
    BY <2>1 DEF SerialInv, Open, NoOverlap, Ordered
  <2>5. QED
    BY <2>1, <2>2, <2>3, <2>4 DEF SerialInv
<1>3. CASE \/ SaveSettings \/ PatchProfile \/ TombstoneTask \/ DeleteGroup \/ ArchiveProject
           \/ UndoDelete \/ LoseNotify \/ UNCHANGED vars
  <2>1. UNCHANGED <<rows, mirror, reqs, loaded, running, nextId, clock>>
    BY <1>3 DEF SaveSettings, PatchProfile, TombstoneTask, DeleteGroup, ArchiveProject, UndoDelete, LoseNotify,
                vars, dbvars, memvars
  <2>2. \A n \in notes' : n.kind = "deleted" => n \in notes \/ "tombstone" \in Edits
    BY <1>3 DEF SaveSettings, PatchProfile, TombstoneTask, DeleteGroup, ArchiveProject, UndoDelete, LoseNotify,
                vars
  <2>3. \A n \in notes' : n.kind = "deleted" => "unacknowledged" \notin Faults
    BY <2>2 DEF SerialInv, Serial
  <2>4. \A r \in Req : HandlerRecalls(reqs[r])' /\ HandlerInTime(reqs[r])'
    BY <2>1 DEF SerialInv, HandlerRecalls, HandlerInTime, Recalls, Past
  <2>5. QED
    BY <2>1, <2>3, <2>4 DEF SerialInv, Open, NoOverlap, Ordered, Past
<1>4. QED
  BY <1>1, <1>2, <1>3 DEF Around

LEMMA SerialStep == Serial /\ TypeOK /\ LogInv /\ SerialInv /\ [Next]_vars => SerialInv'
<1> SUFFICES ASSUME Serial, TypeOK, LogInv, SerialInv, [Next]_vars
             PROVE  SerialInv'
  OBVIOUS
<1>1. ASSUME NEW r \in Req, Arrive(r) \/ Notified(r) \/ LoadStep(r) \/ TimerStep(r)
      PROVE  SerialInv'
  BY <1>1, LoadSerial, TimerLightSerial, TimerStopSerial, ChecksSerial, BatchSerial, ResyncSerial, PomoSerial,
     NotifySerial DEF Arrive, Notified, TimerStep
<1>2. QED
  BY <1>1, AlarmSerial, AroundSerial DEF Next

LEMMA SerialInit == Init => SerialInv
<1>1. Init => Open = {} /\ Past(rows, clock) /\ NoOverlap
  BY DEF Init, Open, Past, NoOverlap, Ordered, NoRow
<1>2. QED
  BY <1>1 DEF Init, SerialInv, HandlerRecalls, HandlerInTime, Free, Loading, Unsettled, Opening

(* Where one handler runs at a time, what it recalls of the log is what the
   recovery row says, and the log is in order. *)
THEOREM SerialInvariant ==
    ASSUME Serial
    PROVE  Spec => []SerialInv
<1>1. Init => SerialInv
  BY SerialInit
<1>2. TypeOK /\ LogInv /\ SerialInv /\ [Next]_vars => SerialInv'
  BY SerialStep
<1>3. QED
  BY <1>1, <1>2, TypeCorrect, LogInvariant, PTL DEF Spec

(* An open row is always the one the recovery row names: whatever fails or
   crashes, a restart finds the session again and the user can stop it. *)
THEOREM OpenSessionIsRecoverable ==
    ASSUME Serial
    PROVE  Spec => []OpenIsRecoverable
<1>1. SerialInv => OpenIsRecoverable
  BY DEF SerialInv, OpenIsRecoverable
<1>2. QED
  BY <1>1, SerialInvariant, PTL

(* FR-S1: a session starts when every earlier one has ended. *)
THEOREM SessionsDoNotOverlap ==
    ASSUME Serial
    PROVE  Spec => []NoOverlap
<1>1. SerialInv => NoOverlap
  BY DEF SerialInv
<1>2. QED
  BY <1>1, SerialInvariant, PTL

(* Memory, recovery row and log agree whenever no handler is suspended, unless
   a failed read made the object believe that nothing runs. *)
THEOREM MemoryAgreesAtRest ==
    ASSUME Serial, "unreadable" \notin Faults, Req # {}
    PROVE  Spec => []AtRestAgree
<1>1. SerialInv => AtRestAgree
  BY DEF SerialInv, AtRestAgree, Settled, AtRest, HandlerRecalls, Loading, Unsettled, Recalls
<1>2. QED
  BY <1>1, SerialInvariant, PTL

(* A row that has ended is history: no step writes it again. *)
LEMMA EndedStays ==
    ASSUME Serial, TypeOK, LogInv, SerialInv, [Next]_vars, NEW s \in SessionId, rows[s].st = "ended"
    PROVE  rows'[s] = rows[s]
<1>1. CASE \E r \in Req : StartBatch(r) \/ StopBatch(r) \/ SwitchBatch(r) \/ GoneBatch(r)
  <2>1. PICK r \in Req : StartBatch(r) \/ StopBatch(r) \/ SwitchBatch(r) \/ GoneBatch(r)
    BY <1>1
  <2>2. /\ rows \in [SessionId -> Row] /\ Knows(reqs[r], rows, nextId) /\ HandlerRecalls(reqs[r])
        /\ mirror # None => mirror \in SessionId /\ rows[mirror].st = "open"
        /\ \A u \in SessionId : rows[u].st = "none" \/ rows[u].st = "open" => u # s
    BY DEF TypeOK, LogTyped, LogInv, HandlersKnow, SerialInv, Open
  <2>3. CASE StartBatch(r)
    BY <2>2, <2>3 DEF StartBatch, At, Batch, dbvars, Inserted, Knows, Opening
  <2>4. CASE StopBatch(r) \/ GoneBatch(r)
    BY <2>2, <2>4 DEF StopBatch, GoneBatch, At, Batch, dbvars, Ended, HandlerRecalls
  <2>5. CASE SwitchBatch(r)
    <3>1. reqs[r].sess # s /\ reqs[r].old # s
      BY <2>2, <2>5 DEF SwitchBatch, At, HandlerRecalls, Knows, Opening
    <3>2. Ended(rows, reqs[r].old, reqs[r].at)[s] = rows[s]
      BY <2>2, <3>1 DEF Ended
    <3>3. Ended(rows, reqs[r].old, reqs[r].at) \in [SessionId -> Row] \/ DOMAIN Ended(rows, reqs[r].old, reqs[r].at) = SessionId
      BY <2>2 DEF Ended
    <3>4. QED
      BY <2>5, <2>2, <3>1, <3>2, <3>3 DEF SwitchBatch, Batch, dbvars, Inserted
  <2>6. QED
    BY <2>1, <2>3, <2>4, <2>5
<1>2. CASE ~ \E r \in Req : StartBatch(r) \/ StopBatch(r) \/ SwitchBatch(r) \/ GoneBatch(r)
  BY <1>2, OnlyBatchesWrite
<1>3. QED
  BY <1>1, <1>2

THEOREM EndedSessionsAreFinal ==
    ASSUME Serial
    PROVE  Spec => EndedIsFinal
<1>1. TypeOK /\ LogInv /\ SerialInv /\ [Next]_vars
      => [\A s \in SessionId : rows[s].st = "ended" => rows'[s] = rows[s]]_rows
  BY EndedStays
<1>2. QED
  BY <1>1, TypeCorrect, LogInvariant, SerialInvariant, PTL DEF Spec, EndedIsFinal

-----------------------------------------------------------------------------
(***************************************************************************)
(* PART 4: the pomodoro cycle.                                             *)
(*                                                                         *)
(* Under Calm nothing outside the hub moves the log and a change of the    *)
(* clock counts as time passing.  CycleInv is inductive beside SerialInv.  *)
(* Its last part is about a sum over the log, so the section opens with    *)
(* what SumFunction is on a finite domain.                                 *)
(***************************************************************************)

-----------------------------------------------------------------------------
(* Sums *)

LEMMA SmallestSubset ==
    ASSUME NEW S, IsFiniteSet(S), NEW T, T \subseteq SUBSET S, T # {}
    PROVE  \E t \in T : \A u \in T : u \subseteq t => u = t
<1> DEFINE R == StrictSubsetOrdering(S)
<1>1. IsWellFoundedOn(R, SUBSET S)
  BY FS_FiniteSubsetsOfFinite, FS_StrictSubsetOrderingWellFounded
<1>2. PICK t \in T : \A u \in T : ~(<<u, t>> \in R)
  <2> HIDE DEF R
  <2>1. QED
    BY <1>1, WFMin
<1>3. QED
  BY <1>2 DEF StrictSubsetOrdering

Pick(s) == CHOOSE x \in s : TRUE

Sums(f, S, it) ==
    it = [s \in SUBSET S |-> IF s = {} THEN 0 ELSE f[Pick(s)] + it[s \ {Pick(s)}]]

LEMMA SumIs == \A f : SumFunction(f) = (CHOOSE it : Sums(f, DOMAIN f, it))[DOMAIN f]
  BY DEF SumFunction, SumFunctionOnSet, FoldFunctionOnSet, MapThenFoldSet, Sums, Pick

UpTo(f, S, n, it) ==
    \A s \in SUBSET S : Cardinality(s) <= n =>
        it[s] = IF s = {} THEN 0 ELSE f[Pick(s)] + it[s \ {Pick(s)}]

(* Up to any size: the function on the subsets of at most n elements.      *)
LEMMA SumsUpTo ==
    ASSUME NEW S, IsFiniteSet(S), NEW f \in [S -> Int], NEW n \in Nat
    PROVE  \E it \in [SUBSET S -> Int] : UpTo(f, S, n, it)
<1> DEFINE P(k, it) == \A s \in SUBSET S : Cardinality(s) <= k =>
              it[s] = IF s = {} THEN 0 ELSE f[Pick(s)] + it[s \ {Pick(s)}]
           Good(k) == \E it \in [SUBSET S -> Int] : P(k, it)
           Bad == {k \in 0..n : ~Good(k)}
<1>a. \A s \in SUBSET S : IsFiniteSet(s) /\ Cardinality(s) \in Nat
  BY FS_Subset, FS_CardinalityType
<1>b. \A s : s # {} => Pick(s) \in s
  BY DEF Pick
<1>1. Good(0)
  <2>1. \A s \in SUBSET S : Cardinality(s) <= 0 => s = {}
    BY <1>a, FS_EmptySet
  <2>2. P(0, [s \in SUBSET S |-> 0])
    BY <2>1
  <2>3. [s \in SUBSET S |-> 0] \in [SUBSET S -> Int]
    OBVIOUS
  <2>4. QED
    BY ONLY <2>2, <2>3
<1>2. ASSUME NEW k \in 1..n, Good(k - 1)
      PROVE  Good(k)
  <2>1. PICK it \in [SUBSET S -> Int] : P(k - 1, it)
    BY <1>2
  <2> DEFINE new == [s \in SUBSET S |-> IF Cardinality(s) = k THEN f[Pick(s)] + it[s \ {Pick(s)}] ELSE it[s]]
  <2>2. \A s \in SUBSET S : s # {} => /\ s \ {Pick(s)} \in SUBSET S /\ Cardinality(s \ {Pick(s)}) = Cardinality(s) - 1
                                     /\ Pick(s) \in S
    BY <1>a, <1>b, FS_RemoveElement
  <2>3. \A s \in SUBSET S : Cardinality(s) = k => s # {}
    BY FS_EmptySet, <1>a
  <2>4. new \in [SUBSET S -> Int]
    BY <2>2, <2>3
  <2>5. ASSUME NEW s \in SUBSET S, Cardinality(s) <= k
        PROVE  new[s] = IF s = {} THEN 0 ELSE f[Pick(s)] + new[s \ {Pick(s)}]
    <3>1. CASE Cardinality(s) = k
      BY <1>a, <2>2, <2>3, <3>1
    <3>2. CASE Cardinality(s) # k
      BY <1>a, <2>1, <2>2, <2>5, <3>2
    <3>3. QED
      BY <3>1, <3>2
  <2>6. QED
    BY <2>4, <2>5
<1>3. ASSUME Bad # {}
      PROVE  FALSE
  <2> HIDE DEF Good
  <2>1. PICK k \in Bad : \A j \in Bad : ~(<<j, k>> \in OpToRel(<, Nat))
    <3>1. Bad \subseteq Nat
      OBVIOUS
    <3>2. QED
      BY <1>3, <3>1, NatLessThanWellFounded, WFMin
  <2>2. k # 0 /\ k \in 0..n
    BY <1>1
  <2>3. Good(k - 1)
    <3>1. k - 1 \in 0..n /\ <<k - 1, k>> \in OpToRel(<, Nat)
      BY <2>2 DEF OpToRel
    <3>2. ~Good(k - 1) => k - 1 \in Bad
      BY <3>1, Zenon
    <3>3. QED
      BY <2>1, <3>1, <3>2
  <2>4. QED
    BY <1>2, <2>2, <2>3
<1>4. Good(n)
  <2> HIDE DEF Good
  <2>1. QED
    BY <1>3
<1>5. QED
  BY <1>4 DEF UpTo

LEMMA SumsExist ==
    ASSUME NEW S, IsFiniteSet(S), NEW f \in [S -> Int]
    PROVE  \E it \in [SUBSET S -> Int] : Sums(f, S, it)
<1>1. Cardinality(S) \in Nat /\ \A s \in SUBSET S : Cardinality(s) <= Cardinality(S)
  BY FS_Subset, FS_CardinalityType
<1>2. \A n \in Nat : \E it \in [SUBSET S -> Int] : UpTo(f, S, n, it)
  BY SumsUpTo
<1>3. PICK it \in [SUBSET S -> Int] : UpTo(f, S, Cardinality(S), it)
  BY <1>1, <1>2
<1>4. it = [s \in SUBSET S |-> IF s = {} THEN 0 ELSE f[Pick(s)] + it[s \ {Pick(s)}]]
  BY <1>1, <1>3 DEF UpTo
<1>5. QED
  BY <1>4 DEF Sums

(* What the sum of a function is: read along the picks.                    *)
LEMMA SumOf ==
    ASSUME NEW S, IsFiniteSet(S), NEW f \in [S -> Int]
    PROVE  \E it : Sums(f, S, it) /\ it \in [SUBSET S -> Int] /\ SumFunction(f) = it[S]
<1> DEFINE it == CHOOSE x : Sums(f, S, x)
<1>1. Sums(f, S, it) /\ SumFunction(f) = it[S]
  <2>1. \E x : Sums(f, S, x)
    BY SumsExist
  <2>2. DOMAIN f = S
    OBVIOUS
  <2>3. SumFunction(f) = it[S]
    BY <2>2, SumIs
  <2>4. Sums(f, S, it)
    BY <2>1
  <2>5. QED
    BY <2>3, <2>4
<1>2. \A s : s # {} => Pick(s) \in s
  BY DEF Pick
<1>3. ASSUME {s \in SUBSET S : it[s] \notin Int} # {}
      PROVE  FALSE
  <2> DEFINE T == {s \in SUBSET S : it[s] \notin Int}
  <2> HIDE DEF it
  <2>1. PICK t \in T : \A u \in T : u \subseteq t => u = t
    <3> HIDE DEF T
    <3>1. T \subseteq SUBSET S /\ T # {}
      BY <1>3 DEF T
    <3>2. QED
      BY <3>1, SmallestSubset
  <2>2. it[t] = IF t = {} THEN 0 ELSE f[Pick(t)] + it[t \ {Pick(t)}]
    BY <1>1 DEF Sums
  <2>3. t # {} => f[Pick(t)] \in Int /\ it[t \ {Pick(t)}] \in Int
    BY <1>2, <2>1
  <2>4. QED
    BY <2>1, <2>2, <2>3
<1>4. it \in [SUBSET S -> Int]
  <2> HIDE DEF it
  <2>1. it = [s \in SUBSET S |-> it[s]]
    BY <1>1 DEF Sums
  <2>2. QED
    BY <1>3, <2>1
<1>5. QED
  <2> HIDE DEF it
  <2>1. QED
    BY <1>1, <1>4

(* A function that changes at one point changes its sum by as much.        *)
LEMMA SumChanges ==
    ASSUME NEW S, IsFiniteSet(S), NEW f \in [S -> Int], NEW g \in [S -> Int], NEW i \in S,
           \A j \in S : j # i => g[j] = f[j]
    PROVE  /\ SumFunction(f) \in Int /\ SumFunction(g) \in Int
           /\ SumFunction(g) = SumFunction(f) + g[i] - f[i]
<1>1. PICK a : Sums(f, S, a) /\ a \in [SUBSET S -> Int] /\ SumFunction(f) = a[S]
  BY SumOf
<1>2. PICK b : Sums(g, S, b) /\ b \in [SUBSET S -> Int] /\ SumFunction(g) = b[S]
  BY SumOf
<1>3. \A s : s # {} => Pick(s) \in s
  BY DEF Pick
<1> DEFINE T == {s \in SUBSET S : b[s] # a[s] + IF i \in s THEN g[i] - f[i] ELSE 0}
<1>4. ASSUME T # {}
      PROVE  FALSE
  <2>1. PICK t \in T : \A u \in T : u \subseteq t => u = t
    <3>1. T \subseteq SUBSET S
      OBVIOUS
    <3> HIDE DEF T
    <3>2. QED
      BY <1>4, <3>1, SmallestSubset
  <2>2. /\ a[t] = IF t = {} THEN 0 ELSE f[Pick(t)] + a[t \ {Pick(t)}]
        /\ b[t] = IF t = {} THEN 0 ELSE g[Pick(t)] + b[t \ {Pick(t)}]
    BY <1>1, <1>2 DEF Sums
  <2>3. CASE t = {}
    BY <2>1, <2>2, <2>3
  <2>4. CASE t # {}
    <3> DEFINE x == Pick(t)
               u == t \ {Pick(t)}
    <3>1. x \in t /\ x \in S /\ u \in SUBSET S /\ u \notin T /\ (i \in u <=> i \in t /\ i # x)
      BY <1>3, <2>1, <2>4
    <3>2. b[u] = a[u] + IF i \in u THEN g[i] - f[i] ELSE 0
      BY <3>1
    <3>3. a[u] \in Int /\ b[u] \in Int /\ f[x] \in Int /\ g[x] \in Int /\ f[i] \in Int /\ g[i] \in Int
      BY <1>1, <1>2, <3>1
    <3>4. b[t] # a[t] + IF i \in t THEN g[i] - f[i] ELSE 0
      BY <2>1
    <3>5. a[t] = f[x] + a[u] /\ b[t] = g[x] + b[u]
      BY <2>2, <2>4
    <3>6. x # i => f[x] = g[x]
      BY <3>1
    <3> HIDE DEF x, u
    <3>7. QED
      BY <3>1, <3>2, <3>3, <3>4, <3>5, <3>6
  <2>5. QED
    BY <2>3, <2>4
<1>5. b[S] = a[S] + (g[i] - f[i]) /\ S \in SUBSET S
  BY <1>4
<1>6. QED
  BY <1>1, <1>2, <1>5

LEMMA SumIsNatural ==
    ASSUME NEW S, IsFiniteSet(S), NEW f \in [S -> Int], \A j \in S : f[j] >= 0
    PROVE  SumFunction(f) >= 0 /\ SumFunction(f) \in Int
<1>1. PICK a : Sums(f, S, a) /\ a \in [SUBSET S -> Int] /\ SumFunction(f) = a[S]
  BY SumOf
<1>2. \A s : s # {} => Pick(s) \in s
  BY DEF Pick
<1> DEFINE T == {s \in SUBSET S : ~(a[s] >= 0)}
<1>3. ASSUME T # {}
      PROVE  FALSE
  <2>1. PICK t \in T : \A u \in T : u \subseteq t => u = t
    <3>1. T \subseteq SUBSET S
      OBVIOUS
    <3> HIDE DEF T
    <3>2. QED
      BY <1>3, <3>1, SmallestSubset
  <2>2. a[t] = IF t = {} THEN 0 ELSE f[Pick(t)] + a[t \ {Pick(t)}]
    BY <1>1 DEF Sums
  <2>3. t # {} => /\ Pick(t) \in S /\ t \ {Pick(t)} \in SUBSET S /\ t \ {Pick(t)} \notin T
    BY <1>2, <2>1
  <2>4. QED
    BY <1>1, <2>1, <2>2, <2>3
<1>4. a[S] >= 0
  BY <1>3
<1>5. QED
  BY <1>1, <1>4

-----------------------------------------------------------------------------
(* The time in the log *)

Spans(log, at) == [s \in SessionId |-> Span(log[s], at)]

LEMMA SpansTyped ==
    ASSUME NEW log \in [SessionId -> Row], NEW at \in Int
    PROVE  IsFiniteSet(SessionId) /\ Spans(log, at) \in [SessionId -> Int]
<1>1. IsFiniteSet(SessionId)
  BY BoundAssumption, FS_Interval DEF SessionId
<1>2. \A s \in SessionId : Span(log[s], at) \in Int
  BY DEF Row, Span
<1>3. QED
  BY <1>1, <1>2 DEF Spans

LEMMA TrackedIsNatural ==
    ASSUME TypeOK, SerialInv, CycleInv
    PROVE  Tracked \in Int /\ Tracked >= 0
<1>1. \A s \in SessionId : Spans(rows, clock)[s] >= 0
  BY DEF TypeOK, LogTyped, CountsTyped, Row, Span, Spans, SerialInv, Past, CycleInv
<1>2. IsFiniteSet(SessionId) /\ Spans(rows, clock) \in [SessionId -> Int]
  BY SpansTyped DEF TypeOK, LogTyped, CountsTyped
<1>3. QED
  BY <1>1, <1>2, SumIsNatural DEF Tracked, Spans

LEMMA TrackedStays ==
    ASSUME UNCHANGED <<rows, clock>>
    PROVE  Tracked' = Tracked
  BY DEF Tracked, Span

(* One row changes, or the clock does and one row is open.                 *)
LEMMA TrackedChanges ==
    ASSUME TypeOK, TypeOK', NEW i \in SessionId, 
           \A s \in SessionId : s # i => Span(rows'[s], clock') = Span(rows[s], clock)
    PROVE  /\ Tracked \in Int /\ Tracked' \in Int
           /\ Tracked' = Tracked + Span(rows'[i], clock') - Span(rows[i], clock)
<1> DEFINE f == Spans(rows, clock)
           g == Spans(rows', clock')
<1>1. IsFiniteSet(SessionId) /\ f \in [SessionId -> Int] /\ g \in [SessionId -> Int]
  BY SpansTyped DEF TypeOK, LogTyped, CountsTyped
<1>2. Tracked = SumFunction(f) /\ Tracked' = SumFunction(g)
  BY DEF Tracked, Spans
<1>3. \A s \in SessionId : g[s] = Span(rows'[s], clock') /\ f[s] = Span(rows[s], clock)
  BY DEF Spans
<1> HIDE DEF f, g
<1>4. SumFunction(g) = SumFunction(f) + g[i] - f[i] /\ SumFunction(f) \in Int /\ SumFunction(g) \in Int
  BY <1>1, <1>3, SumChanges
<1>5. QED
  BY <1>2, <1>3, <1>4

-----------------------------------------------------------------------------
(* The cycle, where requests do not overlap and D1 does not fail            *)

LEMMA PomoFields ==
    /\ IdlePomo.phase = "idle" /\ IdlePomo.ends = None
    /\ \A t : ReadyPomo(t).phase = "ready" /\ ReadyPomo(t).ends = None
    /\ \A t, at : /\ FocusPomo(t, at).phase = "focus" /\ FocusPomo(t, at).acc = 0
                  /\ FocusPomo(t, at).resume = at /\ FocusPomo(t, at).ends = None
<1>1. IdlePomo.phase = "idle" /\ IdlePomo.ends = None
  BY DEF IdlePomo
<1>2. \A t : ReadyPomo(t).phase = "ready" /\ ReadyPomo(t).ends = None
  BY DEF ReadyPomo, IdlePomo
<1>3. \A t, at : /\ FocusPomo(t, at).phase = "focus" /\ FocusPomo(t, at).acc = 0
                 /\ FocusPomo(t, at).resume = at /\ FocusPomo(t, at).ends = None
  BY DEF FocusPomo, IdlePomo
<1>4. QED
  BY <1>1, <1>2, <1>3

LEMMA ResumedFields ==
    ASSUME NEW p \in Pomo, NEW at
    PROVE  /\ Resumed(p, at).phase = p.phase /\ Resumed(p, at).acc = p.acc /\ Resumed(p, at).ends = p.ends
           /\ Resumed(p, at).resume = IF p.resume = None THEN at ELSE p.resume
  BY DEF Resumed, Pomo

LEMMA FrozenFields ==
    ASSUME NEW p \in Pomo, NEW at \in Int
    PROVE  /\ Frozen(p, at).phase = p.phase /\ Frozen(p, at).ends = p.ends
           /\ p.phase # "focus" \/ p.resume = None => Frozen(p, at) = p
           /\ p.phase = "focus" /\ p.resume # None =>
                 Frozen(p, at).resume = None /\ Frozen(p, at).acc = p.acc + (at - p.resume)
  BY DEF Frozen, Pomo

(* What Calm rules out.                                                    *)
LEMMA CalmIs ==
    ASSUME Calm
    PROVE  /\ Serial /\ \A f \in {"rejected", "unacknowledged", "unreadable"} : ~Fault(f)
           /\ \A s : Recalls(s) <=> s = mirror
           /\ \A s \in Settings : s.enabled
           /\ ~PatchProfile /\ ~TombstoneTask
  BY DEF Calm, Fault, Recalls, PatchProfile, TombstoneTask

CycleAt(r) == HandlerCycles(reqs[r]) /\ (evictions = 0 => HandlerSaves(reqs[r]) /\ HandlerCounts(reqs[r]))

LEMMA CycleOne ==
    ASSUME Calm, NEW r \in Req, notes' \subseteq notes, CycleInv,
           \A s \in SessionId : rows'[s].st = "ended" => rows'[s].start <= rows'[s].end, CycleAt(r)'
    PROVE  CycleInv'
  BY DEF Calm, Serial, CycleInv, CycleAt

(* The handler stays at rest, so to speak: the cycle is saved, a break has *)
(* no timer, and focus counts what is tracked.                             *)
Steady ==
    /\ Saved /\ (pomo.phase = "break" => running = None)
    /\ loaded \/ (kvPomo = None /\ pomo = IdlePomo /\ mirror = None)
    /\ pomo.phase = "focus" =>
          /\ Live(pomo, clock) <= Tracked
          /\ running # None => pomo.resume # None
          /\ pomo.resume # None => mirror # None

Steadily == {"free", "load", "load.mirror", "load.pomo", "load.done", "ready", "switch.check", "rearm", "start.rearm",
             "break.set", "start.check", "stop.batch", "alarm"}

LEMMA SteadyLands ==
    ASSUME Calm, NEW r \in Req, notes' \subseteq notes, rows' = rows, CycleInv, evictions' = evictions,
           reqs'[r].pc \in Steadily,
           reqs'[r].from = "pomoBreak" => reqs'[r].pc = "stop.batch",
           loaded' \/ reqs'[r].pc \in {"load.mirror", "load.pomo", "load.done"} => cfg'.enabled,
           reqs'[r].pc = "break.set" => running' = None,
           reqs'[r].pc = "start.rearm" => running' # None /\ pomo'.phase = "focus",
           reqs'[r].pc = "start.check" => pomo'.phase = "focus" \/ reqs'[r].from = "fetch",
           evictions = 0 => Steady'
    PROVE  CycleInv'
<1>1. HandlerCycles(reqs[r])'
  BY DEF HandlerCycles, Steadily, Starting, Stopping
<1>2. ASSUME evictions = 0
      PROVE  HandlerSaves(reqs[r])' /\ HandlerCounts(reqs[r])'
  BY <1>2 DEF HandlerSaves, HandlerCounts, Steady, Steadily, Saved, Live
<1>3. QED
  BY <1>1, <1>2, CycleOne DEF CycleInv, CycleAt

(* ... and is so already where a handler suspended at rest.                *)
LEMMA SteadyAt ==
    ASSUME Calm, TypeOK, SerialInv, CycleInv, NEW r \in Req, reqs[r].pc \in Steadily \ {"start.check"}, evictions = 0
    PROVE  Steady
  BY DEF CycleInv, HandlerSaves, HandlerCounts, Steady, Steadily

LEMMA SteadyKept ==
    ASSUME Steady, UNCHANGED <<rows, clock, kvPomo, pomo, running, loaded, mirror>>
    PROVE  Steady'
  BY TrackedStays DEF Steady, Saved, Live

LEMMA LoadCycle ==
    ASSUME Calm, TypeOK, TypeOK', LogInv, SerialInv, CycleInv, NEW r \in Req, Load(r) \/ LoadStep(r)
    PROVE  CycleInv'
<1>0. /\ HandlersTyped /\ HandlerCycles(reqs[r]) /\ HandlerRecalls(reqs[r]) /\ UNCHANGED <<rows, mirror, clock, evictions>>
      /\ notes' = notes
  BY DEF TypeOK, SerialInv, CycleInv, Load, LoadStep, LoadSettings, LoadMirror, LoadPomo, LoadDone,
         othervars, dbvars, orgvars
<1>a. /\ \A s : Recalls(s) <=> s = mirror
      /\ \A f \in {"rejected", "unacknowledged", "unreadable"} : ~Fault(f)
  BY CalmIs
<1>b. ASSUME evictions = 0
      PROVE  Steady
  BY <1>b, SteadyAt DEF Load, LoadStep, LoadSettings, LoadMirror, LoadPomo, LoadDone, At, Steadily
<1>1. CASE Load(r)
  <2>1. reqs'[r].pc = "load" /\ reqs'[r].from = "fetch" /\ ~loaded'
    BY <1>0, <1>1, Threads, PutOne DEF Load, othervars, memvars, Is
  <2>2. evictions = 0 => Steady'
    BY <1>1, <1>b, SteadyKept DEF Load, othervars, dbvars, dovars, memvars
  <2>3. QED
    BY <1>0, <2>1, <2>2, SteadyLands DEF Steadily
<1>2. CASE LoadSettings(r)
  <2>1. reqs'[r].pc = "load.mirror" /\ reqs'[r].from = reqs[r].from
    BY <1>0, <1>2, Goes DEF LoadSettings
  <2>2. cfg'.enabled
    BY <1>2, <1>a, CalmIs DEF LoadSettings, TypeOK, OrgTyped
  <2>3. evictions = 0 => Steady'
    BY <1>2, <1>b, SteadyKept DEF LoadSettings, dbvars, dovars
  <2>4. QED
    BY <1>0, <1>2, <2>1, <2>2, <2>3, SteadyLands DEF Steadily, HandlerCycles, LoadSettings, At, Stopping
<1>3. CASE LoadMirror(r)
  <2>1. PICK s : Put(r, [reqs[r] EXCEPT !.pc = "load.pomo", !.sess = s])
    BY <1>3 DEF LoadMirror
  <2>2. reqs'[r] = [reqs[r] EXCEPT !.pc = "load.pomo", !.sess = s]
    BY <1>0, <2>1, PutOne
  <2>3. reqs'[r].pc = "load.pomo" /\ reqs'[r].from = reqs[r].from
    BY <1>0, <2>2 DEF HandlersTyped, Handler
  <2>4. evictions = 0 => Steady'
    BY <1>3, <1>b, SteadyKept DEF LoadMirror, dbvars, dovars, memvars
  <2>5. QED
    BY <1>0, <1>3, <2>3, <2>4, SteadyLands DEF Steadily, HandlerCycles, LoadMirror, At, Stopping, memvars
<1>4. CASE LoadPomo(r)
  <2>1. reqs'[r].pc = "load.done" /\ reqs'[r].from = reqs[r].from /\ reqs[r].pc = "load.pomo"
    BY <1>0, <1>4, Goes DEF LoadPomo, At
  <2>2. running' = mirror /\ loaded' = loaded
    BY <1>0, <1>4, <1>a DEF LoadPomo, At, HandlerRecalls
  <2>3. loaded => running = mirror
    BY <1>0, <1>a, <2>1 DEF HandlerRecalls, Unsettled
  <2>4. ASSUME evictions = 0
        PROVE  Steady'
    <3>1. Steady
      BY <1>b, <2>4
    <3> DEFINE stored == IF kvPomo # None THEN kvPomo ELSE pomo
    <3>2. stored = pomo
      BY <3>1 DEF Steady, Saved
    <3>3. ~(stored.phase = "focus" /\ running' # None /\ stored.resume = None)
      <4>1. CASE loaded
        BY <2>2, <2>3, <3>1, <3>2, <4>1 DEF Steady
      <4>2. CASE ~loaded
        BY <3>1, <3>2, <4>2, PomoFields DEF Steady
      <4>3. QED
        BY <4>1, <4>2
    <3>4. pomo' = pomo /\ kvPomo' = kvPomo
      BY <1>4, <3>2, <3>3 DEF LoadPomo
    <3>5. loaded \/ running' = None
      BY <3>1, <2>2 DEF Steady
    <3>6. Tracked' = Tracked /\ Live(pomo, clock)' = Live(pomo, clock)
      BY <1>0, <3>4, TrackedStays DEF Live
    <3>7. QED
      BY <1>0, <2>2, <2>3, <3>1, <3>4, <3>5, <3>6, PomoFields DEF Steady, Saved
  <2>5. QED
    BY <1>0, <1>4, <2>1, <2>2, <2>4, SteadyLands DEF Steadily, HandlerCycles, LoadPomo, At, Stopping
<1>5. CASE LoadDone(r)
  <2>1. reqs'[r].pc \in {"ready", "alarm"} /\ reqs'[r].from \in {"fetch", "alarm"}
    BY <1>0, <1>5, Threads, PutOne DEF LoadDone, Is
  <2>2. evictions = 0 => Steady'
    BY <1>0, <1>5, <1>b, TrackedStays DEF LoadDone, Steady, Saved, Live
  <2>3. QED
    BY <1>0, <1>5, <2>1, <2>2, SteadyLands DEF Steadily, HandlerCycles, LoadDone, At
<1>6. QED
  BY <1>1, <1>2, <1>3, <1>4, <1>5 DEF LoadStep

(* A handler that gives up or finishes as its caller asked.                *)
LEMMA SucceedIs ==
    ASSUME HandlersTyped, NEW r \in Req, Succeed(r)
    PROVE  /\ reqs'[r].pc \in {"free", "break.set", "alarm"} /\ reqs'[r].from \in {"fetch", "alarm"}
           /\ reqs'[r].pc = "break.set" => reqs[r].from = "pomoBreak"
           /\ reqs'[r].pc = "alarm" => reqs'[r].stage = "end"
<1>1. reqs'[r] = CASE reqs[r].from = "pomoBreak" -> Thread("break.set")
                   [] reqs[r].from = "alarm"     -> AlarmTail
                   [] OTHER                      -> Free
  BY PutOne DEF Succeed
<1>2. QED
  BY <1>1, Threads DEF Is

LEMMA PersistRearmIs ==
    ASSUME HandlersTyped, NEW r \in Req, PersistRearm(r)
    PROVE  /\ reqs'[r].pc \in {"free", "rearm"} /\ reqs'[r].from = "fetch" /\ kvPomo' = pomo'
           /\ running' = None => reqs'[r].pc = "free" /\ Rearm
<1>1. reqs'[r] = IF running' # None THEN Thread("rearm") ELSE Free
  BY PutOne DEF PersistRearm, Done
<1>2. QED
  BY <1>1, Threads DEF Is, PersistRearm

(* A cycle that begins or ends and is saved counts nothing yet.            *)
LEMMA SteadyFromNow ==
    ASSUME TypeOK, SerialInv, CycleInv, UNCHANGED <<rows, clock>>, loaded',
           kvPomo' = pomo', kvPomo' # None,
           pomo'.phase = "break" => running' = None,
           pomo'.phase = "focus" => pomo'.acc = 0 /\ pomo'.resume = None /\ running' = None
    PROVE  Steady'
<1>1. Tracked' = Tracked /\ Tracked >= 0
  BY TrackedStays, TrackedIsNatural
<1>2. QED
  BY <1>1 DEF Steady, Saved, Live

LEMMA StartCycle ==
    ASSUME Calm, TypeOK, TypeOK', LogInv, SerialInv, CycleInv, NEW r \in Req,
           TimerStart(r) \/ StartCheck(r) \/ StartNotFound(r) \/ StartDone(r) \/ StartPomo(r) \/ StartRearm(r)
    PROVE  CycleInv'
<1>0. /\ HandlersTyped /\ HandlerCycles(reqs[r]) /\ HandlerRecalls(reqs[r]) /\ UNCHANGED <<rows, mirror, clock, evictions>>
      /\ notes' = notes /\ Tracked' = Tracked /\ Tracked >= 0 /\ Tracked \in Int
  BY TrackedStays, TrackedIsNatural DEF TypeOK, SerialInv, CycleInv, TimerStart, StartCheck, StartNotFound, StartDone, StartPomo, StartRearm,
         othervars, dbvars, orgvars
<1>a. /\ \A s : Recalls(s) <=> s = mirror
      /\ \A s \in SessionId : rows[s].st = "ended" => rows[s].start <= rows[s].end
  BY CalmIs DEF CycleInv
<1>b. /\ pomo \in Pomo /\ pomo' \in Pomo /\ clock \in Int /\ reqs[r].at \in Int /\ None \notin Int
      /\ \A p \in Pomo : p # None
  BY NoneAssumption, PomoAssumption DEF TypeOK, MemoryTyped, CountsTyped, HandlersTyped, Handler
<1>c. evictions = 0 => HandlerSaves(reqs[r]) /\ HandlerCounts(reqs[r])
  BY DEF CycleInv
<1>1. CASE TimerStart(r)
  <2>1. reqs'[r].pc = "start.check" /\ reqs'[r].from = "fetch" /\ loaded' /\ cfg' = cfg
    BY <1>0, <1>1, Threads, PutOne, EnteringRecalls DEF TimerStart, othervars, memvars, Is
  <2>2. evictions = 0 => Steady'
    <3>1. evictions = 0 => Steady
      BY <1>1, SteadyAt DEF TimerStart, Entering, At, Steadily
    <3>2. QED
      BY <1>1, <3>1, SteadyKept DEF TimerStart, othervars, dbvars, dovars, memvars
  <2>3. cfg.enabled
    BY <1>0, <1>1, EnteringRecalls DEF HandlerCycles, TimerStart
  <2>4. QED
    BY <1>0, <2>1, <2>2, <2>3, SteadyLands DEF Steadily
<1>2. CASE StartCheck(r)
  <2> DEFINE engaged == reqs[r].from = "fetch" /\ cfg.enabled
  <2>1. reqs[r].pc = "start.check" /\ loaded /\ cfg.enabled /\ running = None /\ mirror = None /\ reqs[r].from # "pomoBreak"
    BY <1>0, <1>2, <1>a DEF StartCheck, At, HandlerRecalls, HandlerCycles, Loading, Unsettled, Stopping
  <2>2. reqs'[r] = [reqs[r] EXCEPT !.pc = "start.batch", !.sess = nextId, !.at = clock, !.engaged = engaged]
    BY <1>0, <1>2, PutOne DEF StartCheck
  <2>3. reqs'[r].pc = "start.batch" /\ reqs'[r].at = clock /\ reqs'[r].from = reqs[r].from
    BY <1>0, <2>2 DEF HandlersTyped, Handler
  <2>4. UNCHANGED <<loaded, cfg, running, kvPomo>>
    BY <1>2 DEF StartCheck, dovars
  <2>5. /\ pomo.phase # "focus" => pomo'.phase = "focus" /\ pomo'.acc = 0 /\ pomo'.resume = clock
        /\ pomo.phase = "focus" => pomo' = pomo
    BY <1>0, <1>2, <2>1, PomoFields DEF StartCheck, HandlerCycles
  <2>6. HandlerCycles(reqs[r])'
    BY <2>1, <2>3, <2>4, <2>5 DEF HandlerCycles, Starting, Stopping
  <2>7. ASSUME evictions = 0
        PROVE  HandlerSaves(reqs[r])' /\ HandlerCounts(reqs[r])'
    <3>1. HandlerSaves(reqs[r])'
      BY <2>1, <2>3, <2>4, <2>5 DEF HandlerSaves
    <3>2. pomo.phase = "focus" => pomo.resume = None /\ pomo.acc <= Tracked
      BY <1>b, <1>c, <2>1, <2>7 DEF HandlerCounts, Live, Pomo
    <3>3. HandlerCounts(reqs[r])'
      BY <1>0, <2>1, <2>3, <2>4, <2>5, <3>2 DEF HandlerCounts
    <3>4. QED
      BY <3>1, <3>3
  <2>8. QED
    BY <1>0, <1>a, <2>6, <2>7, CycleOne DEF CycleAt
<1>3. CASE StartNotFound(r)
  <2>1. reqs[r].pc = "start.check" /\ loaded' /\ cfg'.enabled /\ running' = None /\ running = None /\ mirror = None /\ reqs[r].from # "pomoBreak"
    BY <1>0, <1>3, <1>a DEF StartNotFound, At, HandlerRecalls, HandlerCycles, Loading, Unsettled, Stopping
  <2>2. CASE reqs[r].from = "alarm"
    <3>1. pomo' = ReadyPomo(reqs[r].task) /\ kvPomo' = pomo' /\ Put(r, AlarmTail)
      BY <1>3, <2>2 DEF StartNotFound, Fail
    <3>2. reqs'[r].pc = "alarm" /\ reqs'[r].from = "alarm"
      BY <1>0, <3>1, PutOne, Threads DEF Is
    <3>3. Steady'
      BY <1>0, <1>b, <2>1, <3>1, PomoFields, SteadyFromNow
    <3>4. QED
      BY <1>0, <2>1, <3>2, <3>3, SteadyLands DEF Steadily
  <2>3. CASE reqs[r].from # "alarm"
    <3>1. Done(r) /\ UNCHANGED <<pomo, kvPomo>>
      BY <1>3, <2>1, <2>3 DEF StartNotFound, Fail, dovars
    <3>2. reqs'[r].pc = "free" /\ reqs'[r].from = "fetch"
      BY <1>0, <3>1, PutOne, Threads DEF Done, Is
    <3>3. ASSUME evictions = 0
          PROVE  Steady'
      BY <1>0, <1>c, <2>1, <2>3, <3>1, <3>3 DEF Steady, Saved, Live, HandlerSaves, HandlerCounts
    <3>4. QED
      BY <1>0, <2>1, <3>2, <3>3, SteadyLands DEF Steadily
  <2>4. QED
    BY <2>2, <2>3
<1>4. CASE StartDone(r)
  <2>1. /\ reqs'[r].pc = "start.pomo" /\ reqs'[r].from = reqs[r].from /\ reqs'[r].at = reqs[r].at
        /\ reqs[r].pc = "start.done"
    BY <1>0, <1>4, Goes DEF StartDone, At
  <2>2. running' = mirror /\ mirror # None /\ UNCHANGED <<pomo, kvPomo, cfg, loaded>>
    BY <1>0, <1>4, <2>1 DEF StartDone, HandlerRecalls, dovars
  <2>3. HandlerCycles(reqs[r])'
    BY <1>0, <2>1, <2>2 DEF HandlerCycles, Starting, Stopping
  <2>4. pomo.phase = "focus"
    BY <1>0, <2>1 DEF HandlerCycles, Starting
  <2>5. ASSUME evictions = 0
        PROVE  HandlerSaves(reqs[r])' /\ HandlerCounts(reqs[r])'
    BY <1>0, <1>c, <2>1, <2>2, <2>4, <2>5 DEF HandlerSaves, HandlerCounts, Live
  <2>6. QED
    BY <1>0, <1>a, <2>3, <2>5, CycleOne DEF CycleAt
<1>5. CASE StartPomo(r)
  <2>1. /\ reqs[r].pc = "start.pomo" /\ running = mirror /\ running # None /\ pomo.phase = "focus" /\ loaded
        /\ UNCHANGED <<running, cfg, loaded>> /\ cfg.enabled
    BY <1>0, <1>5, <1>a DEF StartPomo, At, HandlerCycles, HandlerRecalls, Starting, Loading, Unsettled
  <2>2. reqs'[r].pc = "start.rearm" /\ reqs'[r].from = reqs[r].from /\ reqs[r].from # "pomoBreak"
    BY <1>0, <1>5, <2>1, Goes DEF StartPomo, HandlerCycles, Stopping
  <2>3. /\ pomo' = [Resumed(pomo, reqs[r].at) EXCEPT !.task = IF @ = None THEN reqs[r].task ELSE @]
        /\ kvPomo' = pomo'
    BY <1>5, <2>1 DEF StartPomo
  <2>4. Resumed(pomo, reqs[r].at) \in Pomo
    BY <1>b DEF Resumed, Pomo, TimeOrNone
  <2>5. /\ pomo'.phase = "focus" /\ pomo'.acc = pomo.acc
        /\ pomo'.resume = IF pomo.resume = None THEN reqs[r].at ELSE pomo.resume
    BY <1>b, <2>1, <2>3, <2>4, ResumedFields DEF Pomo
  <2>6. ASSUME evictions = 0
        PROVE  Steady'
    <3>1. pomo'.resume = reqs[r].at /\ pomo.acc + clock - reqs[r].at <= Tracked /\ reqs[r].at # None
      BY <1>b, <1>c, <2>1, <2>5, <2>6 DEF HandlerCounts
    <3>2. pomo.acc \in Int
      BY <1>b DEF Pomo
    <3>3. Live(pomo, clock)' <= Tracked'
      BY <1>0, <1>b, <2>5, <3>1, <3>2 DEF Live
    <3>4. QED
      BY <1>0, <1>b, <2>1, <2>3, <2>5, <3>1, <3>3 DEF Steady, Saved
  <2>7. QED
    BY <1>0, <2>1, <2>2, <2>5, <2>6, SteadyLands DEF Steadily
<1>6. CASE StartRearm(r)
  <2>1. reqs[r].pc = "start.rearm" /\ reqs[r].from # "pomoBreak" /\ loaded /\ cfg.enabled /\ UNCHANGED <<loaded, cfg, running, pomo, kvPomo>>
    BY <1>0, <1>6 DEF StartRearm, At, HandlerCycles, Stopping, HandlerRecalls, Loading, memvars
  <2>2. reqs'[r].pc \in {"free", "alarm"} /\ reqs'[r].from \in {"fetch", "alarm"}
    BY <1>0, <1>6, <2>1, SucceedIs DEF StartRearm
  <2>3. evictions = 0 => Steady'
    BY <1>0, <2>1, SteadyAt, SteadyKept DEF Steadily
  <2>4. QED
    BY <1>0, <2>1, <2>2, <2>3, SteadyLands DEF Steadily
<1>7. QED
  BY <1>1, <1>2, <1>3, <1>4, <1>5, <1>6

LEMMA InsertedFields ==
    ASSUME NEW log \in [SessionId -> Row], NEW i \in SessionId, NEW t, NEW at \in Int
    PROVE  /\ \A s \in SessionId : s # i => Inserted(log, i, t, at)[s] = log[s]
           /\ Inserted(log, i, t, at)[i].st = "open" /\ Inserted(log, i, t, at)[i].start = at
           /\ \A to : Span(Inserted(log, i, t, at)[i], to) = to - at
<1>1. /\ Inserted(log, i, t, at)[i].st = "open" /\ Inserted(log, i, t, at)[i].start = at
      /\ \A s \in SessionId : s # i => Inserted(log, i, t, at)[s] = log[s]
  BY DEF Inserted
<1>2. QED
  BY <1>1 DEF Span

LEMMA BatchCycle ==
    ASSUME Calm, TypeOK, TypeOK', LogInv, SerialInv, CycleInv, NEW r \in Req, StartBatch(r) \/ StopBatch(r) \/ SwitchBatch(r)
    PROVE  CycleInv'
<1> DEFINE q == reqs[r]
<1>0. /\ HandlersTyped /\ HandlerCycles(q) /\ HandlerRecalls(q) /\ HandlerInTime(q) /\ Knows(q, rows, nextId)
      /\ UNCHANGED <<clock, evictions, running, pomo, kvPomo, cfg, loaded>>
      /\ notes' = notes /\ rows \in [SessionId -> Row] /\ q \in Handler
  BY DEF TypeOK, LogTyped, HandlersTyped, SerialInv, CycleInv, LogInv, HandlersKnow, StartBatch, StopBatch, SwitchBatch, orgvars,
         dovars, memvars
<1>a. /\ \A s : Recalls(s) <=> s = mirror
      /\ ~Fault("unacknowledged") /\ ~Fault("rejected")
      /\ \A s \in SessionId : rows[s].st = "ended" => rows[s].start <= rows[s].end
  BY CalmIs DEF CycleInv
<1>h. rows \in [SessionId -> Row] /\ clock' = clock /\ q.at \in Int
  BY <1>0 DEF Handler
<1>b. /\ pomo \in Pomo /\ clock \in Int /\ q.at \in Int /\ None \notin Int /\ q.task \in TaskOrNone
      /\ pomo.acc \in Int /\ pomo.resume \in TimeOrNone
  BY NoneAssumption DEF TypeOK, MemoryTyped, CountsTyped, HandlersTyped, Handler, Pomo
<1>c. evictions = 0 => HandlerSaves(q) /\ HandlerCounts(q)
  BY DEF CycleInv
<1>d. /\ loaded /\ q.at <= clock /\ Past(rows, q.at) /\ running = mirror
  BY <1>0, <1>a DEF StartBatch, StopBatch, SwitchBatch, At, HandlerRecalls, HandlerInTime, Loading, Unsettled,
              Opening
<1>e. \A s \in SessionId : rows[s].st = "open" => s = mirror
  BY DEF SerialInv, Open
<1>f. mirror # None => mirror \in SessionId /\ rows[mirror].st = "open"
  BY DEF SerialInv, Open
<1>g. q.sess # None => q.sess \in SessionId
  BY <1>0 DEF Handler, SessionOrNone
<1>1. CASE StartBatch(r)
  <2>1. /\ q.pc = "start.batch" /\ running = None /\ q.sess \in SessionId /\ rows[q.sess].st = "none"
        /\ pomo.phase = "focus" /\ cfg.enabled
    BY <1>0, <1>1, <1>g, NoneAssumption DEF StartBatch, At, HandlerRecalls, Knows, Opening, HandlerCycles, Starting, Loading, Unsettled
  <2>2. IndexAllowsOpen(rows)
    BY <1>d, <1>e, <2>1, NoneAssumption DEF IndexAllowsOpen, SessionId
  <2>3. rows' = Inserted(rows, q.sess, q.task, q.at) /\ mirror' = q.sess /\ Goto(r, "start.done")
    BY <1>1, <1>a, <2>2 DEF StartBatch, Batch
  <2>4. /\ reqs'[r].pc = "start.done" /\ reqs'[r].from = q.from /\ reqs'[r].at = q.at /\ mirror' # None
    BY <1>0, <2>1, <2>3, Goes, NoneAssumption DEF SessionId
  <2>5. /\ \A s \in SessionId : s # q.sess => rows'[s] = rows[s]
        /\ rows'[q.sess].st = "open" /\ Span(rows'[q.sess], clock') = clock - q.at
    BY <1>h, <2>1, <2>3, InsertedFields
  <2>6. Tracked' = Tracked + (clock - q.at) /\ Tracked \in Int
    <3>1. Span(rows[q.sess], clock) = 0
      BY <2>1 DEF Span
    <3>2. \A s \in SessionId : s # q.sess => Span(rows'[s], clock') = Span(rows[s], clock)
      BY <1>0, <2>5
    <3>3. Tracked' = Tracked + Span(rows'[q.sess], clock') - Span(rows[q.sess], clock) /\ Tracked \in Int
      BY <2>1, <3>2, TrackedChanges
    <3>4. QED
      BY <1>b, <2>5, <3>1, <3>3
  <2>7. HandlerCycles(reqs[r])'
    BY <1>0, <2>1, <2>4 DEF HandlerCycles, Starting, Stopping
  <2>8. ASSUME evictions = 0
        PROVE  HandlerSaves(reqs[r])' /\ HandlerCounts(reqs[r])'
    <3>1. HandlerSaves(reqs[r])'
      BY <1>0, <1>d, <2>1, <2>4 DEF HandlerSaves
    <3>2. pomo.acc <= Tracked /\ pomo.resume \in {None, q.at}
      BY <1>c, <2>1, <2>8 DEF HandlerCounts
    <3>3. pomo.acc + clock - q.at <= Tracked'
      BY <1>b, <2>6, <3>2
    <3>4. HandlerCounts(reqs[r])'
      BY <1>0, <2>1, <2>4, <3>2, <3>3 DEF HandlerCounts
    <3>5. QED
      BY <3>1, <3>4
  <2>9. \A s \in SessionId : rows'[s].st = "ended" => rows'[s].start <= rows'[s].end
    BY <1>a, <2>5
  <2>10. QED
    BY <1>0, <2>7, <2>8, <2>9, CycleOne DEF CycleAt
<1>2. CASE StopBatch(r)
  <2>1. /\ q.pc = "stop.batch" /\ running # None /\ q.sess = mirror /\ q.sess \in SessionId /\ rows[q.sess].st = "open"
        /\ cfg.enabled
    BY <1>0, <1>2, <1>d, <1>f DEF StopBatch, At, HandlerRecalls, HandlerCycles
  <2>3. rows' = Ended(rows, q.sess, q.at) /\ mirror' = None /\ Goto(r, "stop.done")
    BY <1>2, <1>a DEF StopBatch, Batch
  <2>4. /\ reqs'[r].pc = "stop.done" /\ reqs'[r].from = q.from /\ reqs'[r].at = q.at
    BY <1>0, <2>1, <2>3, Goes
  <2>5. /\ \A s \in SessionId : s # q.sess => rows'[s] = rows[s]
        /\ rows'[q.sess].st = "ended" /\ rows'[q.sess].start = rows[q.sess].start /\ rows'[q.sess].end = q.at
        /\ Span(rows'[q.sess], clock') = q.at - rows[q.sess].start
    <3>1. /\ \A s \in SessionId : s # q.sess => rows'[s] = rows[s]
          /\ rows'[q.sess].st = "ended" /\ rows'[q.sess].start = rows[q.sess].start /\ rows'[q.sess].end = q.at
      BY <1>h, <2>1, <2>3 DEF Ended, Row
    <3>2. QED
      BY <3>1 DEF Span
  <2>a. rows[q.sess].start \in Int /\ rows[q.sess].start <= q.at
    BY <1>0, <1>d, <2>1 DEF Row, Past
  <2>6. Tracked' = Tracked - (clock - q.at) /\ Tracked \in Int
    <3>1. Span(rows[q.sess], clock) = clock - rows[q.sess].start
      BY <2>1 DEF Span
    <3>2. \A s \in SessionId : s # q.sess => Span(rows'[s], clock') = Span(rows[s], clock)
      BY <1>0, <2>5
    <3>3. Tracked' = Tracked + Span(rows'[q.sess], clock') - Span(rows[q.sess], clock) /\ Tracked \in Int
      BY <2>1, <3>2, TrackedChanges
    <3>4. QED
      BY <1>b, <2>5, <2>a, <3>1, <3>3
  <2>7. HandlerCycles(reqs[r])'
    BY <1>0, <1>d, <2>1, <2>4 DEF HandlerCycles, Starting, Stopping
  <2>8. ASSUME evictions = 0
        PROVE  HandlerSaves(reqs[r])' /\ HandlerCounts(reqs[r])'
    <3>1. HandlerSaves(reqs[r])'
      BY <1>0, <1>c, <1>d, <2>1, <2>4, <2>8 DEF HandlerSaves, Saved
    <3>2. pomo.phase = "focus" => Live(pomo, clock) <= Tracked /\ pomo.resume # None
      BY <1>c, <2>1, <2>8 DEF HandlerCounts
    <3>3. pomo.phase = "focus" => Live(pomo, q.at) <= Tracked' /\ pomo.resume # None
      BY <1>b, <2>6, <3>2 DEF Live, TimeOrNone
    <3>4. HandlerCounts(reqs[r])'
      BY <1>0, <2>1, <2>4, <3>3 DEF HandlerCounts, Live
    <3>5. QED
      BY <3>1, <3>4
  <2>9. \A s \in SessionId : rows'[s].st = "ended" => rows'[s].start <= rows'[s].end
    BY <1>a, <2>5, <2>a
  <2>10. QED
    BY <1>0, <2>7, <2>8, <2>9, CycleOne DEF CycleAt
<1>3. CASE SwitchBatch(r)
  <2>1. /\ q.pc = "switch.batch" /\ running # None /\ q.old = mirror /\ q.old \in SessionId /\ rows[q.old].st = "open"
        /\ cfg.enabled /\ q.sess \in SessionId /\ rows[q.sess].st = "none"
    BY <1>0, <1>3, <1>d, <1>f, <1>g, NoneAssumption DEF SwitchBatch, At, HandlerRecalls, HandlerCycles, Knows, Opening
  <2> DEFINE ended == Ended(rows, q.old, q.at)
  <2>a. /\ \A s \in SessionId : s # q.old => ended[s] = rows[s]
        /\ ended[q.old].st = "ended" /\ ended[q.old].start = rows[q.old].start /\ ended[q.old].end = q.at
        /\ Span(ended[q.old], clock) = q.at - rows[q.old].start
        /\ ended \in [SessionId -> Row]
    <3>1. ended \in [SessionId -> Row]
      BY <1>h, <2>1, EndedTyped DEF SessionOrNone
    <3>2. /\ \A s \in SessionId : s # q.old => ended[s] = rows[s]
          /\ ended[q.old].st = "ended" /\ ended[q.old].start = rows[q.old].start /\ ended[q.old].end = q.at
      BY <1>h, <2>1 DEF Ended, Row
    <3> HIDE DEF ended
    <3>3. Span(ended[q.old], clock) = q.at - rows[q.old].start
      BY <3>2 DEF Span
    <3>4. QED
      BY <3>1, <3>2, <3>3
  <2>2. IndexAllowsOpen(ended)
    BY <1>e, <2>1, <2>a DEF IndexAllowsOpen
  <2>3. rows' = Inserted(ended, q.sess, q.task, q.at) /\ mirror' = q.sess /\ Goto(r, "switch.done")
    BY <1>3, <1>a, <1>d, <2>1, <2>2 DEF SwitchBatch, Batch
  <2>4. /\ reqs'[r].pc = "switch.done" /\ reqs'[r].from = q.from /\ reqs'[r].engaged = q.engaged /\ mirror' # None
    BY <1>0, <2>1, <2>3, Goes, NoneAssumption DEF SessionId
  <2>5. /\ \A s \in SessionId : s # q.sess => rows'[s] = ended[s]
        /\ rows'[q.sess].st = "open" /\ Span(rows'[q.sess], clock') = clock - q.at
    <3> HIDE DEF ended
    <3>1. QED
      BY <1>0, <1>b, <2>1, <2>3, <2>a, InsertedFields
  <2>b. rows[q.old].start \in Int /\ rows[q.old].start <= q.at /\ q.old # q.sess
    BY <1>0, <1>d, <2>1 DEF Row, Past
  <2>6. Tracked' = Tracked /\ Tracked \in Int
    <3> DEFINE f == Spans(rows, clock)
               g == Spans(ended, clock)
               h == Spans(rows', clock)
    <3>0. IsFiniteSet(SessionId) /\ f \in [SessionId -> Int] /\ g \in [SessionId -> Int] /\ h \in [SessionId -> Int]
      BY <1>b, <2>a, SpansTyped DEF TypeOK, LogTyped
    <3>1. /\ f[q.old] = clock - rows[q.old].start /\ g[q.old] = q.at - rows[q.old].start
          /\ g[q.sess] = 0 /\ h[q.sess] = clock - q.at
          /\ \A s \in SessionId : s # q.old => g[s] = f[s]
          /\ \A s \in SessionId : s # q.sess => h[s] = g[s]
      <4>1. /\ Span(rows[q.old], clock) = clock - rows[q.old].start
            /\ rows[q.sess] = ended[q.sess] /\ Span(rows[q.sess], clock) = 0
        BY <2>1, <2>a, <2>b DEF Span
      <4> HIDE DEF ended
      <4>2. \A s \in SessionId : /\ f[s] = Span(rows[s], clock) /\ g[s] = Span(ended[s], clock)
                                 /\ h[s] = Span(rows'[s], clock)
        BY DEF Spans
      <4> HIDE DEF f, g, h
      <4>3. QED
        BY <1>0, <2>1, <2>a, <2>b, <2>5, <4>1, <4>2
    <3>2. Tracked = SumFunction(f) /\ Tracked' = SumFunction(h)
      BY <1>0 DEF Tracked, Spans
    <3> HIDE DEF f, g, h
    <3>3. SumFunction(g) = SumFunction(f) + g[q.old] - f[q.old] /\ SumFunction(f) \in Int /\ SumFunction(g) \in Int
      BY <2>1, <3>0, <3>1, SumChanges
    <3>4. SumFunction(h) = SumFunction(g) + h[q.sess] - g[q.sess] /\ SumFunction(h) \in Int
      BY <2>1, <3>0, <3>1, SumChanges
    <3>5. QED
      BY <1>b, <2>b, <3>1, <3>2, <3>3, <3>4
  <2>7. HandlerCycles(reqs[r])'
    BY <1>0, <1>d, <2>1, <2>4 DEF HandlerCycles, Starting, Stopping
  <2>8. ASSUME evictions = 0
        PROVE  HandlerSaves(reqs[r])' /\ HandlerCounts(reqs[r])'
    <3>1. HandlerSaves(reqs[r])'
      BY <1>0, <1>c, <1>d, <2>1, <2>4, <2>8 DEF HandlerSaves, Saved
    <3>2. HandlerCounts(reqs[r])'
      BY <1>0, <1>c, <2>1, <2>4, <2>6, <2>8 DEF HandlerCounts, Live
    <3>3. QED
      BY <3>1, <3>2
  <2>9. \A s \in SessionId : rows'[s].st = "ended" => rows'[s].start <= rows'[s].end
    BY <1>a, <2>5, <2>a, <2>b
  <2>10. QED
    BY <1>0, <2>7, <2>8, <2>9, CycleOne DEF CycleAt
<1>4. QED
  BY <1>1, <1>2, <1>3

LEMMA StopCycle ==
    ASSUME Calm, TypeOK, TypeOK', LogInv, SerialInv, CycleInv, NEW r \in Req,
           TimerStop(r) \/ StopFreeze(r) \/ StopClear(r)
    PROVE  CycleInv'
<1>0. /\ HandlersTyped /\ HandlerCycles(reqs[r]) /\ HandlerRecalls(reqs[r]) /\ UNCHANGED <<rows, mirror, clock, evictions>>
      /\ notes' = notes /\ Tracked' = Tracked /\ Tracked >= 0 /\ Tracked \in Int
      /\ UNCHANGED <<loaded, cfg>>
  BY TrackedStays, TrackedIsNatural DEF TypeOK, SerialInv, CycleInv, TimerStop, StopFreeze, StopClear,
         othervars, dbvars, orgvars, memvars
<1>a. \A s \in SessionId : rows[s].st = "ended" => rows[s].start <= rows[s].end
  BY DEF CycleInv
<1>b. /\ pomo \in Pomo /\ pomo' \in Pomo /\ clock \in Int /\ reqs[r].at \in Int /\ None \notin Int
      /\ \A p \in Pomo : p # None
      /\ pomo.acc \in Int /\ pomo.resume \in TimeOrNone
  BY NoneAssumption, PomoAssumption DEF TypeOK, MemoryTyped, CountsTyped, HandlersTyped, Handler, Pomo
<1>c. evictions = 0 => HandlerSaves(reqs[r]) /\ HandlerCounts(reqs[r])
  BY DEF CycleInv
<1>1. CASE TimerStop(r)
  <2>1. reqs'[r].pc = "stop.batch" /\ reqs'[r].from = "fetch" /\ loaded'
    BY <1>0, <1>1, Threads, PutOne, EnteringRecalls DEF TimerStop, Is
  <2>2. evictions = 0 => Steady'
    <3>1. evictions = 0 => Steady
      BY <1>1, SteadyAt DEF TimerStop, Entering, At, Steadily
    <3>2. QED
      BY <1>1, <3>1, SteadyKept DEF TimerStop, othervars, dbvars, dovars, memvars
  <2>3. cfg.enabled
    BY <1>0, <1>1, EnteringRecalls DEF HandlerCycles, TimerStop
  <2>4. QED
    BY <1>0, <2>1, <2>2, <2>3, SteadyLands DEF Steadily
<1>2. CASE StopFreeze(r)
  <2>1. /\ reqs[r].pc = "stop.done" /\ loaded /\ cfg.enabled /\ running' = running /\ running # None
        /\ pomo' = Frozen(pomo, reqs[r].at) /\ kvPomo' = pomo' /\ Frozen(pomo, reqs[r].at) # pomo
    BY <1>0, <1>2 DEF StopFreeze, At, HandlerRecalls, HandlerCycles, Loading
  <2>2. reqs'[r].pc = "stop.clear" /\ reqs'[r].from = reqs[r].from
    BY <1>0, <1>2, Goes DEF StopFreeze
  <2>3. /\ pomo.phase = "focus" /\ pomo'.phase = "focus" /\ pomo.resume # None
        /\ pomo'.resume = None /\ pomo'.acc = pomo.acc + (reqs[r].at - pomo.resume)
    BY <1>b, <2>1, FrozenFields
  <2>4. HandlerCycles(reqs[r])'
    BY <1>0, <2>1, <2>2 DEF HandlerCycles, Starting, Stopping
  <2>5. ASSUME evictions = 0
        PROVE  HandlerSaves(reqs[r])' /\ HandlerCounts(reqs[r])'
    <3>1. HandlerSaves(reqs[r])'
      BY <1>0, <1>b, <2>1, <2>2, <2>3 DEF HandlerSaves, Saved
    <3>2. Live(pomo, reqs[r].at) <= Tracked
      BY <1>c, <2>1, <2>3, <2>5 DEF HandlerCounts
    <3>3. Live(pomo, clock)' <= Tracked'
      BY <1>0, <1>b, <2>3, <3>2 DEF Live, TimeOrNone
    <3>4. HandlerCounts(reqs[r])'
      BY <1>0, <1>b, <2>2, <2>3, <3>3 DEF HandlerCounts
    <3>5. QED
      BY <3>1, <3>4
  <2>6. QED
    BY <1>0, <1>a, <2>4, <2>5, CycleOne DEF CycleAt
<1>3. CASE StopClear(r)
  <2>1. /\ reqs[r].pc \in {"stop.done", "stop.clear"} /\ loaded /\ cfg.enabled /\ running' = None /\ mirror = None
        /\ Succeed(r)
    BY <1>0, <1>3 DEF StopClear, At, HandlerRecalls, HandlerCycles, Loading
  <2>2. /\ reqs'[r].pc \in {"free", "break.set", "alarm"} /\ reqs'[r].from \in {"fetch", "alarm"}
    BY <1>0, <2>1, SucceedIs
  <2>3. ASSUME evictions = 0
        PROVE  Steady'
    <3>0. Saved /\ (pomo.phase = "break" => running = None)
      BY <1>c, <2>1, <2>3 DEF HandlerSaves
    <3>1. CASE reqs[r].pc = "stop.clear"
      <4>1. UNCHANGED <<pomo, kvPomo>>
        BY <1>3, <3>1 DEF StopClear, At
      <4>2. pomo.phase = "focus" => Live(pomo, clock) <= Tracked /\ pomo.resume = None
        BY <1>c, <2>1, <2>3, <3>1 DEF HandlerCounts
      <4>3. QED
        BY <1>0, <2>1, <3>0, <4>1, <4>2 DEF Steady, Saved, Live
    <3>2. CASE reqs[r].pc = "stop.done"
      <4>1. /\ running = None \/ Frozen(pomo, reqs[r].at) = pomo
            /\ pomo' = Frozen(pomo, reqs[r].at)
            /\ kvPomo' = IF pomo' = pomo THEN kvPomo ELSE pomo'
        BY <1>3, <3>2 DEF StopClear, At
      <4>2. Saved'
        BY <1>b, <3>0, <4>1 DEF Saved
      <4>3. pomo.phase = "focus" => Live(pomo, reqs[r].at) <= Tracked
        BY <1>c, <2>3, <3>2 DEF HandlerCounts
      <4>4. pomo'.phase = pomo.phase
        BY <1>b, <4>1, FrozenFields
      <4>5. pomo'.phase = "focus" => Live(pomo, clock)' <= Tracked' /\ pomo'.resume = None
        <5>1. CASE pomo.phase = "focus" /\ pomo.resume # None
          BY <1>0, <1>b, <4>1, <4>3, <5>1, FrozenFields DEF Live, TimeOrNone
        <5>2. CASE ~(pomo.phase = "focus" /\ pomo.resume # None)
          BY <1>0, <1>b, <4>1, <4>3, <4>4, <5>2, FrozenFields DEF Live
        <5>3. QED
          BY <5>1, <5>2
      <4>6. QED
        BY <1>0, <2>1, <4>2, <4>5 DEF Steady
    <3>3. QED
      BY <2>1, <3>1, <3>2
  <2>4. QED
    BY <1>0, <2>1, <2>2, <2>3, SteadyLands DEF Steadily
<1>4. QED
  BY <1>1, <1>2, <1>3

LEMMA SwitchCycle ==
    ASSUME Calm, TypeOK, TypeOK', LogInv, SerialInv, CycleInv, NEW r \in Req,
           \/ TimerSwitch(r) \/ SwitchRefused(r) \/ SwitchCheck(r) \/ SwitchDone(r)
           \/ RearmAndReply(r) \/ Refuse(r)
    PROVE  CycleInv'
<1>0. /\ HandlersTyped /\ HandlerCycles(reqs[r]) /\ HandlerRecalls(reqs[r]) /\ UNCHANGED <<rows, mirror, clock, evictions>>
      /\ notes' = notes /\ Tracked' = Tracked
      /\ UNCHANGED <<loaded, cfg>>
  BY TrackedStays DEF TypeOK, SerialInv, CycleInv, TimerSwitch, SwitchRefused, SwitchCheck, SwitchDone,
         RearmAndReply, Refuse, othervars, dbvars, orgvars, memvars
<1>a. \A s \in SessionId : rows[s].st = "ended" => rows[s].start <= rows[s].end
  BY DEF CycleInv
<1>b. /\ pomo \in Pomo /\ \A p \in Pomo : p # None
  BY PomoAssumption DEF TypeOK, MemoryTyped
<1>c. evictions = 0 => HandlerSaves(reqs[r]) /\ HandlerCounts(reqs[r])
  BY DEF CycleInv
<1>1. CASE TimerSwitch(r)
  <2>1. /\ reqs'[r].pc \in {"start.check", "switch.check"} /\ reqs'[r].from = "fetch"
    <3>1. PICK t \in Task : Put(r, IF running = None THEN StartThread(t, "fetch")
                                   ELSE [Thread("switch.check") EXCEPT !.task = t])
      BY <1>1 DEF TimerSwitch
    <3>2. /\ [Thread("switch.check") EXCEPT !.task = t].pc = "switch.check"
          /\ [Thread("switch.check") EXCEPT !.task = t].from = "fetch"
      BY DEF Thread, Free
    <3>3. reqs'[r] = IF running = None THEN StartThread(t, "fetch") ELSE [Thread("switch.check") EXCEPT !.task = t]
      BY <1>0, <3>1, PutOne
    <3>4. CASE running = None
      BY <3>3, <3>4, Threads DEF Is
    <3>5. CASE running # None
      BY <3>2, <3>3, <3>5
    <3>6. QED
      BY <3>4, <3>5
  <2>2. evictions = 0 => Steady'
    <3>1. evictions = 0 => Steady
      BY <1>1, SteadyAt DEF TimerSwitch, Entering, At, Steadily
    <3>2. QED
      BY <1>1, <3>1, SteadyKept DEF TimerSwitch, othervars, dbvars, dovars, memvars
  <2>3. cfg.enabled
    BY <1>0, <1>1, EnteringRecalls DEF HandlerCycles, TimerSwitch
  <2>4. QED
    BY <1>0, <2>1, <2>2, <2>3, SteadyLands DEF Steadily
<1>2. CASE SwitchRefused(r) \/ RearmAndReply(r) \/ Refuse(r)
  <2>1. reqs'[r].pc = "free" /\ reqs'[r].from = "fetch" /\ cfg.enabled
    BY <1>0, <1>2, PutOne, Threads DEF SwitchRefused, RearmAndReply, Refuse, Done, Is, At, HandlerCycles, HandlerRecalls, Loading
  <2>2. evictions = 0 => Steady'
    <3>1. evictions = 0 => Steady
      BY <1>2, SteadyAt DEF SwitchRefused, RearmAndReply, Refuse, At, Steadily
    <3>2. QED
      BY <1>0, <1>2, <3>1, SteadyKept DEF SwitchRefused, RearmAndReply, Refuse, othervars, dovars, memvars
  <2>3. QED
    BY <1>0, <2>1, <2>2, SteadyLands DEF Steadily
<1>3. CASE SwitchCheck(r)
  <2>1. /\ reqs[r].pc = "switch.check" /\ cfg.enabled /\ loaded /\ running # None /\ UNCHANGED <<running, kvPomo>>
        /\ reqs[r].from # "pomoBreak"
    BY <1>0, <1>3 DEF SwitchCheck, At, HandlerCycles, HandlerRecalls, Loading, Stopping, dovars
  <2>2. reqs'[r] = [reqs[r] EXCEPT !.pc = "switch.batch", !.sess = nextId, !.old = running,
                                   !.at = clock, !.engaged = cfg.enabled]
    BY <1>0, <1>3, PutOne DEF SwitchCheck
  <2>3. reqs'[r].pc = "switch.batch" /\ reqs'[r].from = reqs[r].from /\ reqs'[r].engaged
    BY <1>0, <2>1, <2>2 DEF HandlersTyped, Handler
  <2>4. pomo'.phase = pomo.phase /\ pomo'.acc = pomo.acc /\ pomo'.resume = pomo.resume
    BY <1>3, <1>b DEF SwitchCheck, Pomo
  <2>5. HandlerCycles(reqs[r])'
    BY <1>0, <2>1, <2>3 DEF HandlerCycles, Starting, Stopping
  <2>6. ASSUME evictions = 0
        PROVE  HandlerSaves(reqs[r])' /\ HandlerCounts(reqs[r])'
    <3>1. Steady
      BY <2>1, <2>6, SteadyAt DEF Steadily
    <3>2. Live(pomo, clock)' = Live(pomo, clock)
      BY <1>0, <2>4 DEF Live
    <3>3. HandlerSaves(reqs[r])'
      BY <1>0, <2>1, <2>3, <2>4, <3>1 DEF HandlerSaves, Steady
    <3>4. HandlerCounts(reqs[r])'
      BY <1>0, <2>1, <2>3, <2>4, <3>1, <3>2 DEF HandlerCounts, Steady
    <3>5. QED
      BY <3>3, <3>4
  <2>7. QED
    BY <1>0, <1>a, <2>5, <2>6, CycleOne DEF CycleAt
<1>4. CASE SwitchDone(r)
  <2>1. /\ reqs[r].pc = "switch.done" /\ cfg.enabled /\ loaded /\ running # None /\ mirror # None
        /\ running' = mirror /\ pomo' = pomo /\ reqs[r].from # "pomoBreak"
    BY <1>0, <1>4 DEF SwitchDone, At, HandlerCycles, HandlerRecalls, Loading, Stopping
  <2>2. reqs'[r].pc \in {"rearm", "free"} /\ reqs'[r].from = IF reqs[r].engaged THEN reqs[r].from ELSE "fetch"
    BY <1>0, <1>4, Goes, PutOne, Threads DEF SwitchDone, Done, Is
  <2>3. ASSUME evictions = 0
        PROVE  Steady'
    <3>1. Saved'
      BY <1>4, <1>b, <1>c, <2>1, <2>3 DEF SwitchDone, HandlerSaves, Saved
    <3>2. pomo.phase = "focus" => Live(pomo, clock) <= Tracked /\ pomo.resume # None
      BY <1>c, <2>1, <2>3 DEF HandlerCounts
    <3>3. pomo.phase # "break"
      BY <1>c, <2>1, <2>3 DEF HandlerSaves
    <3>4. QED
      BY <1>0, <2>1, <3>1, <3>2, <3>3 DEF Steady, Live
  <2>4. QED
    BY <1>0, <2>1, <2>2, <2>3, SteadyLands DEF Steadily
<1>5. QED
  BY <1>1, <1>2, <1>3, <1>4

LEMMA PomoCycle ==
    ASSUME Calm, TypeOK, TypeOK', LogInv, SerialInv, CycleInv, NEW r \in Req,
           PomoStart(r) \/ PomoStartCont(r) \/ PomoBreak(r) \/ BreakSet(r) \/ PomoSkip(r)
    PROVE  CycleInv'
<1>0. /\ HandlersTyped /\ HandlerCycles(reqs[r]) /\ HandlerRecalls(reqs[r]) /\ UNCHANGED <<rows, mirror, clock, evictions>>
      /\ notes' = notes /\ Tracked' = Tracked /\ Tracked >= 0 /\ Tracked \in Int
      /\ UNCHANGED <<loaded, cfg, running>>
  BY TrackedStays, TrackedIsNatural DEF TypeOK, SerialInv, CycleInv, PomoStart, PomoStartCont, PomoBreak, BreakSet,
         PomoSkip, othervars, dbvars, orgvars, memvars
<1>a. /\ \A s \in SessionId : rows[s].st = "ended" => rows[s].start <= rows[s].end
      /\ \A s : Recalls(s) <=> s = mirror
  BY CalmIs DEF CycleInv
<1>b. /\ pomo \in Pomo /\ pomo' \in Pomo /\ \A p \in Pomo : p # None
      /\ clock \in Int /\ pomo.acc \in Int /\ pomo.resume \in TimeOrNone /\ None \notin Int
  BY PomoAssumption, NoneAssumption DEF TypeOK, MemoryTyped, CountsTyped, Pomo
<1>c. evictions = 0 => HandlerSaves(reqs[r]) /\ HandlerCounts(reqs[r])
  BY DEF CycleInv
<1>d. /\ loaded /\ cfg.enabled /\ running = mirror
  BY <1>0, <1>a, EnteringRecalls DEF PomoStart, PomoStartCont, PomoBreak, BreakSet, PomoSkip, At, HandlerRecalls,
                                   HandlerCycles, Loading, Unsettled
<1>e. \A q \in Req : Entering(q) /\ evictions = 0 => Steady
  BY SteadyAt DEF Entering, At, Steadily
<1>f. \A t, p : \/ PomoStartTimer(t, p) = Free
                \/ \E target : PomoStartTimer(t, p) = StartThread(target, "pomoStart")
  BY DEF PomoStartTimer
<1>1. CASE PomoStart(r)
  <2> DEFINE anchor(t) == IF t # None THEN t ELSE IF running # None THEN rows[running].task ELSE None
  <2>1. PICK t \in Task \cup {None} :
          /\ pomo' = (IF pomo.phase = "focus" THEN pomo ELSE FocusPomo(anchor(t), None))
          /\ kvPomo' = pomo'
          /\ Put(r, IF running # None THEN [Thread("pomoStart") EXCEPT !.task = t]
                    ELSE PomoStartTimer(t, pomo'))
    BY <1>1 DEF PomoStart
  <2>2. reqs'[r] = IF running # None THEN [Thread("pomoStart") EXCEPT !.task = t]
                   ELSE PomoStartTimer(t, pomo')
    BY <1>0, <2>1, PutOne
  <2>3. /\ pomo'.phase = "focus" /\ kvPomo' # None
        /\ pomo.phase = "focus" => pomo' = pomo
        /\ pomo.phase # "focus" => pomo'.acc = 0 /\ pomo'.resume = None
    BY <1>b, <2>1, PomoFields
  <2>4. CASE running # None
    <3>1. reqs'[r].pc = "pomoStart" /\ reqs'[r].from = "fetch"
      <4>1. /\ [Thread("pomoStart") EXCEPT !.task = t].pc = "pomoStart"
            /\ [Thread("pomoStart") EXCEPT !.task = t].from = "fetch"
        BY DEF Thread, Free
      <4>2. QED
        BY <2>2, <2>4, <4>1
    <3>2. HandlerCycles(reqs[r])'
      BY <1>0, <1>d, <2>4, <3>1 DEF HandlerCycles, Starting
    <3>3. ASSUME evictions = 0
          PROVE  HandlerSaves(reqs[r])' /\ HandlerCounts(reqs[r])'
      <4>1. Steady
        BY <1>1, <1>e, <3>3 DEF PomoStart
      <4>2. Live(pomo, clock)' <= Tracked'
        <5>1. CASE pomo.phase = "focus"
          BY <1>0, <2>3, <4>1, <5>1 DEF Live, Steady
        <5>2. CASE pomo.phase # "focus"
          BY <1>0, <2>3, <5>2 DEF Live
        <5>3. QED
          BY <5>1, <5>2
      <4>3. HandlerSaves(reqs[r])'
        BY <1>0, <1>d, <2>1, <2>3, <3>1 DEF HandlerSaves, Saved
      <4>4. HandlerCounts(reqs[r])'
        BY <1>0, <2>3, <3>1, <4>1, <4>2 DEF HandlerCounts, Steady
      <4>5. QED
        BY <4>3, <4>4
    <3>4. QED
      BY <1>0, <1>a, <3>2, <3>3, CycleOne DEF CycleAt
  <2>5. CASE running = None
    <3>1. reqs'[r].pc \in {"free", "start.check"} /\ reqs'[r].from \in {"fetch", "pomoStart"}
      BY <1>f, <2>2, <2>5, Threads DEF Is
    <3>2. ASSUME evictions = 0
          PROVE  Steady'
      <4>1. CASE pomo.phase = "focus"
        <5>1. Steady
          BY <1>1, <1>e, <3>2 DEF PomoStart
        <5>2. pomo' = pomo /\ Live(pomo, clock)' = Live(pomo, clock)
          BY <1>0, <2>3, <4>1 DEF Live
        <5>3. QED
          BY <1>0, <1>d, <2>1, <2>3, <2>5, <5>1, <5>2 DEF Steady, Saved
      <4>2. CASE pomo.phase # "focus"
        BY <1>0, <1>d, <2>1, <2>3, <2>5, <4>2, SteadyFromNow
      <4>3. QED
        BY <4>1, <4>2
    <3>3. QED
      BY <1>0, <1>d, <2>3, <3>1, <3>2, SteadyLands DEF Steadily
  <2>6. QED
    BY <2>4, <2>5
<1>2. CASE PomoStartCont(r)
  <2>1. reqs[r].pc = "pomoStart" /\ running # None /\ reqs[r].from # "pomoBreak"
    BY <1>0, <1>2 DEF PomoStartCont, At, HandlerCycles, Stopping
  <2>2. reqs'[r].pc = "rearm" /\ reqs'[r].from = reqs[r].from
    BY <1>0, <1>2, <2>1, Goes DEF PomoStartCont
  <2>3. ASSUME evictions = 0
        PROVE  Steady'
    <3>1. Saved /\ pomo.phase # "break"
      BY <1>c, <2>1, <2>3 DEF HandlerSaves
    <3>2. CASE pomo.phase = "focus"
      <4>1. pomo' = Resumed(pomo, clock) /\ kvPomo' = pomo'
        BY <1>2, <2>1, <3>2 DEF PomoStartCont
      <4>2. /\ pomo'.phase = "focus" /\ pomo'.acc = pomo.acc
            /\ pomo'.resume = IF pomo.resume = None THEN clock ELSE pomo.resume
        BY <1>b, <3>2, <4>1, ResumedFields
      <4>3. Live(pomo, clock) <= Tracked
        BY <1>c, <2>1, <2>3, <3>2 DEF HandlerCounts
      <4>4. Live(pomo, clock)' <= Tracked'
        BY <1>0, <1>b, <4>2, <4>3 DEF Live, TimeOrNone
      <4>5. QED
        BY <1>0, <1>b, <1>d, <2>1, <4>1, <4>2, <4>4 DEF Steady, Saved
    <3>3. CASE pomo.phase # "focus"
      <4>1. UNCHANGED <<pomo, kvPomo>>
        BY <1>2, <2>1, <3>3 DEF PomoStartCont
      <4>2. QED
        BY <1>0, <1>d, <3>1, <3>3, <4>1 DEF Steady, Saved
    <3>4. QED
      BY <3>2, <3>3
  <2>4. QED
    BY <1>0, <1>d, <2>1, <2>2, <2>3, SteadyLands DEF Steadily
<1>3. CASE PomoBreak(r) /\ running # None
  <2>1. reqs'[r].pc = "stop.batch"
    BY <1>0, <1>3, StopThreadIs DEF PomoBreak
  <2>2. evictions = 0 => Steady'
    BY <1>0, <1>3, <1>e, SteadyKept DEF PomoBreak, dovars
  <2>3. QED
    BY <1>0, <1>d, <2>1, <2>2, SteadyLands DEF Steadily
<1>4. CASE (PomoBreak(r) /\ running = None) \/ BreakSet(r)
  <2>1. BreakBegins(r) /\ running' = None
    BY <1>0, <1>4 DEF PomoBreak, BreakSet, At, HandlerCycles
  <2>2. pomo'.phase = "break" /\ PersistRearm(r)
    BY <2>1 DEF BreakBegins
  <2>3. reqs'[r].pc = "free" /\ reqs'[r].from = "fetch" /\ kvPomo' = pomo'
    BY <1>0, <2>1, <2>2, PersistRearmIs
  <2>4. Steady'
    BY <1>0, <1>b, <1>d, <2>1, <2>2, <2>3, SteadyFromNow
  <2>5. QED
    BY <1>0, <1>d, <2>3, <2>4, SteadyLands DEF Steadily
<1>5. CASE PomoSkip(r)
  <2>1. pomo' = IdlePomo /\ PersistRearm(r)
    BY <1>5 DEF PomoSkip
  <2>2. reqs'[r].pc \in {"free", "rearm"} /\ reqs'[r].from = "fetch" /\ kvPomo' = pomo'
    BY <1>0, <2>1, PersistRearmIs
  <2>3. Steady'
    BY <1>0, <1>b, <1>d, <2>1, <2>2, PomoFields, SteadyFromNow
  <2>4. QED
    BY <1>0, <1>d, <2>2, <2>3, SteadyLands DEF Steadily
<1>6. QED
  BY <1>1, <1>2, <1>3, <1>4, <1>5

LEMMA NotifyCycle ==
    ASSUME Calm, TypeOK, TypeOK', LogInv, SerialInv, CycleInv, NEW r \in Req, Notified(r)
    PROVE  CycleInv'
<1>1. ~NotifyDeleted(r)
  BY DEF NotifyDeleted, CycleInv
<1>2. NotifySettings(r)
  BY <1>1 DEF Notified
<1>3. notes' \subseteq notes /\ cfg'.enabled
  <2>1. PICK n \in notes : notes' = notes \ {n} /\ cfg' = Applied(n)
    BY <1>2 DEF NotifySettings
  <2>2. n.kind = "settings" /\ n.set \in Settings
    BY <2>1 DEF CycleInv, TypeOK, OrgTyped, Note
  <2>3. QED
    BY <2>1, <2>2, CalmIs DEF Applied
<1>4. Done(r) /\ UNCHANGED <<pomo, dovars, rows, mirror, clock, evictions, loaded, running>>
  BY <1>2, <1>3 DEF NotifySettings, dbvars
<1>5. reqs'[r].pc = "free" /\ reqs'[r].from = "fetch"
  BY <1>4, Threads, PutOne DEF Done, Is, TypeOK
<1>6. evictions = 0 => Steady'
  <2>1. evictions = 0 => Steady
    BY <1>2, SteadyAt DEF NotifySettings, Entering, At, Steadily
  <2>2. QED
    BY <1>4, <2>1, SteadyKept DEF dovars
<1>7. QED
  BY <1>3, <1>4, <1>5, <1>6, SteadyLands DEF Steadily

LEMMA AlarmCycle ==
    ASSUME Calm, TypeOK, TypeOK', LogInv, SerialInv, CycleInv, NEW r \in Req, AlarmFires(r) \/ AlarmStep(r)
    PROVE  CycleInv'
<1>0. /\ HandlersTyped /\ HandlerCycles(reqs[r]) /\ HandlerRecalls(reqs[r])
      /\ UNCHANGED <<rows, mirror, clock, evictions, loaded, cfg, running>>
      /\ notes' = notes /\ Tracked' = Tracked /\ Tracked >= 0 /\ Tracked \in Int
  BY TrackedStays, TrackedIsNatural DEF TypeOK, SerialInv, CycleInv, AlarmFires, AlarmStep, AlarmNudge, AlarmDecide,
         AlarmBreakOver, AlarmAuto, AlarmRearm, othervars, dbvars, orgvars, memvars
<1>a. \A s \in SessionId : rows[s].st = "ended" => rows[s].start <= rows[s].end
  BY DEF CycleInv
<1>b. /\ pomo \in Pomo /\ pomo' \in Pomo /\ \A p \in Pomo : p # None
  BY PomoAssumption DEF TypeOK, MemoryTyped
<1>c. evictions = 0 => HandlerSaves(reqs[r]) /\ HandlerCounts(reqs[r])
  BY DEF CycleInv
<1>d. ASSUME ~AlarmFires(r)
      PROVE  loaded /\ cfg.enabled /\ reqs[r].from # "pomoBreak"
  BY <1>0, <1>d DEF AlarmStep, AlarmNudge, AlarmDecide, AlarmBreakOver, AlarmAuto, AlarmRearm, At, HandlerRecalls,
                    HandlerCycles, Loading, Stopping
<1>1. CASE AlarmFires(r)
  <2>1. reqs'[r] = IF loaded THEN AlarmBody(clock) ELSE [Thread("load") EXCEPT !.from = "alarm"]
    BY <1>0, <1>1, PutOne DEF AlarmFires
  <2>2. reqs'[r].pc = (IF loaded THEN "alarm" ELSE "load") /\ reqs'[r].from = "alarm"
    <3>1. CASE loaded
      BY <2>1, <3>1, Threads DEF Is
    <3>2. CASE ~loaded
      BY <2>1, <3>2 DEF Thread, Free
    <3>3. QED
      BY <3>1, <3>2
  <2>3. loaded => cfg.enabled
    BY <1>0 DEF HandlerCycles
  <2>4. evictions = 0 => Steady'
    BY <1>0, <1>1, SteadyAt, SteadyKept DEF AlarmFires, At, Steadily, memvars
  <2>5. QED
    BY <1>0, <2>2, <2>3, <2>4, SteadyLands DEF Steadily
<1>2. CASE AlarmNudge(r) \/ AlarmDecide(r)
  <2>1. reqs'[r].pc = "alarm" /\ reqs'[r].from = reqs[r].from
    <3>1. PICK st : Put(r, [reqs[r] EXCEPT !.stage = st])
      BY <1>2 DEF AlarmNudge, AlarmDecide
    <3>2. reqs'[r] = [reqs[r] EXCEPT !.stage = st]
      BY <1>0, <3>1, PutOne
    <3>3. QED
      BY <1>0, <1>2, <3>2 DEF HandlersTyped, Handler, AlarmNudge, AlarmDecide, At
  <2>2. loaded /\ cfg.enabled /\ reqs[r].from # "pomoBreak"
    BY <1>2, <1>d DEF AlarmNudge, AlarmDecide, AlarmFires, At
  <2>3. ASSUME evictions = 0
        PROVE  Steady'
    <3>1. CASE AlarmNudge(r)
      BY <1>0, <2>3, <3>1, SteadyAt, SteadyKept DEF AlarmNudge, At, Steadily, dovars
    <3>2. CASE AlarmDecide(r)
      <4>1. pomo'.phase = "decide" /\ kvPomo' = pomo'
        BY <1>b, <3>2 DEF AlarmDecide, Pomo
      <4>2. QED
        BY <1>0, <1>b, <2>2, <4>1, SteadyFromNow
    <3>3. QED
      BY <1>2, <3>1, <3>2
  <2>4. QED
    BY <1>0, <2>1, <2>2, <2>3, SteadyLands DEF Steadily
<1>3. CASE AlarmBreakOver(r)
  <2>1. /\ reqs[r].pc = "alarm" /\ pomo.phase = "break" /\ kvPomo' = pomo' /\ pomo'.phase = "ready"
    BY <1>3, <1>b DEF AlarmBreakOver, At, BreakIsOver, Pomo
  <2>2. reqs'[r].pc = "alarm.auto" /\ reqs'[r].from = reqs[r].from
    BY <1>0, <1>3, Goes DEF AlarmBreakOver
  <2>3. loaded /\ cfg.enabled /\ reqs[r].from # "pomoBreak"
    BY <2>1, <1>d DEF AlarmFires, At
  <2>4. HandlerCycles(reqs[r])'
    BY <1>0, <2>2, <2>3 DEF HandlerCycles, Starting
  <2>5. ASSUME evictions = 0
        PROVE  HandlerSaves(reqs[r])' /\ HandlerCounts(reqs[r])'
    BY <1>0, <1>b, <1>c, <2>1, <2>2, <2>3, <2>5 DEF HandlerSaves, HandlerCounts, Saved
  <2>6. QED
    BY <1>0, <1>a, <2>4, <2>5, CycleOne DEF CycleAt
<1>4. CASE AlarmAuto(r)
  <2>1. reqs[r].pc = "alarm.auto" /\ loaded /\ cfg.enabled
    BY <1>4, <1>d DEF AlarmAuto, AlarmFires, At
  <2>2. evictions = 0 => Saved /\ running = None
    BY <1>c, <2>1 DEF HandlerSaves
  <2>3. CASE cfg.auto /\ pomo.task # None
    <3>1. /\ pomo' = FocusPomo(pomo.task, None) /\ kvPomo' = kvPomo
          /\ Put(r, IF running = None THEN StartThread(pomo.task, "alarm") ELSE AlarmTail)
      BY <1>4, <2>3 DEF AlarmAuto
    <3>2. reqs'[r] = IF running = None THEN StartThread(pomo.task, "alarm") ELSE AlarmTail
      BY <1>0, <3>1, PutOne
    <3>3. reqs'[r].pc = (IF running = None THEN "start.check" ELSE "alarm") /\ reqs'[r].from = "alarm"
      BY <3>2, Threads DEF Is
    <3>4. pomo'.phase = "focus" /\ pomo'.acc = 0 /\ pomo'.resume = None
      BY <3>1, PomoFields
    <3>5. HandlerCycles(reqs[r])'
      BY <1>0, <2>1, <3>3, <3>4 DEF HandlerCycles, Starting, Stopping
    <3>6. ASSUME evictions = 0
          PROVE  HandlerSaves(reqs[r])' /\ HandlerCounts(reqs[r])'
      <4>1. Live(pomo, clock)' <= Tracked'
        BY <1>0, <3>4 DEF Live
      <4>2. HandlerSaves(reqs[r])'
        BY <1>0, <2>1, <2>2, <3>3, <3>4, <3>6 DEF HandlerSaves
      <4>3. HandlerCounts(reqs[r])'
        BY <1>0, <2>2, <3>3, <3>4, <3>6, <4>1 DEF HandlerCounts
      <4>4. QED
        BY <4>2, <4>3
    <3>7. QED
      BY <1>0, <1>a, <3>5, <3>6, CycleOne DEF CycleAt
  <2>4. CASE ~(cfg.auto /\ pomo.task # None)
    <3>1. Done(r) /\ UNCHANGED <<pomo, kvPomo>>
      BY <1>4, <2>4 DEF AlarmAuto
    <3>2. reqs'[r].pc = "free" /\ reqs'[r].from = "fetch"
      BY <1>0, <3>1, PutOne, Threads DEF Done, Is
    <3>3. ASSUME evictions = 0
          PROVE  Steady'
      <4>1. Steady
        BY <1>c, <2>1, <2>2, <3>3 DEF Steady, HandlerSaves, HandlerCounts
      <4>2. QED
        BY <1>0, <3>1, <4>1, SteadyKept
    <3>4. QED
      BY <1>0, <2>1, <3>2, <3>3, SteadyLands DEF Steadily
  <2>5. QED
    BY <2>3, <2>4
<1>5. CASE AlarmRearm(r)
  <2>1. reqs'[r].pc = "free" /\ reqs'[r].from = "fetch"
    BY <1>0, <1>5, PutOne, Threads DEF AlarmRearm, Done, Is
  <2>2. loaded /\ cfg.enabled
    BY <1>5, <1>d DEF AlarmRearm, AlarmFires, At
  <2>3. evictions = 0 => Steady'
    BY <1>0, <1>5, SteadyAt, SteadyKept DEF AlarmRearm, At, Steadily, memvars
  <2>4. QED
    BY <1>0, <2>1, <2>2, <2>3, SteadyLands DEF Steadily
<1>6. QED
  BY <1>1, <1>2, <1>3, <1>4, <1>5 DEF AlarmStep

LEMMA AroundCycle ==
    ASSUME Calm, TypeOK, TypeOK', LogInv, SerialInv, CycleInv, Around \/ UNCHANGED vars
    PROVE  CycleInv'
<1>a. /\ \A s \in SessionId : rows[s].st = "ended" => rows[s].start <= rows[s].end
      /\ \A r \in Req : HandlerCycles(reqs[r])
      /\ evictions = 0 => \A r \in Req : HandlerSaves(reqs[r]) /\ HandlerCounts(reqs[r])
  BY DEF CycleInv
<1>b. ~PatchProfile /\ ~TombstoneTask
  BY CalmIs
<1>1. CASE Evict
  <2>1. \A r \in Req : reqs'[r].pc = "free" /\ reqs'[r].from = "fetch"
    BY <1>1 DEF Evict, Free
  <2>2. ~loaded' /\ evictions' # 0 /\ UNCHANGED <<rows, notes>>
    BY <1>1 DEF Evict, dbvars, orgvars, TypeOK, CountsTyped
  <2>3. \A r \in Req : HandlerCycles(reqs[r])'
    BY <2>1, <2>2 DEF HandlerCycles, Starting
  <2>4. QED
    BY <1>a, <2>2, <2>3 DEF CycleInv
<1>2. CASE Tick
  <2>1. /\ UNCHANGED <<rows, mirror, notes, reqs, loaded, running, pomo, kvPomo, cfg, evictions>>
        /\ clock' = clock + 1 /\ clock \in Int
    BY <1>2 DEF Tick, dbvars, orgvars, memvars, dovars, TypeOK, CountsTyped
  <2>2. Tracked \in Int /\ Tracked >= 0
    BY TrackedIsNatural
  <2>3. Tracked' \in Int /\ Tracked' = Tracked + IF mirror # None THEN 1 ELSE 0
    <3>a. \A s \in SessionId : rows[s].start \in Int /\ rows[s].st \in {"none", "open", "ended"}
      BY DEF TypeOK, LogTyped, Row
    <3>b. \A s \in SessionId : rows[s].st = "open" <=> s = mirror /\ mirror # None
      BY DEF SerialInv, Open
    <3>c. \A s \in SessionId : s # mirror => Span(rows'[s], clock') = Span(rows[s], clock)
      BY <2>1, <3>a, <3>b DEF Span
    <3>1. CASE mirror # None
      <4>1. mirror \in SessionId /\ rows[mirror].st = "open"
        BY <3>1 DEF SerialInv, Open
      <4>2. Tracked' \in Int /\ Tracked' = Tracked + Span(rows'[mirror], clock') - Span(rows[mirror], clock)
        BY <3>c, <4>1, TrackedChanges
      <4>3. Span(rows'[mirror], clock') = clock + 1 - rows[mirror].start /\ Span(rows[mirror], clock) = clock - rows[mirror].start
        BY <2>1, <3>a, <4>1 DEF Span
      <4>4. rows[mirror].start \in Int
        BY <3>a, <4>1
      <4>5. Tracked' = Tracked + (clock + 1 - rows[mirror].start) - (clock - rows[mirror].start)
        BY <4>2, <4>3
      <4>6. QED
        BY <2>1, <2>2, <3>1, <4>2, <4>4, <4>5
    <3>2. CASE mirror = None
      <4>1. \A s \in SessionId : Span(rows'[s], clock') = Span(rows[s], clock)
        BY <2>1, <3>2, <3>a, <3>b DEF Span
      <4>2. \A s \in SessionId : Span(rows[s], clock)' = Span(rows[s], clock)
        BY <4>1
      <4>3. [s \in SessionId |-> Span(rows[s], clock)]' = [s \in SessionId |-> Span(rows[s], clock)]
        BY <4>2
      <4>4. Tracked' = Tracked
        BY <4>3 DEF Tracked
      <4>5. QED
        BY <2>2, <3>2, <4>4
    <3>3. QED
      BY <3>1, <3>2
  <2>4. \A r \in Req : HandlerCycles(reqs[r])'
    BY <1>a, <2>1 DEF HandlerCycles
  <2>5. ASSUME evictions = 0, NEW r \in Req
        PROVE  HandlerSaves(reqs[r])' /\ HandlerCounts(reqs[r])'
    <3>1. HandlerSaves(reqs[r])'
      BY <1>a, <2>1, <2>5 DEF HandlerSaves, Saved
    <3>2. /\ pomo.acc \in Int /\ pomo.resume \in TimeOrNone /\ reqs[r].at \in Int /\ None \notin Int
          /\ HandlerCounts(reqs[r]) /\ HandlerRecalls(reqs[r])
      BY <1>a, <2>5, NoneAssumption DEF TypeOK, MemoryTyped, Pomo, HandlersTyped, Handler, SerialInv
    <3>3. reqs[r].pc \in {"start.done", "start.pomo"} => mirror # None
      BY <1>a, <3>2, CalmIs DEF HandlerRecalls, HandlerCycles, Loading, Unsettled
    <3>4. Tracked' >= Tracked /\ (mirror # None => Tracked' = Tracked + 1)
      BY <2>2, <2>3
    <3>5. ASSUME pomo.phase = "focus", reqs[r].pc \notin {"start.batch", "start.done", "start.pomo", "stop.done"}
          PROVE  Live(pomo, clock)' <= Tracked'
      BY <2>1, <2>2, <2>3, <3>2, <3>4, <3>5 DEF HandlerCounts, Live, TimeOrNone
    <3>6. ASSUME pomo.phase = "focus", reqs[r].pc = "stop.done"
          PROVE  Live(pomo, reqs[r].at)' <= Tracked'
      BY <2>1, <2>2, <2>3, <3>2, <3>4, <3>6 DEF HandlerCounts, Live, TimeOrNone
    <3>7. ASSUME pomo.phase = "focus", reqs[r].pc = "start.batch"
          PROVE  pomo.acc <= Tracked'
      BY <2>2, <2>3, <3>2, <3>4, <3>7 DEF HandlerCounts
    <3>8. ASSUME pomo.phase = "focus", reqs[r].pc \in {"start.done", "start.pomo"}
          PROVE  pomo.acc + clock' - reqs[r].at <= Tracked'
      BY <2>1, <2>2, <2>3, <3>2, <3>3, <3>4, <3>8 DEF HandlerCounts
    <3>9. HandlerCounts(reqs[r])'
      BY <2>1, <3>2, <3>5, <3>6, <3>7, <3>8 DEF HandlerCounts
    <3>10. QED
      BY <3>1, <3>9
  <2>6. QED
    BY <1>a, <2>1, <2>4, <2>5 DEF CycleInv
<1>3. CASE \/ SaveSettings \/ DeleteGroup \/ ArchiveProject
           \/ UndoDelete \/ LoseNotify \/ UNCHANGED vars
  <2>1. UNCHANGED <<rows, mirror, reqs, loaded, running, pomo, kvPomo, cfg, clock, evictions>>
    BY <1>3 DEF SaveSettings, DeleteGroup, ArchiveProject, UndoDelete, LoseNotify, vars, dbvars, memvars, dovars
  <2>2. \A n \in notes' : n.kind = "settings"
    BY <1>3 DEF CycleInv, SaveSettings, DeleteGroup, ArchiveProject, UndoDelete, LoseNotify, vars
  <2>3. Tracked' = Tracked
    BY <2>1, TrackedStays
  <2>4. \A r \in Req : HandlerCycles(reqs[r])'
    BY <1>a, <2>1 DEF HandlerCycles
  <2>5. ASSUME evictions = 0, NEW r \in Req
        PROVE  HandlerSaves(reqs[r])' /\ HandlerCounts(reqs[r])'
    BY <1>a, <2>1, <2>3, <2>5 DEF HandlerSaves, HandlerCounts, Saved, Live
  <2>6. QED
    BY <1>a, <2>1, <2>2, <2>4, <2>5 DEF CycleInv
<1>4. QED
  BY <1>1, <1>2, <1>3, <1>b DEF Around

LEMMA CycleStep == Calm /\ TypeOK /\ TypeOK' /\ LogInv /\ SerialInv /\ CycleInv /\ [Next]_vars => CycleInv'
<1> SUFFICES ASSUME Calm, TypeOK, TypeOK', LogInv, SerialInv, CycleInv, [Next]_vars
             PROVE  CycleInv'
  OBVIOUS
<1>1. ASSUME NEW r \in Req, Arrive(r) \/ Notified(r) \/ LoadStep(r)
      PROVE  CycleInv'
  BY <1>1, LoadCycle, StartCycle, StopCycle, SwitchCycle, PomoCycle, NotifyCycle DEF Arrive
<1>2. ASSUME NEW r \in Req, TimerStep(r)
      PROVE  CycleInv'
  <2>1. ~(Resync(r) \/ Resynced(r) \/ GoneBatch(r) \/ GoneDone(r) \/ GoneAnchor(r))
    BY DEF CycleInv, HandlerCycles, Resync, Resynced, GoneBatch, GoneDone, GoneAnchor, At
  <2>2. QED
    BY <1>2, <2>1, StartCycle, BatchCycle, StopCycle, SwitchCycle, PomoCycle DEF TimerStep
<1>3. \A r \in Req : ~Throws(r)
  BY CalmIs DEF Throws
<1>4. QED
  BY <1>1, <1>2, <1>3, AlarmCycle, AroundCycle DEF Next

LEMMA CycleInit == Init => CycleInv
<1> SUFFICES ASSUME Init
             PROVE  CycleInv
  OBVIOUS
<1>1. \A r \in Req : reqs[r].pc = "free" /\ reqs[r].from = "fetch"
  BY DEF Init, Free
<1>2. \A s \in SessionId : rows[s].st = "none"
  BY DEF Init, NoRow
<1>3. pomo.phase = "idle" /\ Saved
  BY PomoFields DEF Init, Saved
<1>4. QED
  BY <1>1, <1>2, <1>3 DEF Init, CycleInv, HandlerCycles, HandlerSaves, HandlerCounts, Starting

(* Where requests do not overlap and D1 answers, memory and storage hold the
   same cycle but for the handler that is about to save it, and the log
   accounts for all focus time. *)
THEOREM CycleInvariant ==
    ASSUME Calm
    PROVE  Spec => []CycleInv
<1>1. Init => CycleInv
  BY CycleInit
<1>2. TypeOK /\ TypeOK' /\ LogInv /\ SerialInv /\ CycleInv /\ [Next]_vars => CycleInv'
  BY CycleStep
<1>3. Spec => []SerialInv
  BY SerialInvariant DEF Calm
<1>4. QED
  BY <1>1, <1>2, <1>3, TypeCorrect, LogInvariant, PTL DEF Spec

(* A restart would read the cycle that memory holds. *)
THEOREM CycleIsDurable ==
    ASSUME Calm, Req # {}
    PROVE  Spec => []PomoIsDurable
<1>1. CycleInv => PomoIsDurable
  BY DEF CycleInv, HandlerSaves, PomoIsDurable, SoFar, Settled, AtRest, Saved
<1>2. QED
  BY <1>1, CycleInvariant, PTL

(* FR-F3: no timer runs during a break. *)
THEOREM NoTrackingInABreak ==
    ASSUME Calm, Req # {}
    PROVE  Spec => []BreakNeverTracks
<1>1. CycleInv => BreakNeverTracks
  BY DEF CycleInv, HandlerSaves, BreakNeverTracks, SoFar
<1>2. QED
  BY <1>1, CycleInvariant, PTL

(* FR-F1: focus never counts more time than the log holds, and it counts
   whenever the timer runs. *)
THEOREM FocusCountsTrackedTime ==
    ASSUME Calm, Req # {}
    PROVE  Spec => []FocusIsTracked
<1>1. CycleInv => FocusIsTracked
  BY DEF CycleInv, HandlerCounts, FocusIsTracked, SoFar, Settled, AtRest
<1>2. QED
  BY <1>1, CycleInvariant, PTL

-----------------------------------------------------------------------------
(***************************************************************************)
(* PART 5: the alarm.                                                      *)
(*                                                                         *)
(* Under Prompt every armed alarm covers the deadlines of the state the    *)
(* hub would load, whichever handler is on its way to arm it.              *)
(***************************************************************************)

(* What Prompt rules out.                                                  *)
LEMMA PromptIs ==
    ASSUME Prompt
    PROVE  /\ Calm /\ ~SaveSettings
           /\ Tick => \A r \in Req : At(r, "free")
           /\ TwelveHours > 0 /\ OneHour > 0 /\ TwelveHours \in Int /\ OneHour \in Int
  BY TimeAssumption DEF Prompt, SaveSettings, Tick

(* A set of at most three deadlines has an earliest.                       *)
AtMostOne(D) == D = {} \/ \E t \in Int : D = {t}

LEMMA EarliestIs ==
    ASSUME NEW A, NEW B, NEW C, AtMostOne(A), AtMostOne(B), AtMostOne(C), A \cup B \cup C # {}
    PROVE  /\ Earliest(A \cup B \cup C) \in A \cup B \cup C
           /\ \A t \in A \cup B \cup C : t \in Int /\ Earliest(A \cup B \cup C) <= t
<1> DEFINE S == A \cup B \cup C
<1>1. S \subseteq Int
  BY DEF AtMostOne
<1>2. \E t \in S : \A u \in S : t <= u
  BY DEF AtMostOne
<1>3. QED
  BY <1>1, <1>2 DEF Earliest

LEMMA DeadlinesTyped ==
    ASSUME TypeOK, NEW p \in Pomo, NEW run \in SessionOrNone, NEW s \in SettingsRecord, NEW nudge \in TimeOrNone
    PROVE  /\ AtMostOne(BreakDeadline(p)) /\ AtMostOne(FocusDeadline(p, run, s)) /\ AtMostOne(NudgeDeadline(run, nudge))
           /\ \A t : Live(p, clock) \in Int
<1>1. AtMostOne(BreakDeadline(p))
  BY DEF AtMostOne, BreakDeadline, Pomo, TimeOrNone
<1>2. Live(p, clock) \in Int /\ clock \in Int /\ s.focus \in Int
  BY DEF Live, Pomo, TimeOrNone, TypeOK, CountsTyped, SettingsRecord
<1>3. AtMostOne(FocusDeadline(p, run, s))
  <2> HIDE DEF Live
  <2>1. QED
    BY <1>2 DEF AtMostOne, FocusDeadline
<1>4. AtMostOne(NudgeDeadline(run, nudge))
  <2>1. run # None => NudgeDue(run, nudge) \in Int
    BY TimeAssumption DEF NudgeDue, TimeOrNone, SessionOrNone, TypeOK, LogTyped, Row
  <2>2. QED
    BY <2>1 DEF AtMostOne, NudgeDeadline
<1>5. QED
  BY <1>1, <1>2, <1>3, <1>4

(* rearmAlarm arms every deadline of the state it leaves.                  *)
LEMMA RearmArms ==
    ASSUME TypeOK, TypeOK', Rearm, UNCHANGED <<rows, clock>>, BreaksEnd(pomo')
    PROVE  /\ Armed'
           /\ running' # None /\ (alarm # None \/ NudgeDue(running', nudgeAt') > clock) => alarm' # None
<1> DEFINE B == BreakDeadline(pomo')
           F == FocusDeadline(pomo', running', cfg')
           N == NudgeDeadline(running', nudgeAt')
<1>1. /\ pomo' \in Pomo /\ running' \in SessionOrNone /\ cfg' \in SettingsRecord /\ nudgeAt' \in TimeOrNone
      /\ clock \in Int /\ None \notin Int /\ alarm \in TimeOrNone
  BY NoneAssumption DEF TypeOK, MemoryTyped, CountsTyped, StoreTyped
<1>2. AtMostOne(B) /\ AtMostOne(F) /\ AtMostOne(N)
  BY <1>1, DeadlinesTyped
<1>3. alarm' = IF B \cup F \cup N = {} THEN alarm ELSE Earliest(B \cup F \cup N)
  BY DEF Rearm, Deadlines
<1>4. \A t \in B \cup F \cup N : alarm' \in Int /\ t \in Int /\ alarm' <= t
  <2> HIDE DEF B, F, N
  <2>1. SUFFICES ASSUME B \cup F \cup N # {}
                 PROVE  \A t \in B \cup F \cup N : alarm' \in Int /\ t \in Int /\ alarm' <= t
    OBVIOUS
  <2>2. alarm' = Earliest(B \cup F \cup N)
    BY <1>3, <2>1
  <2>3. /\ Earliest(B \cup F \cup N) \in B \cup F \cup N
        /\ \A t \in B \cup F \cup N : t \in Int /\ Earliest(B \cup F \cup N) <= t
    BY <1>2, <2>1, EarliestIs
  <2>4. QED
    BY <2>2, <2>3
<1>5. ASSUME pomo'.phase = "break"
      PROVE  ArmedBy(pomo.ends)'
  <2>1. pomo'.ends \in B
    BY <1>5 DEF BreakDeadline, BreaksEnd
  <2>2. QED
    BY <1>1, <1>4, <2>1 DEF ArmedBy
<1>6. ASSUME pomo'.phase = "focus", running' # None, Live(pomo', clock) < cfg'.focus
      PROVE  ArmedBy(clock + cfg.focus - Live(pomo, clock))'
  <2>1. clock + cfg'.focus - Live(pomo', clock) \in F
    BY <1>6 DEF FocusDeadline
  <2>2. alarm' # None /\ alarm' <= clock + cfg'.focus - Live(pomo', clock) /\ clock + cfg'.focus - Live(pomo', clock) \in Int
        /\ alarm' \in Int
    BY <1>1, <1>4, <2>1
  <2>3. Live(pomo, clock)' = Live(pomo', clock)
    BY DEF Live
  <2>4. alarm' <= IF clock + cfg'.focus - Live(pomo', clock) > clock THEN clock + cfg'.focus - Live(pomo', clock) ELSE clock
    <3> DEFINE t == clock + cfg'.focus - Live(pomo', clock)
    <3> HIDE DEF t
    <3>1. alarm' <= t /\ t \in Int /\ alarm' \in Int
      BY <2>2 DEF t
    <3>2. alarm' <= IF t > clock THEN t ELSE clock
      BY <1>1, <3>1
    <3>3. QED
      BY <3>2 DEF t
  <2>5. QED
    BY <2>2, <2>3, <2>4 DEF ArmedBy
<1>7. ASSUME running' # None, alarm # None \/ NudgeDue(running', nudgeAt') > clock
      PROVE  alarm' # None
  <2>1. CASE NudgeDue(running', nudgeAt') > clock
    <3>1. NudgeDue(running', nudgeAt') \in N
      BY <1>7, <2>1 DEF NudgeDeadline
    <3>2. QED
      BY <1>1, <1>4, <3>1
  <2>2. CASE alarm # None
    <3>1. CASE B \cup F \cup N = {}
      BY <1>3, <2>2, <3>1
    <3>2. CASE B \cup F \cup N # {}
      BY <1>1, <1>4, <3>2
    <3>3. QED
      BY <3>1, <3>2
  <2>3. QED
    BY <1>7, <2>1, <2>2
<1>8. Armed'
  <2>1. Live(pomo, clock)' = Live(pomo', clock)
    BY DEF Live
  <2>2. QED
    BY <1>5, <1>6, <2>1 DEF Armed
<1>9. QED
  BY <1>7, <1>8

ArmsAt(r) == BreaksEnd(pomo) /\ (kvPomo # None => BreaksEnd(kvPomo)) /\ HandlerArms(reqs[r])

LEMMA ArmsOne ==
    ASSUME Prompt, NEW r \in Req, notes' \subseteq notes, ArmsInv, ArmsAt(r)'
    PROVE  ArmsInv'
  BY DEF Prompt, Calm, Serial, ArmsInv, ArmsAt

(* What nobody waits for: the handler goes on, and will rearm the alarm.   *)
LEMMA LandsUnarmed ==
    ASSUME Prompt, NEW r \in Req, notes' \subseteq notes, ArmsInv,
           BreaksEnd(pomo'), kvPomo' # None => BreaksEnd(kvPomo'),
           reqs'[r].pc \notin Starting \cup {"switch.batch", "switch.done", "free", "ready", "switch.check"},
           reqs'[r].pc = "start.check" => reqs'[r].from = "alarm",
           reqs'[r].pc = "alarm" /\ reqs'[r].stage = "nudge" => reqs'[r].at = clock',
           evictions' = 0 /\ loaded' /\ running' # None =>
              Expected' \/ (reqs'[r].pc = "alarm" /\ reqs'[r].stage = "nudge")
    PROVE  ArmsInv'
<1>1. HandlerArms(reqs[r])'
  BY DEF HandlerArms, Waiting, Starting
<1>2. QED
  BY <1>1, ArmsOne DEF ArmsAt

(* A handler that has just rearmed the alarm.                              *)
LEMMA LandsArmed ==
    ASSUME Prompt, TypeOK, TypeOK', NEW r \in Req, notes' \subseteq notes, ArmsInv,
           BreaksEnd(pomo'), kvPomo' # None => BreaksEnd(kvPomo'),
           Rearm, UNCHANGED <<rows, clock>>,
           reqs'[r].pc \in {"free", "ready", "alarm", "break.set"},
           reqs'[r].pc = "alarm" /\ reqs'[r].stage = "nudge" => reqs'[r].at = clock,
           evictions' = 0 /\ loaded' /\ running' # None => alarm # None \/ NudgeDue(running', nudgeAt') > clock
    PROVE  ArmsInv'
<1>1. Armed' /\ (evictions' = 0 /\ loaded' /\ running' # None => alarm' # None)
  BY RearmArms
<1>2. HandlerArms(reqs[r])'
  BY <1>1 DEF HandlerArms, Starting, Expected
<1>3. QED
  BY <1>2, ArmsOne DEF ArmsAt

(* A handler that changes nothing, or that has no timer to watch.          *)
LEMMA LandsWaiting ==
    ASSUME Prompt, TypeOK, TypeOK', NEW r \in Req, notes' \subseteq notes, ArmsInv,
           BreaksEnd(pomo'), kvPomo' # None => BreaksEnd(kvPomo'), UNCHANGED <<running, clock>>,
           \/ Waiting(reqs[r]) /\ UNCHANGED <<pomo, alarm, cfg, loaded, evictions>>
           \/ running = None /\ pomo'.phase # "break",
           reqs'[r].pc \in {"free", "switch.check", "start.check"}
    PROVE  ArmsInv'
<1>1. loaded' => Armed' \/ ~Waiting(reqs[r])'
  BY DEF ArmsInv, HandlerArms, Armed, ArmedBy, Live
<1>2. evictions' = 0 /\ loaded' /\ running' # None => alarm' # None
  BY DEF ArmsInv, HandlerArms
<1>3. HandlerArms(reqs[r])'
  BY <1>1, <1>2 DEF HandlerArms, Starting, Expected
<1>4. QED
  BY <1>3, ArmsOne DEF ArmsAt

(* What the alarm is to wait for stays ahead.                              *)
LEMMA StaysExpected ==
    ASSUME Expected, UNCHANGED <<alarm, nudgeAt, running, clock>>, running # None => rows'[running].start = rows[running].start
    PROVE  running' # None => Expected'
  BY DEF Expected, NudgeDue

LEMMA ArmsFacts ==
    ASSUME ArmsInv, NEW r \in Req
    PROVE  /\ BreaksEnd(pomo) /\ (kvPomo # None => BreaksEnd(kvPomo)) /\ HandlerArms(reqs[r])
           /\ evictions = 0 /\ loaded /\ running # None /\ (reqs[r].pc = "alarm" => reqs[r].stage # "nudge") => Expected
           /\ evictions = 0 /\ loaded /\ running # None /\ Waiting(reqs[r]) => alarm # None
           /\ loaded /\ Waiting(reqs[r]) => Armed
  BY DEF ArmsInv, HandlerArms

LEMMA EndsFields ==
    /\ BreaksEnd(IdlePomo) /\ \A t : BreaksEnd(ReadyPomo(t))
    /\ \A t, at : BreaksEnd(FocusPomo(t, at))
    /\ \A p \in Pomo, at \in Int : BreaksEnd(p) => BreaksEnd(Frozen(p, at)) /\ BreaksEnd(Resumed(p, at))
  BY PomoFields, FrozenFields, ResumedFields DEF BreaksEnd

LEMMA LoadArms ==
    ASSUME Prompt, TypeOK, TypeOK', SerialInv, CycleInv, ArmsInv, NEW r \in Req, Load(r) \/ LoadStep(r)
    PROVE  ArmsInv'
<1>0. /\ HandlersTyped /\ HandlerRecalls(reqs[r]) /\ UNCHANGED <<rows, clock, evictions, notes, nudgeAt>>
      /\ clock \in Int /\ pomo \in Pomo /\ (kvPomo # None => kvPomo \in Pomo)
  BY DEF TypeOK, CountsTyped, MemoryTyped, StoreTyped, SerialInv, Load, LoadStep, LoadSettings, LoadMirror, LoadPomo,
         LoadDone, othervars, dbvars, orgvars, memvars
<1>a. /\ BreaksEnd(pomo) /\ (kvPomo # None => BreaksEnd(kvPomo))
      /\ evictions = 0 /\ loaded /\ running # None => Expected
  BY ArmsFacts DEF Load, LoadStep, LoadSettings, LoadMirror, LoadPomo, LoadDone, At
<1>b. /\ \A s : Recalls(s) <=> s = mirror
      /\ evictions = 0 /\ ~loaded => mirror = None
  <2>1. Calm
    BY PromptIs
  <2>2. \A s : Recalls(s) <=> s = mirror
    BY <2>1, CalmIs
  <2>3. QED
    BY <2>2 DEF CycleInv, HandlerSaves
<1>1. CASE Load(r) \/ LoadSettings(r) \/ LoadMirror(r)
  <2>1. reqs'[r].pc \in {"load", "load.mirror", "load.pomo"}
    <3>1. CASE Load(r)
      BY <1>0, <3>1, Threads, PutOne DEF Load, Is
    <3>2. CASE LoadSettings(r)
      BY <1>0, <3>2, Goes DEF LoadSettings
    <3>3. CASE LoadMirror(r)
      <4>1. PICK s : Put(r, [reqs[r] EXCEPT !.pc = "load.pomo", !.sess = s])
        BY <3>3 DEF LoadMirror
      <4>2. reqs'[r] = [reqs[r] EXCEPT !.pc = "load.pomo", !.sess = s]
        BY <1>0, <4>1, PutOne
      <4>3. QED
        BY <1>0, <4>2 DEF HandlersTyped, Handler
    <3>4. QED
      BY <1>1, <3>1, <3>2, <3>3
  <2>2. UNCHANGED <<pomo, kvPomo, alarm, running, loaded>>
    BY <1>1 DEF Load, LoadSettings, LoadMirror, othervars, memvars, dovars
  <2>3. evictions' = 0 /\ loaded' /\ running' # None => Expected'
    BY <1>0, <1>a, <2>2, StaysExpected
  <2>4. QED
    BY <1>0, <1>a, <2>1, <2>2, <2>3, LandsUnarmed DEF Starting
<1>2. CASE LoadPomo(r)
  <2>1. reqs'[r].pc = "load.done" /\ reqs[r].pc = "load.pomo"
    BY <1>0, <1>2, Goes DEF LoadPomo, At
  <2>2. running' = mirror /\ UNCHANGED <<alarm, loaded>> /\ (loaded => running = mirror)
    BY <1>0, <1>2, <1>b, <2>1 DEF LoadPomo, HandlerRecalls, Unsettled
  <2>3. BreaksEnd(pomo') /\ (kvPomo' # None => BreaksEnd(kvPomo'))
    <3> DEFINE stored == IF kvPomo # None THEN kvPomo ELSE pomo
    <3>1. stored \in Pomo /\ BreaksEnd(stored)
      BY <1>0, <1>a
    <3>2. BreaksEnd(Resumed(stored, clock))
      <4> HIDE DEF stored
      <4>1. QED
        BY <1>0, <3>1, EndsFields
    <3>3. QED
      BY <1>2, <1>a, <3>1, <3>2 DEF LoadPomo
  <2>4. evictions' = 0 /\ loaded' /\ running' # None => Expected'
    BY <1>0, <1>a, <2>2, StaysExpected
  <2>5. QED
    BY <1>0, <2>1, <2>3, <2>4, LandsUnarmed DEF Starting
<1>3. CASE LoadDone(r)
  <2>1. /\ reqs'[r].pc \in {"ready", "alarm"} /\ (reqs'[r].pc = "alarm" => reqs'[r].at = clock)
        /\ reqs[r].pc = "load.done" /\ running = mirror
    BY <1>0, <1>3, <1>b, Threads, PutOne DEF LoadDone, At, Is, HandlerRecalls, Unsettled
  <2>2. UNCHANGED <<pomo, kvPomo, running>> /\ Rearm
    BY <1>3 DEF LoadDone
  <2>3. evictions' = 0 /\ loaded' /\ running' # None => alarm # None \/ NudgeDue(running', nudgeAt') > clock
    BY <1>0, <1>a, <1>b, <2>1, <2>2 DEF Expected
  <2>4. QED
    BY <1>0, <1>a, <2>1, <2>2, <2>3, LandsArmed
<1>4. QED
  BY <1>1, <1>2, <1>3 DEF LoadStep

(* Succeed and PersistRearm leave the alarm armed, or the way to it.       *)
LEMMA SucceedAt ==
    ASSUME HandlersTyped, NEW r \in Req, Succeed(r)
    PROVE  reqs'[r].pc \in {"free", "break.set", "alarm"} /\ (reqs'[r].pc = "alarm" => reqs'[r].stage = "end")
  BY SucceedIs

LEMMA PersistRearmArms ==
    ASSUME Prompt, TypeOK, TypeOK', NEW r \in Req, ArmsInv, CycleInv', notes' \subseteq notes,
           PersistRearm(r), BreaksEnd(pomo'), UNCHANGED <<rows, clock, running, nudgeAt, evictions, loaded>>,
           reqs[r].pc # "alarm"
    PROVE  ArmsInv'
<1>0. evictions' = 0 /\ loaded' /\ running' # None => Expected
  BY ArmsFacts
<1>1. /\ reqs'[r].pc \in {"free", "rearm"} /\ kvPomo' = pomo'
      /\ reqs'[r].pc = IF running' = None THEN "free" ELSE "rearm"
  <2>1. reqs'[r] = IF running' # None THEN Thread("rearm") ELSE Free
    BY PutOne DEF PersistRearm, Done, TypeOK
  <2>2. QED
    BY <2>1, Threads DEF Is, PersistRearm
<1>2. CASE running' = None
  <2>1. Rearm /\ reqs'[r].pc = "free"
    BY <1>1, <1>2 DEF PersistRearm
  <2>2. QED
    BY <1>1, <1>2, <2>1, LandsArmed
<1>3. CASE running' # None
  <2>1. alarm' = alarm /\ reqs'[r].pc = "rearm"
    BY <1>1, <1>3 DEF PersistRearm
  <2>2. evictions' = 0 /\ loaded' /\ running' # None => Expected'
    BY <1>0, <2>1, StaysExpected
  <2>3. QED
    BY <1>1, <2>1, <2>2, LandsUnarmed DEF Starting
<1>4. QED
  BY <1>2, <1>3

LEMMA StartArms ==
    ASSUME Prompt, TypeOK, TypeOK', SerialInv, CycleInv, CycleInv', ArmsInv, NEW r \in Req,
           TimerStart(r) \/ StartCheck(r) \/ StartNotFound(r) \/ StartDone(r) \/ StartPomo(r) \/ StartRearm(r)
    PROVE  ArmsInv'
<1>0. /\ HandlersTyped /\ HandlerRecalls(reqs[r]) /\ HandlerCycles(reqs[r]) /\ UNCHANGED <<rows, clock, evictions, notes>>
      /\ clock \in Int /\ pomo \in Pomo /\ UNCHANGED <<loaded, cfg>>
  BY DEF TypeOK, CountsTyped, MemoryTyped, SerialInv, CycleInv, TimerStart, StartCheck, StartNotFound, StartDone, StartPomo,
         StartRearm, othervars, dbvars, orgvars, memvars
<1>a. /\ BreaksEnd(pomo) /\ (kvPomo # None => BreaksEnd(kvPomo)) /\ HandlerArms(reqs[r])
      /\ evictions = 0 /\ loaded /\ running # None => Expected
      /\ reqs[r].pc # "alarm"
  BY ArmsFacts DEF TimerStart, StartCheck, StartNotFound, StartDone, StartPomo, StartRearm, At, Entering
<1>1. CASE TimerStart(r)
  <2>1. reqs'[r].pc = "start.check" /\ Waiting(reqs[r])
    BY <1>0, <1>1, Threads, PutOne DEF TimerStart, Entering, At, Is, Waiting
  <2>2. UNCHANGED <<pomo, kvPomo, alarm, running>>
    BY <1>1 DEF TimerStart, othervars, memvars, dovars
  <2>3. QED
    BY <1>0, <1>a, <2>1, <2>2, LandsWaiting
<1>2. CASE StartCheck(r)
  <2>1. /\ reqs[r].pc = "start.check" /\ running = None /\ running' = running /\ kvPomo' = kvPomo
    BY <1>0, <1>2 DEF StartCheck, At, HandlerRecalls, dovars
  <2>2. reqs'[r].pc = "start.batch" /\ reqs'[r].at = clock
    <3>1. PICK e : reqs'[r] = [reqs[r] EXCEPT !.pc = "start.batch", !.sess = nextId, !.at = clock, !.engaged = e]
      BY <1>0, <1>2, PutOne DEF StartCheck
    <3>2. QED
      BY <1>0, <3>1 DEF HandlersTyped, Handler
  <2>3. BreaksEnd(pomo')
    BY <1>2, <1>a, EndsFields DEF StartCheck
  <2>4. HandlerArms(reqs[r])'
    BY <1>0, <2>1, <2>2 DEF HandlerArms, Waiting
  <2>5. QED
    BY <1>0, <1>a, <2>1, <2>3, <2>4, ArmsOne DEF ArmsAt
<1>3. CASE StartNotFound(r)
  <2>1. /\ reqs[r].pc = "start.check" /\ running = None /\ running' = running /\ reqs[r].from # "pomoBreak"
    BY <1>0, <1>3 DEF StartNotFound, At, HandlerRecalls, HandlerCycles, Stopping
  <2>2. CASE reqs[r].from = "alarm"
    <3>1. pomo' = ReadyPomo(reqs[r].task) /\ kvPomo' = pomo' /\ Put(r, AlarmTail)
      BY <1>3, <2>2 DEF StartNotFound, Fail
    <3>2. reqs'[r].pc = "alarm" /\ reqs'[r].stage = "end"
      BY <1>0, <3>1, PutOne, Threads DEF Is
    <3>3. QED
      BY <1>0, <2>1, <3>1, <3>2, EndsFields, LandsUnarmed DEF Starting
  <2>3. CASE reqs[r].from # "alarm"
    <3>1. Done(r) /\ UNCHANGED <<pomo, kvPomo, alarm>>
      BY <1>3, <2>1, <2>3 DEF StartNotFound, Fail, dovars
    <3>2. reqs'[r].pc = "free" /\ Waiting(reqs[r])
      BY <1>0, <2>1, <2>3, <3>1, PutOne, Threads DEF Done, Is, Waiting
    <3>3. QED
      BY <1>0, <1>a, <2>1, <3>1, <3>2, LandsWaiting
  <2>4. QED
    BY <2>2, <2>3
<1>4. CASE StartDone(r)
  <2>1. /\ reqs[r].pc = "start.done" /\ mirror # None /\ reqs[r].sess = mirror /\ rows[reqs[r].sess].start = clock
        /\ reqs[r].at = clock
    BY <1>0, <1>4, <1>a DEF StartDone, At, HandlerRecalls, HandlerArms, Starting
  <2>2. reqs'[r].pc = "start.pomo" /\ reqs'[r].at = clock
    BY <1>0, <1>4, <2>1, Goes DEF StartDone
  <2>3. running' = mirror /\ nudgeAt' = None /\ UNCHANGED <<pomo, kvPomo>>
    BY <1>4, <2>1 DEF StartDone, dovars
  <2>4. Expected'
    BY <1>0, <2>1, <2>3, PromptIs DEF Expected, NudgeDue
  <2>5. HandlerArms(reqs[r])'
    BY <1>0, <2>2, <2>4 DEF HandlerArms, Waiting
  <2>6. QED
    BY <1>0, <1>a, <2>3, <2>5, ArmsOne DEF ArmsAt
<1>5. CASE StartPomo(r)
  <2>1. /\ reqs[r].pc = "start.pomo" /\ pomo.phase = "focus" /\ running # None /\ reqs[r].at = clock
        /\ UNCHANGED <<running, nudgeAt>>
    BY <1>0, <1>5, <1>a DEF StartPomo, At, HandlerCycles, HandlerArms, Starting
  <2>2. /\ pomo' = [Resumed(pomo, reqs[r].at) EXCEPT !.task = IF @ = None THEN reqs[r].task ELSE @]
        /\ kvPomo' = pomo' /\ Goto(r, "start.rearm") /\ alarm' = alarm
    BY <1>5, <2>1 DEF StartPomo
  <2>3. reqs'[r].pc = "start.rearm" /\ reqs'[r].at = clock
    BY <1>0, <2>1, <2>2, Goes
  <2>4. pomo'.phase = "focus"
    BY <1>0, <2>1, <2>2 DEF Resumed, Pomo
  <2>5. evictions' = 0 /\ loaded' => Expected'
    BY <1>0, <1>a, <2>1, <2>2, StaysExpected
  <2>6. HandlerArms(reqs[r])'
    BY <1>0, <2>3, <2>5 DEF HandlerArms, Waiting
  <2>7. QED
    BY <1>0, <2>2, <2>4, <2>6, ArmsOne DEF ArmsAt, BreaksEnd
<1>6. CASE StartRearm(r)
  <2>1. /\ Rearm /\ UNCHANGED <<running, pomo, kvPomo, nudgeAt>>
        /\ reqs'[r].pc \in {"free", "break.set", "alarm"} /\ (reqs'[r].pc = "alarm" => reqs'[r].stage = "end")
    BY <1>0, <1>6, SucceedAt DEF StartRearm, memvars
  <2>2. evictions' = 0 /\ loaded' /\ running' # None => alarm # None \/ NudgeDue(running', nudgeAt') > clock
    BY <1>0, <1>a, <2>1 DEF Expected
  <2>3. QED
    BY <1>0, <1>a, <2>1, <2>2, LandsArmed
<1>7. QED
  BY <1>1, <1>2, <1>3, <1>4, <1>5, <1>6

LEMMA BatchArms ==
    ASSUME Prompt, TypeOK, TypeOK', LogInv, SerialInv, CycleInv, CycleInv', ArmsInv, NEW r \in Req,
           StartBatch(r) \/ StopBatch(r) \/ SwitchBatch(r)
    PROVE  ArmsInv'
<1> DEFINE q == reqs[r]
<1>0. /\ HandlersTyped /\ HandlerRecalls(q) /\ Knows(q, rows, nextId) /\ q \in Handler /\ rows \in [SessionId -> Row]
      /\ UNCHANGED <<clock, evictions, notes, loaded, pomo, kvPomo, running, nudgeAt, alarm>>
      /\ None \notin SessionId /\ q.at \in Int /\ q.sess \in SessionOrNone /\ q.old \in SessionOrNone
  <2>1. /\ HandlersTyped /\ HandlerRecalls(q) /\ Knows(q, rows, nextId) /\ q \in Handler /\ rows \in [SessionId -> Row]
    BY DEF TypeOK, LogTyped, HandlersTyped, SerialInv, LogInv, HandlersKnow
  <2>2. UNCHANGED <<clock, evictions, notes, loaded, pomo, kvPomo, running, nudgeAt, alarm>>
    BY DEF StartBatch, StopBatch, SwitchBatch, orgvars, dovars, memvars
  <2>3. None \notin SessionId
    BY NoneAssumption DEF SessionId
  <2>4. q.at \in Int /\ q.sess \in SessionOrNone /\ q.old \in SessionOrNone
    BY <2>1 DEF Handler
  <2>5. QED
    BY <2>1, <2>2, <2>3, <2>4
<1>a. /\ BreaksEnd(pomo) /\ (kvPomo # None => BreaksEnd(kvPomo)) /\ HandlerArms(q)
      /\ evictions = 0 /\ loaded /\ running # None => Expected
  BY ArmsFacts DEF StartBatch, StopBatch, SwitchBatch, At
<1>b. ~Fault("unacknowledged") /\ ~Goto(r, "resync")
  <2>1. ~Fault("unacknowledged")
    BY PromptIs, CalmIs
  <2>2. reqs'[r].pc # "resync"
    BY DEF CycleInv, HandlerCycles
  <2>3. QED
    BY <1>0, <2>1, <2>2, Goes
<1>c. Recalls(running) /\ (Recalls(running) => running = mirror)
  <2>1. Recalls(running) => running = mirror
    BY PromptIs, CalmIs
  <2>2. QED
    BY <1>0, <2>1 DEF HandlerRecalls, StartBatch, StopBatch, SwitchBatch, At, Loading, Unsettled
<1>1. CASE StartBatch(r)
  <2>1. /\ q.pc = "start.batch" /\ q.at = clock /\ running = None /\ q.sess \in SessionId
    <3>1. q.pc = "start.batch" /\ q.at = clock /\ running = None
      BY <1>0, <1>1, <1>a DEF StartBatch, At, HandlerRecalls, HandlerArms, Starting
    <3>2. q.sess # None
      BY <1>0, <3>1, NoneAssumption DEF Knows, Opening
    <3>3. QED
      BY <1>0, <3>1, <3>2 DEF SessionOrNone
  <2>2. rows' = Inserted(rows, q.sess, q.task, q.at) /\ Goto(r, "start.done")
    BY <1>1, <1>b DEF StartBatch, Batch
  <2>3. reqs'[r].pc = "start.done" /\ reqs'[r].at = clock /\ reqs'[r].sess = q.sess
    BY <1>0, <2>1, <2>2, Goes
  <2>4. rows'[q.sess].start = clock
    BY <1>0, <2>1, <2>2 DEF Inserted
  <2>5. HandlerArms(reqs[r])'
    BY <1>0, <2>1, <2>3, <2>4 DEF HandlerArms, Waiting
  <2>6. QED
    BY <1>0, <1>a, <2>5, ArmsOne DEF ArmsAt
<1>2. CASE StopBatch(r)
  <2>1. q.pc = "stop.batch" /\ q.sess = mirror /\ running = mirror /\ mirror \in SessionId
    BY <1>0, <1>2, <1>c DEF StopBatch, At, HandlerRecalls, Handler, SessionOrNone
  <2>2. rows' = Ended(rows, q.sess, q.at) /\ Goto(r, "stop.done")
    BY <1>2, <1>b DEF StopBatch, Batch
  <2>3. reqs'[r].pc = "stop.done"
    BY <1>0, <2>2, Goes
  <2>4. rows'[running].start = rows[running].start
    BY <1>0, <2>1, <2>2 DEF Ended, Row
  <2>5. evictions' = 0 /\ loaded' /\ running' # None => Expected'
    BY <1>0, <1>a, <2>4, StaysExpected
  <2>6. QED
    BY <1>0, <1>a, <2>3, <2>5, LandsUnarmed DEF Starting
<1>3. CASE SwitchBatch(r)
  <2>1. /\ q.pc = "switch.batch" /\ q.at = clock /\ q.old = running /\ running \in SessionId /\ q.sess \in SessionId
        /\ rows[q.sess].st = "none" /\ rows[running].st # "none"
    <3>1. q.pc = "switch.batch" /\ q.at = clock /\ q.old = mirror /\ mirror # None
      BY <1>0, <1>3, <1>a DEF SwitchBatch, At, HandlerRecalls, HandlerArms
    <3>2. q.sess # None /\ rows[q.sess].st = "none" /\ rows[q.old].st # "none"
      BY <1>0, <3>1, NoneAssumption DEF Knows, Opening
    <3>3. QED
      BY <1>0, <1>c, <3>1, <3>2 DEF SessionOrNone
  <2>2. rows' = Inserted(Ended(rows, q.old, q.at), q.sess, q.task, q.at) /\ Goto(r, "switch.done")
    BY <1>3, <1>b DEF SwitchBatch, Batch
  <2>3. reqs'[r].pc = "switch.done" /\ reqs'[r].at = clock /\ reqs'[r].sess = q.sess
    BY <1>0, <2>1, <2>2, Goes
  <2>4. rows'[q.sess].start = clock /\ rows'[running].start = rows[running].start
    <3> DEFINE ended == Ended(rows, q.old, q.at)
    <3>1. DOMAIN ended = SessionId /\ ended[running].start = rows[running].start
      BY <1>0, <2>1 DEF Ended, Row
    <3> HIDE DEF ended
    <3>2. rows' = Inserted(ended, q.sess, q.task, q.at)
      BY <2>2 DEF ended
    <3>3. QED
      BY <2>1, <3>1, <3>2 DEF Inserted
  <2>5. evictions' = 0 /\ loaded' /\ running' # None => Expected'
    BY <1>0, <1>a, <2>4, StaysExpected
  <2>6. HandlerArms(reqs[r])'
    BY <1>0, <2>3, <2>4, <2>5 DEF HandlerArms, Waiting
  <2>7. QED
    BY <1>0, <1>a, <2>6, ArmsOne DEF ArmsAt
<1>4. QED
  BY <1>1, <1>2, <1>3

LEMMA StopArms ==
    ASSUME Prompt, TypeOK, TypeOK', SerialInv, CycleInv, CycleInv', ArmsInv, NEW r \in Req,
           TimerStop(r) \/ StopFreeze(r) \/ StopClear(r)
    PROVE  ArmsInv'
<1>0. /\ HandlersTyped /\ UNCHANGED <<rows, clock, evictions, notes, loaded>>
      /\ pomo \in Pomo /\ reqs[r].at \in Int
  BY DEF TypeOK, MemoryTyped, HandlersTyped, Handler, TimerStop, StopFreeze, StopClear,
         othervars, dbvars, orgvars, memvars
<1>a. /\ BreaksEnd(pomo) /\ (kvPomo # None => BreaksEnd(kvPomo))
      /\ evictions = 0 /\ loaded /\ running # None => Expected
      /\ BreaksEnd(Frozen(pomo, reqs[r].at))
  BY <1>0, ArmsFacts, EndsFields DEF TimerStop, StopFreeze, StopClear, At, Entering
<1>1. CASE TimerStop(r) \/ StopFreeze(r)
  <2>1. reqs'[r].pc \in {"stop.batch", "stop.clear"}
    BY <1>0, <1>1, StopThreadIs, Goes DEF TimerStop, StopFreeze
  <2>2. UNCHANGED <<alarm, running, nudgeAt>> /\ BreaksEnd(pomo') /\ (kvPomo' # None => BreaksEnd(kvPomo'))
    BY <1>1, <1>a DEF TimerStop, StopFreeze, othervars, memvars, dovars
  <2>3. evictions' = 0 /\ loaded' /\ running' # None => Expected'
    BY <1>0, <1>a, <2>2, StaysExpected
  <2>4. QED
    BY <1>0, <2>1, <2>2, <2>3, LandsUnarmed DEF Starting
<1>2. CASE StopClear(r)
  <2>1. Rearm /\ running' = None /\ BreaksEnd(pomo') /\ (kvPomo' # None => BreaksEnd(kvPomo'))
    BY <1>2, <1>a DEF StopClear
  <2>2. reqs'[r].pc \in {"free", "break.set", "alarm"} /\ (reqs'[r].pc = "alarm" => reqs'[r].stage = "end")
    BY <1>0, <1>2, SucceedAt DEF StopClear
  <2>3. QED
    BY <1>0, <2>1, <2>2, LandsArmed
<1>3. QED
  BY <1>1, <1>2

LEMMA SwitchArms ==
    ASSUME Prompt, TypeOK, TypeOK', SerialInv, CycleInv, CycleInv', ArmsInv, NEW r \in Req,
           \/ TimerSwitch(r) \/ SwitchRefused(r) \/ SwitchCheck(r) \/ SwitchDone(r)
           \/ RearmAndReply(r) \/ Refuse(r)
    PROVE  ArmsInv'
<1>0. /\ HandlersTyped /\ HandlerRecalls(reqs[r]) /\ UNCHANGED <<rows, clock, evictions, notes, loaded, cfg>>
      /\ pomo \in Pomo
  BY DEF TypeOK, MemoryTyped, SerialInv, TimerSwitch, SwitchRefused, SwitchCheck, SwitchDone, RearmAndReply, Refuse,
         othervars, dbvars, orgvars, memvars
<1>a. /\ BreaksEnd(pomo) /\ (kvPomo # None => BreaksEnd(kvPomo)) /\ HandlerArms(reqs[r])
      /\ evictions = 0 /\ loaded /\ running # None => Expected
  BY ArmsFacts DEF TimerSwitch, SwitchRefused, SwitchCheck, SwitchDone, RearmAndReply, Refuse, At, Entering
<1>1. CASE TimerSwitch(r) \/ SwitchRefused(r) \/ Refuse(r)
  <2>1. reqs'[r].pc \in {"free", "switch.check", "start.check"}
    <3>1. CASE TimerSwitch(r)
      <4>1. PICK t \in Task : reqs'[r] = IF running = None THEN StartThread(t, "fetch")
                                         ELSE [Thread("switch.check") EXCEPT !.task = t]
        BY <1>0, <3>1, PutOne DEF TimerSwitch
      <4>2. [Thread("switch.check") EXCEPT !.task = t].pc = "switch.check"
        BY DEF Thread, Free
      <4>3. CASE running = None
        BY <4>1, <4>3, Threads DEF Is
      <4>4. CASE running # None
        BY <4>1, <4>2, <4>4
      <4>5. QED
        BY <4>3, <4>4
    <3>2. CASE SwitchRefused(r) \/ Refuse(r)
      BY <1>0, <3>2, PutOne, Threads DEF SwitchRefused, Refuse, Done, Is
    <3>3. QED
      BY <1>1, <3>1, <3>2
  <2>2. UNCHANGED <<pomo, kvPomo, alarm, running>> /\ Waiting(reqs[r])
    BY <1>1 DEF TimerSwitch, SwitchRefused, Refuse, othervars, memvars, dovars, Entering, At, Waiting
  <2>3. QED
    BY <1>0, <1>a, <2>1, <2>2, LandsWaiting
<1>2. CASE SwitchCheck(r)
  <2>1. reqs'[r].pc = "switch.batch" /\ reqs'[r].at = clock
    <3>1. reqs'[r] = [reqs[r] EXCEPT !.pc = "switch.batch", !.sess = nextId, !.old = running,
                                     !.at = clock, !.engaged = cfg.enabled]
      BY <1>0, <1>2, PutOne DEF SwitchCheck
    <3>2. QED
      BY <1>0, <3>1 DEF HandlersTyped, Handler
  <2>2. UNCHANGED <<kvPomo, alarm, running, nudgeAt>> /\ BreaksEnd(pomo')
    BY <1>0, <1>2, <1>a DEF SwitchCheck, dovars, BreaksEnd, Pomo
  <2>3. evictions' = 0 /\ loaded' /\ running' # None => Expected'
    BY <1>0, <1>a, <2>2, StaysExpected
  <2>4. HandlerArms(reqs[r])'
    BY <1>0, <2>1, <2>3 DEF HandlerArms, Waiting
  <2>5. QED
    BY <1>0, <1>a, <2>2, <2>4, ArmsOne DEF ArmsAt
<1>3. CASE SwitchDone(r)
  <2>1. /\ reqs[r].pc = "switch.done" /\ mirror # None /\ running' = mirror /\ nudgeAt' = None /\ pomo' = pomo
        /\ rows[mirror].start = clock /\ clock \in Int
    BY <1>0, <1>3, <1>a DEF SwitchDone, At, HandlerRecalls, HandlerArms, TypeOK, CountsTyped
  <2>2. NudgeDue(running', nudgeAt') > clock
    BY <2>1, PromptIs DEF NudgeDue
  <2>3. CASE reqs[r].engaged
    <3>1. reqs'[r].pc = "rearm" /\ kvPomo' = pomo
      BY <1>0, <1>3, <2>3, Goes DEF SwitchDone
    <3>2. Expected'
      BY <1>0, <2>1, PromptIs DEF Expected, NudgeDue
    <3>3. QED
      BY <1>0, <1>a, <2>1, <3>1, <3>2, LandsUnarmed DEF Starting
  <2>4. CASE ~reqs[r].engaged
    <3>1. reqs'[r].pc = "free" /\ kvPomo' = kvPomo /\ Rearm
      BY <1>0, <1>3, <2>4, PutOne, Threads DEF SwitchDone, Done, Is
    <3>2. QED
      BY <1>0, <1>a, <2>1, <2>2, <3>1, LandsArmed
  <2>5. QED
    BY <2>3, <2>4
<1>4. CASE RearmAndReply(r)
  <2>1. Rearm /\ reqs'[r].pc = "free" /\ UNCHANGED <<kvPomo, pomo, running, nudgeAt>>
    BY <1>0, <1>4, PutOne, Threads DEF RearmAndReply, Done, Is, memvars
  <2>2. evictions' = 0 /\ loaded' /\ running' # None => alarm # None \/ NudgeDue(running', nudgeAt') > clock
    BY <1>0, <1>a, <2>1 DEF Expected
  <2>3. QED
    BY <1>0, <1>a, <2>1, <2>2, LandsArmed
<1>5. QED
  BY <1>1, <1>2, <1>3, <1>4

LEMMA PomoArms ==
    ASSUME Prompt, TypeOK, TypeOK', SerialInv, CycleInv, CycleInv', ArmsInv, NEW r \in Req,
           PomoStart(r) \/ PomoStartCont(r) \/ PomoBreak(r) \/ BreakSet(r) \/ PomoSkip(r)
    PROVE  ArmsInv'
<1>0. /\ HandlersTyped /\ HandlerRecalls(reqs[r]) /\ HandlerCycles(reqs[r])
      /\ UNCHANGED <<rows, clock, evictions, notes, loaded, cfg, running, nudgeAt>>
      /\ pomo \in Pomo /\ clock \in Int /\ None \notin Int
  BY NoneAssumption DEF TypeOK, MemoryTyped, CountsTyped, SerialInv, CycleInv, PomoStart, PomoStartCont, PomoBreak, BreakSet, PomoSkip,
         dbvars, orgvars
<1>a. /\ BreaksEnd(pomo) /\ (kvPomo # None => BreaksEnd(kvPomo))
      /\ evictions = 0 /\ loaded /\ running # None => Expected
      /\ reqs[r].pc # "alarm"
  BY ArmsFacts DEF PomoStart, PomoStartCont, PomoBreak, BreakSet, PomoSkip, At, Entering
<1>1. CASE PomoStart(r)
  <2> DEFINE anchor(t) == IF t # None THEN t ELSE IF running # None THEN rows[running].task ELSE None
  <2>1. PICK t \in Task \cup {None} :
          /\ pomo' = (IF pomo.phase = "focus" THEN pomo ELSE FocusPomo(anchor(t), None))
          /\ kvPomo' = pomo' /\ alarm' = alarm
          /\ Put(r, IF running # None THEN [Thread("pomoStart") EXCEPT !.task = t]
                    ELSE PomoStartTimer(t, pomo'))
    BY <1>1 DEF PomoStart
  <2>2. reqs'[r] = IF running # None THEN [Thread("pomoStart") EXCEPT !.task = t]
                   ELSE PomoStartTimer(t, pomo')
    BY <1>0, <2>1, PutOne
  <2>3. pomo'.phase = "focus" /\ BreaksEnd(pomo')
    BY <2>1, PomoFields DEF BreaksEnd
  <2>4. CASE running # None
    <3>1. [Thread("pomoStart") EXCEPT !.task = t].pc = "pomoStart"
      BY DEF Thread, Free
    <3>2. reqs'[r].pc = "pomoStart"
      BY <2>2, <2>4, <3>1
    <3>3. evictions' = 0 /\ loaded' /\ running' # None => Expected'
      BY <1>0, <1>a, <2>1, StaysExpected
    <3>4. QED
      BY <1>0, <2>1, <2>3, <3>2, <3>3, LandsUnarmed DEF Starting
  <2>5. CASE running = None
    <3>1. reqs'[r].pc \in {"free", "start.check"}
      BY <2>2, <2>5, Threads DEF Is, PomoStartTimer
    <3>2. QED
      BY <1>0, <2>1, <2>3, <2>5, <3>1, LandsWaiting
  <2>6. QED
    BY <2>4, <2>5
<1>2. CASE PomoStartCont(r)
  <2>1. running # None /\ reqs'[r].pc = "rearm"
    BY <1>0, <1>2, Goes DEF PomoStartCont, At, HandlerCycles
  <2>2. /\ alarm' = alarm
        /\ (pomo' = pomo /\ kvPomo' = kvPomo) \/ (pomo' = Resumed(pomo, clock) /\ kvPomo' = pomo')
    BY <1>2, <2>1 DEF PomoStartCont
  <2>3. BreaksEnd(pomo') /\ (kvPomo' # None => BreaksEnd(kvPomo'))
    BY <1>0, <1>a, <2>2, EndsFields
  <2>4. evictions' = 0 /\ loaded' /\ running' # None => Expected'
    BY <1>0, <1>a, <2>2, StaysExpected
  <2>5. QED
    BY <1>0, <2>1, <2>3, <2>4, LandsUnarmed DEF Starting
<1>3. CASE PomoBreak(r) /\ running # None
  <2>1. reqs'[r].pc = "stop.batch" /\ UNCHANGED <<pomo, kvPomo, alarm>>
    BY <1>0, <1>3, StopThreadIs DEF PomoBreak, dovars
  <2>2. evictions' = 0 /\ loaded' /\ running' # None => Expected'
    BY <1>0, <1>a, <2>1, StaysExpected
  <2>3. QED
    BY <1>0, <1>a, <2>1, <2>2, LandsUnarmed DEF Starting
<1>4. CASE (PomoBreak(r) /\ running = None) \/ BreakSet(r)
  <2>1. /\ pomo' = [phase |-> "break", task |-> pomo.task, acc |-> 0, resume |-> None, ends |-> clock + cfg.brk]
        /\ PersistRearm(r)
    BY <1>4 DEF PomoBreak, BreakSet, BreakBegins
  <2>2. pomo'.ends = clock + cfg.brk /\ cfg.brk \in Int
    BY <2>1 DEF TypeOK, MemoryTyped, SettingsRecord
  <2>3. BreaksEnd(pomo')
    BY <1>0, <2>2 DEF BreaksEnd
  <2>4. QED
    BY <1>0, <1>a, <2>1, <2>3, PersistRearmArms
<1>5. CASE PomoSkip(r)
  <2>1. PersistRearm(r) /\ BreaksEnd(pomo')
    BY <1>5, EndsFields DEF PomoSkip
  <2>2. QED
    BY <1>0, <1>a, <2>1, PersistRearmArms
<1>6. QED
  BY <1>1, <1>2, <1>3, <1>4, <1>5

LEMMA AlarmArms ==
    ASSUME Prompt, TypeOK, TypeOK', SerialInv, CycleInv, CycleInv', ArmsInv, NEW r \in Req, AlarmFires(r) \/ AlarmStep(r)
    PROVE  ArmsInv'
<1>0. /\ HandlersTyped /\ HandlerRecalls(reqs[r])
      /\ UNCHANGED <<rows, clock, evictions, loaded, cfg, running, notes>>
      /\ pomo \in Pomo /\ clock \in Int /\ None \notin Int
  BY NoneAssumption DEF TypeOK, MemoryTyped, CountsTyped, SerialInv, AlarmFires, AlarmStep, AlarmNudge, AlarmDecide,
         AlarmBreakOver, AlarmAuto, AlarmRearm, othervars, dbvars, orgvars, memvars
<1>a. /\ BreaksEnd(pomo) /\ (kvPomo # None => BreaksEnd(kvPomo)) /\ HandlerArms(reqs[r])
      /\ evictions = 0 /\ loaded /\ running # None /\ (reqs[r].pc = "alarm" => reqs[r].stage # "nudge") => Expected
  BY ArmsFacts
<1>b. ASSUME At(r, "alarm"), ~NudgeIsDue(reqs[r]), evictions = 0, loaded, running # None
      PROVE  Expected
  <2>1. CASE reqs[r].stage = "nudge"
    <3>1. reqs[r].at = clock /\ ~(clock >= NudgeDue(running, nudgeAt))
      BY <1>a, <1>b, <2>1 DEF HandlerArms, At, NudgeIsDue
    <3>2. NudgeDue(running, nudgeAt) \in Int
      BY <1>b, TimeAssumption DEF NudgeDue, TypeOK, MemoryTyped, TimeOrNone, SessionOrNone, LogTyped, Row
    <3>3. QED
      BY <1>0, <3>1, <3>2 DEF Expected
  <2>2. CASE reqs[r].stage # "nudge"
    BY <1>a, <1>b, <2>2
  <2>3. QED
    BY <2>1, <2>2
<1>1. CASE AlarmFires(r)
  <2>1. reqs'[r] = IF loaded THEN AlarmBody(clock) ELSE [Thread("load") EXCEPT !.from = "alarm"]
    BY <1>0, <1>1, PutOne DEF AlarmFires
  <2>2. /\ reqs'[r].pc = (IF loaded THEN "alarm" ELSE "load")
        /\ reqs'[r].pc = "alarm" => reqs'[r].stage = "nudge" /\ reqs'[r].at = clock
    <3>1. CASE loaded
      BY <2>1, <3>1, Threads DEF Is
    <3>2. CASE ~loaded
      BY <2>1, <3>2 DEF Thread, Free
    <3>3. QED
      BY <3>1, <3>2
  <2>3. UNCHANGED <<pomo, kvPomo>>
    BY <1>1 DEF AlarmFires, memvars
  <2>4. QED
    BY <1>0, <1>a, <2>2, <2>3, LandsUnarmed DEF Starting
<1>2. CASE AlarmNudge(r)
  <2>1. nudgeAt' = clock + OneHour /\ reqs'[r].pc = "alarm" /\ reqs'[r].stage = "focus" /\ UNCHANGED <<pomo, kvPomo, alarm>>
    <3>1. reqs'[r] = [reqs[r] EXCEPT !.stage = "focus"]
      BY <1>0, <1>2, PutOne DEF AlarmNudge
    <3>2. reqs[r].at = clock
      BY <1>2, <1>a DEF HandlerArms, AlarmNudge, At, NudgeIsDue
    <3>3. QED
      BY <1>0, <1>2, <3>1, <3>2 DEF HandlersTyped, Handler, AlarmNudge, At, dovars
  <2>2. Expected'
    <3>1. nudgeAt' \in Int /\ nudgeAt' > clock
      BY <1>0, <2>1, PromptIs
    <3>2. QED
      BY <1>0, <3>1 DEF Expected, NudgeDue
  <2>3. QED
    BY <1>0, <1>a, <2>1, <2>2, LandsUnarmed DEF Starting
<1>3. CASE AlarmDecide(r) \/ AlarmBreakOver(r)
  <2>1. /\ reqs'[r].pc \in {"alarm", "alarm.auto"} /\ (reqs'[r].pc = "alarm" => reqs'[r].stage = "break")
    <3>1. CASE AlarmDecide(r)
      <4>1. reqs'[r] = [reqs[r] EXCEPT !.stage = "break"]
        BY <1>0, <3>1, PutOne DEF AlarmDecide
      <4>2. QED
        BY <1>0, <3>1, <4>1 DEF HandlersTyped, Handler, AlarmDecide, At
    <3>2. CASE AlarmBreakOver(r)
      BY <1>0, <3>2, Goes DEF AlarmBreakOver
    <3>3. QED
      BY <1>3, <3>1, <3>2
  <2>2. /\ UNCHANGED <<alarm, nudgeAt>> /\ kvPomo' = pomo' /\ pomo'.phase \in {"decide", "ready"}
        /\ At(r, "alarm") /\ ~NudgeIsDue(reqs[r])
    BY <1>0, <1>3 DEF AlarmDecide, AlarmBreakOver, Pomo
  <2>3. evictions' = 0 /\ loaded' /\ running' # None => Expected'
    BY <1>0, <1>b, <2>2, StaysExpected
  <2>4. QED
    BY <1>0, <2>1, <2>2, <2>3, LandsUnarmed DEF Starting, BreaksEnd
<1>4. CASE AlarmAuto(r)
  <2>1. UNCHANGED <<running, nudgeAt, kvPomo>> /\ (evictions = 0 /\ loaded /\ running # None => Expected)
    BY <1>4, <1>a DEF AlarmAuto, At
  <2>2. CASE cfg.auto /\ pomo.task # None
    <3>1. /\ pomo' = FocusPomo(pomo.task, None) /\ alarm' = alarm
          /\ Put(r, IF running = None THEN StartThread(pomo.task, "alarm") ELSE AlarmTail)
      BY <1>4, <2>2 DEF AlarmAuto
    <3>2. reqs'[r] = IF running = None THEN StartThread(pomo.task, "alarm") ELSE AlarmTail
      BY <1>0, <3>1, PutOne
    <3>3. /\ reqs'[r].pc \in {"start.check", "alarm"} /\ reqs'[r].from = "alarm"
          /\ reqs'[r].pc = "alarm" => reqs'[r].stage = "end"
      BY <3>2, Threads DEF Is
    <3>4. evictions' = 0 /\ loaded' /\ running' # None => Expected'
      BY <1>0, <2>1, <3>1, StaysExpected
    <3>5. QED
      BY <1>0, <1>a, <2>1, <3>1, <3>3, <3>4, EndsFields, LandsUnarmed DEF Starting
  <2>3. CASE ~(cfg.auto /\ pomo.task # None)
    <3>1. pomo' = pomo /\ Rearm /\ reqs'[r].pc = "free"
      BY <1>0, <1>4, <2>3, PutOne, Threads DEF AlarmAuto, Done, Is
    <3>2. evictions' = 0 /\ loaded' /\ running' # None => alarm # None \/ NudgeDue(running', nudgeAt') > clock
      BY <1>0, <2>1 DEF Expected
    <3>3. QED
      BY <1>0, <1>a, <2>1, <3>1, <3>2, LandsArmed
  <2>4. QED
    BY <2>2, <2>3
<1>5. CASE AlarmRearm(r)
  <2>1. Rearm /\ reqs'[r].pc = "free" /\ UNCHANGED <<kvPomo, pomo, running, nudgeAt>>
    BY <1>0, <1>5, PutOne, Threads DEF AlarmRearm, Done, Is, memvars
  <2>2. evictions' = 0 /\ loaded' /\ running' # None => alarm # None \/ NudgeDue(running', nudgeAt') > clock
    BY <1>0, <1>5, <1>b, <2>1 DEF Expected, AlarmRearm
  <2>3. QED
    BY <1>0, <1>a, <2>1, <2>2, LandsArmed
<1>6. QED
  BY <1>1, <1>2, <1>3, <1>4, <1>5 DEF AlarmStep

(* A tick brings no deadline closer than it was.                           *)
LEMMA TickArms ==
    ASSUME Prompt, TypeOK, ArmsInv, Tick
    PROVE  ArmsInv'
<1>1. /\ UNCHANGED <<rows, notes, reqs, loaded, running, pomo, kvPomo, cfg, evictions, alarm, nudgeAt>>
      /\ clock' = clock + 1 /\ clock \in Int /\ alarm \in TimeOrNone /\ None \notin Int
      /\ pomo \in Pomo /\ cfg.focus \in Int
  BY NoneAssumption DEF Tick, dbvars, orgvars, memvars, dovars, TypeOK, CountsTyped, StoreTyped, MemoryTyped, SettingsRecord
<1>2. \A r \in Req : reqs[r].pc = "free"
  BY PromptIs DEF At
<1>3. ASSUME Armed
      PROVE  Armed'
  <2>1. ASSUME pomo.phase = "break", BreaksEnd(pomo)
        PROVE  ArmedBy(pomo.ends)'
    <3>1. ArmedBy(pomo.ends) /\ pomo.ends \in Int
      BY <1>1, <1>3, <2>1 DEF Armed, BreaksEnd, Pomo, TimeOrNone
    <3>2. QED
      BY <1>1, <3>1 DEF ArmedBy, TimeOrNone
  <2>2. ASSUME pomo.phase = "focus", running # None, Live(pomo, clock') < cfg.focus
        PROVE  ArmedBy(clock + cfg.focus - Live(pomo, clock))'
    <3>1. /\ Live(pomo, clock) \in Int /\ Live(pomo, clock') \in Int
          /\ Live(pomo, clock) <= Live(pomo, clock') /\ Live(pomo, clock') <= Live(pomo, clock) + 1
      BY <1>1 DEF Live, Pomo, TimeOrNone
    <3> DEFINE a == Live(pomo, clock)
               b == Live(pomo, clock')
    <3>2. ArmedBy(clock + cfg.focus - a)
      BY <1>1, <1>3, <2>2, <3>1 DEF Armed
    <3>3. b = Live(pomo, clock)'
      BY <1>1 DEF Live
    <3> HIDE DEF a, b
    <3>4. a \in Int /\ b \in Int /\ a <= b /\ b <= a + 1
      BY <3>1 DEF a, b
    <3>5. alarm # None /\ alarm <= (IF clock' + cfg.focus - b > clock' THEN clock' + cfg.focus - b ELSE clock')
      BY <1>1, <3>2, <3>4 DEF ArmedBy, TimeOrNone
    <3>6. QED
      BY <1>1, <3>3, <3>5 DEF ArmedBy
  <2>3. Live(pomo, clock)' = Live(pomo, clock')
    BY <1>1 DEF Live
  <2>4. QED
    BY <1>1, <2>1, <2>2, <2>3 DEF Armed, ArmsInv
<1>4. \A r \in Req : HandlerArms(reqs[r])'
  <2> SUFFICES ASSUME NEW r \in Req
               PROVE  HandlerArms(reqs[r])'
    OBVIOUS
  <2>1. reqs[r].pc = "free" /\ HandlerArms(reqs[r])
    BY <1>2 DEF ArmsInv
  <2>2. QED
    BY <1>1, <1>3, <2>1 DEF HandlerArms, Waiting, Starting, Expected
<1>5. QED
  BY <1>1, <1>4 DEF ArmsInv

LEMMA AroundArms ==
    ASSUME Prompt, TypeOK, ArmsInv, Around \/ UNCHANGED vars
    PROVE  ArmsInv'
<1>1. ~PatchProfile /\ ~TombstoneTask /\ ~SaveSettings
  <2>1. Calm /\ ~SaveSettings
    BY PromptIs
  <2>2. QED
    BY <2>1, CalmIs
<1>2. CASE Evict
  <2>1. \A r \in Req : reqs'[r].pc = "free"
    BY <1>2 DEF Evict, Free
  <2>2. ~loaded' /\ notes' = notes /\ pomo' = IdlePomo /\ kvPomo' = kvPomo
    BY <1>2 DEF Evict, orgvars
  <2>3. \A r \in Req : HandlerArms(reqs[r])'
    BY <2>1, <2>2 DEF HandlerArms, Starting
  <2>4. QED
    BY <2>2, <2>3, EndsFields DEF ArmsInv
<1>3. CASE DeleteGroup \/ ArchiveProject \/ UndoDelete \/ LoseNotify \/ UNCHANGED vars
  <2>1. UNCHANGED <<rows, reqs, loaded, running, pomo, kvPomo, cfg, clock, evictions, alarm, nudgeAt>>
    BY <1>3 DEF DeleteGroup, ArchiveProject, UndoDelete, LoseNotify, vars, dbvars, memvars, dovars
  <2>2. notes' = {}
    BY <1>3 DEF ArmsInv, DeleteGroup, ArchiveProject, UndoDelete, LoseNotify, vars
  <2>3. \A r \in Req : HandlerArms(reqs[r])'
    BY <2>1 DEF ArmsInv, HandlerArms, Armed, ArmedBy, Live, Expected, NudgeDue
  <2>4. QED
    BY <2>1, <2>2, <2>3 DEF ArmsInv
<1>4. QED
  BY <1>1, <1>2, <1>3, TickArms DEF Around

LEMMA ArmsStep == /\ Prompt /\ TypeOK /\ TypeOK' /\ LogInv /\ SerialInv /\ CycleInv /\ CycleInv' /\ ArmsInv
                  /\ [Next]_vars
                  => ArmsInv'
<1> SUFFICES ASSUME Prompt, TypeOK, TypeOK', LogInv, SerialInv, CycleInv, CycleInv', ArmsInv, [Next]_vars
             PROVE  ArmsInv'
  OBVIOUS
<1>0. Calm
  BY PromptIs
<1>1. ASSUME NEW r \in Req, Arrive(r) \/ LoadStep(r)
      PROVE  ArmsInv'
  BY <1>1, LoadArms, StartArms, StopArms, SwitchArms, PomoArms DEF Arrive
<1>2. ASSUME NEW r \in Req, TimerStep(r)
      PROVE  ArmsInv'
  <2>1. ~(Resync(r) \/ Resynced(r) \/ GoneBatch(r) \/ GoneDone(r) \/ GoneAnchor(r))
    BY DEF CycleInv, HandlerCycles, Resync, Resynced, GoneBatch, GoneDone, GoneAnchor, At
  <2>2. QED
    BY <1>2, <2>1, StartArms, BatchArms, StopArms, SwitchArms, PomoArms DEF TimerStep
<1>3. \A r \in Req : ~Throws(r)
  BY <1>0, CalmIs DEF Throws
<1>4. \A r \in Req : ~Notified(r)
  BY DEF Notified, NotifySettings, NotifyDeleted, ArmsInv
<1>5. QED
  BY <1>1, <1>2, <1>3, <1>4, AlarmArms, AroundArms DEF Next

LEMMA ArmsInit == Init => ArmsInv
<1> SUFFICES ASSUME Init
             PROVE  ArmsInv
  OBVIOUS
<1>1. \A r \in Req : reqs[r].pc = "free"
  BY DEF Init, Free
<1>2. QED
  BY <1>1, EndsFields DEF Init, ArmsInv, HandlerArms, Starting

(* The alarm comes no later than the end of a break, and than the moment the
   focus goal is reached; while a timer runs it is always set. *)
THEOREM AlarmCoversDeadlines ==
    ASSUME Prompt, Req # {}
    PROVE  Spec => []DeadlinesAreArmed
<1>0. Calm
  BY PromptIs
<1>1. Init => ArmsInv
  BY ArmsInit
<1>2. TypeOK /\ TypeOK' /\ LogInv /\ SerialInv /\ CycleInv /\ CycleInv' /\ ArmsInv /\ [Next]_vars => ArmsInv'
  BY ArmsStep
<1>3. Spec => []SerialInv
  BY <1>0, SerialInvariant DEF Calm
<1>4. Spec => []CycleInv
  BY <1>0, CycleInvariant
<1>5. ArmsInv => DeadlinesAreArmed
  BY DEF ArmsInv, HandlerArms, Waiting, Armed, DeadlinesAreArmed, SoFar, Settled, AtRest
<1>6. QED
  BY <1>1, <1>2, <1>3, <1>4, <1>5, TypeCorrect, LogInvariant, PTL DEF Spec
=============================================================================
