-------------------------- MODULE SessionLogProofs --------------------------
(***************************************************************************)
(* What SessionLog's properties say for every number of sessions, tasks    *)
(* and requests, and every horizon, proved with TLAPS.                     *)
(***************************************************************************)
EXTENDS SessionLogChecks, TLAPS

-----------------------------------------------------------------------------
(* Types.                                                                  *)

LEMMA TimeIsNat ==
    /\ \A i \in Time : i \in Nat
    /\ \A i \in 0..Horizon : i \in Time
  BY TimeAssumption DEF Time

LEMMA StoreType ==
    ASSUME TypeOK, NEW s \in Session, NEW r \in SessionRow \cup {None}, sess' = [sess EXCEPT ![s] = r]
    PROVE  sess' \in Log
  BY DEF TypeOK, Log

LEMMA MadeType ==
    ASSUME TypeOK, NEW s \in Session, NEW w \in {"none", "guarded", "bulk", "timer", "late"}, NEW i \in Nat,
           made' = [made EXCEPT ![s] = By(w, i)]
    PROVE  made' \in [Session -> [what : {"none", "guarded", "bulk", "timer", "late"}, asof : Nat]]
  BY DEF TypeOK, By

LEMMA LinkedType ==
    ASSUME NEW r \in SessionRow
    PROVE  Linked(r) \in SessionRow
  BY DEF Linked, SessionRow

LEMMA StartsType ==
    ASSUME TypeOK, NEW t \in Thread, NEW kind, NEW on, NEW pc, NEW row, Starts(t, kind, on, pc, row),
           \/ /\ kind \in {"create", "patch", "delete", "restore"} /\ on \in Session
              /\ pc \in {"running?", "write"} /\ row \in SessionRow
           \/ kind = "import" /\ on \subseteq Session /\ pc = "write" /\ row \in Log
    PROVE  reqs' \in [Thread -> PlainRequest \cup ImportRequest \cup {None}]
<1> DEFINE q == [kind |-> kind, on |-> on, pc |-> pc, row |-> row, asof |-> now]
<1>1. now \in Nat
  BY TimeAssumption DEF TypeOK
<1>2. q \in PlainRequest \cup ImportRequest
  BY <1>1 DEF PlainRequest, ImportRequest
<1>3. reqs' = [reqs EXCEPT ![t] = q]
  BY DEF Starts
<1>4. QED
  BY <1>2, <1>3 DEF TypeOK

LEMMA EndsType ==
    ASSUME TypeOK, NEW t \in Thread, Ends(t)
    PROVE  reqs' \in [Thread -> PlainRequest \cup ImportRequest \cup {None}]
  BY DEF TypeOK, Ends

LEMMA PlainType ==
    ASSUME TypeOK, NEW t \in Thread, NEW kind \in {"create", "patch", "delete", "restore"}, NEW pc, At(t, kind, pc)
    PROVE  /\ reqs[t] \in PlainRequest /\ reqs[t] # None /\ reqs[t].kind = kind /\ reqs[t].pc = pc
           /\ reqs[t].on \in Session /\ reqs[t].row \in SessionRow /\ reqs[t].asof \in Nat
           /\ Names(reqs[t]) = {reqs[t].on}
  BY DEF TypeOK, At, PlainRequest, ImportRequest, Names

LEMMA ImportType ==
    ASSUME TypeOK, NEW t \in Thread, NEW pc, At(t, "import", pc)
    PROVE  /\ reqs[t] \in ImportRequest /\ reqs[t] # None /\ reqs[t].kind = "import"
           /\ reqs[t].pc = "write" /\ reqs[t].on \subseteq Session /\ reqs[t].row \in Log
           /\ Names(reqs[t]) = reqs[t].on
  BY DEF TypeOK, At, PlainRequest, ImportRequest, Names

LEMMA TypeInit ==
    Init => TypeOK
  BY NoneAssumption, TimeAssumption DEF Init, TypeOK, Log, By

LEMMA RequestType ==
    ASSUME HubInv, NEW t \in Thread, Request(t)
    PROVE  TypeOK'
<1> USE DEF hub
<1>0. TypeOK /\ HandsOff /\ now \in Nat /\ now \in Time
  BY TimeIsNat, TimeAssumption DEF HubInv, TypeOK
<1>1. CASE CreateSession(t)
  <2>1. PICK s \in Session \ used, c \in Task, b \in Subtask \cup {None}, from, to \in Time :
                Starts(t, "create", s, "write", Row(c, b, from, to)) /\ used' = used \cup {s}
    BY <1>1 DEF CreateSession
  <2>2. Row(c, b, from, to) \in SessionRow
    BY DEF Row, SessionRow
  <2>3. reqs' \in [Thread -> PlainRequest \cup ImportRequest \cup {None}]
    BY <1>0, <2>1, <2>2, StartsType
  <2>4. QED
    BY <1>0, <1>1, <2>1, <2>3 DEF CreateSession, TypeOK
<1>2. CASE CommitCreate(t)
  <2>1. At(t, "create", "write")
    BY <1>2 DEF CommitCreate
  <2>2. reqs[t].on \in Session /\ reqs[t].row \in SessionRow /\ reqs[t].asof \in Nat
    BY <1>0, <2>1, PlainType
  <2>3. sess' \in Log /\ made' \in [Session -> [what : {"none", "guarded", "bulk", "timer", "late"}, asof : Nat]]
    BY <1>0, <1>2, <2>2, StoreType, MadeType DEF CommitCreate, TypeOK
  <2>4. QED
    BY <1>0, <1>2, <2>3, EndsType DEF CommitCreate, TypeOK
<1>3. CASE ReadSession(t, "patch") \/ ReadSession(t, "delete")
  <2>1. PICK kind \in {"patch", "delete"}, s \in Stored : Starts(t, kind, s, "running?", sess[s])
    BY <1>3 DEF ReadSession
  <2>2. s \in Session /\ sess[s] \in SessionRow
    BY <1>0 DEF Stored, TypeOK, Log
  <2>3. reqs' \in [Thread -> PlainRequest \cup ImportRequest \cup {None}]
    BY <1>0, <2>1, <2>2, StartsType
  <2>4. QED
    BY <1>0, <1>3, <2>3 DEF ReadSession, TypeOK
<1>4. CASE PatchSession(t)
  <2>1. reqs[t] \in PlainRequest /\ reqs[t].row \in SessionRow
    BY <1>0, <1>4, PlainType DEF PatchSession
  <2>2. PICK r \in Patched(reqs[t].row) :
                reqs' = [reqs EXCEPT ![t].pc = "write", ![t].row = r, ![t].asof = now]
    BY <1>4 DEF PatchSession
  <2>3. r \in SessionRow
    BY <2>1 DEF Patched, Row, SessionRow
  <2>4. [[[reqs[t] EXCEPT !.pc = "write"] EXCEPT !.row = r] EXCEPT !.asof = now] \in PlainRequest
    BY <1>0, <2>1, <2>3 DEF PlainRequest
  <2>5. reqs' \in [Thread -> PlainRequest \cup ImportRequest \cup {None}]
    BY <1>0, <2>2, <2>4 DEF TypeOK
  <2>6. QED
    BY <1>0, <1>4, <2>5 DEF PatchSession, TypeOK
<1>5. CASE CommitPatch(t)
  <2>1. At(t, "patch", "write")
    BY <1>5 DEF CommitPatch
  <2>2. reqs[t].on \in Session /\ reqs[t].row \in SessionRow /\ reqs[t].asof \in Nat
    BY <1>0, <2>1, PlainType
  <2>3. sess' \in Log /\ made' \in [Session -> [what : {"none", "guarded", "bulk", "timer", "late"}, asof : Nat]]
    BY <1>0, <1>5, <2>2, StoreType, MadeType DEF CommitPatch, TypeOK
  <2>4. QED
    BY <1>0, <1>5, <2>3, EndsType DEF CommitPatch, TypeOK
<1>6. CASE DeleteSession(t)
  <2>1. reqs[t] \in PlainRequest
    BY <1>0, <1>6, PlainType DEF DeleteSession
  <2>2. [reqs[t] EXCEPT !.pc = "write"] \in PlainRequest
    BY <2>1 DEF PlainRequest
  <2>3. QED
    BY <1>0, <1>6, <2>2 DEF DeleteSession, TypeOK
<1>7. CASE CommitDelete(t)
  <2>1. reqs[t].on \in Session /\ reqs[t].row \in SessionRow
    BY <1>0, <1>7, PlainType DEF CommitDelete
  <2>2. [on |-> reqs[t].on, row |-> reqs[t].row] \in Toast
    BY <2>1 DEF Toast
  <2>3. sess' \in Log
    BY <1>0, <1>7, <2>1, StoreType DEF CommitDelete
  <2>4. QED
    BY <1>0, <1>7, <2>2, <2>3, EndsType DEF CommitDelete, TypeOK
<1>8. CASE Refuse(t)
  BY <1>0, <1>8, EndsType DEF Refuse, TypeOK
<1>9. CASE Restore(t)
  <2> DEFINE r == [undo.row EXCEPT !.to = IF @ = None THEN now ELSE @]
  <2>1. undo.on \in Session /\ undo.row \in SessionRow
    BY <1>0, <1>9 DEF Restore, TypeOK, Toast
  <2>2. r \in SessionRow
    BY <1>0, <2>1 DEF SessionRow
  <2>3. reqs' \in [Thread -> PlainRequest \cup ImportRequest \cup {None}]
    BY <1>0, <1>9, <2>1, <2>2, StartsType DEF Restore
  <2>4. QED
    BY <1>0, <1>9, <2>3 DEF Restore, TypeOK
<1>10. CASE RestoreSession(t)
  <2>1. reqs[t].on \in Session /\ reqs[t].row \in SessionRow /\ reqs[t].asof \in Nat
    BY <1>0, <1>10, PlainType DEF RestoreSession
  <2>2. Linked(reqs[t].row) \in SessionRow
    BY <2>1, LinkedType
  <2>3. sess' \in Log /\ made' \in [Session -> [what : {"none", "guarded", "bulk", "timer", "late"}, asof : Nat]]
    BY <1>0, <1>10, <2>1, <2>2, StoreType, MadeType DEF RestoreSession, TypeOK
  <2>4. QED
    BY <1>0, <1>10, <2>3, EndsType DEF RestoreSession, TypeOK
<1>11. CASE Import(t)
  <2>1. file \in Log /\ {s \in Session : file[s] # None} \subseteq Session
    BY <1>0, <1>11 DEF Import, TypeOK
  <2>2. reqs' \in [Thread -> PlainRequest \cup ImportRequest \cup {None}]
    BY <1>0, <1>11, <2>1, StartsType DEF Import
  <2>3. QED
    BY <1>0, <1>11, <2>2 DEF Import, TypeOK
<1>12. CASE ImportSession(t)
  <2>1. /\ reqs[t] \in ImportRequest /\ reqs[t].on \subseteq Session /\ reqs[t].row \in Log
        /\ Names(reqs[t]) = reqs[t].on /\ reqs[t].kind = "import"
    BY <1>0, <1>12, ImportType DEF ImportSession
  <2>2. PICK s \in reqs[t].on :
          /\ IF Twin(s, reqs[t].row[s]) THEN UNCHANGED <<sess, made>>
             ELSE /\ sess' = [sess EXCEPT ![s] = Merged(s, reqs[t].row[s])]
                  /\ made' = [made EXCEPT ![s] = By("bulk", now)]
          /\ IF reqs[t].on = {s} THEN Ends(t) ELSE reqs' = [reqs EXCEPT ![t].on = @ \ {s}]
    BY <1>12 DEF ImportSession
  <2>3. reqs[t].row[s] \in SessionRow
    <3>1. InHand(reqs[t]) /\ s \in Names(reqs[t]) /\ s \in Session
      BY <1>0, <2>1, <2>2 DEF HandsOff
    <3>2. reqs[t].row[s] # None
      BY <2>1, <3>1 DEF InHand
    <3>3. QED
      BY <2>1, <3>1, <3>2 DEF Log
  <2>4. Merged(s, reqs[t].row[s]) \in SessionRow
    <3>1. sess[s] # None => sess[s].sub \in Subtask \cup {None}
      BY <1>0, <2>1 DEF TypeOK, Log, SessionRow
    <3>2. sess[s] # None => [reqs[t].row[s] EXCEPT !.sub = sess[s].sub] \in SessionRow
      BY <2>3, <3>1 DEF SessionRow
    <3>3. QED
      BY <2>3, <3>2, LinkedType DEF Merged
  <2>5. sess' \in Log /\ made' \in [Session -> [what : {"none", "guarded", "bulk", "timer", "late"}, asof : Nat]]
    BY <1>0, <2>1, <2>2, <2>4, StoreType, MadeType DEF TypeOK
  <2>6. [reqs[t] EXCEPT !.on = @ \ {s}] \in ImportRequest
    BY <2>1 DEF ImportRequest
  <2>7. reqs' \in [Thread -> PlainRequest \cup ImportRequest \cup {None}]
    BY <1>0, <2>2, <2>6, EndsType DEF TypeOK
  <2>8. QED
    BY <1>0, <1>12, <2>5, <2>7 DEF ImportSession, TypeOK
<1>13. QED
  BY <1>1, <1>2, <1>3, <1>4, <1>5, <1>6, <1>7, <1>8, <1>9, <1>10, <1>11, <1>12 DEF Request

LEMMA TimerType ==
    ASSUME HubInv, Timer
    PROVE  TypeOK'
<1> USE DEF hub
<1>0. TypeOK /\ HubKnows /\ now \in Nat /\ now \in Time
  BY TimeIsNat, TimeAssumption DEF HubInv, TypeOK
<1>1. ASSUME NEW kind \in {"start", "stop", "switch"}, NEW s \in Session, NEW c \in Task,
             NEW b \in Subtask \cup {None}, TimerBegins(kind, s, c, b), used' \subseteq Session
      PROVE  TypeOK'
  <2>1. Row(c, b, now, None) \in SessionRow
    BY <1>0 DEF Row, SessionRow
  <2>2. op' \in TimerOp
    BY <1>0, <1>1, <2>1 DEF TimerBegins, TimerOp
  <2>3. QED
    BY <1>0, <1>1, <2>2 DEF TimerBegins, TypeOK
<1>2. CASE TimerStart \/ TimerSwitch
  BY <1>0, <1>1, <1>2 DEF TimerStart, TimerSwitch, TypeOK
<1>3. CASE TimerStop
  <2>1. running \in Session /\ sess[running] \in SessionRow
    BY <1>0, <1>3 DEF TimerStop, HubKnows, Open, Stored, TypeOK, Log
  <2>2. sess[running].task \in Task
    BY <2>1 DEF SessionRow
  <2>3. QED
    BY <1>0, <1>1, <1>3, <2>1, <2>2 DEF TimerStop, TypeOK
<1>4. CASE TimerCommit
  <2> DEFINE after == IF op.kind = "start" THEN sess ELSE Closed(sess, running, op.at)
  <2>1. op \in TimerOp /\ op.on \in Session /\ op.row \in SessionRow /\ op.at \in Time /\ op.at \in Nat
    BY <1>0, <1>4, TimeIsNat DEF TimerCommit, TypeOK, TimerOp
  <2>2. op.kind # "start" => Closed(sess, running, op.at) \in Log
    <3> SUFFICES ASSUME op.kind # "start"
                 PROVE  Closed(sess, running, op.at) \in Log
      OBVIOUS
    <3>1. running \in Session /\ sess[running] \in SessionRow
      BY <1>0, <1>4 DEF TimerCommit, HubKnows, Open, Stored, TypeOK, Log
    <3>2. QED
      BY <1>0, <2>1, <3>1 DEF Closed, TypeOK, Log, SessionRow
  <2>3. after \in Log
    BY <1>0, <2>2 DEF TypeOK
  <2>4. sess' \in Log
    BY <1>0, <1>4, <2>1, <2>3 DEF TimerCommit, Log, TypeOK
  <2>5. made' \in [Session -> [what : {"none", "guarded", "bulk", "timer", "late"}, asof : Nat]]
    BY <1>0, <1>4, <2>1, MadeType DEF TimerCommit, TypeOK
  <2>6. running' \in Session \cup {None}
    BY <1>0, <1>4, <2>1 DEF TimerCommit, TypeOK
  <2>7. QED
    BY <1>0, <1>4, <2>4, <2>5, <2>6 DEF TimerCommit, TypeOK
<1>5. QED
  BY <1>2, <1>3, <1>4 DEF Timer

-----------------------------------------------------------------------------
(* What the hub runs is its own.                                           *)

(* A step of a request writes no session that the hub runs or is about to  *)
(* insert.                                                                 *)
Shuns(s) == (sess'[s] = sess[s] /\ made'[s] = made[s]) \/ Spared(s)

LEMMA OthersShunned ==
    ASSUME TypeOK, NEW w \in Session, Spared(w),
           NEW r, sess' = [sess EXCEPT ![w] = r],
           made' = made \/ \E m : made' = [made EXCEPT ![w] = m]
    PROVE  \A s \in Session : Shuns(s)
  BY DEF TypeOK, Log, Shuns

LEMMA RequestLeavesHub ==
    ASSUME HubInv, NEW t \in Thread, Request(t)
    PROVE  /\ op' = op /\ running' = running /\ now' = now /\ used \subseteq used'
           /\ \A s \in Session : Shuns(s)
<1> USE DEF hub
<1>0. /\ TypeOK /\ HandsOff
      /\ op' = op /\ running' = running /\ now' = now /\ used \subseteq used'
  BY DEF HubInv, Request, CreateSession, CommitCreate, ReadSession, PatchSession, CommitPatch,
     DeleteSession, CommitDelete, Refuse, Restore, RestoreSession, Import, ImportSession
<1>1. CASE sess' = sess /\ made' = made
  BY <1>0, <1>1 DEF Shuns
<1>2. CASE CommitCreate(t) \/ CommitPatch(t) \/ CommitDelete(t) \/ RestoreSession(t)
  <2>1. PICK kind \in {"create", "patch", "delete", "restore"} : At(t, kind, "write")
    BY <1>2 DEF CommitCreate, CommitPatch, CommitDelete, RestoreSession
  <2>2. reqs[t].on \in Session /\ Spared(reqs[t].on)
    <3>1. InHand(reqs[t]) /\ reqs[t].on \in Names(reqs[t]) /\ reqs[t].on \in Session /\ reqs[t].pc = "write"
      BY <1>0, <2>1, PlainType DEF HandsOff
    <3>2. QED
      BY <3>1 DEF InHand, Spared
  <2>3. \/ sess' = sess /\ made' = made
        \/ /\ \E r : sess' = [sess EXCEPT ![reqs[t].on] = r]
           /\ made' = made \/ \E m : made' = [made EXCEPT ![reqs[t].on] = m]
    BY <1>2 DEF CommitCreate, CommitPatch, CommitDelete, RestoreSession
  <2>4. QED
    BY <1>0, <1>1, <2>2, <2>3, OthersShunned
<1>3. CASE ImportSession(t)
  <2>1. PICK w \in reqs[t].on :
          \/ sess' = sess /\ made' = made
          \/ /\ sess' = [sess EXCEPT ![w] = Merged(w, reqs[t].row[w])]
             /\ made' = [made EXCEPT ![w] = By("bulk", now)]
    BY <1>3 DEF ImportSession
  <2>2. w \in Session /\ Spared(w)
    <3>1. InHand(reqs[t]) /\ w \in Names(reqs[t]) /\ w \in Session /\ reqs[t].pc = "write"
      BY <1>0, <1>3, <2>1, ImportType DEF ImportSession, HandsOff
    <3>2. QED
      BY <3>1 DEF InHand, Spared
  <2>3. QED
    BY <1>0, <1>1, <2>1, <2>2, OthersShunned
<1>4. QED
  BY <1>0, <1>1, <1>2, <1>3 DEF Request, CreateSession, ReadSession, PatchSession, DeleteSession, Refuse,
     Restore, Import

LEMMA ShunningKeeps ==
    ASSUME HubInv, op' = op, running' = running, now' = now, used \subseteq used',
           \A s \in Session : Shuns(s)
    PROVE  HubKnows' /\ Coming' = Coming
<1>1. Coming' = Coming
  BY DEF Coming
<1>2. \A s \in Session : sess'[s] = sess[s] \/ (s \in used /\ s \notin Coming /\ s # running)
  BY DEF Shuns, Spared
<1>3. Coming \cap Stored' = {} /\ Stored' \cup Coming \subseteq used'
  BY <1>2 DEF HubInv, HubKnows, Stored
<1>4. running # None => running \in Open' /\ made'[running].what \in {"timer", "late"}
  BY DEF HubInv, HubKnows, Open, Stored, Shuns, Spared
<1>5. QED
  BY <1>1, <1>3, <1>4 DEF HubInv, HubKnows

(* A request that goes on with what is in its hands.                       *)
LEMMA OneHand ==
    ASSUME HubInv, Coming' = Coming, running' = running, now' = now, used \subseteq used',
           NEW t \in Thread, NEW q, reqs' = [reqs EXCEPT ![t] = q], InHand(q)'
    PROVE  \A u \in Thread : InHand(reqs[u])'
<1>1. /\ \A u \in Thread : InHand(reqs[u])
      /\ reqs'[t] = q /\ \A u \in Thread : u # t => reqs'[u] = reqs[u]
  BY DEF HubInv, HandsOff, TypeOK
<1>2. \A u \in Thread : u # t => InHand(reqs[u])'
  BY <1>1 DEF InHand
<1>3. QED
  BY <1>1, <1>2

LEMMA EndsHand ==
    ASSUME HubInv, Coming' = Coming, running' = running, now' = now, used \subseteq used',
           NEW t \in Thread, Ends(t)
    PROVE  \A u \in Thread : InHand(reqs[u])'
<1>1. InHand(None)'
  BY DEF InHand, Names
<1>2. QED
  BY <1>1, OneHand DEF Ends

LEMMA RequestHands ==
    ASSUME HubInv, NEW t \in Thread, Request(t)
    PROVE  HandsOff'
<1> USE DEF hub
<1>0. /\ TypeOK /\ HubKnows /\ HandsOff /\ now \in Nat
      /\ Coming' = Coming /\ running' = running /\ now' = now /\ used \subseteq used'
  BY RequestLeavesHub, ShunningKeeps, TimeAssumption DEF HubInv, TypeOK
<1>1. ASSUME UNCHANGED <<undo, file>>, \A u \in Thread : InHand(reqs[u])'
      PROVE  HandsOff'
  BY <1>0, <1>1 DEF HandsOff, Spared
<1>2. ASSUME NEW kind, NEW on, NEW pc, NEW row, Starts(t, kind, on, pc, row),
             LET q == [kind |-> kind, on |-> on, pc |-> pc, row |-> row, asof |-> now] IN InHand(q)'
      PROVE  \A u \in Thread : InHand(reqs[u])'
  BY <1>0, <1>2, OneHand DEF Starts
<1>3. CASE CreateSession(t)
  <2>1. PICK s \in Session \ used : \E row : Starts(t, "create", s, "write", row) /\ used' = used \cup {s}
    BY <1>3 DEF CreateSession
  <2>0. PICK row : Starts(t, "create", s, "write", row)
    BY <2>1
  <2> DEFINE q == [kind |-> "create", on |-> s, pc |-> "write", row |-> row, asof |-> now]
  <2>2. s \notin Coming /\ s # running /\ s \in used'
    BY <1>0, <2>1, NoneAssumption DEF HubKnows, Open
  <2>3. InHand(q)'
    BY <1>0, <2>2 DEF InHand, Names
  <2>4. QED
    BY <1>1, <1>2, <1>3, <2>0, <2>3 DEF CreateSession
<1>4. CASE \/ CommitCreate(t) \/ CommitPatch(t) \/ Refuse(t) \/ RestoreSession(t)
  <2>1. Ends(t) /\ UNCHANGED <<undo, file>>
    BY <1>4 DEF CommitCreate, CommitPatch, Refuse, RestoreSession
  <2>2. QED
    BY <1>0, <1>1, <2>1, EndsHand
<1>5. CASE ReadSession(t, "patch") \/ ReadSession(t, "delete")
  <2>1. PICK kind \in {"patch", "delete"}, s \in Stored : Starts(t, kind, s, "running?", sess[s])
    BY <1>5 DEF ReadSession
  <2> DEFINE q == [kind |-> kind, on |-> s, pc |-> "running?", row |-> sess[s], asof |-> now]
  <2>2. s \in used /\ s \notin Coming
    BY <1>0 DEF HubKnows
  <2>3. InHand(q)'
    BY <1>0, <2>2 DEF InHand, Names
  <2>4. QED
    BY <1>1, <1>2, <1>5, <2>1, <2>3 DEF ReadSession
<1>6. CASE PatchSession(t)
  <2>1. PICK r : reqs' = [reqs EXCEPT ![t].pc = "write", ![t].row = r, ![t].asof = now]
    BY <1>6 DEF PatchSession
  <2>0. PICK q : q = [[[reqs[t] EXCEPT !.pc = "write"] EXCEPT !.row = r] EXCEPT !.asof = now]
    OBVIOUS
  <2>2. /\ InHand(reqs[t]) /\ reqs[t] # None /\ reqs[t] \in PlainRequest /\ reqs[t].kind = "patch"
        /\ Names(reqs[t]) = {reqs[t].on}
    BY <1>0, <1>6, PlainType DEF PatchSession, HandsOff
  <2>3. reqs[t].on # running /\ reqs[t].on \in used \ Coming
    BY <1>0, <1>6, <2>2, NoneAssumption DEF PatchSession, NotRunning, HubKnows, InHand, PlainRequest
  <2>4. q.kind = "patch" /\ q.on = reqs[t].on /\ q.asof = now
    BY <2>0, <2>2 DEF PlainRequest
  <2>5. InHand(q)'
    BY <1>0, <2>3, <2>4 DEF InHand, Names
  <2>6. reqs' = [reqs EXCEPT ![t] = q]
    BY <1>0, <2>0, <2>1 DEF TypeOK
  <2>7. QED
    BY <1>0, <1>1, <1>6, <2>5, <2>6, OneHand DEF PatchSession
<1>7. CASE DeleteSession(t)
  <2>0. PICK q : q = [reqs[t] EXCEPT !.pc = "write"]
    OBVIOUS
  <2>1. /\ InHand(reqs[t]) /\ reqs[t] # None /\ reqs[t] \in PlainRequest /\ reqs[t].kind = "delete"
        /\ Names(reqs[t]) = {reqs[t].on}
    BY <1>0, <1>7, PlainType DEF DeleteSession, HandsOff
  <2>2. reqs[t].on # running /\ reqs[t].on \in used \ Coming /\ reqs[t].asof <= now
    BY <1>0, <1>7, <2>1, NoneAssumption DEF DeleteSession, NotRunning, HubKnows, InHand, PlainRequest
  <2>3. q.kind = "delete" /\ q.on = reqs[t].on /\ q.asof = reqs[t].asof
    BY <2>0, <2>1 DEF PlainRequest
  <2>4. InHand(q)'
    BY <1>0, <2>2, <2>3 DEF InHand, Names
  <2>5. reqs' = [reqs EXCEPT ![t] = q]
    BY <1>0, <1>7, <2>0 DEF DeleteSession, TypeOK
  <2>6. QED
    BY <1>0, <1>1, <1>7, <2>4, <2>5, OneHand DEF DeleteSession
<1>8. CASE CommitDelete(t)
  <2>1. InHand(reqs[t]) /\ reqs[t].on \in Names(reqs[t]) /\ reqs[t].pc = "write"
    BY <1>0, <1>8, PlainType DEF CommitDelete, HandsOff
  <2>2. Spared(reqs[t].on)
    BY <2>1 DEF InHand, Spared
  <2>3. (undo # None => Spared(undo.on))'
    BY <1>0, <1>8, <2>2 DEF CommitDelete, Spared
  <2>4. file' = file /\ \A u \in Thread : InHand(reqs[u])'
    BY <1>0, <1>8, EndsHand DEF CommitDelete
  <2>5. QED
    BY <1>0, <2>3, <2>4 DEF HandsOff, Spared
<1>9. CASE Restore(t)
  <2>0. PICK s, row : s = undo.on /\ row = [undo.row EXCEPT !.to = IF @ = None THEN now ELSE @]
    OBVIOUS
  <2> DEFINE q == [kind |-> "restore", on |-> s, pc |-> "write", row |-> row, asof |-> now]
  <2>1. Spared(s)
    BY <1>0, <1>9, <2>0 DEF Restore, HandsOff
  <2>2. InHand(q)'
    BY <1>0, <2>1 DEF InHand, Names, Spared
  <2>3. \A u \in Thread : InHand(reqs[u])'
    BY <1>2, <1>9, <2>0, <2>2 DEF Restore
  <2>4. QED
    BY <1>0, <1>9, <2>3 DEF Restore, HandsOff, Spared
<1>10. CASE Import(t)
  <2>0. PICK on, row : on = {s \in Session : file[s] # None} /\ row = file
    OBVIOUS
  <2> DEFINE q == [kind |-> "import", on |-> on, pc |-> "write", row |-> row, asof |-> now]
  <2>1. \A s \in on : Spared(s) /\ row[s] # None
    BY <1>0, <1>10, <2>0 DEF Import, HandsOff
  <2>2. Names(q) \subseteq on
    BY DEF Names
  <2>3. InHand(q)'
    BY <1>0, <2>1, <2>2 DEF InHand, Spared
  <2>4. QED
    BY <1>1, <1>2, <1>10, <2>0, <2>3 DEF Import
<1>11. CASE ImportSession(t)
  <2>1. PICK s \in reqs[t].on :
          IF reqs[t].on = {s} THEN Ends(t) ELSE reqs' = [reqs EXCEPT ![t].on = @ \ {s}]
    BY <1>11 DEF ImportSession
  <2>2. CASE reqs[t].on = {s}
    BY <1>0, <1>1, <1>11, <2>1, <2>2, EndsHand DEF ImportSession
  <2>3. CASE reqs[t].on # {s}
    <3>0. PICK q : q = [reqs[t] EXCEPT !.on = @ \ {s}]
      OBVIOUS
    <3>1. /\ InHand(reqs[t]) /\ reqs[t] # None /\ reqs[t] \in ImportRequest /\ reqs[t].kind = "import"
          /\ Names(reqs[t]) = reqs[t].on
      BY <1>0, <1>11, ImportType DEF ImportSession, HandsOff
    <3>2. /\ q \in ImportRequest /\ q.kind = "import" /\ q.on = reqs[t].on \ {s} /\ q.asof = reqs[t].asof
          /\ q.row = reqs[t].row /\ q.pc = reqs[t].pc
      BY <3>0, <3>1 DEF ImportRequest
    <3>3. \A o \in q.on :
            /\ o \in used \ Coming
            /\ reqs[t].pc = "write" => o # running
            /\ reqs[t].asof <= now /\ reqs[t].row[o] # None
      BY <3>1, <3>2 DEF InHand
    <3>4. InHand(q)'
      <4>1. Names(q) = q.on
        BY <3>2, NoneAssumption DEF Names
      <4>2. QED
        BY <1>0, <3>2, <3>3, <4>1 DEF InHand
    <3>5. QED
      BY <1>0, <1>1, <1>11, <2>1, <2>3, <3>0, <3>4, OneHand DEF ImportSession
  <2>4. QED
    BY <2>2, <2>3
<1>12. QED
  BY <1>3, <1>4, <1>5, <1>6, <1>7, <1>8, <1>9, <1>10, <1>11 DEF Request

(* A session that the hub makes up is in nobody's hands.                   *)
LEMMA TimerHands ==
    ASSUME HubInv, UNCHANGED <<reqs, undo, file, now>>, used \subseteq used',
           Coming' \cap used = {} \/ Coming' \subseteq Coming,
           running' \in {running, None} \cup Coming, None \notin used
    PROVE  HandsOff'
<1>1. \A s \in used \ Coming : s \in used' \ Coming' /\ (s # running => s # running')
  OBVIOUS
<1>2. \A t \in Thread : InHand(reqs[t])'
  BY <1>1 DEF HubInv, HandsOff, InHand
<1>3. QED
  BY <1>1, <1>2 DEF HubInv, HandsOff, Spared

LEMMA TimerKeeps ==
    ASSUME HubInv, Timer
    PROVE  HubInv'
<1> USE DEF hub
<1>0. /\ TypeOK /\ HubKnows /\ HandsOff /\ TypeOK' /\ now \in Nat /\ None \notin used
      /\ None \notin TimerOp /\ None \notin SessionRow /\ None \notin Session
  BY TimerType, NoneAssumption, TimeAssumption DEF HubInv, TypeOK
<1>1. ASSUME NEW kind \in {"start", "stop", "switch"}, NEW s \in Session, NEW c \in Task,
             NEW b \in Subtask \cup {None}, TimerBegins(kind, s, c, b), kind = "start" <=> running = None,
             used' = (IF kind = "stop" THEN used ELSE used \cup {s}), kind # "stop" => s \notin used
      PROVE  HubInv'
  <2>1. /\ op = None /\ op' # None /\ op'.kind = kind /\ op'.on = s /\ op'.at = now
        /\ op'.row.to = None /\ op'.row.from = now
        /\ UNCHANGED <<sess, running, reqs, undo, file, now, made>>
    <3>1. op' = [kind |-> kind, on |-> s, row |-> Row(c, b, now, None), at |-> now] /\ op = None
      BY <1>1 DEF TimerBegins
    <3>2. op' # None
      <4>1. Row(c, b, now, None) \in SessionRow /\ now \in Time
        BY <1>0, TimeIsNat DEF Row, SessionRow, TypeOK
      <4>2. op' \in TimerOp
        BY <3>1, <4>1 DEF TimerOp
      <4>3. QED
        BY <1>0, <4>2
    <3>3. QED
      BY <1>1, <3>1, <3>2 DEF TimerBegins, Row
  <2>2. Coming = {} /\ Coming' = IF kind = "stop" THEN {} ELSE {s}
    BY <2>1 DEF Coming
  <2>3. HubKnows'
    BY <1>0, <1>1, <2>1, <2>2 DEF HubKnows, Open, Stored
  <2>4. HandsOff'
    BY <1>0, <1>1, <2>1, <2>2, TimerHands
  <2>5. QED
    BY <1>0, <2>3, <2>4 DEF HubInv
<1>2. CASE TimerStart
  BY <1>0, <1>1, <1>2 DEF TimerStart
<1>3. CASE TimerStop
  <2>1. running \in Session /\ sess[running] \in SessionRow
    BY <1>0, <1>3 DEF TimerStop, HubKnows, Open, Stored, TypeOK, Log
  <2>2. sess[running].task \in Task
    BY <2>1 DEF SessionRow
  <2>3. QED
    BY <1>0, <1>1, <1>3, <2>1, <2>2 DEF TimerStop
<1>4. CASE TimerSwitch
  BY <1>0, <1>1, <1>4 DEF TimerSwitch
<1>5. CASE TimerCommit
  <2>1. /\ op \in TimerOp /\ op # None /\ op.on \in Session /\ op.row \in SessionRow /\ op' = None
        /\ UNCHANGED <<reqs, undo, file, now, used>>
    BY <1>0, <1>5 DEF TimerCommit, TypeOK, TimerOp
  <2>2. Coming' = {} /\ Coming = IF op.kind = "stop" THEN {} ELSE {op.on}
    BY <2>1 DEF Coming
  <2>3. op.kind # "start" => running \in Session /\ running # None /\ sess[running] \in SessionRow
    BY <1>0, <2>1 DEF HubKnows, Open, Stored, TypeOK, Log
  <2>4. CASE op.kind = "stop"
    <3>1. running' = None /\ sess' = Closed(sess, running, op.at) /\ made' = made
      BY <1>5, <2>4 DEF TimerCommit
    <3>2. Stored' \subseteq Stored
      BY <1>0, <2>3, <2>4, <3>1 DEF Closed, Stored, TypeOK, Log
    <3>3. HubKnows'
      BY <1>0, <2>1, <2>2, <3>1, <3>2 DEF HubKnows
    <3>4. HandsOff'
      BY <1>0, <2>1, <2>2, <3>1, TimerHands
    <3>5. QED
      BY <1>0, <3>3, <3>4 DEF HubInv
  <2>5. CASE op.kind # "stop" /\ running' = running /\ sess' = sess /\ made' = made
    <3>1. HubKnows'
      BY <1>0, <2>1, <2>2, <2>5 DEF HubKnows, Open, Stored
    <3>2. HandsOff'
      BY <1>0, <2>1, <2>2, <2>5, TimerHands
    <3>3. QED
      BY <1>0, <3>1, <3>2 DEF HubInv
  <2>6. CASE /\ op.kind # "stop" /\ running' = op.on
             /\ sess' = [(IF op.kind = "start" THEN sess ELSE Closed(sess, running, op.at)) EXCEPT ![op.on] = op.row]
             /\ made' = [made EXCEPT ![op.on] = By(IF op.at = now THEN "timer" ELSE "late", op.at)]
    <3>1. op.row.to = None
      BY <1>0, <2>1, <2>6 DEF HubKnows
    <3>2. /\ sess'[op.on] = op.row
          /\ \A s \in Session : s # op.on /\ sess'[s] # None => sess[s] # None
      BY <1>0, <2>1, <2>3, <2>6 DEF Closed, TypeOK, Log
    <3>3. made'[op.on].what \in {"timer", "late"}
      BY <1>0, <2>1, <2>6 DEF TypeOK, By
    <3>4. op.on \in Open'
      BY <1>0, <2>1, <3>1, <3>2 DEF Open, Stored
    <3>5. Stored' \subseteq Stored \cup Coming
      BY <2>2, <2>6, <3>2 DEF Stored
    <3>6. HubKnows'
      BY <1>0, <2>1, <2>2, <2>6, <3>3, <3>4, <3>5 DEF HubKnows
    <3>7. HandsOff'
      BY <1>0, <2>1, <2>2, <2>6, TimerHands
    <3>8. QED
      BY <1>0, <3>6, <3>7 DEF HubInv
  <2>7. QED
    BY <1>5, <2>4, <2>5, <2>6 DEF TimerCommit
<1>6. QED
  BY <1>2, <1>3, <1>4, <1>5 DEF Timer

LEMMA HubStep ==
    HubInv /\ [Next]_vars => HubInv'
<1> SUFFICES ASSUME HubInv, [Next]_vars
             PROVE  HubInv'
  OBVIOUS
<1> USE DEF hub
<1>0. TypeOK /\ HubKnows /\ HandsOff /\ now \in Nat
  BY TimeAssumption DEF HubInv, TypeOK
<1>1. CASE Tick \/ UNCHANGED vars
  <2>1. /\ UNCHANGED <<sess, running, op, reqs, undo, file, made, used>> /\ Coming' = Coming
        /\ now' \in 0..Horizon /\ now <= now'
    BY <1>0, <1>1, TimeAssumption DEF Tick, vars, TypeOK, Coming
  <2>2. TypeOK'
    BY <1>0, <2>1 DEF TypeOK
  <2>3. HubKnows'
    <3>1. op # None /\ op.kind # "stop" => op.at <= now'
      <4>1. op # None => op.at \in Nat
        BY <1>0, TimeIsNat DEF TypeOK, TimerOp
      <4>2. QED
        BY <1>0, <2>1, <4>1, TimeAssumption DEF HubKnows
    <3>2. QED
      BY <1>0, <2>1, <3>1 DEF HubKnows, Open, Stored
  <2>4. \A t \in Thread : InHand(reqs[t])'
    <3>1. \A t \in Thread : reqs[t] # None => reqs[t].asof \in Nat
      BY <1>0 DEF TypeOK, PlainRequest, ImportRequest
    <3>2. \A t \in Thread : \A s \in Names(reqs[t]) : reqs[t] # None
      BY DEF Names
    <3>3. QED
      BY <1>0, <2>1, <3>1, <3>2, TimeAssumption DEF HandsOff, InHand
  <2>5. HandsOff'
    BY <1>0, <2>1, <2>4 DEF HandsOff, Spared
  <2>6. QED
    BY <2>2, <2>3, <2>5 DEF HubInv
<1>2. CASE Export
  <2>1. /\ UNCHANGED <<sess, running, op, reqs, undo, now, made, used>> /\ Coming' = Coming
        /\ file' = [s \in Session |-> IF s \in Open THEN None ELSE sess[s]]
    BY <1>2 DEF Export, Coming
  <2>2. file' \in Log
    BY <1>0, <2>1 DEF TypeOK, Log
  <2>3. TypeOK'
    BY <1>0, <2>1, <2>2 DEF TypeOK
  <2>4. HubKnows'
    BY <1>0, <2>1 DEF HubKnows, Open, Stored
  <2>5. \A s \in Session : file'[s] # None => Spared(s)
    BY <1>0, <2>1, NoneAssumption DEF HubKnows, Spared, Stored, Open
  <2>6. HandsOff'
    BY <1>0, <2>1, <2>5 DEF HandsOff, InHand, Spared
  <2>7. QED
    BY <2>3, <2>4, <2>6 DEF HubInv
<1>3. CASE \E t \in Thread : Request(t)
  <2>1. PICK t \in Thread : Request(t)
    BY <1>3
  <2>2. QED
    BY <2>1, RequestType, RequestLeavesHub, ShunningKeeps, RequestHands DEF HubInv
<1>4. CASE Timer
  BY <1>4, TimerKeeps
<1>5. QED
  BY <1>1, <1>2, <1>3, <1>4 DEF Next

LEMMA HubInit ==
    Init => HubInv
<1> SUFFICES ASSUME Init
             PROVE  HubInv
  OBVIOUS
<1>1. Coming = {} /\ Stored = {}
  BY DEF Init, Coming, Stored
<1>2. HubKnows /\ HandsOff
  BY <1>1 DEF Init, HubKnows, HandsOff, InHand, Names
<1>3. QED
  BY <1>2, TypeInit DEF HubInv

LEMMA SparedStep ==
    ASSUME HubInv, [Next]_vars, running # None, running' = running
    PROVE  sess'[running] = sess[running]
<1> USE DEF hub
<1>0. TypeOK /\ HubKnows /\ running \in Open /\ running \in Session
  BY DEF HubInv, HubKnows, Open, Stored
<1>1. CASE Tick \/ Export \/ UNCHANGED vars \/ TimerStart \/ TimerStop \/ TimerSwitch
  BY <1>1 DEF Tick, Export, vars, TimerStart, TimerStop, TimerSwitch, TimerBegins
<1>2. CASE \E t \in Thread : Request(t)
  BY <1>0, <1>2, RequestLeavesHub DEF Shuns, Spared
<1>3. CASE TimerCommit
  <2>1. op # None /\ op.kind # "stop"
    BY <1>3 DEF TimerCommit
  <2>2. op.on # running
    BY <1>0, <2>1 DEF HubKnows, Coming, Open
  <2>3. QED
    BY <1>3, <2>1, <2>2 DEF TimerCommit
<1>4. QED
  BY <1>1, <1>2, <1>3 DEF Next, Timer

(* FR-S6: whatever requests race with the timer, none changes or deletes   *)
(* the session that the hub runs and goes on running.                      *)
THEOREM RunningUntouched == Spec => RunningIsSpared
<1>1. HubInv /\ [Next]_vars => [running # None /\ running' = running => sess'[running] = sess[running]]_vars
  BY SparedStep
<1>2. QED
  BY <1>1, HubInit, HubStep, PTL DEF Spec, RunningIsSpared

-----------------------------------------------------------------------------
(* Overlaps.                                                               *)

AsOfNow == \A s \in Session : made[s].asof <= now

LEMMA RowTimes ==
    ASSUME TypeOK
    PROVE  /\ now \in Nat
           /\ \A s \in Stored : /\ sess[s] \in SessionRow /\ sess[s].from \in Nat
                                /\ sess[s].to # None => sess[s].to \in Nat
           /\ \A s \in Session : made[s].asof \in Nat
  BY TimeIsNat, TimeAssumption DEF TypeOK, Log, SessionRow, Stored

(* A session that is gone, or that a bulk write made, is not spoken of.    *)
LEMMA BulkKeeps ==
    ASSUME OverlapInv, HubInv', now' = now,
           \A s \in Session : \/ sess'[s] = sess[s] /\ made'[s] = made[s]
                              \/ sess'[s] = None /\ made'[s] = made[s]
                              \/ made'[s].what \notin {"guarded", "timer"} /\ made'[s].asof <= now
    PROVE  OverlapInv'
<1> DEFINE Same(s) == sess'[s] = sess[s] /\ made'[s] = made[s]
<1>0. GuardedAreDisjoint /\ LaterThanCheck /\ AsOfNow
  BY DEF OverlapInv, AsOfNow
<1>1. \A s \in Stored' : made'[s].what \in {"guarded", "timer"} => s \in Stored /\ Same(s)
  BY DEF Stored
<1>2. GuardedAreDisjoint'
  BY <1>0, <1>1 DEF GuardedAreDisjoint, Closedness, Common
<1>3. LaterThanCheck'
  BY <1>0, <1>1 DEF LaterThanCheck, Closedness, During
<1>4. AsOfNow'
  BY <1>0 DEF AsOfNow
<1>5. QED
  BY <1>2, <1>3, <1>4 DEF OverlapInv, AsOfNow

(* A row that overlaps nothing, as of an instant up to now.                *)
LEMMA GuardedKeeps ==
    ASSUME OverlapInv, HubInv', now' = now,
           NEW w \in Session, NEW r \in SessionRow, NEW asof \in Nat, asof <= now,
           NEW but \in {w, None}, Overlaps(sess, r, asof, but) = {},
           sess' = [sess EXCEPT ![w] = r], made' = [made EXCEPT ![w] = By("guarded", asof)]
    PROVE  OverlapInv'
<1>0. /\ TypeOK /\ GuardedAreDisjoint /\ LaterThanCheck /\ AsOfNow /\ now \in Nat
      /\ r.from \in Nat /\ (r.to # None => r.to \in Nat) /\ r # None
  BY TimeIsNat, TimeAssumption, NoneAssumption DEF OverlapInv, AsOfNow, HubInv, TypeOK, SessionRow
<1>1. /\ sess'[w] = r /\ made'[w].what = "guarded" /\ made'[w].asof = asof
      /\ \A s \in Session : s # w => sess'[s] = sess[s] /\ made'[s] = made[s]
  BY <1>0 DEF TypeOK, Log, By
<1>2. ASSUME NEW o \in Stored, o # w, sess[o].task = r.task, r.to # None
      PROVE  /\ sess[o].from \in Nat
             /\ sess[o].to # None => sess[o].to \in Nat
             /\ \/ sess[o].from >= r.to
                \/ sess[o].to # None /\ sess[o].to <= r.from
                \/ sess[o].to = None /\ asof <= r.from
  <2>1. o # but /\ o \in Session
    BY <1>2, NoneAssumption DEF Stored
  <2>2. ~(sess[o].from < r.to /\ (IF sess[o].to = None THEN asof ELSE sess[o].to) > r.from)
    BY <1>2, <2>1 DEF Overlaps
  <2>3. sess[o].from \in Nat /\ (sess[o].to # None => sess[o].to \in Nat)
    BY <1>0, RowTimes
  <2>4. QED
    BY <1>0, <1>2, <2>2, <2>3
<1>3. ASSUME NEW o \in Session, o # w, Closedness(w)', Closedness(o)', sess'[w].task = sess'[o].task
      PROVE  \A i \in Time : ~(sess[o].from <= i /\ i < sess[o].to /\ r.from <= i /\ i < r.to)
  <2>1. o \in Stored /\ sess[o].to # None /\ r.to # None /\ sess[o].task = r.task
    BY <1>1, <1>3 DEF Closedness, Stored
  <2>2. QED
    BY <1>0, <1>2, <1>3, <2>1, TimeIsNat
<1>4. GuardedAreDisjoint'
  <2> SUFFICES ASSUME NEW s \in Session, NEW o \in Session, s # o, Closedness(s)', Closedness(o)',
                      sess'[s].task = sess'[o].task,
                      made'[s].what = "guarded", made'[o].what = "guarded"
               PROVE  Common(s, o)' = {}
    BY DEF GuardedAreDisjoint
  <2>1. CASE s = w
    BY <1>1, <1>3, <2>1 DEF Common
  <2>2. CASE o = w
    BY <1>1, <1>3, <2>2 DEF Common
  <2>3. CASE s # w /\ o # w
    BY <1>0, <1>1, <2>3 DEF GuardedAreDisjoint, Closedness, Common, Stored
  <2>4. QED
    BY <2>1, <2>2, <2>3
<1>5. LaterThanCheck'
  <2> SUFFICES ASSUME NEW s \in Session, NEW o \in Session, Closedness(s)', o \in Stored',
                      sess'[s].task = sess'[o].task,
                      made'[s].what = "guarded", made'[o].what = "timer",
                      NEW i \in Time, During(s, i)', During(o, i)'
               PROVE  i >= made'[s].asof
    BY DEF LaterThanCheck
  <2>1. o # w /\ sess'[o] = sess[o] /\ made'[o] = made[o] /\ o \in Stored /\ i \in Nat
    BY <1>1, TimeIsNat DEF Stored
  <2>2. CASE s = w
    <3>1. r.to # None /\ sess[o].task = r.task
      BY <1>1, <2>1, <2>2 DEF Closedness
    <3>2. r.from <= i /\ i < r.to /\ sess[o].from <= i /\ (sess[o].to = None \/ i < sess[o].to)
      BY <1>1, <2>1, <2>2, <3>1 DEF During
    <3>3. i >= asof
      BY <1>0, <1>2, <2>1, <3>1, <3>2
    <3>4. QED
      BY <1>1, <2>2, <3>3
  <2>3. CASE s # w
    <3>1. sess'[s] = sess[s] /\ made'[s] = made[s] /\ Closedness(s) /\ During(s, i) /\ During(o, i)
      BY <1>1, <2>1, <2>3 DEF Closedness, Stored, During
    <3>2. QED
      BY <1>0, <2>1, <3>1 DEF LaterThanCheck
  <2>4. QED
    BY <2>2, <2>3
<1>6. AsOfNow'
  BY <1>0, <1>1 DEF AsOfNow
<1>7. QED
  BY <1>4, <1>5, <1>6 DEF OverlapInv, AsOfNow

(* What the hub's batch writes: it ends what it ran, and inserts what it   *)
(* is to run.                                                              *)
LEMMA TimerOverlaps ==
    ASSUME OverlapInv, HubInv', TimerCommit
    PROVE  OverlapInv'
<1> USE DEF hub
<1>0. /\ TypeOK /\ HubKnows /\ GuardedAreDisjoint /\ LaterThanCheck /\ AsOfNow /\ now \in Nat /\ now' = now
      /\ op \in TimerOp /\ op # None /\ op.on \in Session /\ op.at \in Nat /\ op.row \in SessionRow
  BY TimeIsNat, TimeAssumption DEF OverlapInv, AsOfNow, HubInv, TypeOK, TimerCommit, TimerOp
<1> DEFINE new == op.on
<1>1. /\ op.kind # "start" =>
            /\ running \in Session /\ running # None /\ sess[running] \in SessionRow /\ sess[running].to = None
            /\ made[running].what \in {"timer", "late"}
      /\ op.kind # "stop" =>
            /\ new \notin Stored /\ op.row.to = None /\ op.row.from = op.at /\ op.at <= now
  BY <1>0 DEF HubKnows, Coming, Open, Stored, TypeOK, Log
<1>2. ASSUME op.kind # "stop", ~(made' = made /\ sess' = sess)
      PROVE  /\ sess' = [(IF op.kind = "start" THEN sess ELSE Closed(sess, running, op.at)) EXCEPT ![new] = op.row]
             /\ made' = [made EXCEPT ![new] = By(IF op.at = now THEN "timer" ELSE "late", op.at)]
             /\ sess'[new] = op.row /\ sess[new] = None /\ op.row # None
  <2>1. /\ sess' = [(IF op.kind = "start" THEN sess ELSE Closed(sess, running, op.at)) EXCEPT ![new] = op.row]
        /\ made' = [made EXCEPT ![new] = By(IF op.at = now THEN "timer" ELSE "late", op.at)]
    BY <1>2 DEF TimerCommit
  <2>2. new \in DOMAIN sess /\ new \in DOMAIN Closed(sess, running, op.at)
    BY <1>0 DEF TypeOK, Log, Closed
  <2>3. sess'[new] = op.row
    BY <2>1, <2>2
  <2>4. sess[new] = None /\ op.row # None
    BY <1>0, <1>1, <1>2, NoneAssumption DEF Stored
  <2>5. QED
    BY <2>1, <2>3, <2>4
<1> DEFINE lands == op.kind # "stop" /\ sess' # sess
<1>3. lands => /\ sess'[new] = op.row
               /\ made'[new] = By(IF op.at = now THEN "timer" ELSE "late", op.at)
  BY <1>0, <1>2 DEF TypeOK
<1>4. ASSUME NEW s \in Session, ~(s = new /\ lands)
      PROVE  /\ made'[s] = made[s]
             /\ \/ sess'[s] = sess[s]
                \/ op.kind # "start" /\ s = running /\ sess'[s] = [sess[s] EXCEPT !.to = op.at]
  <2>1. CASE op.kind = "stop"
    BY <1>0, <1>1, <1>4, <2>1 DEF TimerCommit, Closed, TypeOK, Log
  <2>2. CASE op.kind # "stop" /\ made' = made /\ sess' = sess
    BY <2>2
  <2>3. CASE op.kind # "stop" /\ ~(made' = made /\ sess' = sess)
    <3>1. s # new
      BY <1>2, <1>4, <2>3
    <3>2. made'[s] = made[s]
      BY <1>0, <1>2, <2>3, <3>1 DEF TypeOK
    <3>3. CASE op.kind = "start"
      BY <1>0, <1>2, <2>3, <3>1, <3>2, <3>3 DEF TypeOK, Log
    <3>4. CASE op.kind # "start"
      <4>1. sess' = [[sess EXCEPT ![running] = [sess[running] EXCEPT !.to = op.at]] EXCEPT ![new] = op.row]
        BY <1>2, <2>3, <3>4 DEF Closed
      <4>2. QED
        BY <1>0, <1>1, <3>1, <3>2, <3>4, <4>1 DEF TypeOK, Log
    <3>5. QED
      BY <3>3, <3>4
  <2>4. QED
    BY <2>1, <2>2, <2>3
<1>5. ASSUME NEW s \in Session, Closedness(s)', made'[s].what = "guarded"
      PROVE  sess'[s] = sess[s] /\ made'[s] = made[s] /\ Closedness(s)
  <2>1. ~(s = new /\ lands)
    BY <1>1, <1>3, <1>5 DEF By, Closedness
  <2>2. QED
    BY <1>1, <1>4, <1>5, <2>1 DEF Closedness, Stored
<1>6. GuardedAreDisjoint'
  BY <1>0, <1>5 DEF GuardedAreDisjoint, Common
<1>7. LaterThanCheck'
  <2> SUFFICES ASSUME NEW s \in Session, NEW o \in Session, Closedness(s)', o \in Stored',
                      sess'[s].task = sess'[o].task,
                      made'[s].what = "guarded", made'[o].what = "timer",
                      NEW i \in Time, During(s, i)', During(o, i)'
               PROVE  i >= made'[s].asof
    BY DEF LaterThanCheck
  <2>1. sess'[s] = sess[s] /\ made'[s] = made[s] /\ Closedness(s) /\ During(s, i)
    BY <1>5 DEF During
  <2>2. CASE o = new /\ lands
    <3>1. op.row.from <= i /\ op.at = now /\ op.row.from = op.at
      BY <1>1, <1>3, <2>2 DEF During, By
    <3>2. made[s].asof <= now /\ made[s].asof \in Nat /\ i \in Nat
      BY <1>0, RowTimes, TimeIsNat DEF AsOfNow
    <3>3. QED
      BY <1>0, <2>1, <3>1, <3>2
  <2>3. CASE ~(o = new /\ lands)
    <3>1. /\ made'[o] = made[o]
          /\ \/ sess'[o] = sess[o]
             \/ /\ o = running /\ sess'[o] = [sess[o] EXCEPT !.to = op.at]
                /\ sess[o] \in SessionRow /\ sess[o].to = None
      BY <1>1, <1>4, <2>3
    <3>2. o \in Stored /\ sess'[o].task = sess[o].task /\ During(o, i)
      BY <3>1, NoneAssumption DEF During, SessionRow, Stored
    <3>3. QED
      BY <1>0, <2>1, <3>1, <3>2 DEF LaterThanCheck
  <2>4. QED
    BY <2>2, <2>3
<1>8. AsOfNow'
  <2>1. \A s \in Session : made'[s] = made[s] \/ (made'[s].asof = op.at /\ op.at <= now)
    <3>1. lands => made'[new].asof = op.at /\ op.at <= now
      BY <1>1, <1>3 DEF By
    <3>2. QED
      BY <1>4, <3>1
  <2>2. QED
    BY <1>0, <2>1 DEF AsOfNow
<1>9. QED
  BY <1>6, <1>7, <1>8 DEF OverlapInv, AsOfNow

LEMMA RequestOverlaps ==
    ASSUME OverlapInv, HubInv', NEW t \in Thread, Request(t)
    PROVE  OverlapInv'
<1>0. TypeOK /\ HandsOff /\ AsOfNow /\ now \in Nat /\ now' = now
  BY RequestLeavesHub, TimeAssumption DEF OverlapInv, AsOfNow, HubInv, TypeOK
<1>1. CASE sess' = sess /\ made' = made
  BY <1>0, <1>1, BulkKeeps
<1>2. ASSUME NEW kind \in {"create", "patch", "delete", "restore"}, At(t, kind, "write")
      PROVE  /\ reqs[t].on \in Session /\ reqs[t].row \in SessionRow
             /\ reqs[t].asof \in Nat /\ reqs[t].asof <= now
  <2>1. InHand(reqs[t]) /\ Names(reqs[t]) = {reqs[t].on}
    BY <1>0, <1>2, PlainType DEF HandsOff
  <2>2. QED
    BY <1>0, <1>2, <2>1, PlainType DEF InHand
<1>3. CASE CommitCreate(t) /\ InsertSessionGuarded(reqs[t])
  BY <1>0, <1>2, <1>3, GuardedKeeps DEF CommitCreate, InsertSessionGuarded
<1>4. CASE CommitPatch(t) /\ ~(sess' = sess /\ made' = made)
  BY <1>0, <1>2, <1>4, GuardedKeeps DEF CommitPatch, UpdateSessionGuarded
<1>5. CASE CommitDelete(t)
  <2>1. \A s \in Session : (sess'[s] = sess[s] \/ sess'[s] = None) /\ made'[s] = made[s]
    BY <1>0, <1>2, <1>5 DEF CommitDelete, TypeOK, Log
  <2>2. QED
    BY <1>0, <2>1, BulkKeeps
<1>6. CASE (RestoreSession(t) \/ ImportSession(t)) /\ ~(sess' = sess /\ made' = made)
  <2>1. PICK w \in Session, i \in Nat :
          /\ i <= now /\ made' = [made EXCEPT ![w] = By("bulk", i)]
          /\ \E r : sess' = [sess EXCEPT ![w] = r]
    <3>1. CASE RestoreSession(t)
      BY <1>0, <1>2, <1>6, <3>1 DEF RestoreSession
    <3>2. CASE ImportSession(t)
      <4>1. reqs[t].on \subseteq Session
        BY <1>0, <3>2, ImportType DEF ImportSession
      <4>2. QED
        BY <1>0, <1>6, <3>2, <4>1 DEF ImportSession
    <3>3. QED
      BY <1>6, <3>1, <3>2
  <2>2. /\ made'[w].what = "bulk" /\ made'[w].asof = i
        /\ \A s \in Session : s # w => sess'[s] = sess[s] /\ made'[s] = made[s]
    BY <1>0, <2>1 DEF TypeOK, Log, By
  <2>3. QED
    BY <1>0, <2>1, <2>2, BulkKeeps
<1>7. QED
  BY <1>1, <1>3, <1>4, <1>5, <1>6 DEF Request, CreateSession, ReadSession, PatchSession, DeleteSession,
     Refuse, Restore, Import, CommitCreate, CommitPatch, RestoreSession, ImportSession

LEMMA OverlapStep ==
    OverlapInv /\ [Next]_vars => OverlapInv'
<1> SUFFICES ASSUME OverlapInv, [Next]_vars
             PROVE  OverlapInv'
  OBVIOUS
<1> USE DEF hub
<1>0. TypeOK /\ HubInv' /\ now \in Nat
  BY HubStep, TimeAssumption DEF OverlapInv, HubInv, TypeOK
<1>1. CASE Tick
  <2>1. UNCHANGED <<sess, made>> /\ now' = now + 1
    BY <1>1 DEF Tick
  <2>2. GuardedAreDisjoint' /\ LaterThanCheck'
    BY <2>1 DEF OverlapInv, GuardedAreDisjoint, LaterThanCheck, Closedness, Stored, Common, During
  <2>3. AsOfNow'
    BY <1>0, <2>1, RowTimes DEF OverlapInv, AsOfNow
  <2>4. QED
    BY <1>0, <2>2, <2>3 DEF OverlapInv, AsOfNow
<1>2. CASE Export \/ UNCHANGED vars \/ TimerStart \/ TimerStop \/ TimerSwitch
  <2>1. UNCHANGED <<sess, made, now>>
    BY <1>2 DEF Export, vars, TimerStart, TimerStop, TimerSwitch, TimerBegins
  <2>2. QED
    BY <1>0, <2>1, BulkKeeps
<1>3. CASE TimerCommit
  BY <1>0, <1>3, TimerOverlaps
<1>4. CASE \E t \in Thread : Request(t)
  BY <1>0, <1>4, RequestOverlaps
<1>5. QED
  BY <1>1, <1>2, <1>3, <1>4 DEF Next, Timer

LEMMA OverlapInit ==
    Init => OverlapInv
<1> SUFFICES ASSUME Init
             PROVE  OverlapInv
  OBVIOUS
<1>1. Stored = {} /\ \A s \in Session : made[s].asof <= now
  BY DEF Init, Stored, By
<1>2. QED
  BY <1>1, HubInit DEF OverlapInv, GuardedAreDisjoint, LaterThanCheck, Closedness

(* INV-03: two sessions entered or edited by hand never claim the same     *)
(* time of the same task, whatever requests raced: the statement looks     *)
(* again.                                                                  *)
THEOREM NoGuardedOverlap == Spec => []GuardedAreDisjoint
<1>1. OverlapInv => GuardedAreDisjoint
  BY DEF OverlapInv
<1>2. QED
  BY <1>1, OverlapInit, OverlapStep, PTL DEF Spec

(* What a manual session shares with one of the timer was still to come    *)
(* when the manual one was checked.                                        *)
THEOREM SharedTimeIsLater == Spec => []TimerOverlapIsLater
<1>1. OverlapInv => TimerOverlapIsLater
  BY DEF OverlapInv, LaterThanCheck, TimerOverlapIsLater, Closedness, Common, During
<1>2. QED
  BY <1>1, OverlapInit, OverlapStep, PTL DEF Spec
=============================================================================
