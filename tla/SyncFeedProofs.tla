--------------------------- MODULE SyncFeedProofs ---------------------------
(***************************************************************************)
(* What SyncFeed's invariants say for every number of devices, entities,   *)
(* mutations and polls, proved with TLAPS.                                 *)
(***************************************************************************)
EXTENDS SyncFeedChecks, SequenceTheorems, FiniteSetTheorems, WellFoundedInduction, TLAPS

(* The latest of some events of a range is one of them, and the last: what *)
(* Newest relies on.                                                       *)
LEMMA MaxOfRange ==
    ASSUME NEW lo \in Int, NEW hi \in Int, NEW S \in SUBSET (lo..hi), S # {}
    PROVE  Max(S) \in S /\ \A x \in S : x <= Max(S)
<1> DEFINE D == lo..hi
           R == StrictSubsetOrdering(D)
           T == {x..hi : x \in S}
<1>1. IsWellFoundedOn(R, SUBSET D)
  <2>1. FiniteSubsetsOf(D) = SUBSET D
    BY FS_Interval, FS_FiniteSubsetsOfFinite
  <2>2. QED
    BY <2>1, FS_StrictSubsetOrderingWellFounded
<1>2. T \subseteq SUBSET D /\ T # {}
  <2>1. \A x \in S : x \in Int /\ x..hi \subseteq D
    OBVIOUS
  <2>2. QED
    BY <2>1
<1>3. PICK t \in T : \A u \in T : ~(<<u, t>> \in R)
  <2> HIDE DEF R, T, D
  <2>1. QED
    BY <1>1, <1>2, WFMin
<1>4. PICK x \in S : t = x..hi
  BY <1>3
<1>5. ASSUME NEW y \in S, y > x
      PROVE  FALSE
  <2>1. y..hi \in T /\ y..hi \subseteq x..hi /\ y..hi # x..hi
    BY <1>5
  <2>2. QED
    BY <2>1, <1>2, <1>3, <1>4 DEF StrictSubsetOrdering
<1>6. \A y \in S : x >= y
  BY <1>5
<1>7. QED
  BY <1>6 DEF Max

(* What is taken of some events is a first part of them.                   *)
LEMMA TakenWithin ==
    ASSUME NEW d, NEW lo \in Int, NEW hi \in Int, lo <= hi
    PROVE  Taken(d, lo, hi) \in Int /\ lo <= Taken(d, lo, hi) /\ Taken(d, lo, hi) <= hi
<1> DEFINE S == {i \in lo..hi : \A j \in (lo + 1)..i : ~Refuses(d, j)}
<1>1. S \in SUBSET (lo..hi) /\ lo \in S
  OBVIOUS
<1>2. Taken(d, lo, hi) = Max(S)
  BY DEF Taken
<1> HIDE DEF S
<1>3. Max(S) \in S /\ \A x \in S : x <= Max(S)
  BY <1>1, MaxOfRange
<1>4. Max(S) \in lo..hi
  BY <1>1, <1>3
<1>5. QED
  BY <1>1, <1>2, <1>3, <1>4

LEMMA MaxOfTwo ==
    \A x, y \in Int : Max({x, y}) = IF x < y THEN y ELSE x
  BY DEF Max

LEMMA MinOfTwo ==
    \A x, y \in Int : Min({x, y}) = IF x < y THEN x ELSE y
  BY DEF Min

(* GET /sync never goes back, nor beyond the log.                          *)
LEMMA PageEnds ==
    ASSUME NEW since \in Nat, Len(log) \in Nat
    PROVE  /\ LastOfPage(since) \in Nat /\ since <= LastOfPage(since)
           /\ since <= Len(log) => LastOfPage(since) <= Len(log)
<1> DEFINE end == since + PageSize
           m == Min({Len(log), end})
<1>1. m = IF Len(log) < end THEN Len(log) ELSE end
  BY PageAssumption, MinOfTwo
<1>2. m \in Nat /\ m <= Len(log)
  BY <1>1, PageAssumption
<1> HIDE DEF m
<1>3. Max({since, m}) = IF since < m THEN m ELSE since
  BY <1>2, MaxOfTwo
<1>4. QED
  BY <1>2, <1>3 DEF LastOfPage, m

LEMMA NewestType ==
    ASSUME NEW lo \in Int, NEW hi \in Int, NEW ids \in SUBSET (lo..hi), ids \subseteq Nat,
           NEW k, NEW old \in Nat
    PROVE  Newest(ids, k, old) \in Nat
<1> DEFINE hits == {i \in ids : log[i].key = k}
<1>1. CASE hits = {}
  BY <1>1 DEF Newest
<1>2. CASE hits # {}
  <2>1. hits \in SUBSET (lo..hi) /\ hits \subseteq Nat
    OBVIOUS
  <2>2. Max(hits) \in hits
    BY <1>2, <2>1, MaxOfRange
  <2>3. QED
    BY <1>2, <2>1, <2>2 DEF Newest
<1>3. QED
  BY <1>1, <1>2

PollRecord == [since : Nat, left : Nat, upto : Nat \cup {None}]

LEMMA StartsPollType ==
    ASSUME TypeOK, NEW d \in Device, StartsPoll(d)
    PROVE  polls' \in [Device -> [Slot -> {None} \cup PollRecord]]
<1>1. Poll(lastEventId[d], MaxDrain) \in PollRecord
  BY PageAssumption DEF TypeOK, Poll, PollRecord
<1>2. QED
  BY <1>1 DEF TypeOK, StartsPoll, Free, PollRecord

LEMMA ApplyEventsType ==
    ASSUME TypeOK, NEW d \in Device, NEW lo \in Int, NEW hi \in Int, lo >= -1, ApplyEvents(d, lo, hi)
    PROVE  /\ view' \in [Device -> [Key -> Nat]]
           /\ lastEventId' \in [Device -> Nat]
           /\ applied' \in [Device -> SUBSET Nat]
<1> DEFINE ids == Foreign(d, lo, hi)
<1>1. ids \in SUBSET ((lo + 1)..hi) /\ ids \subseteq Nat
  BY DEF Foreign
<1>2. [k \in Key |-> Newest(ids, k, view[d][k])] \in [Key -> Nat]
  <2>1. SUFFICES ASSUME NEW k \in Key
                 PROVE  Newest(ids, k, view[d][k]) \in Nat
    OBVIOUS
  <2>2. view[d][k] \in Nat /\ lo + 1 \in Int
    BY DEF TypeOK
  <2>3. hi \in Int /\ view[d][k] \in Nat /\ ids \subseteq Nat /\ ids \in SUBSET ((lo + 1)..hi)
    BY <1>1, <2>2
  <2> HIDE DEF ids
  <2>4. QED
    BY <2>2, <2>3, NewestType
<1>3. (IF lo < hi THEN Max({lastEventId[d], hi}) ELSE lastEventId[d]) \in Nat
  <2>1. lastEventId[d] \in Nat
    BY DEF TypeOK
  <2>2. Max({lastEventId[d], hi}) = IF lastEventId[d] < hi THEN hi ELSE lastEventId[d]
    BY <2>1, MaxOfTwo
  <2>3. QED
    BY <2>1, <2>2
<1> HIDE DEF ids
<1>4. view' = [view EXCEPT ![d] = [k \in Key |-> Newest(ids, k, view[d][k])]]
      /\ lastEventId' = [lastEventId EXCEPT ![d] = IF lo < hi THEN Max({lastEventId[d], hi}) ELSE lastEventId[d]]
      /\ applied' = [applied EXCEPT ![d] = applied[d] \cup ids]
  BY DEF ApplyEvents, ids
<1>5. QED
  BY <1>1, <1>2, <1>3, <1>4 DEF TypeOK

FrameSet == [type : {"hello", "event"}, id : Nat]

(* Every step keeps the types.                                             *)
LEMMA TypeStep ==
    ASSUME TypeOK, PollsFollow, [Next]_vars
    PROVE  TypeOK'
<1> USE NoneAssumption, PageAssumption
<1>1. ASSUME NEW w \in Writers, NEW k \in Key, Mutate(w, k)
      PROVE  TypeOK'
  <2>1. log' \in Seq([actor : Writers, key : Key]) /\ Len(log') \in Nat
    BY <1>1 DEF TypeOK, Mutate
  <2>2. notes' \subseteq Nat /\ replies' \in [Device -> SUBSET Nat]
    BY <1>1, <2>1 DEF TypeOK, Mutate
  <2>3. QED
    BY <1>1, <2>1, <2>2 DEF TypeOK, Mutate, hubVars, linkVars, storeVars
<1>2. ASSUME NEW d \in Device, NEW i \in replies[d], Reply(d, i)
      PROVE  TypeOK'
  BY <1>2 DEF TypeOK, Reply, hubVars, linkVars
<1>3. ASSUME NEW d \in Device, NEW i \in replies[d], LoseReply(d, i)
      PROVE  TypeOK'
  BY <1>3 DEF TypeOK, LoseReply, hubVars, linkVars, storeVars
<1>4. ASSUME NEW i \in notes, LoseNotify(i)
      PROVE  TypeOK'
  BY <1>4 DEF TypeOK, LoseNotify, hubVars, linkVars, storeVars
<1>5. CASE HubReads
  BY <1>5 DEF TypeOK, HubReads, linkVars, storeVars
<1>6. CASE HubLoads
  BY <1>6 DEF TypeOK, HubLoads, linkVars, storeVars
<1>7. CASE Evict
  BY <1>7 DEF TypeOK, Evict, linkVars, storeVars
<1>8. ASSUME NEW i \in notes, Notify(i)
      PROVE  TypeOK'
  <2>1. Frame(i) \in FrameSet /\ hubLast' \in Nat
    <3>1. hubLast \in Nat /\ i \in Nat /\ hubLast' = Max({hubLast, i})
      BY <1>8 DEF TypeOK, Notify
    <3>2. Max({hubLast, i}) = IF hubLast < i THEN i ELSE hubLast
      BY <3>1, MaxOfTwo
    <3>3. QED
      BY <3>1, <3>2 DEF Frame, FrameSet
  <2>2. \A d \in Device : Append(queue[d], Frame(i)) \in Seq(FrameSet)
    BY <2>1 DEF TypeOK, FrameSet
  <2>3. queue' \in [Device -> Seq(FrameSet)]
    BY <1>8, <2>2 DEF TypeOK, Notify, FrameSet
  <2>4. QED
    BY <1>8, <2>1, <2>3 DEF TypeOK, Notify, storeVars, FrameSet
<1>9. ASSUME NEW d \in Device, Accept(d)
      PROVE  TypeOK'
  <2>1. Hello \in FrameSet
    BY DEF TypeOK, Hello, FrameSet
  <2>2. queue' \in [Device -> Seq(FrameSet)]
    BY <1>9, <2>1 DEF TypeOK, Accept, FrameSet
  <2>3. QED
    BY <1>9, <2>2 DEF TypeOK, Accept, hubVars, storeVars, FrameSet
<1>10. ASSUME NEW d \in Device, Client(d)
       PROVE  TypeOK'
  <2>1. CASE Open(d)
    <3>1. polls' \in [Device -> [Slot -> {None} \cup PollRecord]]
      BY <2>1, StartsPollType DEF Open, TypeOK, PollRecord
    <3>2. QED
      BY <2>1, <3>1 DEF TypeOK, Open, hubVars, storeVars, PollRecord
  <2>2. CASE Close(d)
    BY <2>2 DEF TypeOK, Close, hubVars, storeVars
  <2>3. CASE Receive(d)
    <3>1. Head(queue[d]) \in FrameSet /\ Tail(queue[d]) \in Seq(FrameSet)
      <4>1. queue[d] \in Seq(FrameSet) /\ queue[d] # <<>>
        BY <2>3 DEF TypeOK, Receive, FrameSet
      <4>2. QED
        BY <4>1, HeadTailProperties
    <3>2. queue' \in [Device -> Seq(FrameSet)]
      BY <2>3, <3>1 DEF TypeOK, Receive, FrameSet
    <3>3. /\ view' \in [Device -> [Key -> Nat]]
          /\ lastEventId' \in [Device -> Nat]
          /\ applied' \in [Device -> SUBSET Nat]
      <4>1. Head(queue[d]).id \in Nat
        BY <3>1 DEF FrameSet
      <4>2. CASE Head(queue[d]).type = "hello"
        <5> DEFINE n == Head(queue[d]).id
        <5>1. n \in Nat /\ lastEventId[d] \in Nat
          BY <4>1 DEF TypeOK
        <5>2. Max({lastEventId[d], n}) = IF lastEventId[d] < n THEN n ELSE lastEventId[d]
          BY <5>1, MaxOfTwo
        <5>3. lastEventId' = [lastEventId EXCEPT ![d] = Max({lastEventId[d], n})] /\ UNCHANGED <<view, applied>>
          BY <2>3, <4>2 DEF Receive
        <5>4. QED
          BY <5>1, <5>2, <5>3 DEF TypeOK
      <4>3. CASE Head(queue[d]).type # "hello"
        <5> DEFINE n == Head(queue[d]).id
        <5>1. ApplyEvents(d, n - 1, Taken(d, n - 1, n))
          BY <2>3, <4>3 DEF Receive
        <5>2. n - 1 \in Int /\ n - 1 >= -1 /\ n \in Int /\ n - 1 <= n
          BY <4>1
        <5> HIDE DEF n
        <5>3. Taken(d, n - 1, n) \in Int
          BY <5>2, TakenWithin
        <5>4. QED
          BY <5>1, <5>2, <5>3, ApplyEventsType
      <4>4. QED
        BY <4>2, <4>3
    <3>4. QED
      BY <2>3, <3>2, <3>3 DEF TypeOK, Receive, hubVars, FrameSet
  <2>4. CASE PollStarts(d)
    BY <2>4, StartsPollType DEF TypeOK, PollStarts, hubVars, linkVars, storeVars, PollRecord
  <2>5. ASSUME NEW p \in Slot, Sync(d, p)
        PROVE  TypeOK'
    <3>1. polls[d][p] \in PollRecord
      BY <2>5 DEF TypeOK, Sync, PollRecord
    <3>2. LastOfPage(polls[d][p].since) \in Nat
      <4>1. polls[d][p].since \in Nat /\ Len(log) \in Nat
        BY <3>1 DEF TypeOK, PollRecord
      <4>2. QED
        BY <4>1, PageEnds
    <3>3. polls' \in [Device -> [Slot -> {None} \cup PollRecord]]
      BY <2>5, <3>1, <3>2 DEF TypeOK, Sync, PollRecord
    <3>4. QED
      BY <2>5, <3>3 DEF TypeOK, Sync, hubVars, linkVars, storeVars, PollRecord
  <2>6. ASSUME NEW p \in Slot, PollApplies(d, p)
        PROVE  TypeOK'
    <3> DEFINE q == polls[d][p]
               last == Taken(d, q.since, q.upto)
    <3>1. q \in PollRecord /\ q.since \in Nat /\ q.upto \in Nat /\ q.since <= q.upto
      BY <2>6 DEF TypeOK, PollsFollow, PollApplies, PollRecord
    <3>2. ApplyEvents(d, q.since, last) /\ last \in Int
      BY <2>6, <3>1, TakenWithin DEF PollApplies
    <3>3. /\ view' \in [Device -> [Key -> Nat]]
          /\ lastEventId' \in [Device -> Nat]
          /\ applied' \in [Device -> SUBSET Nat]
      BY <3>1, <3>2, ApplyEventsType
    <3>4. q.left > 0 => Poll(lastEventId'[d], q.left - 1) \in PollRecord
      BY <3>1, <3>3 DEF Poll, PollRecord
    <3>5. polls' \in [Device -> [Slot -> {None} \cup PollRecord]]
      BY <2>6, <3>4 DEF TypeOK, PollApplies, PollRecord
    <3>6. QED
      BY <2>6, <3>3, <3>5 DEF TypeOK, PollApplies, hubVars, linkVars, PollRecord
  <2>7. ASSUME NEW p \in Slot, PollFails(d, p)
        PROVE  TypeOK'
    BY <2>7 DEF TypeOK, PollFails, hubVars, linkVars, storeVars
  <2>8. QED
    BY <1>10, <2>1, <2>2, <2>3, <2>4, <2>5, <2>6, <2>7 DEF Client
<1>11. CASE UNCHANGED vars
  BY <1>11 DEF TypeOK, vars, hubVars, linkVars, storeVars
<1>12. QED
  BY <1>1, <1>2, <1>3, <1>4, <1>5, <1>6, <1>7, <1>8, <1>9, <1>10, <1>11 DEF Next, Worker, Hub

LEMMA TypeInit ==
    ASSUME Init
    PROVE  TypeOK
<1>1. log \in Seq([actor : Writers, key : Key])
  BY DEF Init
<1>2. queue \in [Device -> Seq([type : {"hello", "event"}, id : Nat])]
  BY DEF Init
<1>3. view \in [Device -> [Key -> Nat]]
  BY DEF Init
<1>4. /\ notes \subseteq Nat /\ lost \subseteq Nat /\ pollOnly \subseteq Device
      /\ hubLast \in Nat /\ loading \in Nat \cup {None} /\ loaded \in BOOLEAN
      /\ sock \in [Device -> {"closed", "accepted", "open"}]
      /\ lastEventId \in [Device -> Nat]
      /\ replies \in [Device -> SUBSET Nat] /\ applied \in [Device -> SUBSET Nat]
  BY DEF Init
<1>5. polls \in [Device -> [Slot -> {None} \cup [since : Nat, left : Nat, upto : Nat \cup {None}]]]
  BY DEF Init
<1>6. QED
  BY <1>1, <1>2, <1>3, <1>4, <1>5 DEF TypeOK

-----------------------------------------------------------------------------
(* The cursors.                                                            *)

LEMMA FeedInit ==
    ASSUME Init
    PROVE  FeedInv
<1>1. TypeOK
  BY TypeInit
<1>2. CursorInLog
  BY DEF Init, CursorInLog
<1>3. HubReadsLog
  BY DEF Init, HubReadsLog
<1>4. PollsFollow
  BY DEF Init, PollsFollow
<1>5. PollOnlyIsClosed
  BY DEF Init, PollOnlyIsClosed
<1>6. FallbackMissesNothing
  BY DEF Init, FallbackMissesNothing
<1>7. QED
  BY <1>1, <1>2, <1>3, <1>4, <1>5, <1>6 DEF FeedInv

(* A mutation only lengthens the log.                                      *)
LEMMA LogGrows ==
    ASSUME TypeOK, NEW w \in Writers, NEW k \in Key, Mutate(w, k)
    PROVE  /\ Len(log) \in Nat /\ Len(log') = Len(log) + 1
           /\ \A i \in 1..Len(log) : log'[i] = log[i]
           /\ log'[Len(log')] = [actor |-> w, key |-> k]
  BY AppendProperties DEF TypeOK, Mutate

(* Applying events moves the cursor on, to the last of them at most.       *)
LEMMA CursorMoves ==
    ASSUME TypeOK, NEW d \in Device, NEW lo \in Int, NEW hi \in Int, ApplyEvents(d, lo, hi)
    PROVE  /\ \A e \in Device : lastEventId[e] <= lastEventId'[e]
           /\ lastEventId'[d] \in {lastEventId[d], hi}
           /\ lo < hi => hi <= lastEventId'[d]
           /\ \A e \in Device \ {d} : lastEventId'[e] = lastEventId[e] /\ applied'[e] = applied[e]
           /\ applied'[d] = applied[d] \cup Foreign(d, lo, hi)
<1> DEFINE c == IF lo < hi THEN Max({lastEventId[d], hi}) ELSE lastEventId[d]
<1>1. lastEventId[d] \in Nat /\ \A e \in Device : lastEventId[e] \in Nat
  BY DEF TypeOK
<1>2. Max({lastEventId[d], hi}) = IF lastEventId[d] < hi THEN hi ELSE lastEventId[d]
  BY <1>1, MaxOfTwo
<1>3. lastEventId[d] <= c /\ c \in {lastEventId[d], hi} /\ (lo < hi => hi <= c)
  BY <1>1, <1>2
<1> HIDE DEF c
<1>4. lastEventId' = [lastEventId EXCEPT ![d] = c] /\ applied' = [applied EXCEPT ![d] = applied[d] \cup Foreign(d, lo, hi)]
  BY DEF ApplyEvents, c
<1>5. QED
  BY <1>1, <1>3, <1>4 DEF TypeOK

LEMMA QueuedType ==
    ASSUME TypeOK, NEW d \in Device, NEW n \in DOMAIN queue[d]
    PROVE  queue[d][n] \in FrameSet /\ queue[d][n].id \in Nat
<1>1. queue[d] \in Seq(FrameSet)
  BY DEF TypeOK, FrameSet
<1>2. queue[d][n] \in FrameSet
  BY <1>1, ElementOfSeq
<1>3. QED
  BY <1>2 DEF FrameSet

LEMMA StartsPollFollows ==
    ASSUME FeedInv, NEW d \in Device, StartsPoll(d), lastEventId' = lastEventId, log' = log
    PROVE  PollsFollow'
<1>1. PICK p \in Free(d) : polls' = [polls EXCEPT ![d][p] = Poll(lastEventId[d], MaxDrain)]
  BY DEF StartsPoll
<1>2. ASSUME NEW e \in Device, NEW r \in Slot
      PROVE  polls'[e][r] = polls[e][r] \/ (e = d /\ polls'[e][r] = Poll(lastEventId[d], MaxDrain))
  BY <1>1 DEF FeedInv, TypeOK, Free
<1>3. lastEventId[d] \in Nat
  BY DEF FeedInv, TypeOK
<1>4. Poll(lastEventId[d], MaxDrain).since = lastEventId[d] /\ Poll(lastEventId[d], MaxDrain).upto = None
  BY DEF Poll
<1>5. QED
  BY <1>2, <1>3, <1>4 DEF FeedInv, PollsFollow

(* Every step keeps hub, devices and polls within the log.                 *)
LEMMA CursorStep ==
    ASSUME FeedInv, [Next]_vars
    PROVE  CursorInLog' /\ HubReadsLog' /\ PollsFollow'
<1> USE NoneAssumption DEF FeedInv
<1> DEFINE Within == CursorInLog' /\ HubReadsLog' /\ PollsFollow'
<1>0. Len(log) \in Nat /\ hubLast \in Nat /\ \A d \in Device : lastEventId[d] \in Nat
  BY DEF TypeOK
<1>01. \A d \in Device : lastEventId'[d] \in Nat
  <2>1. TypeOK'
    BY TypeStep
  <2>2. QED
    BY <2>1 DEF TypeOK
<1>02. \A d \in Device, p \in Slot : polls[d][p] # None => polls[d][p].since \in Nat
  BY DEF TypeOK
<1>1. ASSUME NEW w \in Writers, NEW k \in Key, Mutate(w, k)
      PROVE  Within
  <2>1. Len(log') = Len(log) + 1
    BY <1>1, LogGrows
  <2>2. CursorInLog'
    <3>1. \A d \in Device : \A n \in DOMAIN queue[d] : queue[d][n].id \in Nat
      BY QueuedType
    <3>2. QED
      BY <1>0, <1>1, <2>1, <3>1 DEF CursorInLog, Mutate, hubVars, linkVars, storeVars
  <2>3. HubReadsLog'
    BY <1>0, <1>1, <2>1 DEF TypeOK, HubReadsLog, Mutate, hubVars
  <2>4. PollsFollow'
    BY <1>0, <1>1, <2>1 DEF TypeOK, PollsFollow, Mutate, storeVars
  <2>5. QED
    BY <2>2, <2>3, <2>4
<1>2. ASSUME NEW d \in Device, NEW i \in replies[d], Reply(d, i) \/ LoseReply(d, i)
      PROVE  Within
  BY <1>2 DEF Reply, LoseReply, CursorInLog, HubReadsLog, PollsFollow, hubVars, linkVars, storeVars
<1>3. ASSUME NEW i \in notes, LoseNotify(i)
      PROVE  Within
  BY <1>3 DEF LoseNotify, CursorInLog, HubReadsLog, PollsFollow, hubVars, linkVars, storeVars
<1>4. CASE HubReads \/ HubLoads \/ Evict
  BY <1>0, <1>4 DEF HubReads, HubLoads, Evict, CursorInLog, HubReadsLog, PollsFollow, linkVars, storeVars
<1>5. ASSUME NEW i \in notes, Notify(i)
      PROVE  Within
  <2>1. i \in Nat /\ i <= Len(log)
    BY DEF TypeOK, HubReadsLog
  <2>2. hubLast' <= Len(log)
    <3>1. Max({hubLast, i}) = IF hubLast < i THEN i ELSE hubLast
      BY <1>0, <2>1, MaxOfTwo
    <3>2. QED
      BY <1>5, <2>1, <3>1 DEF Notify, CursorInLog
  <2>3. ASSUME NEW d \in Device, NEW n \in DOMAIN queue'[d]
        PROVE  queue'[d][n].id <= Len(log)
    <3>1. queue[d] \in Seq([type : {"hello", "event"}, id : Nat]) /\ Frame(i) \in [type : {"hello", "event"}, id : Nat]
      BY <2>1 DEF TypeOK, Frame
    <3>2. CASE queue'[d] = queue[d]
      BY <2>3, <3>2 DEF CursorInLog
    <3>3. CASE queue'[d] = Append(queue[d], Frame(i))
      <4>1. n \in 1..(Len(queue[d]) + 1)
        BY <2>3, <3>1, <3>3
      <4>2. CASE n \in 1..Len(queue[d])
        BY <3>1, <3>3, <4>2 DEF CursorInLog
      <4>3. CASE n = Len(queue[d]) + 1
        BY <2>1, <3>1, <3>3, <4>3 DEF Frame
      <4>4. QED
        BY <3>1, <4>1, <4>2, <4>3
    <3>4. QED
      BY <1>5, <3>2, <3>3 DEF Notify
  <2>4. QED
    BY <1>5, <2>2, <2>3 DEF Notify, CursorInLog, HubReadsLog, PollsFollow, storeVars
<1>6. ASSUME NEW d \in Device, Accept(d)
      PROVE  Within
  <2>1. ASSUME NEW e \in Device, NEW n \in DOMAIN queue'[e]
        PROVE  queue'[e][n].id <= Len(log)
    <3>1. CASE e = d
      <4>1. queue'[e] = <<Hello>>
        BY <1>6, <3>1 DEF Accept, TypeOK
      <4>2. n = 1 /\ queue'[e][n] = Hello
        BY <2>1, <4>1
      <4>3. QED
        BY <4>2 DEF Hello, CursorInLog
    <3>2. CASE e # d
      BY <1>6, <2>1, <3>2 DEF Accept, TypeOK, CursorInLog
    <3>3. QED
      BY <3>1, <3>2
  <2>2. QED
    BY <1>6, <2>1 DEF Accept, CursorInLog, HubReadsLog, PollsFollow, hubVars, storeVars
<1>7. ASSUME NEW d \in Device, Client(d)
      PROVE  Within
  <2>1. CASE Open(d)
    BY <1>0, <2>1, StartsPollFollows DEF Open, CursorInLog, HubReadsLog, PollsFollow, hubVars, storeVars
  <2>2. CASE Close(d)
    <3>1. \A e \in Device : queue'[e] = queue[e] \/ queue'[e] = <<>>
      BY <2>2 DEF Close, TypeOK
    <3>2. QED
      BY <2>2, <3>1 DEF Close, CursorInLog, HubReadsLog, PollsFollow, hubVars, storeVars
  <2>3. CASE Receive(d)
    <3> DEFINE n == Head(queue[d]).id
    <3>1. 1 \in DOMAIN queue[d] /\ queue[d][1] = Head(queue[d])
      BY <2>3 DEF TypeOK, Receive
    <3>2. n \in Nat /\ n <= Len(log)
      BY <3>1, QueuedType DEF CursorInLog
    <3>3. /\ \A e \in Device : lastEventId[e] <= lastEventId'[e] /\ lastEventId'[e] <= Len(log)
      <4>1. CASE Head(queue[d]).type = "hello"
        <5>1. Max({lastEventId[d], n}) = IF lastEventId[d] < n THEN n ELSE lastEventId[d]
          BY <1>0, <3>2, MaxOfTwo
        <5>2. lastEventId' = [lastEventId EXCEPT ![d] = Max({lastEventId[d], n})]
          BY <2>3, <4>1 DEF Receive
        <5>3. QED
          BY <1>0, <3>2, <5>1, <5>2 DEF TypeOK, CursorInLog
      <4>2. CASE Head(queue[d]).type # "hello"
        <5> DEFINE t == Taken(d, n - 1, n)
        <5>1. ApplyEvents(d, n - 1, t) /\ n - 1 \in Int /\ n \in Int /\ n - 1 <= n
          BY <2>3, <3>2, <4>2 DEF Receive
        <5> HIDE DEF n
        <5>2. t \in Int /\ t <= n
          BY <5>1, TakenWithin
        <5> HIDE DEF t
        <5>3. /\ \A e \in Device : lastEventId[e] <= lastEventId'[e]
              /\ lastEventId'[d] \in {lastEventId[d], t}
              /\ \A e \in Device \ {d} : lastEventId'[e] = lastEventId[e]
          BY <5>1, <5>2, CursorMoves
        <5>4. QED
          BY <1>0, <3>2, <5>2, <5>3 DEF CursorInLog
      <4>3. QED
        BY <4>1, <4>2
    <3>4. ASSUME NEW e \in Device, NEW m \in DOMAIN queue'[e]
          PROVE  queue'[e][m].id <= Len(log)
      <4>1. CASE e = d
        <5>1. queue[d] \in Seq(FrameSet) /\ queue[d] # <<>> /\ queue'[d] = Tail(queue[d])
          BY <2>3 DEF TypeOK, Receive, FrameSet
        <5>2. m \in 1..Len(Tail(queue[d])) /\ Tail(queue[d])[m] = queue[d][m + 1] /\ m + 1 \in DOMAIN queue[d]
          BY <3>4, <4>1, <5>1, HeadTailProperties
        <5>3. QED
          BY <4>1, <5>1, <5>2 DEF CursorInLog
      <4>2. CASE e # d
        BY <2>3, <3>4, <4>2 DEF TypeOK, Receive, CursorInLog
      <4>3. QED
        BY <4>1, <4>2
    <3>5. PollsFollow'
      BY <1>0, <1>01, <1>02, <2>3, <3>3 DEF PollsFollow, Receive
    <3>6. QED
      BY <2>3, <3>3, <3>4, <3>5 DEF Receive, CursorInLog, HubReadsLog, hubVars
  <2>4. CASE PollStarts(d)
    BY <1>0, <2>4, StartsPollFollows DEF PollStarts, CursorInLog, HubReadsLog, PollsFollow, hubVars, storeVars, linkVars
  <2>5. ASSUME NEW p \in Slot, Sync(d, p)
        PROVE  Within
    <3> DEFINE q == polls[d][p]
               end == LastOfPage(q.since)
    <3>1. q.since \in Nat /\ q.since <= Len(log)
      BY <1>0, <2>5 DEF Sync, TypeOK, PollsFollow, CursorInLog
    <3>2. end \in Nat /\ q.since <= end /\ end <= Len(log)
      BY <1>0, <3>1, PageEnds
    <3> HIDE DEF end
    <3>3. polls' = [polls EXCEPT ![d][p].upto = end]
      BY <2>5 DEF Sync, end
    <3>4. ASSUME NEW e \in Device, NEW r \in Slot
          PROVE  \/ polls'[e][r] = polls[e][r]
                 \/ e = d /\ r = p /\ polls'[e][r] = [q EXCEPT !.upto = end]
      BY <3>3 DEF TypeOK
    <3>5. q \in PollRecord
      BY <2>5 DEF Sync, TypeOK, PollRecord
    <3>6. [q EXCEPT !.upto = end].since = q.since /\ [q EXCEPT !.upto = end].upto = end
      BY <3>5 DEF PollRecord
    <3>7. PollsFollow'
      <4>1. /\ lastEventId' = lastEventId /\ log' = log /\ q # None
        BY <2>5 DEF Sync, storeVars
      <4>2. QED
        <5>1. q.since <= lastEventId[d]
          BY <4>1 DEF PollsFollow
        <5>2. SUFFICES ASSUME NEW e \in Device, NEW r \in Slot, polls'[e][r] # None
                       PROVE  /\ polls'[e][r].since <= lastEventId[e]
                              /\ polls'[e][r].upto # None =>
                                   polls'[e][r].since <= polls'[e][r].upto /\ polls'[e][r].upto <= Len(log)
          BY <4>1 DEF PollsFollow
        <5>3. CASE polls'[e][r] = polls[e][r]
          BY <5>2, <5>3 DEF PollsFollow
        <5>4. CASE e = d /\ polls'[e][r] = [q EXCEPT !.upto = end]
          BY <3>2, <3>6, <5>1, <5>4
        <5>5. QED
          BY <3>4, <5>3, <5>4
    <3>8. QED
      BY <2>5, <3>7 DEF Sync, CursorInLog, HubReadsLog, hubVars, linkVars, storeVars
  <2>6. ASSUME NEW p \in Slot, PollApplies(d, p)
        PROVE  Within
    <3> DEFINE q == polls[d][p]
               last == Taken(d, q.since, q.upto)
    <3>1. q \in PollRecord /\ q.upto \in Nat /\ q.since \in Nat /\ q.since <= q.upto /\ q.upto <= Len(log)
      BY <2>6 DEF PollApplies, TypeOK, PollRecord, PollsFollow
    <3>2. ApplyEvents(d, q.since, last) /\ last \in Int /\ last <= Len(log)
      <4>1. ApplyEvents(d, q.since, last)
        BY <2>6 DEF PollApplies
      <4>2. last \in Int /\ last <= q.upto
        BY <3>1, TakenWithin
      <4> HIDE DEF last
      <4>3. QED
        BY <1>0, <3>1, <4>1, <4>2
    <3> HIDE DEF last
    <3>3. \A e \in Device : lastEventId[e] <= lastEventId'[e] /\ lastEventId'[e] <= Len(log) /\ lastEventId'[e] \in Nat
      <4>1. /\ \A e \in Device : lastEventId[e] <= lastEventId'[e]
            /\ lastEventId'[d] \in {lastEventId[d], last}
            /\ \A e \in Device \ {d} : lastEventId'[e] = lastEventId[e]
        BY <3>1, <3>2, CursorMoves
      <4>2. QED
        BY <1>0, <1>01, <3>2, <4>1 DEF CursorInLog
    <3> DEFINE more == Poll(lastEventId'[d], q.left - 1)
    <3>4. ASSUME NEW e \in Device, NEW r \in Slot
          PROVE  \/ polls'[e][r] = polls[e][r]
                 \/ polls'[e][r] = None
                 \/ e = d /\ polls'[e][r] = more
      BY <2>6 DEF PollApplies, TypeOK
    <3>5. more.since = lastEventId'[d] /\ more.upto = None
      BY DEF Poll
    <3> HIDE DEF more
    <3>7. PollsFollow'
      BY <1>0, <1>02, <2>6, <3>3, <3>4, <3>5 DEF PollsFollow, PollApplies
    <3>8. QED
      BY <2>6, <3>3, <3>7 DEF PollApplies, CursorInLog, HubReadsLog, hubVars, linkVars
  <2>7. ASSUME NEW p \in Slot, PollFails(d, p)
        PROVE  Within
    BY <2>7 DEF TypeOK, PollFails, CursorInLog, HubReadsLog, PollsFollow, hubVars, linkVars, storeVars
  <2>8. QED
    BY <1>7, <2>1, <2>2, <2>3, <2>4, <2>5, <2>6, <2>7 DEF Client
<1>8. CASE UNCHANGED vars
  BY <1>8 DEF vars, CursorInLog, HubReadsLog, PollsFollow, hubVars, linkVars, storeVars
<1>9. QED
  BY <1>1, <1>2, <1>3, <1>4, <1>5, <1>6, <1>7, <1>8 DEF Next, Worker, Hub

(* Every step leaves a device that only polls have fed without a socket,   *)
(* and without a gap before its cursor.                                    *)
LEMMA FallbackStep ==
    ASSUME FeedInv, [Next]_vars
    PROVE  PollOnlyIsClosed' /\ FallbackMissesNothing'
<1> USE NoneAssumption DEF FeedInv
<1> DEFINE Kept == PollOnlyIsClosed' /\ FallbackMissesNothing'
<1>0. Len(log) \in Nat /\ pollOnly \subseteq Device /\ \A d \in Device : lastEventId[d] \in Nat
  BY DEF TypeOK
<1>1. ASSUME NEW w \in Writers, NEW k \in Key, Mutate(w, k)
      PROVE  Kept
  <2>1. \A d \in Device : \A i \in 1..lastEventId[d] : log'[i] = log[i]
    <3>1. \A i \in 1..Len(log) : log'[i] = log[i]
      BY <1>1, LogGrows
    <3>2. \A d \in Device : lastEventId[d] <= Len(log)
      BY DEF CursorInLog
    <3>3. QED
      BY <1>0, <3>1, <3>2
  <2>2. QED
    BY <1>0, <1>1, <2>1 DEF Mutate, PollOnlyIsClosed, FallbackMissesNothing, linkVars, storeVars
<1>2. ASSUME NEW d \in Device, NEW i \in replies[d], Reply(d, i) \/ LoseReply(d, i)
      PROVE  Kept
  BY <1>2 DEF Reply, LoseReply, PollOnlyIsClosed, FallbackMissesNothing, linkVars, storeVars
<1>3. ASSUME NEW i \in notes, LoseNotify(i) \/ Notify(i)
      PROVE  Kept
  BY <1>3 DEF LoseNotify, Notify, PollOnlyIsClosed, FallbackMissesNothing, linkVars, storeVars
<1>4. CASE HubReads \/ HubLoads \/ Evict
  BY <1>4 DEF HubReads, HubLoads, Evict, PollOnlyIsClosed, FallbackMissesNothing, linkVars, storeVars
<1>5. ASSUME NEW d \in Device, Accept(d)
      PROVE  Kept
  BY <1>0, <1>5 DEF TypeOK, Accept, PollOnlyIsClosed, FallbackMissesNothing, storeVars
<1>6. ASSUME NEW d \in Device, Client(d)
      PROVE  Kept
  <2>1. CASE Open(d)
    BY <1>0, <2>1 DEF TypeOK, Open, PollOnlyIsClosed, FallbackMissesNothing, storeVars
  <2>2. CASE Close(d)
    BY <1>0, <2>2 DEF TypeOK, Close, PollOnlyIsClosed, FallbackMissesNothing, storeVars
  <2>3. CASE Receive(d)
    <3>1. d \notin pollOnly
      BY <2>3 DEF Receive, PollOnlyIsClosed
    <3>2. \A e \in pollOnly : lastEventId'[e] = lastEventId[e] /\ applied'[e] = applied[e]
      BY <1>0, <2>3, <3>1 DEF TypeOK, Receive, ApplyEvents
    <3>3. QED
      BY <2>3, <3>2 DEF Receive, PollOnlyIsClosed, FallbackMissesNothing
  <2>4. CASE PollStarts(d)
    BY <2>4 DEF PollStarts, PollOnlyIsClosed, FallbackMissesNothing, linkVars, storeVars
  <2>5. ASSUME NEW p \in Slot, Sync(d, p) \/ PollFails(d, p)
        PROVE  Kept
    BY <2>5 DEF Sync, PollFails, PollOnlyIsClosed, FallbackMissesNothing, linkVars, storeVars
  <2>6. ASSUME NEW p \in Slot, PollApplies(d, p)
        PROVE  Kept
    <3> DEFINE q == polls[d][p]
               last == Taken(d, q.since, q.upto)
    <3>1. q.since \in Nat /\ q.upto \in Nat /\ q.since <= lastEventId[d] /\ q.since <= q.upto
      BY <2>6 DEF PollApplies, TypeOK, PollsFollow
    <3>2. ApplyEvents(d, q.since, last) /\ last \in Int
      BY <2>6, <3>1, TakenWithin DEF PollApplies
    <3> HIDE DEF last
    <3>3. /\ lastEventId'[d] \in {lastEventId[d], last}
          /\ \A e \in Device \ {d} : lastEventId'[e] = lastEventId[e] /\ applied'[e] = applied[e]
          /\ applied'[d] = applied[d] \cup Foreign(d, q.since, last)
      BY <3>1, <3>2, CursorMoves
    <3>4. /\ log' = log /\ pollOnly' = pollOnly /\ sock' = sock
      BY <2>6 DEF PollApplies, linkVars
    <3>5. ASSUME d \in pollOnly, NEW i \in 1..lastEventId'[d]
          PROVE  i \in applied'[d] \/ log[i].actor = d
      <4>1. CASE i <= lastEventId[d]
        BY <1>0, <3>3, <3>5, <4>1 DEF FallbackMissesNothing
      <4>2. CASE i > lastEventId[d]
        <5>1. i \in (q.since + 1)..last
          BY <1>0, <3>1, <3>2, <3>3, <3>5, <4>2
        <5>2. QED
          BY <3>3, <5>1 DEF Foreign
      <4>3. QED
        BY <1>0, <3>1, <3>2, <3>3, <3>5, <4>1, <4>2
    <3>6. QED
      BY <1>0, <3>3, <3>4, <3>5 DEF PollOnlyIsClosed, FallbackMissesNothing
  <2>8. QED
    BY <1>6, <2>1, <2>2, <2>3, <2>4, <2>5, <2>6 DEF Client
<1>7. CASE UNCHANGED vars
  BY <1>7 DEF vars, PollOnlyIsClosed, FallbackMissesNothing, linkVars, storeVars
<1>8. QED
  BY <1>1, <1>2, <1>3, <1>4, <1>5, <1>6, <1>7 DEF Next, Worker, Hub

(* The inductive invariant of the cursors.                                 *)
THEOREM FeedInvariant == Spec => []FeedInv
<1>1. FeedInv /\ [Next]_vars => FeedInv'
  BY TypeStep, CursorStep, FallbackStep DEF FeedInv
<1>2. QED
  BY <1>1, FeedInit, PTL DEF Spec

(* Every variable keeps its type.                                          *)
THEOREM TypeCorrect == Spec => []TypeOK
<1>1. FeedInv => TypeOK
  BY DEF FeedInv
<1>2. QED
  BY <1>1, FeedInvariant, PTL

(* No cursor, of a device, of the hub or in a frame, is ahead of the log.  *)
THEOREM CursorsWithinLog == Spec => []CursorInLog
<1>1. FeedInv => CursorInLog
  BY DEF FeedInv
<1>2. QED
  BY <1>1, FeedInvariant, PTL

(* A device that polls feed misses no event up to its cursor, whatever     *)
(* polls overlap or fail and whatever the page and drain limits.           *)
THEOREM PollingMissesNothing == Spec => []FallbackMissesNothing
<1>1. FeedInv => FallbackMissesNothing
  BY DEF FeedInv
<1>2. QED
  BY <1>1, FeedInvariant, PTL

-----------------------------------------------------------------------------
(* One poll at a time: what such a device shows.                           *)

(* Events c+1 .. hi brought to a view as of c make the view as of hi.      *)
LEMMA NewestSplit ==
    ASSUME NEW c \in Nat, NEW hi \in Nat, c <= hi, NEW k
    PROVE  Newest((c + 1)..hi, k, Newest(1..c, k, 0)) = Newest(1..hi, k, 0)
<1> DEFINE late == {i \in (c + 1)..hi : log[i].key = k}
           soon == {i \in 1..c : log[i].key = k}
           all == {i \in 1..hi : log[i].key = k}
<1>1. all = soon \cup late
  OBVIOUS
<1>2. CASE late = {}
  <2>1. all = soon
    BY <1>1, <1>2
  <2>2. QED
    BY <1>2, <2>1 DEF Newest
<1>3. CASE late # {}
  <2>1. late \in SUBSET ((c + 1)..hi) /\ all \in SUBSET (1..hi) /\ all # {}
    BY <1>1, <1>3
  <2>2. Max(late) \in late /\ \A x \in late : x <= Max(late)
    <3>1. c + 1 \in Int /\ hi \in Int
      OBVIOUS
    <3>2. late \in SUBSET ((c + 1)..hi)
      BY <2>1
    <3> HIDE DEF late
    <3>3. QED
      BY <1>3, <3>1, <3>2, MaxOfRange
  <2>3. Max(all) \in all /\ \A x \in all : x <= Max(all)
    <3>1. 1 \in Int /\ hi \in Int
      OBVIOUS
    <3>2. all \in SUBSET (1..hi) /\ all # {}
      BY <2>1
    <3> HIDE DEF all
    <3>3. QED
      BY <3>1, <3>2, MaxOfRange
  <2>4. Max(late) = Max(all)
    BY <1>1, <2>2, <2>3
  <2>5. QED
    BY <1>3, <2>1, <2>4 DEF Newest
<1>4. QED
  BY <1>2, <1>3

(* The past does not change.                                               *)
LEMMA AsOfStays ==
    ASSUME NEW c \in Nat, \A i \in 1..c : log'[i] = log[i]
    PROVE  AsOf(c)' = AsOf(c)
<1>1. ASSUME NEW k
      PROVE  Newest(1..c, k, 0)' = Newest(1..c, k, 0)
  <2>1. {i \in 1..c : log'[i].key = k} = {i \in 1..c : log[i].key = k}
    OBVIOUS
  <2>2. QED
    BY <2>1 DEF Newest
<1>2. QED
  BY <1>1 DEF AsOf

LEMMA PrefixInit ==
    ASSUME Init
    PROVE  PrefixInv
<1>1. \A k \in Key : Newest(1..0, k, 0) = 0
  BY DEF Newest
<1>2. AsOf(0) = [k \in Key |-> 0]
  BY <1>1 DEF AsOf
<1>3. FallbackIsPrefix
  BY <1>2 DEF Init, FallbackIsPrefix
<1>4. QED
  BY <1>3 DEF Init, PrefixInv

(* A step that keeps log, store and polls of the devices fed by polls only *)
(* keeps what they show.                                                   *)
LEMMA PrefixFrame ==
    ASSUME PrefixInv, log' = log, pollOnly' \subseteq pollOnly, pollOnly \subseteq Device,
           \A d \in Device : replies'[d] \subseteq replies[d],
           \A d \in pollOnly' : Reads(d) =>
               /\ view'[d] = view[d] /\ lastEventId'[d] = lastEventId[d]
               /\ \A p \in Slot : \/ polls'[d][p] = None
                                  \/ polls'[d][p] = polls[d][p]
                                  \/ polls'[d][p].since = lastEventId[d]
    PROVE  PrefixInv'
<1>1. ASSUME NEW d
      PROVE  Reads(d)' = Reads(d)
  BY DEF Reads, EventId
<1>2. ASSUME NEW d \in pollOnly', Reads(d)
      PROVE  view'[d] = AsOf(lastEventId[d])' /\ \A p \in Slot : polls'[d][p] # None => polls'[d][p].since = lastEventId'[d]
  <2>1. view[d] = AsOf(lastEventId[d])
    BY <1>2 DEF PrefixInv, FallbackIsPrefix
  <2>2. AsOf(lastEventId[d])' = AsOf(lastEventId[d])
    BY <1>2 DEF AsOf, Newest
  <2>3. QED
    BY <1>2, <2>1, <2>2 DEF PrefixInv
<1>3. QED
  BY <1>1, <1>2 DEF PrefixInv, FallbackIsPrefix, EventId

LEMMA StartsPollSince ==
    ASSUME TypeOK, NEW d \in Device, StartsPoll(d)
    PROVE  \A e \in Device, r \in Slot :
               polls'[e][r] = polls[e][r] \/ polls'[e][r].since = lastEventId[e]
<1>1. PICK p \in Free(d) : polls' = [polls EXCEPT ![d][p] = Poll(lastEventId[d], MaxDrain)]
  BY DEF StartsPoll
<1>2. Poll(lastEventId[d], MaxDrain).since = lastEventId[d]
  BY DEF Poll
<1>3. QED
  BY <1>1, <1>2 DEF TypeOK, Free

(* With one poll at a time, every step keeps the devices that polls feed   *)
(* at the database of their cursor.                                        *)
LEMMA PrefixStep ==
    ASSUME \A p, r \in Slot : p = r, FeedInv, PrefixInv, [Next]_vars
    PROVE  PrefixInv'
<1> USE NoneAssumption
<1>0. /\ TypeOK /\ Len(log) \in Nat /\ pollOnly \subseteq Device
      /\ \A d \in Device : lastEventId[d] \in Nat /\ lastEventId[d] <= Len(log)
  BY DEF FeedInv, TypeOK, CursorInLog
<1>1. ASSUME NEW w \in Writers, NEW k \in Key, Mutate(w, k)
      PROVE  PrefixInv'
  <2>1. /\ Len(log') = Len(log) + 1 /\ \A i \in 1..Len(log) : log'[i] = log[i]
        /\ log'[Len(log')] = [actor |-> w, key |-> k]
    BY <1>0, <1>1, LogGrows
  <2>2. ASSUME NEW d \in Device, NEW i \in replies'[d]
        PROVE  i \in EventId' /\ log'[i].actor = d
    <3>1. CASE i \in replies[d]
      BY <1>0, <2>1, <3>1 DEF PrefixInv, EventId
    <3>2. CASE i \notin replies[d]
      <4>1. d = w /\ i = Len(log')
        BY <1>1, <2>2, <3>2 DEF Mutate
      <4>2. QED
        BY <1>0, <2>1, <4>1 DEF EventId
    <3>3. QED
      BY <3>1, <3>2
  <2>3. ASSUME NEW d \in pollOnly', Reads(d)'
        PROVE  /\ \A p \in Slot : polls'[d][p] # None => polls'[d][p].since = lastEventId'[d]
               /\ view'[d] = AsOf(lastEventId[d])'
    <3>1. d \in pollOnly /\ d \in Device
      BY <1>0, <1>1, <2>3 DEF Mutate
    <3>2. Reads(d)
      BY <1>0, <2>1, <2>3 DEF Reads, EventId
    <3>3. PICK c \in Nat : c = lastEventId[d] /\ c <= Len(log)
      BY <1>0, <3>1
    <3>4. AsOf(c)' = AsOf(c)
      BY <1>0, <2>1, <3>3, AsOfStays
    <3>5. lastEventId'[d] = c /\ view'[d] = view[d] /\ polls' = polls
      BY <1>1, <3>3 DEF Mutate, storeVars
    <3>6. QED
      BY <3>1, <3>2, <3>3, <3>4, <3>5 DEF PrefixInv, FallbackIsPrefix
  <2>4. QED
    BY <2>2, <2>3 DEF PrefixInv, FallbackIsPrefix
<1>2. ASSUME NEW d \in Device, NEW i \in replies[d], Reply(d, i) \/ LoseReply(d, i)
      PROVE  PrefixInv'
  <2>1. ~Reads(d)
    BY <1>2 DEF PrefixInv, Reads
  <2>2. \A e \in Device \ {d} : view'[e] = view[e]
    BY <1>0, <1>2 DEF TypeOK, Reply, LoseReply, storeVars
  <2>3. QED
    BY <1>0, <1>2, <2>1, <2>2, PrefixFrame DEF TypeOK, Reply, LoseReply, storeVars
<1>3. ASSUME NEW i \in notes, LoseNotify(i) \/ Notify(i)
      PROVE  PrefixInv'
  BY <1>0, <1>3, PrefixFrame DEF LoseNotify, Notify, storeVars
<1>4. CASE HubReads \/ HubLoads \/ Evict
  BY <1>0, <1>4, PrefixFrame DEF HubReads, HubLoads, Evict, storeVars
<1>5. ASSUME NEW d \in Device, Accept(d)
      PROVE  PrefixInv'
  BY <1>0, <1>5, PrefixFrame DEF Accept, storeVars
<1>6. ASSUME NEW d \in Device, Client(d)
      PROVE  PrefixInv'
  <2>1. CASE Open(d)
    BY <1>0, <2>1, PrefixFrame, StartsPollSince DEF Open, storeVars
  <2>2. CASE Close(d)
    BY <1>0, <2>2, PrefixFrame DEF Close, storeVars
  <2>3. CASE Receive(d)
    <3>1. d \notin pollOnly
      BY <2>3 DEF Receive, FeedInv, PollOnlyIsClosed
    <3>2. \A e \in pollOnly : lastEventId'[e] = lastEventId[e] /\ view'[e] = view[e]
      BY <1>0, <2>3, <3>1 DEF TypeOK, Receive, ApplyEvents
    <3>3. QED
      BY <1>0, <2>3, <3>2, PrefixFrame DEF Receive
  <2>4. CASE PollStarts(d)
    BY <1>0, <2>4, PrefixFrame, StartsPollSince DEF PollStarts, storeVars
  <2>5. ASSUME NEW p \in Slot, Sync(d, p)
        PROVE  PrefixInv'
    <3>1. ASSUME NEW e \in pollOnly, Reads(e), NEW r \in Slot
          PROVE  polls'[e][r] = None \/ polls'[e][r] = polls[e][r] \/ polls'[e][r].since = lastEventId[e]
      <4>1. CASE e = d /\ r = p
        <5>1. polls[d][p] \in PollRecord /\ polls[d][p].since = lastEventId[d]
          BY <1>0, <2>5, <3>1, <4>1 DEF Sync, TypeOK, PollRecord, PrefixInv
        <5>2. polls'[d][p] = [polls[d][p] EXCEPT !.upto = LastOfPage(polls[d][p].since)]
          BY <1>0, <2>5 DEF Sync, TypeOK
        <5>3. polls'[d][p].since = polls[d][p].since
          BY <5>1, <5>2 DEF PollRecord
        <5>4. QED
          BY <4>1, <5>1, <5>3
      <4>2. CASE e # d \/ r # p
        BY <1>0, <2>5, <4>2 DEF Sync, TypeOK
      <4>3. QED
        BY <4>1, <4>2
    <3>2. QED
      BY <1>0, <2>5, <3>1, PrefixFrame DEF Sync, storeVars
  <2>6. ASSUME NEW p \in Slot, PollApplies(d, p)
        PROVE  PrefixInv'
    <3> DEFINE q == polls[d][p]
               c == lastEventId[d]
               hi == Taken(d, q.since, q.upto)
    <3>0. /\ q \in PollRecord /\ q # None /\ q.upto \in Nat /\ q.since \in Nat /\ c \in Nat
          /\ q.since <= c /\ q.since <= q.upto /\ q.upto <= Len(log)
      BY <1>0, <2>6 DEF PollApplies, TypeOK, PollRecord, FeedInv, PollsFollow
    <3>01. hi \in Int /\ q.since <= hi /\ hi <= q.upto
      BY <3>0, TakenWithin
    <3>2. ApplyEvents(d, q.since, hi)
      BY <2>6 DEF PollApplies
    <3> HIDE DEF hi
    <3>1. /\ q \in PollRecord /\ q # None /\ hi \in Nat /\ q.since \in Nat /\ c \in Nat
          /\ q.since <= c /\ q.since <= hi /\ hi <= Len(log)
      BY <1>0, <3>0, <3>01
    <3>3. /\ lastEventId'[d] \in {c, hi} /\ (q.since < hi => hi <= lastEventId'[d])
          /\ \A e \in Device \ {d} : lastEventId'[e] = lastEventId[e]
      BY <1>0, <3>1, <3>2, CursorMoves
    <3>4. /\ log' = log /\ pollOnly' = pollOnly /\ replies' = replies
          /\ \A e \in Device : Reads(e)' = Reads(e)
      BY <2>6 DEF PollApplies, Reads, EventId
    <3>5. \A e \in Device \ {d} : view'[e] = view[e] /\ polls'[e] = polls[e]
      BY <1>0, <2>6, <3>2 DEF PollApplies, ApplyEvents, TypeOK
    <3>6. polls'[d][p] = None \/ polls'[d][p].since = lastEventId'[d]
      BY <1>0, <2>6 DEF PollApplies, TypeOK, Poll
    <3>7. \A n \in Nat : AsOf(n)' = AsOf(n)
      BY <3>4, AsOfStays
    <3>8. ASSUME d \in pollOnly, Reads(d)
          PROVE  view'[d] = AsOf(lastEventId'[d])
      <4>1. q.since = c /\ view[d] = AsOf(c)
        BY <3>1, <3>8 DEF PrefixInv, FallbackIsPrefix
      <4>2. lastEventId'[d] = hi
        BY <3>1, <3>3, <4>1
      <4>3. Foreign(d, c, hi) = (c + 1)..hi
        BY <3>1, <3>8 DEF Foreign, Reads, EventId
      <4>4. view'[d] = [k \in Key |-> Newest((c + 1)..hi, k, AsOf(c)[k])]
        BY <1>0, <3>2, <4>1, <4>3 DEF ApplyEvents, TypeOK
      <4>5. \A k \in Key : Newest((c + 1)..hi, k, AsOf(c)[k]) = AsOf(hi)[k]
        <5>1. c \in Nat /\ hi \in Nat /\ c <= hi
          BY <3>1, <4>1
        <5> HIDE DEF c
        <5>2. \A k \in Key : Newest((c + 1)..hi, k, Newest(1..c, k, 0)) = Newest(1..hi, k, 0)
          BY <5>1, NewestSplit
        <5>3. QED
          BY <5>2 DEF AsOf
      <4>6. QED
        BY <4>2, <4>4, <4>5 DEF AsOf
    <3>9. ASSUME NEW e \in pollOnly', Reads(e)'
          PROVE  /\ \A r \in Slot : polls'[e][r] # None => polls'[e][r].since = lastEventId'[e]
                 /\ view'[e] = AsOf(lastEventId[e])'
      <4>1. CASE e = d
        <5>1. view'[d] = AsOf(lastEventId'[d])
          BY <3>4, <3>8, <3>9, <4>1, <1>0
        <5>2. AsOf(lastEventId[d])' = AsOf(lastEventId'[d])
          BY <3>4 DEF AsOf, Newest
        <5>3. QED
          BY <3>6, <4>1, <5>1, <5>2
      <4>2. CASE e # d
        <5>1. e \in Device \ {d} /\ e \in pollOnly /\ Reads(e)
          BY <1>0, <3>4, <3>9, <4>2
        <5>2. AsOf(lastEventId[e])' = AsOf(lastEventId[e])
          BY <3>3, <3>4, <5>1 DEF AsOf, Newest
        <5>3. QED
          BY <3>3, <3>5, <5>1, <5>2 DEF PrefixInv, FallbackIsPrefix
      <4>3. QED
        BY <4>1, <4>2
    <3>10. QED
      BY <3>4, <3>9 DEF PrefixInv, FallbackIsPrefix, EventId
  <2>7. ASSUME NEW p \in Slot, PollFails(d, p)
        PROVE  PrefixInv'
    <3>1. \A e \in Device, r \in Slot : polls'[e][r] = None \/ polls'[e][r] = polls[e][r]
      BY <2>7 DEF PollFails, FeedInv, TypeOK
    <3>2. QED
      BY <1>0, <2>7, <3>1, PrefixFrame DEF PollFails, storeVars
  <2>8. QED
    BY <1>6, <2>1, <2>2, <2>3, <2>4, <2>5, <2>6, <2>7 DEF Client
<1>7. CASE UNCHANGED vars
  BY <1>0, <1>7, PrefixFrame DEF vars, storeVars
<1>8. QED
  BY <1>1, <1>2, <1>3, <1>4, <1>5, <1>6, <1>7 DEF Next, Worker, Hub

(* With one poll at a time, a device that reads and that only polls feed   *)
(* shows the database of its cursor.                                       *)
THEOREM PollingShowsAPrefix ==
    ASSUME \A p, r \in Slot : p = r
    PROVE  Spec => []FallbackIsPrefix
<1>1. FeedInv /\ PrefixInv /\ [Next]_vars => PrefixInv'
  BY PrefixStep
<1>2. PrefixInv => FallbackIsPrefix
  BY DEF PrefixInv
<1>3. QED
  BY <1>1, <1>2, FeedInvariant, PrefixInit, PTL DEF Spec
=============================================================================
