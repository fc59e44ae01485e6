------------------------------ MODULE SyncFeed ------------------------------
(***************************************************************************)
(* How the devices of one user follow the changes to his data: the rows    *)
(* and the sync_log a mutation writes in one batch, the /notify call that  *)
(* asks the user's UserHub to fan the event out, the hub's sockets and     *)
(* cursor, and in each device the store with its cursor `lastEventId`, its *)
(* socket, and the polls that reconcile it with the log.                   *)
(*                                                                         *)
(* Abstractions: an entity (a project, a task, ...) is a key, and one      *)
(* event replaces it; the payload of an event, and the row it announces,   *)
(* is named by the event's id; ids count this user's rows of sync_log; a   *)
(* device is one page.  The events the hub itself writes are mutations     *)
(* like any other: its broadcast follows its batch as a notify does.       *)
(* The running timer that `hello` and GET /sync carry is UserHub's matter. *)
(* The order of the projects (POST /projects/reorder) is an entity of its  *)
(* own; so is any other whose event comes without its row.                 *)
(***************************************************************************)
EXTENDS Integers, Sequences, FiniteSets, FiniteSetsExt

CONSTANTS Device,       \* the pages the user has open
          Key,          \* entities
          Rowless,      \* those whose events come without their row: the order of projects
          None,
          Writers,      \* who writes: devices, other members, the server
          Connected,    \* devices whose socket is open from the start, and stays so
          Slot,         \* bound: the polls of a device in flight at once
          PageSize,     \* LIMITS.syncPageMax
          MaxDrain,     \* the pages a poll drains after its first
          MaxEvents,    \* bound: mutations
          MaxLost,      \* bound: notify calls that fail
          MaxFrames     \* bound: frames under way on a socket

ASSUME NoneAssumption == None \notin Int

ASSUME PageAssumption == PageSize \in Nat \ {0} /\ MaxDrain \in Nat

VARIABLES
    log,          \* D1 sync_log: who changed which key; D1's rows follow it
    notes,        \* ids whose /notify is under way
    hubLast,      \* the hub's lastEventId
    loaded,       \* the hub's `loaded`
    loading,      \* the MAX(id) that an ensureLoaded under way has read, or None
    sock,         \* device: "closed", "accepted" (by the hub) or "open"
    queue,        \* frames under way to a device
    lastEventId,  \* device: its cursor
    view,         \* device: for each key, the id of the payload it shows
    polls,        \* device: the GET /sync requests under way
    replies,      \* device: its own writes whose response is under way
    applied,      \* history: the events a device took from the feed
    pollOnly,     \* history: the devices that only polls have fed
    lost          \* history: ids whose /notify failed

hubVars == <<hubLast, loaded, loading>>
storeVars == <<lastEventId, view, applied>>
linkVars == <<sock, queue>>
vars == <<log, notes, hubVars, linkVars, storeVars, polls, replies, pollOnly, lost>>

EventId == 1..Len(log)

(* The newest change to a key among some events; `old` if there is none.   *)
Newest(ids, k, old) ==
    LET hits == {i \in ids : log[i].key = k}
    IN  IF hits = {} THEN old ELSE Max(hits)

(* The rows of D1 when the log had n events: a row and its event are one   *)
(* batch.                                                                  *)
AsOf(n) == [k \in Key |-> Newest(1..n, k, 0)]

Poll(since, left) == [since |-> since, left |-> left, upto |-> None]

Free(d) == {p \in Slot : polls[d][p] = None}

Hello == [type |-> "hello", id |-> hubLast]

Frame(i) == [type |-> "event", id |-> i]

Init ==
    /\ log = <<>> /\ notes = {} /\ lost = {} /\ pollOnly = Device \ Connected
    /\ hubLast = 0 /\ loaded = FALSE /\ loading = None
    /\ sock = [d \in Device |-> IF d \in Connected THEN "open" ELSE "closed"]
    /\ queue = [d \in Device |-> <<>>]
    /\ lastEventId = [d \in Device |-> 0]
    /\ view = [d \in Device |-> [k \in Key |-> 0]]
    /\ applied = [d \in Device |-> {}]
    /\ polls = [d \in Device |-> [p \in Slot |-> None]]
    /\ replies = [d \in Device |-> {}]

-----------------------------------------------------------------------------
(* The Worker: one batch for the row and its event, then the response and  *)
(* the notify, in no order.                                                *)

Mutate(w, k) ==
    /\ Len(log) < MaxEvents
    /\ log' = Append(log, [actor |-> w, key |-> k])
    /\ notes' = notes \cup {Len(log')}
    /\ replies' = [d \in Device |-> IF d = w THEN replies[d] \cup {Len(log')} ELSE replies[d]]
    /\ UNCHANGED <<hubVars, linkVars, storeVars, polls, pollOnly, lost>>

(* upsertLocal: the acting device shows the response of its own request.   *)
Reply(d, i) ==
    /\ i \in replies[d]
    /\ replies' = [replies EXCEPT ![d] = @ \ {i}]
    /\ view' = [view EXCEPT ![d][log[i].key] = i]
    /\ UNCHANGED <<log, notes, hubVars, linkVars, lastEventId, applied, polls, pollOnly, lost>>

(* The response is lost: the page shows an error, or was left.             *)
LoseReply(d, i) ==
    /\ i \in replies[d]
    /\ replies' = [replies EXCEPT ![d] = @ \ {i}]
    /\ UNCHANGED <<log, notes, hubVars, linkVars, storeVars, polls, pollOnly, lost>>

LoseNotify(i) ==
    /\ i \in notes /\ Cardinality(lost) < MaxLost
    /\ notes' = notes \ {i}
    /\ lost' = lost \cup {i}
    /\ UNCHANGED <<log, hubVars, linkVars, storeVars, polls, replies, pollOnly>>

-----------------------------------------------------------------------------
(* The hub.  Every request first awaits ensureLoaded.  (Of several that do *)
(* so at once, the last to resume sets hubLast back, as a failed read may.) *)

(* Mutant: the next id instead of the last. *)
HubReadsNext ==
    /\ ~loaded
    /\ loading' = Len(log) + 1
    /\ UNCHANGED <<log, notes, hubLast, loaded, linkVars, storeVars, polls, replies, pollOnly, lost>>

HubReads ==
    /\ ~loaded
    /\ loading' = Len(log)
    /\ UNCHANGED <<log, notes, hubLast, loaded, linkVars, storeVars, polls, replies, pollOnly, lost>>

(* A failed read counts as 0.                                              *)
HubLoads ==
    /\ loading # None
    /\ hubLast' \in {loading, 0} /\ loaded' = TRUE
    /\ loading' = None
    /\ UNCHANGED <<log, notes, linkVars, storeVars, polls, replies, pollOnly, lost>>

(* Memory is lost; the accepted sockets hibernate and survive.             *)
Evict ==
    /\ loaded \/ loading # None
    /\ hubLast' = 0 /\ loaded' = FALSE /\ loading' = None
    /\ UNCHANGED <<log, notes, linkVars, storeVars, polls, replies, pollOnly, lost>>

Notify(i) ==
    /\ loaded /\ i \in notes
    /\ \A d \in Device : Len(queue[d]) < MaxFrames
    /\ notes' = notes \ {i}
    /\ hubLast' = Max({hubLast, i})
    /\ queue' = [d \in Device |-> IF sock[d] \in {"accepted", "open"} THEN Append(queue[d], Frame(i)) ELSE queue[d]]
    /\ UNCHANGED <<log, loaded, loading, sock, storeVars, polls, replies, pollOnly, lost>>

(* connectWs reaches handleUpgrade: the socket joins the broadcast and     *)
(* `hello` is sent.                                                        *)
Accept(d) ==
    /\ loaded /\ sock[d] = "closed"
    /\ sock' = [sock EXCEPT ![d] = "accepted"]
    /\ queue' = [queue EXCEPT ![d] = <<Hello>>]
    /\ pollOnly' = pollOnly \ {d}
    /\ UNCHANGED <<log, notes, hubVars, storeVars, polls, replies, lost>>

-----------------------------------------------------------------------------
(* The device: its socket.                                                 *)

(* Mutant: the cursor taken for the next id to ask for. *)
StartsPollLate(d) ==
    \E p \in Free(d) : polls' = [polls EXCEPT ![d][p] = Poll(lastEventId[d] + 1, MaxDrain)]

StartsPoll(d) ==
    \E p \in Free(d) : polls' = [polls EXCEPT ![d][p] = Poll(lastEventId[d], MaxDrain)]

(* startPolling polls at once if its cadence changes, which depends on how *)
(* long the connection took.                                               *)
Open(d) ==
    /\ sock[d] = "accepted"
    /\ sock' = [sock EXCEPT ![d] = "open"]
    /\ UNCHANGED polls \/ StartsPoll(d)
    /\ UNCHANGED <<log, notes, hubVars, queue, storeVars, replies, pollOnly, lost>>

(* The connection, or the attempt, ends; frames under way are gone.        *)
Close(d) ==
    /\ sock[d] # "closed" /\ d \notin Connected
    /\ sock' = [sock EXCEPT ![d] = "closed"]
    /\ queue' = [queue EXCEPT ![d] = <<>>]
    /\ UNCHANGED <<log, notes, hubVars, storeVars, polls, replies, pollOnly, lost>>

(* applyEvent throws on an event of another device that comes without its  *)
(* row: of the events lo+1 .. hi, it takes those before the first of them. *)
Refuses(d, i) == log[i].actor # d /\ log[i].key \in Rowless

Taken(d, lo, hi) == Max({i \in lo..hi : \A j \in (lo + 1)..i : ~Refuses(d, j)})

(* applyEvent, for the events lo+1 .. hi of the log in order.  Its own     *)
(* echoes only move the device's cursor.                                   *)
Foreign(d, lo, hi) == {i \in (lo + 1)..hi : log[i].actor # d}

ApplyEvents(d, lo, hi) ==
    /\ view' = [view EXCEPT ![d] = [k \in Key |-> Newest(Foreign(d, lo, hi), k, view[d][k])]]
    /\ lastEventId' = [lastEventId EXCEPT ![d] = IF lo < hi THEN Max({@, hi}) ELSE @]
    /\ applied' = [applied EXCEPT ![d] = @ \cup Foreign(d, lo, hi)]

(* A frame that applyEvent refuses is ignored.                             *)
Receive(d) ==
    /\ sock[d] = "open" /\ queue[d] # <<>>
    /\ queue' = [queue EXCEPT ![d] = Tail(@)]
    /\ LET frame == Head(queue[d])
       IN  IF frame.type = "hello"
           THEN /\ lastEventId' = [lastEventId EXCEPT ![d] = Max({@, frame.id})]
                /\ UNCHANGED <<view, applied>>
           ELSE ApplyEvents(d, frame.id - 1, Taken(d, frame.id - 1, frame.id))
    /\ UNCHANGED <<log, notes, hubVars, sock, polls, replies, pollOnly, lost>>

-----------------------------------------------------------------------------
(* The device: the polls.  The interval, a slow connection or a page that  *)
(* becomes visible starts one, whatever else is under way.                 *)

PollStarts(d) ==
    /\ StartsPoll(d)
    /\ UNCHANGED <<log, notes, hubVars, linkVars, storeVars, replies, pollOnly, lost>>

(* GET /sync: the first page of the events after `since`.                  *)
(* Mutant: a page of no rows. *)
LastOfShortPage(since) == Max({since, Min({Len(log), since + PageSize - 1})})

LastOfPage(since) == Max({since, Min({Len(log), since + PageSize})})

(* Mutant: ORDER BY id DESC, the newest page. *)
SyncNewest(d, p) ==
    /\ polls[d][p] # None /\ polls[d][p].upto = None
    /\ polls' = [polls EXCEPT ![d][p].upto = Len(log), ![d][p].since = Max({@, Len(log) - PageSize})]
    /\ UNCHANGED <<log, notes, hubVars, linkVars, storeVars, replies, pollOnly, lost>>

Sync(d, p) ==
    /\ polls[d][p] # None /\ polls[d][p].upto = None
    /\ polls' = [polls EXCEPT ![d][p].upto = LastOfPage(polls[d][p].since)]
    /\ UNCHANGED <<log, notes, hubVars, linkVars, storeVars, replies, pollOnly, lost>>

(* A full page is followed by a request for the next, from the cursor the  *)
(* device has by then.  An event that applyEvent refuses ends the poll, and *)
(* those before it in the page stay applied.                               *)
PollApplies(d, p) ==
    /\ polls[d][p] # None /\ polls[d][p].upto # None
    /\ LET q == polls[d][p]
           last == Taken(d, q.since, q.upto)
       IN  /\ ApplyEvents(d, q.since, last)
           /\ polls' = [polls EXCEPT ![d][p] = IF last = q.since + PageSize /\ q.left > 0
                                               THEN Poll(lastEventId'[d], q.left - 1)
                                               ELSE None]
    /\ UNCHANGED <<log, notes, hubVars, linkVars, replies, pollOnly, lost>>

PollFails(d, p) ==
    /\ polls[d][p] # None
    /\ polls' = [polls EXCEPT ![d][p] = None]
    /\ UNCHANGED <<log, notes, hubVars, linkVars, storeVars, replies, pollOnly, lost>>

-----------------------------------------------------------------------------
Worker ==
    \/ \E w \in Writers, k \in Key : Mutate(w, k)
    \/ \E d \in Device : \E i \in replies[d] : Reply(d, i) \/ LoseReply(d, i)
    \/ \E i \in notes : LoseNotify(i)

Hub ==
    \/ HubReads
    \/ HubLoads
    \/ Evict
    \/ \E i \in notes : Notify(i)
    \/ \E d \in Device : Accept(d)

Client(d) ==
    \/ Open(d) \/ Close(d) \/ Receive(d)
    \/ PollStarts(d)
    \/ \E p \in Slot : Sync(d, p) \/ PollApplies(d, p) \/ PollFails(d, p)

Next == Worker \/ Hub \/ \E d \in Device : Client(d)

Spec == Init /\ [][Next]_vars

(* The poll interval fires for ever, and a network on which polls always   *)
(* start is not down for ever.                                             *)
Fairness ==
    \A d \in Device :
        /\ WF_vars(PollStarts(d))
        /\ SF_vars(\E p \in Slot : Sync(d, p))
        /\ SF_vars(\E p \in Slot : PollApplies(d, p))

FairSpec == Spec /\ Fairness
=============================================================================
