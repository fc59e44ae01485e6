--------------------------- MODULE SyncFeedChecks ---------------------------
(* What SyncFeed promises a device, and what it does not keep.             *)
EXTENDS SyncFeed

(* Every variable keeps its type: ids are ids of the log, a poll's page is *)
(* a range of it, a frame is a hello or an event.                          *)
TypeOK ==
    /\ log \in Seq([actor : Writers, key : Key])
    /\ pollOnly \subseteq Device
    /\ notes \subseteq Nat /\ lost \subseteq Nat
    /\ hubLast \in Nat /\ loading \in Nat \cup {None} /\ loaded \in BOOLEAN
    /\ sock \in [Device -> {"closed", "accepted", "open"}]
    /\ queue \in [Device -> Seq([type : {"hello", "event"}, id : Nat])]
    /\ lastEventId \in [Device -> Nat]
    /\ view \in [Device -> [Key -> Nat]]
    /\ polls \in [Device -> [Slot -> {None} \cup [since : Nat, left : Nat, upto : Nat \cup {None}]]]
    /\ replies \in [Device -> SUBSET Nat] /\ applied \in [Device -> SUBSET Nat]

(* No cursor runs ahead of the log, whatever the hub forgets, reads late   *)
(* or fails to read: neither a device's, nor the hub's that `hello` and    *)
(* the bootstrap hand out.  A cursor ahead of the log would hide every     *)
(* event up to it from that device for good.                               *)
CursorInLog ==
    /\ hubLast <= Len(log)
    /\ \A d \in Device :
          /\ lastEventId[d] <= Len(log)
          /\ \A n \in DOMAIN queue[d] : queue[d][n].id <= Len(log)

(* A device whose network blocks WebSockets lives on GET /sync alone.  It  *)
(* has taken every event up to its cursor, its own echoes apart: however   *)
(* polls overlap, fail, fill a page and drain, none is skipped, and a      *)
(* notify that fails does not matter.                                      *)
FallbackMissesNothing ==
    \A d \in pollOnly : \A i \in 1..lastEventId[d] : i \in applied[d] \/ log[i].actor = d

(* The inductive invariant of the cursors: what is still under way - a     *)
(* notify, a MAX(id), a poll or its page - is of the log too; a poll asks  *)
(* from a cursor the device had, so nothing before it is missing; and a    *)
(* device that only polls have fed has no socket.                          *)
HubReadsLog == (loading # None => loading <= Len(log)) /\ \A i \in notes : i <= Len(log)

PollsFollow ==
    \A d \in Device, p \in Slot : polls[d][p] # None =>
        /\ polls[d][p].since <= lastEventId[d]
        /\ polls[d][p].upto # None => polls[d][p].since <= polls[d][p].upto /\ polls[d][p].upto <= Len(log)

PollOnlyIsClosed == \A d \in pollOnly : sock[d] = "closed"

FeedInv ==
    /\ TypeOK /\ CursorInLog /\ HubReadsLog /\ PollsFollow /\ PollOnlyIsClosed
    /\ FallbackMissesNothing

Reads(d) == \A i \in EventId : log[i].actor # d

(* With one poll at a time, what such a device shows, while it only reads, *)
(* is what the database held when the log had reached its cursor: never a  *)
(* mix of two times.                                                       *)
FallbackIsPrefix == \A d \in pollOnly : Reads(d) => view[d] = AsOf(lastEventId[d])

(* What makes it inductive: a response under way is of an own write, and   *)
(* the poll under way asks from where such a device is.                    *)
PrefixInv ==
    /\ \A d \in Device : \A i \in replies[d] : i \in EventId /\ log[i].actor = d
    /\ \A d \in pollOnly : Reads(d) =>
          \A p \in Slot : polls[d][p] # None => polls[d][p].since = lastEventId[d]
    /\ FallbackIsPrefix

(* The events before the first that comes without its row.                 *)
Readable == Max({n \in 0..Len(log) : \A i \in 1..n : log[i].key \notin Rowless})

(* Once nobody writes, such a device ends up showing the database, where   *)
(* no event of the log is one that applyEvent refuses; else the database   *)
(* as it was before the first of them, or later.  No failing poll, full    *)
(* page or bounded drain leaves it short of that.                          *)
FallbackConverges ==
    \A d \in Device :
        <>[](d \in pollOnly /\ Reads(d) => \E n \in Readable..Len(log) : view[d] = AsOf(n))

=============================================================================
