-------------------------- MODULE RateLimitsChecks --------------------------
(***************************************************************************)
(* What the budgets of RateLimits promise.                                 *)
(***************************************************************************)
EXTENDS RateLimits, FiniteSetsExt

(* Every variable that the proof speaks of keeps its type.                 *)
Store == {"d1", "hub"}

TypeOK ==
    /\ now \in Nat
    /\ reqs \in [Thread -> RequestRecord \cup {None}]
    /\ DOMAIN d1 \subseteq Keys /\ DOMAIN hub \subseteq Keys /\ DOMAIN served \subseteq Store \X Keys
    /\ \A k \in DOMAIN d1 : d1[k].n \in Nat
    /\ \A k \in DOMAIN hub : hub[k] \in Nat
    /\ \A p \in DOMAIN served : served[p] \in Nat

(* A budget holds (NFR-3): however requests interleave, straddle windows,
   and whenever counters are collected or a hub goes away, a counter lets no
   more requests of a window through than its limit.  So while hubs answer a
   user has one budget, and never more than two. *)
BudgetHolds == \A p \in DOMAIN served : served[p] <= Limit[p[2].rule]

(* What makes it inductive.  Those that a store has counted and let         *)
(* through, whether they are served already or still on their way ...      *)
Holders(store, k) ==
    {t \in Thread :
        /\ reqs[t] # None /\ k \in reqs[t].paid
        /\ IF store = "d1" THEN reqs[t].pc \in {"d1", "challenge"}
           ELSE reqs[t].pc = "answer" /\ reqs[t].over = None}

Spent(store, k) == Count(served, <<store, k>>) + Cardinality(Holders(store, k))

(* ... are no more than its counter says while it is there.  A counter that *)
(* is not there was never charged, or never will be again: no instant that *)
(* a request may still be counted at is in its window.                     *)
Counter(store, k) == IF store = "d1" THEN d1[k].n ELSE hub[k]
Counters(store) == IF store = "d1" THEN DOMAIN d1 ELSE DOMAIN hub

Chargeable(store, i) == IF store = "d1" THEN now <= i + Slack ELSE now <= i
Past(store, k) == \A i \in Nat : Chargeable(store, i) => i \div Window[k.rule] # k.window

Holds(s, k) ==
    /\ Spent(s, k) <= Limit[k.rule]
    /\ k \in Counters(s) => Spent(s, k) <= Counter(s, k)
    /\ k \notin Counters(s) => Spent(s, k) = 0 \/ Past(s, k)

CountersHold == \A s \in Store, k \in Keys : Holds(s, k)

(* Counters are of windows that have begun, rows outlive theirs by Slack,  *)
(* and no request is older than that.                                      *)
RowsInTime ==
    \A k \in DOMAIN d1 : \E i \in 0..now : /\ k.window = i \div Window[k.rule]
                                           /\ d1[k].expires = i + Window[k.rule] + Slack

HubInTime == \A k \in DOMAIN hub : \E i \in 0..now : k.window = i \div Window[k.rule]

RequestsInTime ==
    \A t \in Thread : reqs[t] # None =>
        /\ reqs[t].at <= now /\ now <= reqs[t].at + Slack
        /\ reqs[t].pc \in {"d1", "challenge"} => reqs[t].done < Len(Chain(reqs[t]))

InTime == RowsInTime /\ HubInTime /\ RequestsInTime

BudgetInv == TypeOK /\ InTime /\ CountersHold

(* The requests that have come to a key, numbered by source.               *)
Visits(k) == UNION {{i} \X (1..ReachedBy(k, i)) : i \in Ip}

Reached(k) == Cardinality(Visits(k))

(* And nobody is refused early: when a budget refuses a request, more
   requests than its limit have come to it in that window.  One that is
   behind two throttles, or was counted by the hub and by D1, is one. *)
NoneRefusedEarly == \A x \in refused : Reached(x.key) > Limit[x.key.rule]

(* One source cannot lock a name out for the others (routes/auth.ts:147-150):
   when the ceiling of a name refuses a request, at least two other sources
   have used it up. *)
LockoutTakesMany ==
    \A x \in refused : x.key.rule = "login_identity" =>
        Cardinality({i \in Ip \ {x.ip} : ReachedBy(x.key, i) > 0}) >= 2

-----------------------------------------------------------------------------
(* What makes the first inductive: a request comes to a row in D1 once, and
   to the hub once, and whoever D1 has still to count is not counted yet. *)
InD1 == {"d1", "challenge"}

Awaited(k) ==
    {t \in Thread : /\ reqs[t] # None /\ k \in reqs[t].keys
                    /\ reqs[t].pc \in InD1 => k \notin reqs[t].paid}

RowCount(k) == IF k \in DOMAIN d1 THEN d1[k].n ELSE 0

Overrun(k) == k \in Keys /\ Reached(k) > Limit[k.rule]

Path(r) ==
    /\ r.throttles > 0 => r.counted
    /\ r.pc \in {"hub", "answer"} => r.kind \in ByHub
    /\ r.pc = "hub" => r.keys = {}
    /\ r.pc = "challenge" => r.done = 1
    /\ r.pc \in InD1 => \A k \in r.paid : \E n \in 1..r.done : k.rule = Chain(r)[n].rule
    /\ r.kind \notin ByHub => r.keys \subseteq r.paid

ReachedTyped ==
    /\ DOMAIN reached \subseteq Keys
    /\ \A k \in DOMAIN reached : reached[k] \in [Ip -> Nat] /\ IsFiniteSet(Visits(k))

Paths == \A t \in Thread : reqs[t] # None => Path(reqs[t])

CountedOnce ==
    \A k \in Keys : /\ RowCount(k) + Cardinality(Awaited(k)) <= Reached(k)
                    /\ Count(hub, k) <= Reached(k)

EarlyInv ==
    /\ ReachedTyped /\ Paths /\ CountedOnce
    /\ \A t \in Thread : reqs[t] # None /\ reqs[t].over # None => Overrun(reqs[t].over)
    /\ \A x \in refused : Overrun(x.key)

(* And the second, where the ceiling is four times what one source may try
   (middleware.ts:339), in windows of one length: of a source, no more come
   to the ceiling of a window than its own budget lets through in that
   window and in the one before. *)
Ceiling ==
    /\ 4 * Limit["login_user_ip"] <= Limit["login_identity"]
    /\ Window["login_user_ip"] = Window["login_identity"] /\ Slack <= Window["login_identity"]

Source(n, i, w) == [rule |-> "login_user_ip", subject |-> <<n, i>>, window |-> w]
Identity(n, w) == [rule |-> "login_identity", subject |-> n, window |-> w]

Between(n, i, w) ==
    {t \in Thread : reqs[t] # None /\ reqs[t].pc \in InD1 /\ Source(n, i, w) \in reqs[t].paid}

Passed(n, i, w) ==
    LET came == ReachedBy(Source(n, i, w), i)
    IN  IF came <= Limit["login_user_ip"] THEN came ELSE Limit["login_user_ip"]

PassedFirst ==
    \A n \in Ip \cup Name \cup (Name \X Ip), i \in Ip, w \in Nat :
        ReachedBy(Identity(n, w), i) + Cardinality(Between(n, i, w)) + Cardinality(Between(n, i, w - 1))
          <= Passed(n, i, w) + Passed(n, i, w - 1)

SourcesCounted ==
    \A k \in Keys : k.rule = "login_user_ip" => \A i \in Ip :
        /\ k \in DOMAIN d1 => ReachedBy(k, i) <= d1[k].n
        /\ k \notin DOMAIN d1 => ReachedBy(k, i) = 0 \/ Past("d1", k)

Crossing ==
    \A t \in Thread : LET r == reqs[t] IN
        r # None /\ r.kind = "login" /\ r.pc \in InD1 /\ r.done = 2 =>
            \E j \in 0..r.at : /\ r.at <= j + Slack
                               /\ Source(r.name, r.ip, j \div Window["login_user_ip"]) \in r.paid

LockoutInv == PassedFirst /\ SourcesCounted /\ Crossing
=============================================================================
