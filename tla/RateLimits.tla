----------------------------- MODULE RateLimits -----------------------------
(***************************************************************************)
(* The budgets of the Worker: how often a source may try to sign in, and   *)
(* how often a user may read and write, counted in fixed windows of time.  *)
(* Sources and names are counted in D1; what a user does is counted in his *)
(* hub, and in D1 when the hub does not answer.                            *)
(*                                                                         *)
(* Abstractions: what a request does once it is let through is left out,   *)
(* and a request that is served or refused is gone.  No request takes      *)
(* longer than Slack, the minute a counter outlives its window by.  What a *)
(* message and an invite are charged once more, after these, is left out.  *)
(***************************************************************************)
EXTENDS Integers, Sequences, FiniteSets, FiniteSetsExt

CONSTANTS Ip, Name,   \* the sources of requests; the users and what they sign in as
          None,
          Limit,      \* RateRule.limit
          Window,     \* RateRule.windowMs
          Slack,      \* the minute in expires_at
          Thread,     \* bound: requests in flight at once
          Scenes      \* bound: the requests a behaviour is made of, how many, and the
                      \* instants it lasts from and to

Rule == {"login_ip", "login_user_ip", "login_identity", "reset_ip", "reset_email", "token_ip",
         "admin_ip", "social_user", "api_user", "write_user", "write_user_day", "social_write"}

Kind == {"login", "reset", "resend", "token", "admin", "lookup", "heavy", "write", "nested",
         "group", "message"}

(* The primary key of a counter: bucket, subject, window_id.               *)
Keys == [rule : Rule, subject : Ip \cup Name \cup (Name \X Ip), window : Nat]

RequestRecord ==
    [kind : Kind, ip : Ip, name : Name, at : Nat, pc : {"d1", "challenge", "hub", "answer"},
     throttles : Int, counted : BOOLEAN, done : Nat, keys : SUBSET Keys, paid : SUBSET Keys,
     over : Keys \cup {None}]

ASSUME RuleAssumption ==
    Limit \in [Rule -> Nat \ {0}] /\ Window \in [Rule -> Nat \ {0}] /\ Slack \in Nat \ {0}

ASSUME SceneAssumption ==
    \A s \in Scenes : s.kinds \subseteq Kind /\ s.ips \subseteq Ip /\ {s.from, s.until} \subseteq Nat

ASSUME NoneAssumption == None \notin Keys /\ None \notin RequestRecord

ASSUME ThreadAssumption == IsFiniteSet(Thread)

VARIABLES
    now,
    d1,       \* D1 rate_counters: key -> n and expires_at
    hub,      \* the counters in the hubs: key -> n
    reqs,     \* the requests in flight
    made,     \* how many there have been (a bound)
    scene,    \* which of Scenes this behaviour is
    served,   \* history: store and key -> requests it was the last to let through
    reached,  \* history: key -> source -> requests that were counted by it
    refused   \* history: the keys requests were refused by, and their sources

vars == <<now, d1, hub, reqs, made, scene, served, reached, refused>>

-----------------------------------------------------------------------------
Charge(rule, subject) == [rule |-> rule, subject |-> subject]

(* Mutant: the ceiling of an account is charged before a source's own.     *)
ChainCeilingFirst(r) ==
    CASE r.kind = "login" -> <<Charge("login_identity", r.name), Charge("login_ip", r.ip),
                               Charge("login_user_ip", <<r.name, r.ip>>)>>
      [] r.kind \in {"reset", "resend"} -> <<Charge("reset_ip", r.ip), Charge("reset_email", r.name)>>
      [] r.kind = "token" -> <<Charge("token_ip", r.ip)>>
      [] r.kind = "admin" -> <<Charge("admin_ip", r.ip)>>
      [] r.kind = "lookup" -> <<Charge("social_user", r.name)>>
      [] r.kind = "heavy" -> <<Charge("api_user", r.name)>>
      [] r.kind \in {"write", "nested"} -> <<Charge("write_user", r.name), Charge("write_user_day", r.name)>>
      [] r.kind \in {"group", "message"} -> <<Charge("social_write", r.name), Charge("write_user_day", r.name)>>

(* What a request is charged for, in order.                                *)
Chain(r) ==
    CASE r.kind = "login" -> <<Charge("login_ip", r.ip), Charge("login_user_ip", <<r.name, r.ip>>),
                               Charge("login_identity", r.name)>>
      [] r.kind \in {"reset", "resend"} -> <<Charge("reset_ip", r.ip), Charge("reset_email", r.name)>>
      [] r.kind = "token" -> <<Charge("token_ip", r.ip)>>
      [] r.kind = "admin" -> <<Charge("admin_ip", r.ip)>>
      [] r.kind = "lookup" -> <<Charge("social_user", r.name)>>
      [] r.kind = "heavy" -> <<Charge("api_user", r.name)>>
      [] r.kind \in {"write", "nested"} -> <<Charge("write_user", r.name), Charge("write_user_day", r.name)>>
      [] r.kind \in {"group", "message"} -> <<Charge("social_write", r.name), Charge("write_user_day", r.name)>>

(* A user is counted by his hub, on the way to the handler; the challenge  *)
(* comes right after the budget of the source.                             *)
ByHub == {"heavy", "write", "nested", "group", "message"}
Challenged == {"login", "reset"}

(* How many throttles the router puts before the handler.                  *)
Throttles(kind) == CASE kind \in {"nested", "message"} -> 2 [] kind \in ByHub -> 1 [] OTHER -> 0

Key(charge, at) ==
    [rule |-> charge.rule, subject |-> charge.subject, window |-> at \div Window[charge.rule]]

Count(table, k) == IF k \in DOMAIN table THEN table[k] ELSE 0

Upsert(rows, table) ==
    [x \in DOMAIN rows \cup DOMAIN table |-> IF x \in DOMAIN rows THEN rows[x] ELSE table[x]]

At(t, pc) == reqs[t] # None /\ reqs[t].pc = pc

(* Dealing with a charge takes a request on from this instant.             *)
Goes(r, pc) == [r EXCEPT !.pc = pc, !.at = now]

Put(t, r) == reqs' = [reqs EXCEPT ![t] = r]

(* A request at its next throttle, marked as counted.                      *)
Enters(r) == Goes([r EXCEPT !.throttles = @ - 1, !.counted = TRUE, !.paid = {}], "hub")

(* How many requests of a source a counter has counted.                    *)
ReachedBy(k, i) == IF k \in DOMAIN reached THEN reached[k][i] ELSE 0

(* History: the keys of a request, each counted once.                      *)
Reach(t, keys) ==
    LET more(k) == [i \in Ip |-> ReachedBy(k, i) + (IF i = reqs[t].ip THEN 1 ELSE 0)]
    IN  reached' = Upsert([k \in keys \ reqs[t].keys |-> more(k)], reached)

Serve(t, store, keys) ==
    /\ Put(t, None)
    /\ served' = Upsert([p \in {<<store, k>> : k \in keys} |-> Count(served, p) + 1], served)
    /\ UNCHANGED refused

Refuse(t, k) ==
    /\ Put(t, None)
    /\ refused' = refused \cup {[key |-> k, ip |-> reqs[t].ip]}
    /\ UNCHANGED served

(* Mutant: a request does not remember that it has been counted.           *)
OnwardAgain(t, store, keys) ==
    IF reqs[t].throttles > 0
    THEN Put(t, Enters(reqs[t])) /\ UNCHANGED <<served, refused>>
    ELSE Serve(t, store, keys)

(* A throttle has let the request through: the next one on its path does   *)
(* not count it again.                                                     *)
Onward(t, store, keys) ==
    IF reqs[t].throttles > 0 /\ ~reqs[t].counted
    THEN Put(t, Enters(reqs[t])) /\ UNCHANGED <<served, refused>>
    ELSE Serve(t, store, keys)

Init ==
    /\ scene \in Scenes
    /\ now = scene.from
    /\ d1 = << >> /\ hub = << >>
    /\ reqs = [t \in Thread |-> None]
    /\ made = 0
    /\ served = << >> /\ reached = << >> /\ refused = {}

-----------------------------------------------------------------------------
Arrive(t) ==
    /\ reqs[t] = None /\ made < scene.max
    /\ \E kind \in scene.kinds, ip \in scene.ips, name \in Name :
          LET r == [kind |-> kind, ip |-> ip, name |-> name, at |-> now, pc |-> "d1",
                    throttles |-> Throttles(kind), counted |-> FALSE,
                    done |-> 0, keys |-> {}, paid |-> {}, over |-> None]
          IN  Put(t, IF kind \in ByHub THEN Enters(r) ELSE r)
    /\ made' = made + 1
    /\ UNCHANGED <<now, d1, hub, scene, served, reached, refused>>

(* rateLimitHit: one statement counts the request and says how many there  *)
(* have been, in the window of the instant it was made at.                 *)
Hit(t) ==
    /\ At(t, "d1")
    /\ LET r == reqs[t]
           n == r.done + 1
           k == Key(Chain(r)[n], r.at)
           row == [n |-> (IF k \in DOMAIN d1 THEN d1[k].n ELSE 0) + 1,
                   expires |-> r.at + Window[k.rule] + Slack]
           paid == r.paid \cup {k}
       IN  /\ d1' = Upsert([x \in {k} |-> row], d1)
           /\ Reach(t, {k})
           /\ IF row.n > Limit[k.rule] THEN Refuse(t, k)
              ELSE IF n = Len(Chain(r)) THEN Onward(t, "d1", paid)
              ELSE /\ Put(t, Goes([r EXCEPT !.done = n, !.keys = @ \cup {k}, !.paid = paid],
                                  IF r.kind \in Challenged /\ n = 1 THEN "challenge" ELSE "d1"))
                   /\ UNCHANGED <<served, refused>>
    /\ UNCHANGED <<now, hub, made, scene>>

(* verifyTurnstile                                                         *)
Challenge(t) ==
    /\ At(t, "challenge")
    /\ \E passed \in BOOLEAN : Put(t, IF passed THEN Goes(reqs[t], "d1") ELSE None)
    /\ UNCHANGED <<now, d1, hub, made, scene, served, reached, refused>>

(* The hub counts all charges of a request, whichever is over, and drops   *)
(* the counters of other windows.                                          *)
HubCounts(t) ==
    /\ At(t, "hub")
    /\ LET r == reqs[t]
           charges == Chain(r)
           keys == {Key(charges[i], now) : i \in DOMAIN charges}
           count(k) == Count(hub, k) + 1
           over == {i \in DOMAIN charges : count(Key(charges[i], now)) > Limit[charges[i].rule]}
           old == {k \in DOMAIN hub : \E c \in keys : k.rule = c.rule /\ k.subject = c.subject} \ keys
       IN  /\ hub' = [k \in keys \cup (DOMAIN hub \ old) |-> IF k \in keys THEN count(k) ELSE hub[k]]
           /\ Reach(t, keys)
           /\ Put(t, [r EXCEPT !.pc = "answer", !.keys = @ \cup keys, !.paid = keys,
                               !.over = IF over = {} THEN None ELSE Key(charges[Min(over)], now)])
    /\ UNCHANGED <<now, d1, made, scene, served, refused>>

HubAnswers(t) ==
    /\ At(t, "answer")
    /\ IF reqs[t].over # None THEN Refuse(t, reqs[t].over) ELSE Onward(t, "hub", reqs[t].paid)
    /\ UNCHANGED <<now, d1, hub, made, scene, reached>>

(* Mutant: the hub counts in memory, and is restarted.                     *)
HubForgets(t) ==
    /\ At(t, "hub") \/ At(t, "answer")
    /\ Put(t, Goes([reqs[t] EXCEPT !.done = 0, !.paid = {}], "d1"))
    /\ hub' = << >>
    /\ UNCHANGED <<now, d1, made, scene, served, reached, refused>>

(* The call fails, before or after it has counted: D1 counts instead.      *)
HubFails(t) ==
    /\ At(t, "hub") \/ At(t, "answer")
    /\ Put(t, Goes([reqs[t] EXCEPT !.done = 0, !.paid = {}], "d1"))
    /\ UNCHANGED <<now, d1, hub, made, scene, served, reached, refused>>

(* The cron deletes the counters that have expired.                        *)
Collect ==
    /\ \E k \in DOMAIN d1 : d1[k].expires < now
    /\ d1' = [k \in {c \in DOMAIN d1 : d1[c].expires >= now} |-> d1[k]]
    /\ UNCHANGED <<now, hub, reqs, made, scene, served, reached, refused>>

Tick ==
    /\ now < scene.until
    /\ \A t \in Thread : reqs[t] # None => now < reqs[t].at + Slack
    /\ now' = now + 1
    /\ UNCHANGED <<d1, hub, reqs, made, scene, served, reached, refused>>

Next ==
    \/ \E t \in Thread : Arrive(t) \/ Hit(t) \/ Challenge(t) \/ HubCounts(t) \/ HubAnswers(t) \/ HubFails(t)
    \/ Collect \/ Tick

Spec == Init /\ [][Next]_vars
=============================================================================
