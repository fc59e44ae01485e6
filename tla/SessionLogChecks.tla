-------------------------- MODULE SessionLogChecks --------------------------
(* What the log of sessions promises.                                      *)
EXTENDS SessionLog

(* Every variable that the proofs speak of keeps its type.                 *)
TypeOK ==
    /\ sess \in Log
    /\ running \in Session \cup {None}
    /\ op \in TimerOp \cup {None}
    /\ reqs \in [Thread -> PlainRequest \cup ImportRequest \cup {None}]
    /\ undo \in Toast \cup {None}
    /\ file \in Log \cup {None}
    /\ now \in 0..Horizon
    /\ made \in [Session -> [what : {"none", "guarded", "bulk", "timer", "late"}, asof : Nat]]
    /\ used \subseteq Session

Closedness(s) == s \in Stored /\ sess[s].to # None

Common(s, o) == {i \in Time : /\ sess[s].from <= i /\ i < sess[s].to
                              /\ sess[o].from <= i /\ i < sess[o].to}

(* INV-03: sessions entered or edited by hand never claim the same time of *)
(* the same task twice, whatever requests raced.                           *)
GuardedAreDisjoint ==
    \A s, o \in Session :
        /\ s # o /\ Closedness(s) /\ Closedness(o) /\ sess[s].task = sess[o].task
        /\ made[s].what = "guarded" /\ made[o].what = "guarded"
        => Common(s, o) = {}

(* The timer is not held back by a session entered by hand: the two may    *)
(* claim the same time, but only time that was still to come when the      *)
(* manual one was checked ("a running session occupies until now"), or a   *)
(* start that was under way then.                                          *)
TimerOverlapIsLater ==
    \A s, o \in Session :
        /\ Closedness(s) /\ Closedness(o) /\ sess[s].task = sess[o].task
        /\ made[s].what = "guarded" /\ made[o].what = "timer"
        => \A i \in Common(s, o) : i >= made[s].asof

(* FR-S6: no request changes or deletes the session that the hub runs, and *)
(* goes on running.                                                        *)
RunningIsSpared ==
    [][running # None /\ running' = running => sess'[running] = sess[running]]_vars

(* What makes these inductive.  The session that the hub runs is open, and *)
(* the hub's own; the one that it is about to insert is in no hands but    *)
(* the hub's ...                                                           *)
Coming == {s \in Session : op # None /\ op.kind # "stop" /\ op.on = s}

HubKnows ==
    /\ running # None => running \in Open /\ made[running].what \in {"timer", "late"}
    /\ op # None => (op.kind = "start" <=> running = None)
    /\ op # None /\ op.kind # "stop" => op.row.to = None /\ op.row.from = op.at /\ op.at <= now
    /\ Coming \cap Stored = {} /\ Stored \cup Coming \subseteq used

(* ... and whoever is past the check, or holds a row that was deleted or   *)
(* exported, holds one that the hub does not run.                          *)
Names(q) == IF q = None THEN {} ELSE IF q.kind = "import" THEN q.on ELSE {q.on}

Spared(s) == s \in used \ Coming /\ s # running

InHand(q) ==
    \A s \in Names(q) :
        /\ s \in used \ Coming
        /\ q.pc = "write" => s # running
        /\ q.asof <= now
        /\ q.kind = "import" => q.row[s] # None

HandsOff ==
    /\ \A t \in Thread : InHand(reqs[t])
    /\ undo # None => Spared(undo.on)
    /\ file # None => \A s \in Session : file[s] # None => Spared(s)

HubInv == TypeOK /\ HubKnows /\ HandsOff

(* The overlap with the timer is bounded while the timer's session is open *)
(* already.                                                                *)
During(s, i) == sess[s].from <= i /\ (sess[s].to = None \/ i < sess[s].to)

LaterThanCheck ==
    \A s, o \in Session :
        /\ Closedness(s) /\ o \in Stored /\ sess[s].task = sess[o].task
        /\ made[s].what = "guarded" /\ made[o].what = "timer"
        => \A i \in Time : During(s, i) /\ During(o, i) => i >= made[s].asof

OverlapInv ==
    /\ HubInv /\ GuardedAreDisjoint /\ LaterThanCheck
    /\ \A s \in Session : made[s].asof <= now
=============================================================================
