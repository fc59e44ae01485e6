------------------------------ MODULE Accounts ------------------------------
(***************************************************************************)
(* What the social routes share: the accounts, and the requests in flight. *)
(* A request checks, then writes, then announces what it has written, each *)
(* in statements of its own; other requests come in between, and the Worker *)
(* may die between two of its steps.                                       *)
(***************************************************************************)
EXTENDS Integers

CONSTANTS User,
          Thread,  \* bound: requests in flight at once
          None,
          Scenes,  \* bound: the acts a behaviour is made of, and how many of them
          MayDie   \* may the Worker die in the middle of a request?

ASSUME UserAssumption == None \notin User
ASSUME SceneAssumption == \A s \in Scenes : s.max \in Nat

VARIABLES
    status,  \* D1 users: User -> "active", "inactive", "gone"
    reqs,    \* the requests in flight
    acts,    \* how many acts there have been: requests, administration, bad luck
    scene,   \* which of Scenes this behaviour is
    stale,   \* history: has a request written on grounds that no longer held?
    cut      \* history: has the Worker died in the middle of a request?

accountVars == <<status, reqs, acts, scene, stale, cut>>

-----------------------------------------------------------------------------
Active == {u \in User : status[u] = "active"}
Known == {u \in User : status[u] # "gone"}

Acts(kind) == kind \in scene.kinds /\ acts < scene.max /\ acts' = acts + 1

(* `on` is what the request names, `seen` what its checks have read that   *)
(* it still uses.                                                          *)
Begins(t, kind, u, on, seen) ==
    /\ reqs[t] = None /\ u \in Active
    /\ Acts(kind)
    /\ reqs' = [reqs EXCEPT ![t] = [kind |-> kind, by |-> u, on |-> on, seen |-> seen, pc |-> "write"]]
    /\ UNCHANGED <<status, scene, stale, cut>>

At(t, kind, pc) == reqs[t] # None /\ reqs[t].kind = kind /\ reqs[t].pc = pc

(* The write of a request whose grounds are, or are no longer, what they   *)
(* were; `next` is where it goes on, None at its end.                      *)
Writes(t, holds, next) ==
    /\ stale' = (stale \/ ~holds)
    /\ reqs' = [reqs EXCEPT ![t] = IF next = None THEN None ELSE [@ EXCEPT !.pc = next]]
    /\ UNCHANGED <<acts, scene, cut>>

(* A request of one statement.                                             *)
AtOnce(kind, u) ==
    /\ u \in Active /\ Acts(kind)
    /\ UNCHANGED <<status, reqs, scene, stale, cut>>

InitAccounts ==
    /\ status = [u \in User |-> "active"]
    /\ reqs = [t \in Thread |-> None]
    /\ acts = 0
    /\ scene \in Scenes
    /\ stale = FALSE /\ cut = FALSE

(* What an administrator does with an account.                             *)
Deactivate(u) ==
    /\ status[u] = "active" /\ Acts("deactivate")
    /\ status' = [status EXCEPT ![u] = "inactive"]
    /\ UNCHANGED <<reqs, scene, stale, cut>>

Activate(u) ==
    /\ status[u] = "inactive" /\ Acts("deactivate")
    /\ status' = [status EXCEPT ![u] = "active"]
    /\ UNCHANGED <<reqs, scene, stale, cut>>

Die(t) ==
    /\ MayDie /\ reqs[t] # None /\ acts < scene.max
    /\ acts' = acts + 1
    /\ reqs' = [reqs EXCEPT ![t] = None]
    /\ cut' = TRUE
    /\ UNCHANGED <<status, scene, stale>>
=============================================================================
