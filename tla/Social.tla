------------------------------- MODULE Social -------------------------------
(***************************************************************************)
(* Friends and groups together, and the deletion of an account, which goes *)
(* through both: the groups the user owns are handed on or deleted, what   *)
(* the user has created in others' groups is made over to their owners, and *)
(* all else of the user's goes.                                            *)
(*                                                                         *)
(* Abstractions: names are left out, so that no row made over to its new   *)
(* owner has a name that one of the owner's has.                           *)
(***************************************************************************)
EXTENDS Friends, GroupLife

vars == <<accountVars, friendVars, groupVars>>

-----------------------------------------------------------------------------
(* What DELETE /me reads: the groups the user owns, and who comes next in  *)
(* each, None when no other member is active.                              *)
Successor(g, u) ==
    LET others == {i \in DOMAIN members[g] : members[g][i].user \in Active \ {u}}
    IN  IF others = {} THEN None
        ELSE members[g][CHOOSE i \in others : \A j \in others : i <= j].user

Plan(u) == [g \in {h \in Group : owner[h] = u} |-> Successor(g, u)]

DeleteMe(t) ==
    \E u \in User : Begins(t, "deleteMe", u, None, Plan(u)) /\ UNCHANGED <<friendVars, groupVars>>

(* Mutant: the group gets its owner, the member no role.                   *)
NotPromoted(rows, old, new) == rows

Promoted(rows, old, new) ==
    [i \in DOMAIN rows |->
        IF rows[i].user = new THEN [rows[i] EXCEPT !.role = "owner"]
        ELSE IF rows[i].user = old /\ rows[i].role = "owner" THEN [rows[i] EXCEPT !.role = "member"]
        ELSE rows[i]]

(* Rows of a group's projects follow the group's owner.                    *)
MadeOver(u, owners, ps) ==
    [p \in Project |-> IF ps[p] # None /\ ps[p].by = u /\ ps[p].group # None
                       THEN [ps[p] EXCEPT !.by = owners[ps[p].group]] ELSE ps[p]]
TasksMadeOver(u, owners, ps, cs) ==
    [c \in Task |-> IF cs[c] # None /\ cs[c].by = u /\ ps[cs[c].project].group # None
                    THEN [cs[c] EXCEPT !.by = owners[ps[cs[c].project].group]] ELSE cs[c]]

(* One batch; groups.owner_id has no ON DELETE, so it fails where the user *)
(* still owns a group or the next owner is gone.                           *)
CommitDeleteMe(t) ==
    /\ At(t, "deleteMe", "write")
    /\ LET u == reqs[t].by
           plan == reqs[t].seen
           passed == {g \in DOMAIN plan : plan[g] # None /\ owner[g] # None}
           solo == {g \in DOMAIN plan : plan[g] = None}
           owners == [g \in Group |-> IF g \in passed THEN plan[g]
                                      ELSE IF g \in solo THEN None ELSE owner[g]]
           rows == [g \in Group |-> IF g \in passed THEN Promoted(members[g], u, plan[g]) ELSE members[g]]
           ps == Detached(solo, projects)
           cs == Tombstoned(solo, projects, tasks)
           fails == (\E g \in Group : owners[g] = u) \/ (\E g \in passed : plan[g] \notin Known)
       IN  /\ Writes(t, plan = Plan(u), None)
           /\ IF fails THEN UNCHANGED <<status, friendVars, groupVars>>
              ELSE /\ status' = [status EXCEPT ![u] = "gone"]
                   /\ owner' = owners
                   /\ DropGroups(rows, solo, u)
                   /\ Cascade(MadeOver(u, owners, ps), TasksMadeOver(u, owners, ps, cs), time, u, solo)
                   /\ asked' = {r \in asked : u \notin {r.from, r.to}}
                   /\ friends' = {f \in friends : u \notin {f[1], f[2]}}
                   /\ timer' = [timer EXCEPT ![u] = "off"]
                   /\ shown' = [shown EXCEPT ![u] = {}]
                   /\ UNCHANGED <<used, devices>>

(* A device of an account that is back signs in and loads everything.      *)
SetActive(u) ==
    \/ Deactivate(u) /\ UNCHANGED <<friendVars, groupVars>>
    \/ /\ Activate(u)
       /\ signalled' = signalled \cup {u}
       /\ UNCHANGED <<friendVars, membership, content, listed>>

Init == InitAccounts /\ InitFriends /\ InitGroups

Next ==
    \/ FriendsNext /\ UNCHANGED groupVars
    \/ GroupsNext /\ UNCHANGED friendVars
    \/ \E t \in Thread : \/ DeleteMe(t) \/ CommitDeleteMe(t)
                         \/ Die(t) /\ UNCHANGED <<friendVars, groupVars>>
    \/ \E u \in User : SetActive(u)

Spec == Init /\ [][Next]_vars
=============================================================================
