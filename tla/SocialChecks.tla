---------------------------- MODULE SocialChecks ----------------------------
(* What friends, groups and the deletion of accounts promise.              *)
EXTENDS Social

Half(g) == \E t \in Thread : At(t, "createGroup", "member") /\ reqs[t].on.group = g

(* The caps are the statements' own, so that requests that all passed      *)
(* their checks still never get a group, a link or a list of friends past  *)
(* its limit.                                                              *)
CapsHold ==
    /\ \A g \in Group : Len(members[g]) <= MembersMax /\ Cardinality(ActiveLinks(g)) <= LinksMax
    /\ \A l \in links : l.max # None => l.used <= l.max
    /\ \A u \in User : /\ Cardinality(FriendsOf(u)) <= FriendsMax
                       /\ Cardinality({r \in asked : r.from = u}) <= PendingMax

(* Every group has exactly one member with the role of owner, and it is    *)
(* the user the group names, as long as no request has written on grounds  *)
(* that had gone and no Worker died between the two rows of a new group.   *)
OwnerHolds ==
    ~stale /\ ~cut =>
        \A g \in Group : owner[g] # None /\ ~Half(g) => {u \in Members(g) : IsOwner(g, u)} = {owner[g]}

(* A device that has followed every signal shows the groups its user       *)
(* belongs to, on the same condition.                                      *)
ListsFollow ==
    /\ ~stale /\ ~cut
    /\ signalled = {} /\ \A t \in Thread : reqs[t] = None
    => \A u \in Active : listed[u] = GroupsOf(u)

(* INV-06: time that others tracked on a group's project is not lost while *)
(* the project is there: not with the group, not with the account of its   *)
(* or the task's creator, unless the group goes along with that account.   *)
SharedTimeSurvives ==
    [][\A r \in time \ time' :
          LET p == tasks[r[2]].project IN
          \/ status'[r[1]] = "gone"
          \/ projects[p].dead
          \/ status' # status /\ projects[p].group # None /\ owner'[projects[p].group] = None]_vars

(* A deleted message is never served again, also where an edit that was    *)
(* under way writes its body anew.                                         *)
DeletedStaysHidden ==
    [][\A m \in Message : chat[m] # None /\ chat[m].dead /\ chat'[m] # None => Presented(chat'[m]) = 0]_vars

(* architecture.md:243-246: deleting a group "tombstones the group's tasks *)
(* and detaches + tombstones its projects INSTEAD of letting" the cascade  *)
(* take every member's sessions.                                           *)
TimeOutlivesGroup ==
    [][\A g \in Group : owner[g] # None /\ owner'[g] = None /\ status' = status => time' = time]_vars

-----------------------------------------------------------------------------
(* What makes these inductive.  Every row and every request has its type.  *)
GroupKind == {"createGroup", "join", "accept", "invite", "cancel", "link", "revoke", "leave", "remove",
              "patchMember", "deleteGroup", "project", "edit", "dropMessage"}

MemberRow == [user : User, role : {"owner", "admin", "member"}, perms : SUBSET Perm]
InviteRow == [id : Nat \X Thread, group : Group, to : User, by : User]
LinkRow == [id : Nat \X Thread, group : Group, by : User, max : Uses, used : Nat,
            state : {"active", "expired", "revoked"}]
ProjectRow == [by : User, group : Group \cup {None}, dead : BOOLEAN]
TaskRow == [by : User, project : Project, dead : BOOLEAN]
MessageRow == [group : Group, by : User, body : Nat, dead : BOOLEAN]

(* The requests whose steps change who belongs to a group.                 *)
MemberKind == {"createGroup", "join", "accept", "leave", "remove", "deleteGroup"}
MemberRequest ==
    [kind : MemberKind, by : User,
     on : [group : Group, told : SUBSET User] \cup [group : Group, told : SUBSET User, x : User],
     seen : (Nat \X Thread) \cup {None}, pc : {"write", "member", "tell"}]

Typed(q) ==
    /\ q = [kind |-> q.kind, by |-> q.by, on |-> q.on, seen |-> q.seen, pc |-> q.pc]
    /\ q.by \in User /\ q.pc \in {"write", "member", "tell"}
    /\ q.pc = "member" => q.kind = "createGroup"
    /\ q.pc = "tell" => q.kind \in GroupKind
    /\ q.kind \in MemberKind => q \in MemberRequest
    /\ q.kind \in {"request", "acceptFriend"} => q.on \in User
    /\ q.kind \in GroupKind => q.on.group \in Group /\ q.on.told \in SUBSET User
    /\ q.kind \in {"invite", "leave", "remove"} => q.on.x \in User
    /\ q.kind \in {"createGroup", "join", "accept"} => q.by \in q.on.told
    /\ q.kind \in {"leave", "remove"} => q.on.x \in q.on.told
    /\ q.kind = "link" => q.on.x \in Uses
    /\ q.kind = "patchMember" => q.on.x \in MemberRow /\ q.on.x.role # "owner"
    /\ q.kind = "project" => q.seen \in Project
    /\ q.kind \in {"edit", "dropMessage"} => q.seen \in Message
    /\ q.kind = "deleteMe" => \A g \in DOMAIN q.seen : g \in Group /\ q.seen[g] \in User \cup {None}

TypeOK ==
    /\ acts \in Nat /\ {stale, cut} \subseteq BOOLEAN
    /\ status \in [User -> {"active", "inactive", "gone"}]
    /\ reqs = [t \in Thread |-> reqs[t]] /\ \A t \in Thread : reqs[t] # None => Typed(reqs[t])
    /\ owner \in [Group -> User \cup {None}] /\ members \in [Group -> Seq(MemberRow)]
    /\ invites \subseteq InviteRow /\ links \subseteq LinkRow
    /\ projects \in [Project -> ProjectRow \cup {None}] /\ tasks \in [Task -> TaskRow \cup {None}]
    /\ time \subseteq User \X Task /\ chat \in [Message -> MessageRow \cup {None}]
    /\ listed \in [User -> SUBSET Group] /\ signalled \subseteq User
    /\ asked \subseteq [id : Nat \X Thread, from : User, to : User] /\ friends \subseteq User \X User

(* PRIMARY KEY (group_id, user_id).                                        *)
OneEach(rows) == \A i, j \in DOMAIN rows : rows[i].user = rows[j].user => i = j

OneRowEach == \A g \in Group : OneEach(members[g])

(* Nobody knows of a group before its owner is a member of it.             *)
Creates(t, g) ==
    reqs[t] # None /\ reqs[t].kind = "createGroup" /\ reqs[t].pc \in {"write", "member"} /\ reqs[t].on.group = g

Born(g) == g \in used /\ \A t \in Thread : ~Creates(t, g)

Grounds(t) ==
    reqs[t] # None /\ reqs[t].kind \in GroupKind =>
        LET g == reqs[t].on.group IN
        IF reqs[t].kind = "createGroup" /\ reqs[t].pc # "tell"
        THEN g \in used /\ \A o \in Thread : Creates(o, g) => o = t
        ELSE Born(g)

Births ==
    /\ \A g \in Group : members[g] # <<>> => Born(g)
    /\ \A l \in links : Born(l.group)
    /\ \A i \in invites : Born(i.group)
    /\ \A t \in Thread : Grounds(t)

(* The foreign keys, and that a project is detached only when it is a      *)
(* tombstone.                                                              *)
References ==
    /\ \A g \in Group : owner[g] # None => owner[g] \in Known
    /\ \A p \in Stored(projects) :
          /\ projects[p].by \in Known
          /\ IF projects[p].group = None THEN projects[p].dead ELSE owner[projects[p].group] # None
    /\ \A c \in Stored(tasks) : tasks[c].by \in Known /\ projects[tasks[c].project] # None
    /\ \A r \in time : tasks[r[2]] # None

MessagesUsed == \A m \in Stored(chat) : m \in used

(* The member whom a group names is its one owner.                         *)
OwnedBy(rows, u) ==
    /\ \E i \in DOMAIN rows : rows[i].user = u
    /\ \A i \in DOMAIN rows : rows[i].role = "owner" <=> rows[i].user = u

RolesHold ==
    ~stale /\ ~cut =>
        /\ \A g \in Group : IF owner[g] = None THEN members[g] = <<>> ELSE Half(g) \/ OwnedBy(members[g], owner[g])
        /\ \A t \in Thread : At(t, "createGroup", "member") => owner[reqs[t].on.group] \in {None, reqs[t].by}

(* Whoever does not see the groups he belongs to is about to be told.      *)
ToldOf(u) ==
    u \in signalled \/ \E t \in Thread : reqs[t] # None /\ reqs[t].pc = "tell" /\ u \in reqs[t].on.told

ListsKept == ~stale /\ ~cut => \A u \in Active : listed[u] = GroupsOf(u) \/ ToldOf(u)

(* What is counted is finite.                                              *)
SentBy(u) == {r \in asked : r.from = u}

Countable ==
    /\ \A g \in Group : IsFiniteSet(ActiveLinks(g))
    /\ \A u \in User : IsFiniteSet(FriendsOf(u)) /\ IsFiniteSet(SentBy(u))

SocialInv ==
    /\ TypeOK /\ OneRowEach /\ Births /\ References /\ MessagesUsed
    /\ RolesHold /\ ListsKept /\ Countable /\ CapsHold
=============================================================================
