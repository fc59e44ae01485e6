----------------------------- MODULE GroupLife ------------------------------
(***************************************************************************)
(* Groups: who belongs to one and what they may do, invites and links, the *)
(* projects, tasks and time a group shares, its chat, and what devices show *)
(* of it.                                                                  *)
(*                                                                         *)
(* Abstractions: names and colours are left out, and with them PATCH       *)
(* /groups/:id.  Ids are never reused.  The rows of group_members are in   *)
(* the order of created_at.  A task is added and tracked by one statement; *)
(* TaskGraph and SessionLog have what goes on inside a group's project and *)
(* a user's log.  Any group.* signal makes a device refetch its groups.    *)
(***************************************************************************)
EXTENDS Accounts, Sequences, FiniteSets

CONSTANTS Group, Project, Task, Message,
          Home, Founder, Second,  \* the group there is at first, of these two
          Shared, Todo,           \* its project, and the task in that
          Perm,                   \* GROUP_PERMS
          Grants,                 \* bound: the sets of permissions ever given
          GroupsMax,              \* LIMITS.groupsPerUser
          MembersMax,             \* LIMITS.membersPerGroup
          LinksMax,               \* LIMITS.inviteLinksPerGroup
          Uses                    \* bound: the max_uses of links; None is unlimited

ASSUME PermAssumption == Grants \subseteq SUBSET Perm
ASSUME LimitAssumption ==
    GroupsMax \in Nat /\ MembersMax \in Nat /\ MembersMax >= 2 /\ LinksMax \in Nat /\ Uses \subseteq Nat \cup {None}
ASSUME GroupAssumption ==
    /\ None \notin Group \cup Project \cup Task \cup Message
    /\ Home \in Group /\ {Founder, Second} \subseteq User /\ Founder # Second
    /\ Shared \in Project /\ Todo \in Task
    /\ None \notin [by : User, group : Group \cup {None}, dead : BOOLEAN]
    /\ None \notin [by : User, project : Project, dead : BOOLEAN]
ASSUME RequestAssumption ==
    /\ None \notin {"member", "tell"}
    /\ None \notin [kind : {"createGroup", "join", "accept", "leave", "remove", "deleteGroup"}, by : User,
                    on : [group : Group, told : SUBSET User] \cup [group : Group, told : SUBSET User, x : User],
                    seen : (Nat \X Thread) \cup {None}, pc : {"write", "member", "tell"}]

VARIABLES
    owner,     \* D1 groups: Group -> owner_id, or None
    members,   \* D1 group_members: Group -> rows
    invites,   \* D1 group_invites
    links,     \* D1 group_invite_links
    projects,  \* D1 projects: Project -> row, or None
    tasks,     \* D1 tasks
    time,      \* D1 time_sessions: <<user, task>>
    chat,      \* D1 group_messages: Message -> row, or None
    used,      \* ids given out, also those whose row is gone
    listed,    \* User -> groups that the user's devices show
    signalled  \* users whose devices are about to refetch

membership == <<owner, members, invites, links>>
content == <<projects, tasks, time, chat, used>>
devices == <<listed, signalled>>
groupVars == <<membership, content, devices>>

-----------------------------------------------------------------------------
Row(u, role, perms) == [user |-> u, role |-> role, perms |-> perms]

Members(g) == {members[g][i].user : i \in DOMAIN members[g]}
RowOf(g, u) == CHOOSE r \in {members[g][i] : i \in DOMAIN members[g]} : r.user = u
IsOwner(g, u) == u \in Members(g) /\ RowOf(g, u).role = "owner"

(* PRIMARY KEY (group_id, user_id): there is one row at most.             *)
Without(rows, u) ==
    IF \A i \in DOMAIN rows : rows[i].user # u THEN rows
    ELSE LET at == CHOOSE i \in DOMAIN rows : rows[i].user = u
         IN  [i \in 1..(Len(rows) - 1) |-> IF i < at THEN rows[i] ELSE rows[i + 1]]
Updated(rows, u, role, perms) ==
    [i \in DOMAIN rows |-> IF rows[i].user = u THEN Row(u, role, perms) ELSE rows[i]]

(* loadGroupContext, requireGroupPerm: the owner has every permission.     *)
Allows(g, u, perm) ==
    u \in Members(g) /\ (RowOf(g, u).role = "owner" \/ perm \in RowOf(g, u).perms)

Stored(table) == {x \in DOMAIN table : table[x] # None}
LiveIn(g) == {p \in Stored(projects) : projects[p].group = g /\ ~projects[p].dead}

GroupsOf(u) == {g \in Group : u \in Members(g)}

InitGroups ==
    /\ owner = [g \in Group |-> IF g = Home THEN Founder ELSE None]
    /\ members = [g \in Group |-> IF g = Home
                    THEN <<Row(Founder, "owner", {}), Row(Second, "member", {})>> ELSE <<>>]
    /\ invites = {} /\ links = {}
    /\ \E u \in {Founder, Second}, v \in {Founder, Second} :
          /\ scene.kinds \cap {"project", "task"} = {} => u = Second /\ v = Founder
          /\ projects = [p \in Project |->
                IF p = Shared THEN [by |-> u, group |-> Home, dead |-> FALSE] ELSE None]
          /\ tasks = [c \in Task |->
                IF c = Todo THEN [by |-> v, project |-> Shared, dead |-> FALSE] ELSE None]
    /\ time = {<<Founder, Todo>>, <<Second, Todo>>}
    /\ chat = [m \in Message |-> None]
    /\ used = {Home, Shared, Todo}
    /\ listed = [u \in User |-> GroupsOf(u)]
    /\ signalled = {}

(* Mutant: only the members.                                               *)
TellsMembers(t) ==
    /\ reqs[t] # None /\ reqs[t].pc = "tell"
    /\ signalled' = signalled \cup Members(reqs[t].on.group)
    /\ Writes(t, TRUE, None)
    /\ UNCHANGED <<status, membership, content, listed>>

(* emitToGroup: the members there are by now, and some others.             *)
Tells(t) ==
    /\ reqs[t] # None /\ reqs[t].pc = "tell"
    /\ signalled' = signalled \cup Members(reqs[t].on.group) \cup reqs[t].on.told
    /\ Writes(t, TRUE, None)
    /\ UNCHANGED <<status, membership, content, listed>>

(* store.loadGroups.                                                       *)
Refetch(u) ==
    /\ u \in signalled
    /\ listed' = [listed EXCEPT ![u] = GroupsOf(u)]
    /\ signalled' = signalled \ {u}
    /\ UNCHANGED <<accountVars, membership, content>>

On(g, told) == [group |-> g, told |-> told]
About(g, told, x) == [group |-> g, told |-> told, x |-> x]

-----------------------------------------------------------------------------
(* POST /groups: the group, then the owner's membership.                   *)
CreateGroup(t) ==
    \E u \in User, g \in Group :
        /\ g \notin used
        /\ used' = used \cup {g}
        /\ Begins(t, "createGroup", u, On(g, {u}), None)
        /\ UNCHANGED <<membership, projects, tasks, time, chat, devices>>

(* The statement itself counts the groups of the user, who belongs to the  *)
(* new one only with the next statement.                                   *)
InsertGroup(t) ==
    /\ At(t, "createGroup", "write")
    /\ LET q == reqs[t] IN
       IF q.by \in Known /\ Cardinality(GroupsOf(q.by)) < GroupsMax
       THEN owner' = [owner EXCEPT ![q.on.group] = q.by] /\ Writes(t, TRUE, "member")
       ELSE UNCHANGED owner /\ Writes(t, TRUE, None)
    /\ UNCHANGED <<status, members, invites, links, content, devices>>

InsertOwner(t) ==
    /\ At(t, "createGroup", "member")
    /\ LET q == reqs[t] IN
       IF owner[q.on.group] # None
       THEN /\ members' = [members EXCEPT ![q.on.group] = Append(@, Row(q.by, "owner", {}))]
            /\ Writes(t, TRUE, "tell")
       ELSE UNCHANGED members /\ Writes(t, TRUE, None)
    /\ UNCHANGED <<status, owner, invites, links, content, devices>>

(* Mutant: the cap was looked at by the checks.                            *)
SomeRoom(g) == TRUE

HasPlace(g) == Len(members[g]) < MembersMax

(* The INSERT of a member: refused when full, failing the batch when the   *)
(* user is one already or the group is gone.                               *)
JoinFails(g, u) == HasPlace(g) /\ (u \in Members(g) \/ owner[g] = None \/ u \notin Known)
Joins(g, u) == HasPlace(g) /\ ~JoinFails(g, u)
Joined(g, u) == IF Joins(g, u) THEN Append(members[g], Row(u, "member", {})) ELSE members[g]

HasUses(l) == l.max # None => l.used < l.max
Usable(l) == l.state = "active" /\ HasUses(l)

(* POST /groups/join.                                                      *)
JoinByLink(t) ==
    \E l \in links, u \in User :
        Usable(l) /\ Begins(t, "join", u, On(l.group, {u}), l.id) /\ UNCHANGED groupVars

CommitJoin(t) ==
    /\ At(t, "join", "write")
    /\ LET u == reqs[t].by
           g == reqs[t].on.group
           mine == {l \in links : l.id = reqs[t].seen}
           counted == {l \in mine : HasUses(l)}
       IN  IF JoinFails(g, u)
           THEN UNCHANGED <<members, links>> /\ Writes(t, TRUE, None)         \* 409
           ELSE /\ members' = [members EXCEPT ![g] = Joined(g, u)]
                /\ links' = (links \ counted) \cup {[l EXCEPT !.used = @ + 1] : l \in counted}
                /\ Writes(t, \E l \in mine : Usable(l),
                          IF counted # {} /\ Joins(g, u) THEN "tell" ELSE None)
    /\ UNCHANGED <<status, owner, invites, content, devices>>

(* POST /groups/invites/:id/accept.                                        *)
AcceptInvite(t) ==
    \E i \in invites : Begins(t, "accept", i.to, On(i.group, {i.to}), i.id) /\ UNCHANGED groupVars

CommitAccept(t) ==
    /\ At(t, "accept", "write")
    /\ LET u == reqs[t].by
           g == reqs[t].on.group
           mine == {i \in invites : i.id = reqs[t].seen}
       IN  IF JoinFails(g, u)
           THEN UNCHANGED <<members, invites>> /\ Writes(t, TRUE, None)       \* 409
           ELSE /\ members' = [members EXCEPT ![g] = Joined(g, u)]
                /\ invites' = IF Joins(g, u) \/ u \in Members(g) THEN invites \ mine ELSE invites
                /\ Writes(t, mine # {}, IF Joins(g, u) THEN "tell" ELSE None)
    /\ UNCHANGED <<status, owner, links, content, devices>>

DeclineInvite ==
    \E i \in invites :
        /\ AtOnce("decline", i.to)
        /\ invites' = invites \ {i}
        /\ UNCHANGED <<owner, members, links, content, devices>>

-----------------------------------------------------------------------------
(* What those with a permission, or the owner, do.                         *)
Invite(t) ==
    \E u \in User, g \in Group : \E v \in Active \ Members(g) :
        /\ Allows(g, u, "invite_members")
        /\ ~ \E i \in invites : i.group = g /\ i.to = v
        /\ Begins(t, "invite", u, About(g, {v}, v), None) /\ UNCHANGED groupVars

CommitInvite(t) ==
    /\ At(t, "invite", "write")
    /\ LET q == reqs[t]
           g == q.on.group
           fails == \/ owner[g] = None \/ ~({q.by, q.on.x} \subseteq Known)
                    \/ \E i \in invites : i.group = g /\ i.to = q.on.x
           holds == Allows(g, q.by, "invite_members") /\ q.on.x \notin Members(g)
       IN  IF fails THEN UNCHANGED invites /\ Writes(t, TRUE, None)           \* 500
           ELSE /\ invites' = invites \cup {[id |-> <<acts, t>>, group |-> g, to |-> q.on.x, by |-> q.by]}
                /\ Writes(t, holds, "tell")
    /\ UNCHANGED <<status, owner, members, links, content, devices>>

CancelInvite(t) ==
    \E i \in invites, u \in User :
        /\ Allows(i.group, u, "invite_members")
        /\ Begins(t, "cancel", u, On(i.group, {}), i.id) /\ UNCHANGED groupVars

CommitCancel(t) ==
    /\ At(t, "cancel", "write")
    /\ LET mine == {i \in invites : i.id = reqs[t].seen} IN
       /\ invites' = invites \ mine
       /\ Writes(t, mine = {} \/ Allows(reqs[t].on.group, reqs[t].by, "invite_members"),
                 IF mine = {} THEN None ELSE "tell")
    /\ UNCHANGED <<status, owner, members, links, content, devices>>

NewLink(t) ==
    \E u \in User, g \in Group, max \in Uses :
        /\ Allows(g, u, "invite_members")
        /\ Begins(t, "link", u, About(g, {}, max), None) /\ UNCHANGED groupVars

ActiveLinks(g) == {l \in links : l.group = g /\ l.state # "revoked"}

CommitLink(t) ==
    /\ At(t, "link", "write")
    /\ LET q == reqs[t]
           g == q.on.group
       IN  /\ links' = IF Cardinality(ActiveLinks(g)) < LinksMax /\ owner[g] # None /\ q.by \in Known
                       THEN links \cup {[id |-> <<acts, t>>, group |-> g, by |-> q.by, max |-> q.on.x,
                                         used |-> 0, state |-> "active"]}
                       ELSE links
           /\ Writes(t, Allows(g, q.by, "invite_members"), None)
    /\ UNCHANGED <<status, owner, members, invites, content, devices>>

RevokeLink(t) ==
    \E l \in links, u \in User :
        /\ Allows(l.group, u, "invite_members")
        /\ Begins(t, "revoke", u, On(l.group, {}), l.id) /\ UNCHANGED groupVars

CommitRevoke(t) ==
    /\ At(t, "revoke", "write")
    /\ LET mine == {l \in links : l.id = reqs[t].seen} IN
       links' = (links \ mine) \cup {[l EXCEPT !.state = "revoked"] : l \in mine}
    /\ Writes(t, Allows(reqs[t].on.group, reqs[t].by, "invite_members"), None)
    /\ UNCHANGED <<status, owner, members, invites, content, devices>>

(* expires_at passes.                                                      *)
Expire ==
    /\ Acts("link")
    /\ \E l \in links : l.state = "active" /\ links' = (links \ {l}) \cup {[l EXCEPT !.state = "expired"]}
    /\ UNCHANGED <<status, reqs, scene, stale, cut, owner, members, invites, content, devices>>

-----------------------------------------------------------------------------
(* Membership changes.                                                     *)
Leave(t) ==
    \E u \in User, g \in Group :
        /\ u \in Members(g) /\ ~IsOwner(g, u)
        /\ Begins(t, "leave", u, About(g, {u}, u), None) /\ UNCHANGED groupVars

(* The owner is whom the group names, not who has the role.                *)
RemoveMember(t) ==
    \E u \in User, g \in Group : \E v \in User \ {u, owner[g]} :
        /\ Allows(g, u, "remove_members")
        /\ Begins(t, "remove", u, About(g, {v}, v), None) /\ UNCHANGED groupVars

CommitLeave(t) ==
    /\ At(t, "leave", "write") \/ At(t, "remove", "write")
    /\ LET q == reqs[t]
           g == q.on.group
           holds == IF q.kind = "leave" THEN ~IsOwner(g, q.on.x)
                    ELSE Allows(g, q.by, "remove_members") /\ q.on.x # owner[g]
           told == q.kind = "leave" \/ q.on.x \in Members(g)
       IN  /\ members' = [members EXCEPT ![g] = Without(@, q.on.x)]
           /\ Writes(t, holds, IF told THEN "tell" ELSE None)
    /\ UNCHANGED <<status, owner, invites, links, content, devices>>

(* PATCH /groups/:id/members/:userId.                                      *)
PatchMember(t) ==
    \E u \in User, g \in Group : \E v \in Members(g) \ {u}, perms \in Grants, role \in {"admin", "member"} :
        /\ IsOwner(g, u) /\ ~IsOwner(g, v)
        /\ Row(v, role, perms) # RowOf(g, v)
        /\ Begins(t, "patchMember", u, About(g, {}, Row(v, role, perms)), None) /\ UNCHANGED groupVars

CommitPatch(t) ==
    /\ At(t, "patchMember", "write")
    /\ LET g == reqs[t].on.group
           r == reqs[t].on.x
       IN  /\ members' = [members EXCEPT ![g] = Updated(@, r.user, r.role, r.perms)]
           /\ Writes(t, IsOwner(g, reqs[t].by) /\ ~IsOwner(g, r.user), "tell")
    /\ UNCHANGED <<status, owner, invites, links, content, devices>>

-----------------------------------------------------------------------------
(* What rows become when others are deleted for good: `by` the user they   *)
(* were of, `gone` the groups.                                             *)
Cascade(ps, cs, rows, by, gone) ==
    LET kept == [p \in Project |->
            IF ps[p] # None /\ (ps[p].by = by \/ ps[p].group \in gone) THEN None ELSE ps[p]]
        left == [c \in Task |->
            IF cs[c] # None /\ (cs[c].by = by \/ kept[cs[c].project] = None) THEN None ELSE cs[c]]
    IN  /\ projects' = kept
        /\ tasks' = left
        /\ time' = {r \in rows : r[1] # by /\ left[r[2]] # None}

(* Mutant: the projects go with the group.                                 *)
StillAttached(gs, ps) == ps

(* Before groups are deleted: their tasks are tombstoned, and those of     *)
(* their projects that are not tombstones yet are detached and tombstoned. *)
Detached(gs, ps) ==
    [p \in Project |-> IF ps[p] # None /\ ps[p].group \in gs /\ ~ps[p].dead
                       THEN [ps[p] EXCEPT !.group = None, !.dead = TRUE] ELSE ps[p]]
Tombstoned(gs, ps, cs) ==
    [c \in Task |-> IF cs[c] # None /\ ps[cs[c].project].group \in gs
                    THEN [cs[c] EXCEPT !.dead = TRUE] ELSE cs[c]]

(* What the rows of groups take along.                                     *)
DropGroups(rows, gs, lost) ==
    /\ members' = [g \in Group |-> IF g \in gs THEN <<>> ELSE Without(rows[g], lost)]
    /\ chat' = [m \in Message |->
          IF chat[m] # None /\ (chat[m].group \in gs \/ chat[m].by = lost) THEN None ELSE chat[m]]
    /\ invites' = {i \in invites : i.group \notin gs /\ lost \notin {i.to, i.by}}
    /\ links' = {l \in links : l.group \notin gs /\ l.by # lost}

(* DELETE /groups/:id.                                                     *)
DeleteGroup(t) ==
    \E u \in User, g \in Group :
        /\ IsOwner(g, u)
        /\ Begins(t, "deleteGroup", u, On(g, Members(g)), None) /\ UNCHANGED groupVars

CommitDeleteGroup(t) ==
    /\ At(t, "deleteGroup", "write")
    /\ LET g == reqs[t].on.group IN
       /\ owner' = [owner EXCEPT ![g] = None]
       /\ DropGroups(members, {g}, None)
       /\ Cascade(Detached({g}, projects), Tombstoned({g}, projects, tasks), time, None, {g})
       /\ Writes(t, IsOwner(g, reqs[t].by) /\ Members(g) = reqs[t].on.told, "tell")
    /\ UNCHANGED <<status, used, devices>>

-----------------------------------------------------------------------------
(* The group's projects, and the time tracked on them.                     *)
NewProject(t) ==
    \E u \in User, g \in Group, p \in Project \ used :
        /\ Allows(g, u, "manage_projects")
        /\ Begins(t, "project", u, On(g, {}), p)
        /\ used' = used \cup {p}
        /\ UNCHANGED <<membership, projects, tasks, time, chat, devices>>

CommitProject(t) ==
    /\ At(t, "project", "write")
    /\ LET q == reqs[t] IN
       /\ projects' = IF owner[q.on.group] # None /\ q.by \in Known
                      THEN [projects EXCEPT ![q.seen] = [by |-> q.by, group |-> q.on.group, dead |-> FALSE]]
                      ELSE projects
       /\ Writes(t, Allows(q.on.group, q.by, "manage_projects"), None)
    /\ UNCHANGED <<status, membership, tasks, time, chat, used, devices>>

(* DELETE /projects/:id of a group's project.                              *)
DropProject(u) ==
    /\ AtOnce("dropProject", u)
    /\ \E g \in Group : \E p \in LiveIn(g) :
          /\ Allows(g, u, "manage_projects")
          /\ projects' = [projects EXCEPT ![p].dead = TRUE]
          /\ tasks' = [c \in Task |-> IF tasks[c] # None /\ tasks[c].project = p
                                      THEN [tasks[c] EXCEPT !.dead = TRUE] ELSE tasks[c]]
    /\ UNCHANGED <<membership, time, chat, used, devices>>

AddTask(u) ==
    /\ AtOnce("task", u)
    /\ \E g \in Group, c \in Task \ used : \E p \in LiveIn(g) :
          /\ Allows(g, u, "edit_tasks")
          /\ used' = used \cup {c}
          /\ tasks' = [tasks EXCEPT ![c] = [by |-> u, project |-> p, dead |-> FALSE]]
    /\ UNCHANGED <<membership, projects, time, chat, devices>>

TrackTime(u) ==
    /\ AtOnce("track", u)
    /\ \E g \in GroupsOf(u), c \in Stored(tasks) :
          /\ ~tasks[c].dead /\ tasks[c].project \in LiveIn(g) /\ <<u, c>> \notin time
          /\ time' = time \cup {<<u, c>>}
    /\ UNCHANGED <<membership, projects, tasks, chat, used, devices>>

-----------------------------------------------------------------------------
(* Chat.  What is written is a version; a deleted body is blank.           *)
Post(u) ==
    /\ AtOnce("post", u)
    /\ \E g \in GroupsOf(u), m \in Message \ used :
          /\ chat' = [chat EXCEPT ![m] = [group |-> g, by |-> u, body |-> 1, dead |-> FALSE]]
          /\ used' = used \cup {m}
    /\ UNCHANGED <<membership, projects, tasks, time, devices>>

EditMessage(t) ==
    \E m \in Stored(chat) :
        /\ ~chat[m].dead /\ chat[m].by \in Members(chat[m].group)
        /\ Begins(t, "edit", chat[m].by, On(chat[m].group, {}), m) /\ UNCHANGED groupVars

CommitEdit(t) ==
    /\ At(t, "edit", "write")
    /\ LET m == reqs[t].seen IN
       /\ chat' = IF chat[m] = None THEN chat ELSE [chat EXCEPT ![m].body = acts]
       /\ Writes(t, chat[m] # None /\ ~chat[m].dead, None)
    /\ UNCHANGED <<status, membership, projects, tasks, time, used, devices>>

DeleteMessage(t) ==
    \E m \in Stored(chat), u \in User :
        /\ ~chat[m].dead /\ u \in Members(chat[m].group)
        /\ chat[m].by = u \/ Allows(chat[m].group, u, "moderate_messages")
        /\ Begins(t, "dropMessage", u, On(chat[m].group, {}), m) /\ UNCHANGED groupVars

CommitDeleteMessage(t) ==
    /\ At(t, "dropMessage", "write")
    /\ LET m == reqs[t].seen IN
       /\ chat' = IF chat[m] = None THEN chat ELSE [chat EXCEPT ![m].body = 0, ![m].dead = TRUE]
       /\ Writes(t, chat[m] # None /\ ~chat[m].dead, None)
    /\ UNCHANGED <<status, membership, projects, tasks, time, used, devices>>

(* Mutant: the body is blank because the row's is.                         *)
PresentedAsStored(r) == r.body

(* presenter: what GET /groups/:id/messages answers with.                  *)
Presented(r) == IF r.dead THEN 0 ELSE r.body

GroupsNext ==
    \/ \E t \in Thread :
          \/ Tells(t)
          \/ CreateGroup(t) \/ InsertGroup(t) \/ InsertOwner(t)
          \/ JoinByLink(t) \/ CommitJoin(t)
          \/ AcceptInvite(t) \/ CommitAccept(t)
          \/ Invite(t) \/ CommitInvite(t) \/ CancelInvite(t) \/ CommitCancel(t)
          \/ NewLink(t) \/ CommitLink(t) \/ RevokeLink(t) \/ CommitRevoke(t)
          \/ Leave(t) \/ RemoveMember(t) \/ CommitLeave(t)
          \/ PatchMember(t) \/ CommitPatch(t)
          \/ DeleteGroup(t) \/ CommitDeleteGroup(t)
          \/ NewProject(t) \/ CommitProject(t)
          \/ EditMessage(t) \/ CommitEdit(t)
          \/ DeleteMessage(t) \/ CommitDeleteMessage(t)
    \/ DeclineInvite \/ Expire
    \/ \E u \in User :
          Refetch(u) \/ DropProject(u) \/ AddTask(u) \/ TrackTime(u) \/ Post(u)
=============================================================================
