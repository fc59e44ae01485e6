---------------------------- MODULE SocialProofs ----------------------------
(***************************************************************************)
(* The caps of friends and groups, the owner of a group, the lists devices *)
(* show, shared time and deleted messages: for any number of users, groups *)
(* and requests in flight.                                                 *)
(***************************************************************************)
EXTENDS SocialChecks, FiniteSetTheorems, TLAPS

(* Requests.                                                               *)
Moves(t, q) == reqs' = [reqs EXCEPT ![t] = q]

(* What a request that begins may be about.                                *)
Grounded(q) ==
    q.kind \in GroupKind =>
        IF q.kind = "createGroup" THEN q.on.group \notin used /\ q.on.group \in used' ELSE Born(q.on.group)

BeginStep(t) ==
    \E q : reqs[t] = None /\ Moves(t, q) /\ Typed(q) /\ q.pc = "write" /\ Grounded(q)

MoveStep(t) ==
    /\ reqs[t] # None
    /\ \/ Moves(t, None)
       \/ /\ Moves(t, [reqs[t] EXCEPT !.pc = "tell"])
          /\ reqs[t].pc # "tell" /\ reqs[t].kind \in GroupKind
       \/ /\ Moves(t, [reqs[t] EXCEPT !.pc = "member"])
          /\ reqs[t].pc = "write" /\ reqs[t].kind = "createGroup"

LEMMA Moved ==
    ASSUME TypeOK, NEW t \in Thread, NEW q, Moves(t, q)
    PROVE  /\ reqs' = [x \in Thread |-> reqs'[x]] /\ reqs'[t] = q
           /\ \A x \in Thread \ {t} : reqs'[x] = reqs[x]
<1>1. reqs = [x \in Thread |-> reqs[x]]
  BY DEF TypeOK
<1>2. reqs' = [x \in Thread |-> IF x = t THEN q ELSE reqs[x]]
  BY <1>1 DEF Moves
<1>3. QED
  BY <1>2

LEMMA RequestType ==
    ASSUME TypeOK, NEW t \in Thread, reqs[t] # None
    PROVE  Typed(reqs[t])
  BY DEF TypeOK

LEMMA BeginsMoves ==
    ASSUME TypeOK, NEW t \in Thread, NEW kind, NEW u \in User, NEW on, NEW seen, Begins(t, kind, u, on, seen)
    PROVE  LET q == [kind |-> kind, by |-> u, on |-> on, seen |-> seen, pc |-> "write"]
           IN  /\ reqs[t] = None /\ u \in User /\ u \in Active /\ Moves(t, q) /\ acts' = acts + 1
               /\ q = [kind |-> q.kind, by |-> q.by, on |-> q.on, seen |-> q.seen, pc |-> q.pc]
               /\ UNCHANGED <<status, scene, stale, cut>>
  BY DEF Begins, Acts, Moves

LEMMA WritesMoves ==
    ASSUME NEW t \in Thread, NEW holds, NEW next, Writes(t, holds, next)
    PROVE  /\ Moves(t, None) \/ (next # None /\ Moves(t, [reqs[t] EXCEPT !.pc = next]))
           /\ acts' = acts /\ scene' = scene /\ cut' = cut
           /\ stale' = (stale \/ ~holds)
  BY DEF Writes, Moves

LEMMA RowType ==
    ASSUME TypeOK, NEW g \in Group, NEW i \in DOMAIN members[g]
    PROVE  /\ members[g] \in Seq(MemberRow) /\ DOMAIN members[g] = 1..Len(members[g]) /\ Len(members[g]) \in Nat
           /\ members[g][i] \in MemberRow /\ members[g][i].user \in User
<1>1. members[g] \in Seq(MemberRow)
  BY DEF TypeOK
<1>2. members[g][i] \in MemberRow
  BY <1>1
<1>3. QED
  BY <1>1, <1>2 DEF MemberRow

LEMMA MembersType ==
    ASSUME TypeOK, NEW g \in Group
    PROVE  Members(g) \in SUBSET User
  BY RowType DEF Members

LEMMA MemberBorn ==
    ASSUME Births, NEW g \in Group, NEW u, u \in Members(g)
    PROVE  Born(g)
  BY DEF Births, Members

LEMMA AllowedBorn ==
    ASSUME Births, NEW g \in Group, NEW u, NEW p, Allows(g, u, p) \/ IsOwner(g, u)
    PROVE  Born(g)
  BY MemberBorn DEF Allows, IsOwner

-----------------------------------------------------------------------------
(* Every step of a request, one action after the other.                    *)
LEMMA FriendBegins ==
    ASSUME TypeOK, NEW t \in Thread, NEW kind \in {"request", "acceptFriend"}, NEW u \in User, NEW v \in User,
           NEW seen, Begins(t, kind, u, v, seen)
    PROVE  BeginStep(t)
<1> DEFINE q == [kind |-> kind, by |-> u, on |-> v, seen |-> seen, pc |-> "write"]
<1>1. reqs[t] = None /\ Moves(t, q)
  BY BeginsMoves
<1>2. Typed(q)
  BY DEF Typed, GroupKind, MemberKind
<1>3. Grounded(q)
  BY DEF Grounded, GroupKind
<1>4. QED
  BY <1>1, <1>2, <1>3 DEF BeginStep

LEMMA FriendsBegin ==
    ASSUME TypeOK, NEW t \in Thread, Request(t) \/ Accept(t)
    PROVE  BeginStep(t)
<1>1. CASE Request(t)
  <2>1. PICK u \in User, v \in User : \E seen : Begins(t, "request", u, v, seen)
    BY <1>1 DEF Request, Active
  <2>2. QED
    BY <2>1, FriendBegins
<1>2. CASE Accept(t)
  <2>1. PICK r \in asked : Begins(t, "acceptFriend", r.to, r.from, r.id)
    BY <1>2 DEF Accept
  <2>2. r.to \in User /\ r.from \in User
    BY DEF TypeOK
  <2>3. QED
    BY <2>1, <2>2, FriendBegins
<1>3. QED
  BY <1>1, <1>2

(* A request of a member, or by an invite or a link.                       *)
LEMMA OnBegins ==
    ASSUME TypeOK, NEW t \in Thread, NEW kind \in GroupKind \ {"createGroup", "invite", "leave", "remove", "link", "patchMember"},
           NEW u \in User, NEW g \in Group, Born(g), NEW told \in SUBSET User, NEW seen,
           kind = "project" => seen \in Project, kind \in {"edit", "dropMessage"} => seen \in Message,
           kind \in {"join", "accept"} => u \in told, kind \in MemberKind => seen \in (Nat \X Thread) \cup {None},
           Begins(t, kind, u, On(g, told), seen)
    PROVE  BeginStep(t)
<1> DEFINE q == [kind |-> kind, by |-> u, on |-> On(g, told), seen |-> seen, pc |-> "write"]
<1>1. reqs[t] = None /\ Moves(t, q)
  BY BeginsMoves
<1>2. q.on.group = g /\ q.on.told = told /\ q.kind = kind /\ q.seen = seen /\ q.pc = "write" /\ q.by = u
  BY DEF On
<1>3. Typed(q)
  <2>1. kind \in MemberKind => q \in MemberRequest
    BY DEF MemberKind, MemberRequest, On, GroupKind
  <2>2. QED
    BY <2>1 DEF Typed, GroupKind, On
<1>4. Grounded(q)
  BY <1>2 DEF Grounded
<1>5. QED
  BY <1>1, <1>2, <1>3, <1>4 DEF BeginStep

LEMMA AboutBegins ==
    ASSUME TypeOK, NEW t \in Thread, NEW kind \in {"invite", "leave", "remove", "link", "patchMember"},
           NEW u \in User, NEW g \in Group, Born(g), NEW told \in SUBSET User, NEW x,
           kind \in {"invite", "leave", "remove"} => x \in User,
           kind \in {"leave", "remove"} => x \in told,
           kind = "link" => x \in Uses,
           kind = "patchMember" => x \in MemberRow /\ x.role # "owner",
           Begins(t, kind, u, About(g, told, x), None)
    PROVE  BeginStep(t)
<1> DEFINE q == [kind |-> kind, by |-> u, on |-> About(g, told, x), seen |-> None, pc |-> "write"]
<1>1. reqs[t] = None /\ Moves(t, q)
  BY BeginsMoves
<1>2. q.on.group = g /\ q.on.told = told /\ q.on.x = x /\ q.kind = kind /\ q.pc = "write" /\ q.by = u
  BY DEF About
<1>3. Typed(q)
  <2>1. kind \in {"leave", "remove"} => q \in MemberRequest
    <3>1. kind \in {"leave", "remove"} => About(g, told, x) \in [group : Group, told : SUBSET User, x : User]
      BY DEF About
    <3>2. QED
      BY <3>1 DEF MemberRequest, MemberKind
  <2>2. kind \in MemberKind => kind \in {"leave", "remove"}
    BY DEF MemberKind
  <2>3. QED
    BY <1>2, <2>1, <2>2 DEF Typed, GroupKind
<1>4. Grounded(q)
  BY <1>2 DEF Grounded
<1>5. QED
  BY <1>1, <1>2, <1>3, <1>4 DEF BeginStep

LEMMA GroupsBegin ==
    ASSUME TypeOK, Births, NEW t \in Thread,
           \/ JoinByLink(t) \/ AcceptInvite(t) \/ CancelInvite(t) \/ RevokeLink(t)
           \/ DeleteGroup(t) \/ NewProject(t) \/ EditMessage(t) \/ DeleteMessage(t)
    PROVE  BeginStep(t)
<1>1. CASE JoinByLink(t)
  <2>1. PICK l \in links, u \in User : Begins(t, "join", u, On(l.group, {u}), l.id)
    BY <1>1 DEF JoinByLink
  <2>2. l.group \in Group /\ Born(l.group) /\ l.id \in Nat \X Thread
    BY DEF TypeOK, LinkRow, Births
  <2>3. QED
    BY <2>1, <2>2, OnBegins DEF GroupKind, MemberKind
<1>2. CASE AcceptInvite(t)
  <2>1. PICK i \in invites : Begins(t, "accept", i.to, On(i.group, {i.to}), i.id)
    BY <1>2 DEF AcceptInvite
  <2>2. i.group \in Group /\ i.to \in User /\ Born(i.group) /\ i.id \in Nat \X Thread
    BY DEF TypeOK, InviteRow, Births
  <2>3. QED
    BY <2>1, <2>2, OnBegins DEF GroupKind, MemberKind
<1>3. CASE CancelInvite(t)
  <2>1. PICK i \in invites, u \in User : Begins(t, "cancel", u, On(i.group, {}), i.id)
    BY <1>3 DEF CancelInvite
  <2>2. i.group \in Group /\ Born(i.group)
    BY DEF TypeOK, InviteRow, Births
  <2>3. QED
    BY <2>1, <2>2, OnBegins DEF GroupKind, MemberKind
<1>4. CASE RevokeLink(t)
  <2>1. PICK l \in links, u \in User : Begins(t, "revoke", u, On(l.group, {}), l.id)
    BY <1>4 DEF RevokeLink
  <2>2. l.group \in Group /\ Born(l.group) /\ l.id \in Nat \X Thread
    BY DEF TypeOK, LinkRow, Births
  <2>3. QED
    BY <2>1, <2>2, OnBegins DEF GroupKind, MemberKind
<1>5. CASE DeleteGroup(t)
  <2>1. PICK u \in User, g \in Group : IsOwner(g, u) /\ Begins(t, "deleteGroup", u, On(g, Members(g)), None)
    BY <1>5 DEF DeleteGroup
  <2>2. Born(g)
    BY <2>1, AllowedBorn
  <2>3. Members(g) \in SUBSET User
    BY MembersType
  <2>4. QED
    BY <2>1, <2>2, <2>3, OnBegins DEF GroupKind, MemberKind
<1>6. CASE NewProject(t)
  <2>1. PICK u \in User, g \in Group, p \in Project :
          Allows(g, u, "manage_projects") /\ Begins(t, "project", u, On(g, {}), p)
    BY <1>6 DEF NewProject
  <2>2. Born(g)
    BY <2>1, AllowedBorn
  <2>3. QED
    BY <2>1, <2>2, OnBegins DEF GroupKind, MemberKind
<1>7. CASE EditMessage(t)
  <2>1. PICK m \in Stored(chat) :
          /\ chat[m].by \in Members(chat[m].group)
          /\ Begins(t, "edit", chat[m].by, On(chat[m].group, {}), m)
    BY <1>7 DEF EditMessage
  <2>2. m \in Message /\ chat[m].group \in Group /\ chat[m].by \in User
    BY DEF Stored, TypeOK, MessageRow
  <2>3. Born(chat[m].group)
    BY <2>1, <2>2, MemberBorn
  <2>4. QED
    BY <2>1, <2>2, <2>3, OnBegins DEF GroupKind, MemberKind
<1>8. CASE DeleteMessage(t)
  <2>1. PICK m \in Stored(chat), u \in User :
          /\ u \in Members(chat[m].group)
          /\ Begins(t, "dropMessage", u, On(chat[m].group, {}), m)
    BY <1>8 DEF DeleteMessage
  <2>2. m \in Message /\ chat[m].group \in Group
    BY DEF Stored, TypeOK, MessageRow
  <2>3. Born(chat[m].group)
    BY <2>1, <2>2, MemberBorn
  <2>4. QED
    BY <2>1, <2>2, <2>3, OnBegins DEF GroupKind, MemberKind
<1>9. QED
  BY <1>1, <1>2, <1>3, <1>4, <1>5, <1>6, <1>7, <1>8

LEMMA MembersBegin ==
    ASSUME TypeOK, Births, NEW t \in Thread,
           Invite(t) \/ NewLink(t) \/ Leave(t) \/ RemoveMember(t) \/ PatchMember(t)
    PROVE  BeginStep(t)
<1>1. CASE Invite(t)
  <2>1. PICK u \in User, g \in Group, v \in User :
          Allows(g, u, "invite_members") /\ Begins(t, "invite", u, About(g, {v}, v), None)
    BY <1>1 DEF Invite, Active
  <2>2. Born(g)
    BY <2>1, AllowedBorn
  <2>3. QED
    BY <2>1, <2>2, AboutBegins
<1>2. CASE NewLink(t)
  <2>1. PICK u \in User, g \in Group, max \in Uses :
          Allows(g, u, "invite_members") /\ Begins(t, "link", u, About(g, {}, max), None)
    BY <1>2 DEF NewLink
  <2>2. Born(g)
    BY <2>1, AllowedBorn
  <2>3. QED
    BY <2>1, <2>2, AboutBegins
<1>3. CASE Leave(t)
  <2>1. PICK u \in User, g \in Group : u \in Members(g) /\ Begins(t, "leave", u, About(g, {u}, u), None)
    BY <1>3 DEF Leave
  <2>2. Born(g)
    BY <2>1, MemberBorn
  <2>3. QED
    BY <2>1, <2>2, AboutBegins
<1>4. CASE RemoveMember(t)
  <2>1. PICK u \in User, g \in Group, v \in User :
          Allows(g, u, "remove_members") /\ Begins(t, "remove", u, About(g, {v}, v), None)
    BY <1>4 DEF RemoveMember
  <2>2. Born(g)
    BY <2>1, AllowedBorn
  <2>3. QED
    BY <2>1, <2>2, AboutBegins
<1>5. CASE PatchMember(t)
  <2>1. PICK u \in User, g \in Group, v \in User, perms \in Grants, role \in {"admin", "member"} :
          IsOwner(g, u) /\ Begins(t, "patchMember", u, About(g, {}, Row(v, role, perms)), None)
    BY <1>5, MembersType DEF PatchMember
  <2>2. Born(g)
    BY <2>1, AllowedBorn
  <2>3. Row(v, role, perms) \in MemberRow /\ Row(v, role, perms).role # "owner"
    BY <2>2, PermAssumption DEF Row, MemberRow
  <2>4. QED
    BY <2>1, <2>2, <2>3, AboutBegins
<1>6. QED
  BY <1>1, <1>2, <1>3, <1>4, <1>5

LEMMA CreateBegins ==
    ASSUME TypeOK, NEW t \in Thread, CreateGroup(t)
    PROVE  BeginStep(t)
<1>1. PICK u \in User, g \in Group :
        g \notin used /\ used' = used \cup {g} /\ Begins(t, "createGroup", u, On(g, {u}), None)
  BY DEF CreateGroup
<1> DEFINE q == [kind |-> "createGroup", by |-> u, on |-> On(g, {u}), seen |-> None, pc |-> "write"]
<1>2. reqs[t] = None /\ Moves(t, q)
  BY <1>1, BeginsMoves
<1>3. Typed(q)
  <2>1. q \in MemberRequest
    <3>1. On(g, {u}) \in [group : Group, told : SUBSET User]
      BY DEF On
    <3>2. QED
      BY <3>1 DEF MemberRequest, MemberKind
  <2>2. QED
    BY <2>1 DEF Typed, GroupKind, On
<1>4. Grounded(q)
  BY <1>1 DEF Grounded, On
<1>5. QED
  BY <1>2, <1>3, <1>4 DEF BeginStep

(* The first index with a property.                                        *)
LEMMA FirstOf ==
    ASSUME NEW n \in Nat, NEW S \in SUBSET (1..n), S # {}
    PROVE  \E x \in S : \A y \in S : x <= y
<1> DEFINE D == 1..n
           R == StrictSubsetOrdering(D)
           T == {1..x : x \in S}
<1>1. IsWellFoundedOn(R, SUBSET D)
  <2>1. FiniteSubsetsOf(D) = SUBSET D
    <3>1. IsFiniteSet(D)
      BY FS_Interval
    <3>2. QED
      BY <3>1, FS_FiniteSubsetsOfFinite
  <2>2. QED
    BY <2>1, FS_StrictSubsetOrderingWellFounded
<1>2. T \subseteq SUBSET D /\ T # {}
  <2>1. \A x \in S : x \in Int /\ 1..x \subseteq D
    OBVIOUS
  <2>2. QED
    BY <2>1
<1>3. PICK r \in T : \A u \in T : ~(<<u, r>> \in R)
  <2> HIDE DEF R, T, D
  <2>1. QED
    BY <1>1, <1>2, WFMin
<1>4. PICK x \in S : r = 1..x
  BY <1>3
<1>5. ASSUME NEW y \in S, y < x
      PROVE  FALSE
  <2>1. 1..y \in T /\ 1..y \subseteq 1..x /\ 1..y # 1..x
    BY <1>5
  <2>2. QED
    BY <2>1, <1>2, <1>3, <1>4 DEF StrictSubsetOrdering
<1>6. \A y \in S : x <= y
  BY <1>5
<1>7. QED
  BY <1>6

LEMMA SuccessorIs ==
    ASSUME TypeOK, NEW g \in Group, NEW u
    PROVE  \/ Successor(g, u) = None /\ \A i \in DOMAIN members[g] : members[g][i].user \notin Active \ {u}
           \/ \E i \in DOMAIN members[g] :
                 Successor(g, u) = members[g][i].user /\ members[g][i].user \in Active \ {u}
<1> DEFINE others == {i \in DOMAIN members[g] : members[g][i].user \in Active \ {u}}
           first == CHOOSE i \in others : \A j \in others : i <= j
<1>1. CASE others = {}
  BY <1>1 DEF Successor
<1>2. CASE others # {}
  <2>1. \E i \in others : \A j \in others : i <= j
    <3>1. others \in SUBSET (1..Len(members[g])) /\ Len(members[g]) \in Nat
      BY DEF TypeOK
    <3>2. QED
      BY <1>2, <3>1, FirstOf
  <2>2. first \in others
    BY <2>1
  <2>3. Successor(g, u) = members[g][first].user
    BY <1>2 DEF Successor
  <2>4. QED
    BY <2>2, <2>3
<1>3. QED
  BY <1>1, <1>2

LEMMA SuccessorType ==
    ASSUME TypeOK, NEW g \in Group, NEW u
    PROVE  Successor(g, u) \in User \cup {None}
  BY SuccessorIs, RowType

LEMMA DeleteBegins ==
    ASSUME TypeOK, NEW t \in Thread, DeleteMe(t)
    PROVE  BeginStep(t)
<1>1. PICK u \in User : Begins(t, "deleteMe", u, None, Plan(u))
  BY DEF DeleteMe
<1> DEFINE q == [kind |-> "deleteMe", by |-> u, on |-> None, seen |-> Plan(u), pc |-> "write"]
<1>2. reqs[t] = None /\ Moves(t, q)
  BY <1>1, BeginsMoves
<1>3. \A g \in DOMAIN Plan(u) : g \in Group /\ Plan(u)[g] \in User \cup {None}
  BY SuccessorType DEF Plan
<1>4. Typed(q)
  BY <1>3 DEF Typed, GroupKind, MemberKind
<1>5. Grounded(q)
  BY DEF Grounded, GroupKind
<1>6. QED
  BY <1>2, <1>4, <1>5 DEF BeginStep

(* A commit ends its request, or goes on to tell the devices.              *)
LEMMA CommitMoves ==
    ASSUME NEW t \in Thread, NEW holds, NEW next, reqs[t] # None, Writes(t, holds, next),
           next = None \/ (next = "tell" /\ reqs[t].pc # "tell" /\ reqs[t].kind \in GroupKind)
    PROVE  MoveStep(t) /\ acts' = acts
  BY WritesMoves DEF MoveStep

LEMMA Commits ==
    ASSUME NEW t \in Thread,
           \/ InsertRequest(t) \/ AcceptById(t) \/ Tells(t) \/ InsertGroup(t) \/ InsertOwner(t)
           \/ CommitJoin(t) \/ CommitAccept(t) \/ CommitInvite(t) \/ CommitCancel(t) \/ CommitLink(t)
           \/ CommitRevoke(t) \/ CommitLeave(t) \/ CommitPatch(t) \/ CommitDeleteGroup(t)
           \/ CommitProject(t) \/ CommitEdit(t) \/ CommitDeleteMessage(t) \/ CommitDeleteMe(t)
    PROVE  MoveStep(t) /\ acts' = acts
<1>1. CASE InsertRequest(t)
  BY <1>1, CommitMoves DEF InsertRequest, At
<1>2. CASE AcceptById(t)
  BY <1>2, CommitMoves DEF AcceptById
<1>3. CASE Tells(t)
  BY <1>3, CommitMoves DEF Tells
<1>4. CASE InsertGroup(t)
  <2>1. At(t, "createGroup", "write") /\ reqs[t] # None
    BY <1>4 DEF InsertGroup, At
  <2>2. \/ Writes(t, TRUE, "member")
        \/ Writes(t, TRUE, None)
    BY <1>4 DEF InsertGroup
  <2>3. QED
    BY <2>1, <2>2, WritesMoves, CommitMoves DEF MoveStep, At
<1>5. CASE InsertOwner(t)
  <2>1. reqs[t] # None /\ reqs[t].pc = "member" /\ reqs[t].kind = "createGroup"
    BY <1>5 DEF InsertOwner, At
  <2>2. \/ Writes(t, TRUE, "tell")
        \/ Writes(t, TRUE, None)
    BY <1>5 DEF InsertOwner
  <2>3. QED
    BY <2>1, <2>2, CommitMoves DEF GroupKind
<1>6. CASE CommitJoin(t)
  <2>1. reqs[t] # None /\ reqs[t].pc = "write" /\ reqs[t].kind = "join"
    BY <1>6 DEF CommitJoin, At
  <2>2. \E holds, next : Writes(t, holds, next) /\ next \in {None, "tell"}
    BY <1>6 DEF CommitJoin
  <2>3. QED
    BY <2>1, <2>2, CommitMoves DEF GroupKind
<1>7. CASE CommitAccept(t)
  <2>1. reqs[t] # None /\ reqs[t].pc = "write" /\ reqs[t].kind = "accept"
    BY <1>7 DEF CommitAccept, At
  <2>2. \E holds, next : Writes(t, holds, next) /\ next \in {None, "tell"}
    BY <1>7 DEF CommitAccept
  <2>3. QED
    BY <2>1, <2>2, CommitMoves DEF GroupKind
<1>8. CASE CommitInvite(t)
  <2>1. reqs[t] # None /\ reqs[t].pc = "write" /\ reqs[t].kind = "invite"
    BY <1>8 DEF CommitInvite, At
  <2>2. \E holds, next : Writes(t, holds, next) /\ next \in {None, "tell"}
    BY <1>8 DEF CommitInvite
  <2>3. QED
    BY <2>1, <2>2, CommitMoves DEF GroupKind
<1>9. CASE CommitCancel(t)
  <2>1. reqs[t] # None /\ reqs[t].pc = "write" /\ reqs[t].kind = "cancel"
    BY <1>9 DEF CommitCancel, At
  <2>2. \E holds, next : Writes(t, holds, next) /\ next \in {None, "tell"}
    BY <1>9 DEF CommitCancel
  <2>3. QED
    BY <2>1, <2>2, CommitMoves DEF GroupKind
<1>10. CASE CommitLink(t) \/ CommitRevoke(t) \/ CommitProject(t) \/ CommitEdit(t) \/ CommitDeleteMessage(t)
            \/ CommitDeleteMe(t)
  BY <1>10, CommitMoves
  DEF CommitLink, CommitRevoke, CommitProject, CommitEdit, CommitDeleteMessage, CommitDeleteMe, At
<1>11. CASE CommitLeave(t)
  <2>1. reqs[t] # None /\ reqs[t].pc = "write" /\ reqs[t].kind \in {"leave", "remove"}
    BY <1>11 DEF CommitLeave, At
  <2>2. \E holds, next : Writes(t, holds, next) /\ next \in {None, "tell"}
    BY <1>11 DEF CommitLeave
  <2>3. QED
    BY <2>1, <2>2, CommitMoves DEF GroupKind
<1>12. CASE CommitPatch(t) \/ CommitDeleteGroup(t)
  BY <1>12, CommitMoves DEF CommitPatch, CommitDeleteGroup, At, GroupKind
<1>13. QED
  BY <1>1, <1>2, <1>3, <1>4, <1>5, <1>6, <1>7, <1>8, <1>9, <1>10, <1>11, <1>12

(* One request moves at most.                                              *)
LEMMA ThreadStep ==
    ASSUME TypeOK, Births, [Next]_vars
    PROVE  /\ acts' \in Nat
           /\ reqs' = reqs \/ \E t \in Thread : BeginStep(t) \/ MoveStep(t)
<1>0. acts \in Nat
  BY DEF TypeOK
<1>1. ASSUME NEW kind, Acts(kind)
      PROVE  acts' \in Nat
  BY <1>0, <1>1 DEF Acts
<1>2. ASSUME NEW t \in Thread, NEW kind, NEW u, NEW on, NEW seen, Begins(t, kind, u, on, seen)
      PROVE  acts' \in Nat
  BY <1>1, <1>2 DEF Begins
<1>3. CASE FriendsNext
  <2>1. ASSUME NEW t \in Thread, Request(t) \/ Accept(t)
        PROVE  BeginStep(t) /\ acts' \in Nat
    <3>1. acts' \in Nat
      BY <1>2, <2>1 DEF Request, Accept
    <3>2. QED
      BY <2>1, <3>1, FriendsBegin
  <2>2. ASSUME NEW t \in Thread, InsertRequest(t) \/ AcceptById(t)
        PROVE  MoveStep(t) /\ acts' \in Nat
    BY <1>0, <2>2, Commits
  <2>3. CASE RemoveRequest \/ Unfriend \/ \E u \in User : Track(u) \/ Rest(u) \/ Presence(u)
    BY <1>1, <2>3 DEF RemoveRequest, Unfriend, Track, Rest, Presence, AtOnce
  <2>4. QED
    BY <1>3, <2>1, <2>2, <2>3 DEF FriendsNext
<1>4. CASE GroupsNext
  <2>1. ASSUME NEW t \in Thread,
               \/ CreateGroup(t) \/ JoinByLink(t) \/ AcceptInvite(t) \/ Invite(t) \/ CancelInvite(t)
               \/ NewLink(t) \/ RevokeLink(t) \/ Leave(t) \/ RemoveMember(t) \/ PatchMember(t)
               \/ DeleteGroup(t) \/ NewProject(t) \/ EditMessage(t) \/ DeleteMessage(t)
        PROVE  BeginStep(t) /\ acts' \in Nat
    <3>1. acts' \in Nat
      BY <1>2, <2>1
      DEF CreateGroup, JoinByLink, AcceptInvite, Invite, CancelInvite, NewLink, RevokeLink, Leave,
          RemoveMember, PatchMember, DeleteGroup, NewProject, EditMessage, DeleteMessage
    <3>2. QED
      BY <2>1, <3>1, CreateBegins, GroupsBegin, MembersBegin
  <2>2. ASSUME NEW t \in Thread,
               \/ Tells(t) \/ InsertGroup(t) \/ InsertOwner(t)
               \/ CommitJoin(t) \/ CommitAccept(t) \/ CommitInvite(t) \/ CommitCancel(t) \/ CommitLink(t)
               \/ CommitRevoke(t) \/ CommitLeave(t) \/ CommitPatch(t) \/ CommitDeleteGroup(t)
               \/ CommitProject(t) \/ CommitEdit(t) \/ CommitDeleteMessage(t)
        PROVE  MoveStep(t) /\ acts' \in Nat
    BY <1>0, <2>2, Commits
  <2>3. CASE DeclineInvite \/ Expire
    BY <1>1, <2>3 DEF DeclineInvite, Expire, AtOnce
  <2>4. CASE \E u \in User : Refetch(u) \/ DropProject(u) \/ AddTask(u) \/ TrackTime(u) \/ Post(u)
    BY <1>0, <1>1, <2>4 DEF Refetch, DropProject, AddTask, TrackTime, Post, AtOnce, accountVars
  <2>5. QED
    BY <1>4, <2>1, <2>2, <2>3, <2>4 DEF GroupsNext
<1>5. ASSUME NEW t \in Thread, DeleteMe(t)
      PROVE  BeginStep(t) /\ acts' \in Nat
  <2>1. acts' \in Nat
    BY <1>2, <1>5 DEF DeleteMe
  <2>2. QED
    BY <1>5, <2>1, DeleteBegins
<1>6. ASSUME NEW t \in Thread, CommitDeleteMe(t)
      PROVE  MoveStep(t) /\ acts' \in Nat
  BY <1>0, <1>6, Commits
<1>7. ASSUME NEW t \in Thread, Die(t)
      PROVE  MoveStep(t) /\ acts' \in Nat
  BY <1>0, <1>7 DEF Die, MoveStep, Moves
<1>8. ASSUME NEW u \in User, SetActive(u)
      PROVE  reqs' = reqs /\ acts' \in Nat
  BY <1>1, <1>8 DEF SetActive, Deactivate, Activate
<1>9. CASE UNCHANGED vars
  BY <1>0, <1>9 DEF vars, accountVars
<1>10. QED
  BY <1>3, <1>4, <1>5, <1>6, <1>7, <1>8, <1>9 DEF Next

-----------------------------------------------------------------------------
(* Which steps touch what.                                                 *)
Beginning(t) ==
    \/ JoinByLink(t) \/ AcceptInvite(t) \/ Invite(t) \/ CancelInvite(t)
    \/ NewLink(t) \/ RevokeLink(t) \/ Leave(t) \/ RemoveMember(t) \/ PatchMember(t)
    \/ DeleteGroup(t) \/ EditMessage(t) \/ DeleteMessage(t)

LEMMA BeginningFrame ==
    ASSUME NEW t \in Thread, Beginning(t)
    PROVE  UNCHANGED <<status, stale, cut, owner, members, invites, links, projects, tasks, time, chat, used,
                       listed, signalled>>
<1>1. UNCHANGED groupVars
  BY DEF Beginning, JoinByLink, AcceptInvite, Invite, CancelInvite, NewLink, RevokeLink, Leave,
         RemoveMember, PatchMember, DeleteGroup, EditMessage, DeleteMessage
<1>2. \E kind, u, on, seen : Begins(t, kind, u, on, seen)
  BY DEF Beginning, JoinByLink, AcceptInvite, Invite, CancelInvite, NewLink, RevokeLink, Leave,
         RemoveMember, PatchMember, DeleteGroup, EditMessage, DeleteMessage
<1>3. QED
  BY <1>1, <1>2 DEF Begins, groupVars, membership, content, devices

(* The steps of groups, by the tables they write.                          *)
LEMMA GroupFrame ==
    ASSUME GroupsNext
    PROVE  /\ status' = status
           /\ owner' = owner \/ \E t \in Thread : InsertGroup(t) \/ CommitDeleteGroup(t)
           /\ \/ members' = members
              \/ \E t \in Thread : InsertOwner(t) \/ CommitJoin(t) \/ CommitAccept(t) \/ CommitLeave(t)
                                     \/ CommitPatch(t) \/ CommitDeleteGroup(t)
           /\ \/ links' = links
              \/ \E t \in Thread : CommitJoin(t) \/ CommitLink(t) \/ CommitRevoke(t) \/ CommitDeleteGroup(t)
              \/ Expire
           /\ \/ invites' = invites
              \/ \E t \in Thread : CommitAccept(t) \/ CommitInvite(t) \/ CommitCancel(t) \/ CommitDeleteGroup(t)
              \/ DeclineInvite
           /\ \/ UNCHANGED <<projects, tasks, time>>
              \/ \E t \in Thread : CommitProject(t) \/ CommitDeleteGroup(t)
              \/ \E u \in User : DropProject(u) \/ AddTask(u) \/ TrackTime(u)
           /\ \/ chat' = chat
              \/ \E t \in Thread : CommitEdit(t) \/ CommitDeleteMessage(t) \/ CommitDeleteGroup(t)
              \/ \E u \in User : Post(u)
           /\ used \subseteq used'
<1> USE DEF groupVars, membership, content, devices
<1>1. ASSUME NEW t \in Thread, Beginning(t)
      PROVE  UNCHANGED <<status, owner, members, links, invites, projects, tasks, time, chat, used>>
  BY <1>1, BeginningFrame
<1>2. ASSUME NEW t \in Thread, Tells(t) \/ CreateGroup(t) \/ NewProject(t)
      PROVE  /\ UNCHANGED <<status, owner, members, links, invites, projects, tasks, time, chat>>
             /\ used \subseteq used'
  BY <1>2 DEF Tells, CreateGroup, NewProject, Begins
<1>3. ASSUME NEW t \in Thread, InsertGroup(t)
      PROVE  UNCHANGED <<status, members, links, invites, projects, tasks, time, chat, used>>
  BY <1>3 DEF InsertGroup
<1>4. ASSUME NEW t \in Thread, InsertOwner(t)
      PROVE  UNCHANGED <<status, owner, links, invites, projects, tasks, time, chat, used>>
  BY <1>4 DEF InsertOwner
<1>5. ASSUME NEW t \in Thread, CommitJoin(t)
      PROVE  UNCHANGED <<status, owner, invites, projects, tasks, time, chat, used>>
  BY <1>5 DEF CommitJoin
<1>6. ASSUME NEW t \in Thread, CommitAccept(t)
      PROVE  UNCHANGED <<status, owner, links, projects, tasks, time, chat, used>>
  BY <1>6 DEF CommitAccept
<1>7. ASSUME NEW t \in Thread, CommitInvite(t) \/ CommitCancel(t)
      PROVE  UNCHANGED <<status, owner, members, links, projects, tasks, time, chat, used>>
  BY <1>7 DEF CommitInvite, CommitCancel
<1>8. ASSUME NEW t \in Thread, CommitLink(t) \/ CommitRevoke(t)
      PROVE  UNCHANGED <<status, owner, members, invites, projects, tasks, time, chat, used>>
  BY <1>8 DEF CommitLink, CommitRevoke
<1>9. ASSUME NEW t \in Thread, CommitLeave(t) \/ CommitPatch(t)
      PROVE  UNCHANGED <<status, owner, links, invites, projects, tasks, time, chat, used>>
  BY <1>9 DEF CommitLeave, CommitPatch
<1>10. ASSUME NEW t \in Thread, CommitDeleteGroup(t)
       PROVE  UNCHANGED <<status, used>>
  BY <1>10 DEF CommitDeleteGroup
<1>11. ASSUME NEW t \in Thread, CommitProject(t)
       PROVE  UNCHANGED <<status, owner, members, links, invites, chat, used>>
  BY <1>11 DEF CommitProject
<1>12. ASSUME NEW t \in Thread, CommitEdit(t) \/ CommitDeleteMessage(t)
       PROVE  UNCHANGED <<status, owner, members, links, invites, projects, tasks, time, used>>
  BY <1>12 DEF CommitEdit, CommitDeleteMessage
<1>13. CASE DeclineInvite
  <2>1. UNCHANGED <<status, owner, members, links, projects, tasks, time, chat, used>>
    BY <1>13 DEF DeclineInvite, AtOnce
  <2>2. QED
    BY <1>13, <2>1
<1>14. CASE Expire
  <2>1. UNCHANGED <<status, owner, members, invites, projects, tasks, time, chat, used>>
    BY <1>14 DEF Expire
  <2>2. QED
    BY <1>14, <2>1
<1>15. ASSUME NEW u \in User, Refetch(u)
       PROVE  UNCHANGED <<status, owner, members, links, invites, projects, tasks, time, chat, used>>
  BY <1>15 DEF Refetch, accountVars
<1>16. ASSUME NEW u \in User, DropProject(u) \/ AddTask(u) \/ TrackTime(u)
       PROVE  UNCHANGED <<status, owner, members, links, invites, chat>> /\ used \subseteq used'
  BY <1>16 DEF DropProject, AddTask, TrackTime, AtOnce
<1>17. ASSUME NEW u \in User, Post(u)
       PROVE  UNCHANGED <<status, owner, members, links, invites, projects, tasks, time>> /\ used \subseteq used'
  BY <1>17 DEF Post, AtOnce
<1>18. GroupsNext <=>
         \/ \E t \in Thread : Beginning(t) \/ Tells(t) \/ CreateGroup(t) \/ NewProject(t)
         \/ \E t \in Thread : InsertGroup(t) \/ InsertOwner(t) \/ CommitJoin(t) \/ CommitAccept(t)
         \/ \E t \in Thread : CommitInvite(t) \/ CommitCancel(t) \/ CommitLink(t) \/ CommitRevoke(t)
         \/ \E t \in Thread : CommitLeave(t) \/ CommitPatch(t) \/ CommitDeleteGroup(t)
         \/ \E t \in Thread : CommitProject(t) \/ CommitEdit(t) \/ CommitDeleteMessage(t)
         \/ DeclineInvite \/ Expire
         \/ \E u \in User : Refetch(u) \/ DropProject(u) \/ AddTask(u) \/ TrackTime(u) \/ Post(u)
  BY DEF GroupsNext, Beginning
<1>19. CASE \E t \in Thread : Beginning(t) \/ Tells(t) \/ CreateGroup(t) \/ NewProject(t)
  BY <1>1, <1>2, <1>19
<1>20. CASE \E t \in Thread : InsertGroup(t) \/ InsertOwner(t) \/ CommitJoin(t) \/ CommitAccept(t)
  BY <1>3, <1>4, <1>5, <1>6, <1>20
<1>21. CASE \E t \in Thread : CommitInvite(t) \/ CommitCancel(t) \/ CommitLink(t) \/ CommitRevoke(t)
  BY <1>7, <1>8, <1>21
<1>22. CASE \E t \in Thread : CommitLeave(t) \/ CommitPatch(t) \/ CommitDeleteGroup(t)
  BY <1>9, <1>10, <1>22
<1>23. CASE \E t \in Thread : CommitProject(t) \/ CommitEdit(t) \/ CommitDeleteMessage(t)
  BY <1>11, <1>12, <1>23
<1>24. CASE \E u \in User : Refetch(u) \/ DropProject(u) \/ AddTask(u) \/ TrackTime(u) \/ Post(u)
  BY <1>15, <1>16, <1>17, <1>24
<1>25. QED
  BY <1>13, <1>14, <1>18, <1>19, <1>20, <1>21, <1>22, <1>23, <1>24

-----------------------------------------------------------------------------
(* The rows of a group's members.                                          *)
GoodRows(rows) == rows \in Seq(MemberRow) /\ OneEach(rows) /\ Len(rows) <= MembersMax

LEMMA WithoutIs ==
    ASSUME NEW rows, GoodRows(rows), NEW u
    PROVE  /\ GoodRows(Without(rows, u))
           /\ \A i \in DOMAIN Without(rows, u) :
                 \E j \in DOMAIN rows : Without(rows, u)[i] = rows[j] /\ rows[j].user # u
           /\ \A j \in DOMAIN rows : rows[j].user # u =>
                 \E i \in DOMAIN Without(rows, u) : Without(rows, u)[i] = rows[j]
<1>1. CASE \A i \in DOMAIN rows : rows[i].user # u
  <2>1. Without(rows, u) = rows
    BY <1>1 DEF Without
  <2>2. QED
    BY <1>1, <2>1
<1>2. CASE ~ \A i \in DOMAIN rows : rows[i].user # u
  <2> DEFINE at == CHOOSE i \in DOMAIN rows : rows[i].user = u
             w == [i \in 1..(Len(rows) - 1) |-> IF i < at THEN rows[i] ELSE rows[i + 1]]
  <2>1. Without(rows, u) = w
    BY <1>2 DEF Without
  <2>2. at \in DOMAIN rows /\ rows[at].user = u
    BY <1>2
  <2>3. /\ rows \in Seq(MemberRow) /\ Len(rows) \in Nat /\ DOMAIN rows = 1..Len(rows)
        /\ Len(rows) <= MembersMax /\ OneEach(rows)
    BY DEF GoodRows
  <2> HIDE DEF at
  <2>4. Len(rows) - 1 \in Nat /\ at \in 1..Len(rows)
    BY <2>2, <2>3
  <2>5. \A i \in 1..(Len(rows) - 1) : w[i] \in MemberRow
    BY <2>3, <2>4
  <2>6. w \in Seq(MemberRow) /\ Len(w) = Len(rows) - 1 /\ DOMAIN w = 1..(Len(rows) - 1)
    BY <2>4, <2>5
  <2>7. \A i \in DOMAIN w : \E j \in DOMAIN rows : w[i] = rows[j] /\ j # at /\ j = IF i < at THEN i ELSE i + 1
    BY <2>3, <2>4, <2>6
  <2>8. \A i \in DOMAIN w : \E j \in DOMAIN rows : w[i] = rows[j] /\ rows[j].user # u
    BY <2>2, <2>3, <2>7 DEF OneEach
  <2>9. \A j \in DOMAIN rows : j # at => \E i \in DOMAIN w : w[i] = rows[j]
    <3> SUFFICES ASSUME NEW j \in 1..Len(rows), j # at
                 PROVE  \E i \in 1..(Len(rows) - 1) : w[i] = rows[j]
      BY <2>3, <2>6
    <3>1. CASE j < at
      <4>1. j \in 1..(Len(rows) - 1) /\ w[j] = rows[j]
        BY <2>3, <2>4, <3>1
      <4>2. QED
        BY <4>1
    <3>2. CASE j > at
      <4>1. j - 1 \in 1..(Len(rows) - 1) /\ ~(j - 1 < at) /\ j - 1 + 1 = j
        BY <2>3, <2>4, <3>2
      <4>2. w[j - 1] = rows[j]
        BY <4>1
      <4>3. QED
        BY <4>1, <4>2
    <3>3. QED
      BY <2>3, <2>4, <3>1, <3>2
  <2>10. OneEach(w)
    <3> SUFFICES ASSUME NEW i \in DOMAIN w, NEW k \in DOMAIN w, w[i].user = w[k].user
                 PROVE  i = k
      BY DEF OneEach
    <3>1. PICK a \in DOMAIN rows : w[i] = rows[a] /\ a = IF i < at THEN i ELSE i + 1
      BY <2>7
    <3>2. PICK b \in DOMAIN rows : w[k] = rows[b] /\ b = IF k < at THEN k ELSE k + 1
      BY <2>7
    <3>3. a = b
      BY <2>3, <3>1, <3>2 DEF OneEach
    <3>4. i \in Int /\ k \in Int /\ at \in Int
      BY <2>4, <2>6
    <3> HIDE DEF w
    <3>5. QED
      BY <3>1, <3>2, <3>3, <3>4
  <2> HIDE DEF w
  <2>11. GoodRows(w)
    BY <2>3, <2>6, <2>10, LimitAssumption DEF GoodRows
  <2>12. QED
    BY <2>1, <2>2, <2>8, <2>9, <2>11
<1>3. QED
  BY <1>1, <1>2

LEMMA AppendedRows ==
    ASSUME NEW rows, GoodRows(rows), Len(rows) < MembersMax, NEW u \in User, NEW role \in {"owner", "admin", "member"},
           \A i \in DOMAIN rows : rows[i].user # u
    PROVE  /\ GoodRows(Append(rows, Row(u, role, {})))
           /\ Append(rows, Row(u, role, {})) # <<>>
           /\ DOMAIN Append(rows, Row(u, role, {})) = 1..(Len(rows) + 1) /\ Len(rows) \in Nat
           /\ DOMAIN rows = 1..Len(rows)
           /\ \A i \in DOMAIN rows : Append(rows, Row(u, role, {}))[i] = rows[i]
           /\ Append(rows, Row(u, role, {}))[Len(rows) + 1] = Row(u, role, {})
           /\ Row(u, role, {}) \in MemberRow /\ Row(u, role, {}).user = u /\ Row(u, role, {}).role = role
<1> DEFINE r == Row(u, role, {})
           w == Append(rows, r)
<1>1. r \in MemberRow /\ r.user = u /\ r.role = role
  BY DEF Row, MemberRow
<1>2. rows \in Seq(MemberRow) /\ Len(rows) \in Nat /\ DOMAIN rows = 1..Len(rows) /\ OneEach(rows)
  BY DEF GoodRows
<1> HIDE DEF r
<1>3. /\ w \in Seq(MemberRow) /\ Len(w) = Len(rows) + 1 /\ DOMAIN w = 1..(Len(rows) + 1)
      /\ \A i \in DOMAIN rows : w[i] = rows[i]
      /\ w[Len(rows) + 1] = r /\ w # <<>>
  <2>1. w \in Seq(MemberRow) /\ Len(w) = Len(rows) + 1
    BY <1>1, <1>2
  <2>2. DOMAIN w = 1..(Len(rows) + 1)
    BY <2>1
  <2>3. \A i \in 1..Len(rows) : w[i] = rows[i]
    BY <1>1, <1>2
  <2>4. w[Len(rows) + 1] = r
    BY <1>1, <1>2
  <2>5. w # <<>>
    BY <1>2, <2>2
  <2>6. QED
    BY <1>2, <2>1, <2>2, <2>3, <2>4, <2>5
<1> HIDE DEF w
<1>4. OneEach(w)
  BY <1>1, <1>2, <1>3 DEF OneEach
<1>5. Len(w) <= MembersMax
  BY <1>2, <1>3, LimitAssumption
<1>6. QED
  BY <1>1, <1>2, <1>3, <1>4, <1>5 DEF GoodRows, r, w

LEMMA UpdatedRows ==
    ASSUME NEW rows, GoodRows(rows), NEW r \in MemberRow
    PROVE  /\ GoodRows(Updated(rows, r.user, r.role, r.perms))
           /\ DOMAIN Updated(rows, r.user, r.role, r.perms) = DOMAIN rows
           /\ \A i \in DOMAIN rows : /\ Updated(rows, r.user, r.role, r.perms)[i].user = rows[i].user
                                     /\ Updated(rows, r.user, r.role, r.perms)[i].role =
                                           IF rows[i].user = r.user THEN r.role ELSE rows[i].role
<1> DEFINE w == Updated(rows, r.user, r.role, r.perms)
<1>1. rows \in Seq(MemberRow) /\ Len(rows) \in Nat /\ DOMAIN rows = 1..Len(rows) /\ OneEach(rows)
      /\ Len(rows) <= MembersMax
  BY DEF GoodRows
<1>2. Row(r.user, r.role, r.perms) \in MemberRow
  BY DEF Row, MemberRow
<1>3. w = [i \in 1..Len(rows) |-> IF rows[i].user = r.user THEN Row(r.user, r.role, r.perms) ELSE rows[i]]
  BY <1>1 DEF Updated
<1> HIDE DEF w
<1>4. w \in Seq(MemberRow) /\ Len(w) = Len(rows) /\ DOMAIN w = DOMAIN rows
  BY <1>1, <1>2, <1>3
<1>5. \A i \in DOMAIN rows : w[i].user = rows[i].user
                             /\ w[i].role = IF rows[i].user = r.user THEN r.role ELSE rows[i].role
  BY <1>1, <1>3 DEF Row
<1>6. OneEach(w)
  BY <1>1, <1>4, <1>5 DEF OneEach
<1>7. QED
  BY <1>1, <1>4, <1>5, <1>6 DEF GoodRows, w

LEMMA PromotedRows ==
    ASSUME NEW rows, GoodRows(rows), NEW old, NEW new
    PROVE  /\ GoodRows(Promoted(rows, old, new))
           /\ DOMAIN Promoted(rows, old, new) = DOMAIN rows
           /\ \A i \in DOMAIN rows :
                 /\ Promoted(rows, old, new)[i].user = rows[i].user
                 /\ Promoted(rows, old, new)[i].role =
                       IF rows[i].user = new THEN "owner"
                       ELSE IF rows[i].user = old /\ rows[i].role = "owner" THEN "member" ELSE rows[i].role
<1> DEFINE w == Promoted(rows, old, new)
<1>1. rows \in Seq(MemberRow) /\ Len(rows) \in Nat /\ DOMAIN rows = 1..Len(rows) /\ OneEach(rows)
      /\ Len(rows) <= MembersMax
  BY DEF GoodRows
<1>2. \A r \in MemberRow : /\ [r EXCEPT !.role = "owner"] \in MemberRow
                           /\ [r EXCEPT !.role = "owner"].user = r.user /\ [r EXCEPT !.role = "owner"].role = "owner"
                           /\ [r EXCEPT !.role = "member"] \in MemberRow
                           /\ [r EXCEPT !.role = "member"].user = r.user /\ [r EXCEPT !.role = "member"].role = "member"
  BY DEF MemberRow
<1>3. w = [i \in 1..Len(rows) |->
             IF rows[i].user = new THEN [rows[i] EXCEPT !.role = "owner"]
             ELSE IF rows[i].user = old /\ rows[i].role = "owner" THEN [rows[i] EXCEPT !.role = "member"]
             ELSE rows[i]]
  BY <1>1 DEF Promoted
<1> HIDE DEF w
<1>4. \A i \in 1..Len(rows) : rows[i] \in MemberRow
  BY <1>1
<1>5. \A i \in 1..Len(rows) :
        /\ w[i] \in MemberRow /\ w[i].user = rows[i].user
        /\ w[i].role = IF rows[i].user = new THEN "owner"
                       ELSE IF rows[i].user = old /\ rows[i].role = "owner" THEN "member" ELSE rows[i].role
  BY <1>2, <1>3, <1>4
<1>6. w \in Seq(MemberRow) /\ Len(w) = Len(rows) /\ DOMAIN w = DOMAIN rows
  BY <1>1, <1>3, <1>5
<1>7. OneEach(w)
  BY <1>1, <1>5, <1>6 DEF OneEach
<1>8. QED
  BY <1>1, <1>5, <1>6, <1>7 DEF GoodRows, w

LEMMA RowsGood ==
    ASSUME TypeOK, OneRowEach, CapsHold, NEW g \in Group
    PROVE  GoodRows(members[g])
  BY DEF GoodRows, TypeOK, OneRowEach, CapsHold

LEMMA EmptyRows == GoodRows(<<>>)
  BY LimitAssumption DEF GoodRows, OneEach

LEMMA JoinedIs ==
    ASSUME TypeOK, NEW g \in Group, NEW u \in User, Joins(g, u)
    PROVE  /\ Joined(g, u) = Append(members[g], Row(u, "member", {}))
           /\ Len(members[g]) < MembersMax /\ owner[g] # None
           /\ \A i \in DOMAIN members[g] : members[g][i].user # u
  BY DEF Joins, Joined, JoinFails, HasPlace, Members

(* What a request that is about to join or to be the owner knows.          *)
LEMMA JoinsOf ==
    ASSUME TypeOK, NEW t \in Thread, CommitJoin(t) \/ CommitAccept(t)
    PROVE  /\ reqs[t] # None /\ reqs[t].kind \in {"join", "accept"} /\ reqs[t].pc = "write"
           /\ reqs[t].by \in User /\ reqs[t].on.group \in Group /\ reqs[t].on.told \in SUBSET User
           /\ members' = members \/ members' = [members EXCEPT ![reqs[t].on.group] = Joined(reqs[t].on.group, reqs[t].by)]
<1>1. reqs[t] # None /\ reqs[t].kind \in {"join", "accept"} /\ reqs[t].pc = "write"
  BY DEF CommitJoin, CommitAccept, At
<1>2. Typed(reqs[t])
  BY <1>1, RequestType
<1>3. members' = members \/ members' = [members EXCEPT ![reqs[t].on.group] = Joined(reqs[t].on.group, reqs[t].by)]
  BY DEF CommitJoin, CommitAccept
<1>4. QED
  BY <1>1, <1>2, <1>3 DEF Typed, GroupKind

LEMMA OwnerOf ==
    ASSUME TypeOK, Births, NEW t \in Thread, InsertOwner(t)
    PROVE  /\ reqs[t] # None /\ reqs[t].kind = "createGroup" /\ reqs[t].pc = "member"
           /\ reqs[t].by \in User /\ reqs[t].on.group \in Group
           /\ Creates(t, reqs[t].on.group) /\ members[reqs[t].on.group] = <<>>
           /\ \/ members' = members
              \/ /\ owner[reqs[t].on.group] # None
                 /\ members' = [members EXCEPT ![reqs[t].on.group] = Append(@, Row(reqs[t].by, "owner", {}))]
<1>1. reqs[t] # None /\ reqs[t].kind = "createGroup" /\ reqs[t].pc = "member"
  BY DEF InsertOwner, At
<1>2. Typed(reqs[t])
  BY <1>1, RequestType
<1>3. reqs[t].by \in User /\ reqs[t].on.group \in Group
  BY <1>1, <1>2 DEF Typed, GroupKind
<1>4. Creates(t, reqs[t].on.group)
  BY <1>1 DEF Creates
<1>5. members[reqs[t].on.group] = <<>>
  BY <1>3, <1>4 DEF Births, Born
<1>6. \/ members' = members
      \/ /\ owner[reqs[t].on.group] # None
         /\ members' = [members EXCEPT ![reqs[t].on.group] = Append(@, Row(reqs[t].by, "owner", {}))]
  BY DEF InsertOwner
<1>7. QED
  BY <1>1, <1>3, <1>4, <1>5, <1>6

LEMMA DroppedRows ==
    ASSUME NEW rows, \A g \in Group : GoodRows(rows[g]), NEW gs, NEW lost, DropGroups(rows, gs, lost)
    PROVE  /\ members' = [g \in Group |-> members'[g]]
           /\ \A g \in Group : GoodRows(members'[g]) /\ (members'[g] # <<>> => rows[g] # <<>>)
<1>1. members' = [g \in Group |-> IF g \in gs THEN <<>> ELSE Without(rows[g], lost)]
  BY DEF DropGroups
<1>2. ASSUME NEW g \in Group
      PROVE  GoodRows(members'[g]) /\ (members'[g] # <<>> => rows[g] # <<>>)
  <2>1. CASE g \in gs
    BY <1>1, <2>1, EmptyRows
  <2>2. CASE g \notin gs
    <3>1. members'[g] = Without(rows[g], lost)
      BY <1>1, <2>2
    <3>2. GoodRows(Without(rows[g], lost))
      BY WithoutIs
    <3>3. Without(<<>>, lost) = <<>>
      BY DEF Without
    <3>4. QED
      BY <3>1, <3>2, <3>3
  <2>3. QED
    BY <2>1, <2>2
<1>3. QED
  BY <1>1, <1>2

(* What DELETE /me does to the members.                                    *)
Passed(t) == {g \in DOMAIN reqs[t].seen : reqs[t].seen[g] # None /\ owner[g] # None}
Solo(t) == {g \in DOMAIN reqs[t].seen : reqs[t].seen[g] = None}
NextOwner(t) ==
    [g \in Group |-> IF g \in Passed(t) THEN reqs[t].seen[g] ELSE IF g \in Solo(t) THEN None ELSE owner[g]]
NextRows(t) ==
    [g \in Group |-> IF g \in Passed(t) THEN Promoted(members[g], reqs[t].by, reqs[t].seen[g]) ELSE members[g]]

LEMMA DeleteMeCases ==
    ASSUME TypeOK, NEW t \in Thread, CommitDeleteMe(t)
    PROVE  /\ At(t, "deleteMe", "write") /\ reqs[t] # None /\ reqs[t].by \in User
           /\ \A g \in DOMAIN reqs[t].seen : g \in Group /\ reqs[t].seen[g] \in User \cup {None}
           /\ Writes(t, reqs[t].seen = Plan(reqs[t].by), None)
           /\ \/ UNCHANGED <<status, friendVars, groupVars>>
              \/ LET u == reqs[t].by
                     ps == Detached(Solo(t), projects)
                     cs == Tombstoned(Solo(t), projects, tasks)
                 IN  /\ \A g \in Group : NextOwner(t)[g] # u
                     /\ \A g \in Passed(t) : reqs[t].seen[g] \in Known
                     /\ status' = [status EXCEPT ![u] = "gone"]
                     /\ owner' = NextOwner(t)
                     /\ DropGroups(NextRows(t), Solo(t), u)
                     /\ Cascade(MadeOver(u, NextOwner(t), ps), TasksMadeOver(u, NextOwner(t), ps, cs), time, u, Solo(t))
                     /\ asked' = {r \in asked : u \notin {r.from, r.to}}
                     /\ friends' = {f \in friends : u \notin {f[1], f[2]}}
                     /\ UNCHANGED <<used, devices>>
<1>1. At(t, "deleteMe", "write") /\ reqs[t] # None /\ reqs[t].kind = "deleteMe"
  BY DEF CommitDeleteMe, At
<1>2. Typed(reqs[t])
  BY <1>1, RequestType
<1>3. QED
  BY <1>1, <1>2 DEF CommitDeleteMe, Typed, Passed, Solo, NextOwner, NextRows

LEMMA NextRowsGood ==
    ASSUME TypeOK, OneRowEach, CapsHold, NEW t \in Thread, NEW g \in Group
    PROVE  GoodRows(NextRows(t)[g]) /\ (NextRows(t)[g] # <<>> => members[g] # <<>>)
<1>1. GoodRows(members[g])
  BY RowsGood
<1>2. CASE g \in Passed(t)
  <2>1. NextRows(t)[g] = Promoted(members[g], reqs[t].by, reqs[t].seen[g])
    BY <1>2 DEF NextRows
  <2>2. GoodRows(NextRows(t)[g])
    BY <1>1, <2>1, PromotedRows
  <2>3. Promoted(<<>>, reqs[t].by, reqs[t].seen[g]) = <<>>
    BY DEF Promoted
  <2>4. QED
    BY <2>1, <2>2, <2>3
<1>3. CASE g \notin Passed(t)
  BY <1>1, <1>3 DEF NextRows
<1>4. QED
  BY <1>2, <1>3

LEMMA MembersStep ==
    ASSUME TypeOK, OneRowEach, Births, CapsHold, [Next]_vars
    PROVE  /\ members' = [g \in Group |-> members'[g]]
           /\ \A g \in Group : GoodRows(members'[g])
           /\ \A g \in Group : members'[g] # <<>> /\ members[g] = <<>> =>
                 \E t \in Thread : reqs[t] # None /\ reqs[t].kind \in GroupKind /\ reqs[t].on.group = g
                                   /\ (reqs[t].kind # "createGroup" \/ InsertOwner(t))
<1>0. \A g \in Group : GoodRows(members[g])
  BY RowsGood
<1>00. members = [g \in Group |-> members[g]]
  BY DEF TypeOK
<1> DEFINE Goal ==
           /\ members' = [g \in Group |-> members'[g]]
           /\ \A g \in Group : GoodRows(members'[g])
           /\ \A g \in Group : members'[g] # <<>> /\ members[g] = <<>> =>
                 \E t \in Thread : reqs[t] # None /\ reqs[t].kind \in GroupKind /\ reqs[t].on.group = g
                                   /\ (reqs[t].kind # "createGroup" \/ InsertOwner(t))
<1>1. CASE members' = members
  BY <1>0, <1>00, <1>1
<1>2. ASSUME NEW t \in Thread, InsertOwner(t), members' # members
      PROVE  Goal
  <2> DEFINE h == reqs[t].on.group
             w == Append(members[h], Row(reqs[t].by, "owner", {}))
  <2>1. h \in Group /\ reqs[t].by \in User /\ members[h] = <<>> /\ reqs[t].kind \in GroupKind /\ reqs[t] # None
    BY <1>2, OwnerOf DEF GroupKind
  <2>2. members' = [members EXCEPT ![h] = w]
    BY <1>2, OwnerOf
  <2>3. Len(members[h]) < MembersMax /\ \A i \in DOMAIN members[h] : members[h][i].user # reqs[t].by
    BY <2>1, LimitAssumption
  <2>4. GoodRows(w)
    BY <1>0, <2>1, <2>3, AppendedRows
  <2> HIDE DEF w
  <2>5. \A g \in Group : members'[g] = IF g = h THEN w ELSE members[g]
    BY <1>00, <2>2
  <2>6. members' = [g \in Group |-> members'[g]]
    BY <1>00, <2>2
  <2>7. QED
    BY <1>0, <1>2, <2>1, <2>4, <2>5, <2>6
<1>3. ASSUME NEW t \in Thread, CommitJoin(t) \/ CommitAccept(t), members' # members
      PROVE  Goal
  <2> DEFINE h == reqs[t].on.group
             w == Joined(h, reqs[t].by)
  <2>1. h \in Group /\ reqs[t].by \in User /\ reqs[t].kind \in {"join", "accept"} /\ reqs[t] # None
    BY <1>3, JoinsOf
  <2>2. members' = [members EXCEPT ![h] = w]
    BY <1>3, JoinsOf
  <2>3. GoodRows(w)
    <3>1. CASE Joins(h, reqs[t].by)
      <4>1. /\ w = Append(members[h], Row(reqs[t].by, "member", {})) /\ Len(members[h]) < MembersMax
            /\ \A i \in DOMAIN members[h] : members[h][i].user # reqs[t].by
        BY <2>1, <3>1, JoinedIs
      <4>2. "member" \in {"owner", "admin", "member"} /\ GoodRows(members[h])
        BY <1>0, <2>1
      <4>3. GoodRows(Append(members[h], Row(reqs[t].by, "member", {})))
        BY <2>1, <4>1, <4>2, AppendedRows
      <4>4. QED
        BY <4>1, <4>3
    <3>2. CASE ~Joins(h, reqs[t].by)
      BY <1>0, <2>1, <3>2 DEF Joined
    <3>3. QED
      BY <3>1, <3>2
  <2> HIDE DEF w
  <2>5. \A g \in Group : members'[g] = IF g = h THEN w ELSE members[g]
    BY <1>00, <2>2
  <2>6. members' = [g \in Group |-> members'[g]]
    BY <1>00, <2>2
  <2>7. QED
    BY <1>0, <2>1, <2>3, <2>5, <2>6 DEF GroupKind
<1>4. ASSUME NEW t \in Thread, CommitLeave(t) \/ CommitPatch(t)
      PROVE  Goal
  <2> DEFINE h == reqs[t].on.group
  <2>1. h \in Group /\ (reqs[t].kind = "patchMember" => reqs[t].on.x \in MemberRow)
    BY <1>4, RequestType DEF CommitLeave, CommitPatch, At, Typed, GroupKind
  <2>2. PICK w : members' = [members EXCEPT ![h] = w] /\ GoodRows(w) /\ (members[h] = <<>> => w = <<>>)
    <3>1. CASE CommitLeave(t)
      <4>1. members' = [members EXCEPT ![h] = Without(members[h], reqs[t].on.x)]
        BY <3>1 DEF CommitLeave
      <4>2. GoodRows(Without(members[h], reqs[t].on.x))
        BY <1>0, <2>1, WithoutIs
      <4>3. Without(<<>>, reqs[t].on.x) = <<>>
        BY DEF Without
      <4>4. QED
        BY <4>1, <4>2, <4>3
    <3>2. CASE CommitPatch(t)
      <4> DEFINE r == reqs[t].on.x
                 w == Updated(members[h], r.user, r.role, r.perms)
      <4>1. members' = [members EXCEPT ![h] = w]
        BY <3>2 DEF CommitPatch
      <4>2. r \in MemberRow
        BY <2>1, <3>2 DEF CommitPatch, At
      <4>3. GoodRows(w)
        BY <1>0, <2>1, <4>2, UpdatedRows
      <4>4. members[h] = <<>> => w = <<>>
        BY DEF Updated
      <4>5. QED
        BY <4>1, <4>3, <4>4
    <3>3. QED
      BY <1>4, <3>1, <3>2
  <2>3. \A g \in Group : members'[g] = IF g = h THEN w ELSE members[g]
    BY <1>00, <2>2
  <2>4. members' = [g \in Group |-> members'[g]]
    BY <1>00, <2>2
  <2>5. QED
    BY <1>0, <2>1, <2>2, <2>3, <2>4
<1>5. ASSUME NEW t \in Thread, CommitDeleteGroup(t)
      PROVE  Goal
  <2>1. DropGroups(members, {reqs[t].on.group}, None)
    BY <1>5 DEF CommitDeleteGroup
  <2>2. QED
    BY <1>0, <2>1, DroppedRows
<1>6. ASSUME NEW t \in Thread, CommitDeleteMe(t), members' # members
      PROVE  Goal
  <2>1. DropGroups(NextRows(t), Solo(t), reqs[t].by)
    BY <1>6, DeleteMeCases DEF groupVars, membership
  <2>2. \A g \in Group : GoodRows(NextRows(t)[g]) /\ (NextRows(t)[g] # <<>> => members[g] # <<>>)
    BY NextRowsGood
  <2>3. QED
    BY <2>1, <2>2, DroppedRows
<1>7. GroupsNext => Goal
  BY <1>1, <1>2, <1>3, <1>4, <1>5, GroupFrame
<1>8. (FriendsNext /\ UNCHANGED groupVars) \/ UNCHANGED vars => members' = members
  BY DEF groupVars, membership, vars
<1>9. ASSUME NEW t \in Thread, DeleteMe(t) \/ (Die(t) /\ UNCHANGED <<friendVars, groupVars>>)
      PROVE  members' = members
  BY <1>9 DEF DeleteMe, groupVars, membership
<1>10. ASSUME NEW u \in User, SetActive(u)
       PROVE  members' = members
  BY <1>10 DEF SetActive, groupVars, membership
<1>11. QED
  BY <1>1, <1>6, <1>7, <1>8, <1>9, <1>10 DEF Next

-----------------------------------------------------------------------------
(* The steps that are not those of groups.                                 *)
LEMMA Frame ==
    ASSUME [Next]_vars
    PROVE  /\ \/ GroupsNext /\ UNCHANGED <<asked, friends>>
              \/ \E t \in Thread : CommitDeleteMe(t)
              \/ UNCHANGED <<owner, members, invites, links, projects, tasks, time, chat, used>>
           /\ \/ FriendsNext
              \/ \E t \in Thread : CommitDeleteMe(t)
              \/ UNCHANGED <<asked, friends>>
           /\ used \subseteq used'
<1>1. CASE GroupsNext /\ UNCHANGED friendVars
  BY <1>1, GroupFrame DEF friendVars
<1>2. CASE FriendsNext /\ UNCHANGED groupVars
  BY <1>2 DEF groupVars, membership, content
<1>3. ASSUME NEW t \in Thread, DeleteMe(t) \/ (Die(t) /\ UNCHANGED <<friendVars, groupVars>>)
      PROVE  UNCHANGED <<owner, members, invites, links, projects, tasks, time, chat, used, asked, friends>>
  BY <1>3 DEF DeleteMe, groupVars, friendVars, membership, content
<1>4. ASSUME NEW t \in Thread, CommitDeleteMe(t)
      PROVE  used' = used
  BY <1>4 DEF CommitDeleteMe, groupVars, content
<1>5. ASSUME NEW u \in User, SetActive(u)
      PROVE  UNCHANGED <<owner, members, invites, links, projects, tasks, time, chat, used, asked, friends>>
  BY <1>5 DEF SetActive, groupVars, friendVars, membership, content
<1>6. CASE UNCHANGED vars
  BY <1>6 DEF vars, groupVars, friendVars, membership, content
<1>7. QED
  BY <1>1, <1>2, <1>3, <1>4, <1>5, <1>6 DEF Next

-----------------------------------------------------------------------------
(* Invite links.  A link goes on as one of the same group and the same cap. *)
Follows(k, l) ==
    /\ l \in LinkRow /\ l.group = k.group /\ l.max = k.max
    /\ l.state # "revoked" => k.state # "revoked"
    /\ l.used = k.used \/ (HasUses(k) /\ l.used = k.used + 1)

FollowEach(F) == \A l \in links' : \E k \in links : l = F[k] /\ Follows(k, l)

LEMMA FollowsItself ==
    ASSUME NEW k \in LinkRow
    PROVE  Follows(k, k)
  BY DEF Follows

LEMMA FollowsCases ==
    ASSUME NEW k \in LinkRow
    PROVE  /\ HasUses(k) => Follows(k, [k EXCEPT !.used = @ + 1])
           /\ Follows(k, [k EXCEPT !.state = "revoked"])
           /\ k.state # "revoked" => Follows(k, [k EXCEPT !.state = "expired"])
<1>1. /\ k.used \in Nat /\ k.used + 1 \in Nat
      /\ k = [id |-> k.id, group |-> k.group, by |-> k.by, max |-> k.max, used |-> k.used, state |-> k.state]
  BY DEF LinkRow
<1>2. [k EXCEPT !.used = @ + 1] =
        [id |-> k.id, group |-> k.group, by |-> k.by, max |-> k.max, used |-> k.used + 1, state |-> k.state]
  BY <1>1
<1>3. [k EXCEPT !.used = @ + 1] \in LinkRow
  BY <1>1, <1>2 DEF LinkRow
<1>4. [k EXCEPT !.state = "revoked"] =
        [id |-> k.id, group |-> k.group, by |-> k.by, max |-> k.max, used |-> k.used, state |-> "revoked"]
  BY <1>1
<1>5. [k EXCEPT !.state = "revoked"] \in LinkRow
  BY <1>4 DEF LinkRow
<1>6. [k EXCEPT !.state = "expired"] =
        [id |-> k.id, group |-> k.group, by |-> k.by, max |-> k.max, used |-> k.used, state |-> "expired"]
  BY <1>1
<1>7. [k EXCEPT !.state = "expired"] \in LinkRow
  BY <1>6 DEF LinkRow
<1>8. HasUses(k) => Follows(k, [k EXCEPT !.used = @ + 1])
  BY <1>2, <1>3 DEF Follows
<1>9. Follows(k, [k EXCEPT !.state = "revoked"])
  BY <1>4, <1>5 DEF Follows
<1>10. k.state # "revoked" => Follows(k, [k EXCEPT !.state = "expired"])
  BY <1>6, <1>7 DEF Follows
<1>11. QED
  BY <1>8, <1>9, <1>10

LEMMA LinksShape ==
    ASSUME TypeOK, [Next]_vars
    PROVE  (\E F : FollowEach(F)) \/ \E t \in Thread : CommitLink(t)
<1>0. \A k \in links : k \in LinkRow
  BY DEF TypeOK
<1>1. ASSUME links' \subseteq links
      PROVE  \E F : FollowEach(F)
  <2> DEFINE F == [k \in links |-> k]
  <2>1. FollowEach(F)
    BY <1>0, <1>1, FollowsItself DEF FollowEach
  <2>2. QED
    BY <2>1
<1>2. ASSUME NEW t \in Thread, CommitJoin(t)
      PROVE  \E F : FollowEach(F)
  <2> DEFINE counted == {l \in links : l.id = reqs[t].seen /\ HasUses(l)}
             F == [k \in links |-> IF k \in counted THEN [k EXCEPT !.used = @ + 1] ELSE k]
  <2>1. \/ links' = links
        \/ links' = (links \ counted) \cup {[l EXCEPT !.used = @ + 1] : l \in counted}
    <3>1. {l \in {k \in links : k.id = reqs[t].seen} : HasUses(l)} = counted
      OBVIOUS
    <3>2. QED
      BY <1>2, <3>1 DEF CommitJoin
  <2>2. ASSUME links' = (links \ counted) \cup {[l EXCEPT !.used = @ + 1] : l \in counted}, NEW l \in links'
        PROVE  \E k \in links : l = F[k] /\ Follows(k, l)
    <3>1. CASE l \in links \ counted
      BY <1>0, <3>1, FollowsItself
    <3>2. CASE \E k \in counted : l = [k EXCEPT !.used = @ + 1]
      <4>1. PICK k \in counted : l = [k EXCEPT !.used = @ + 1]
        BY <3>2
      <4>2. k \in links /\ k \in LinkRow /\ HasUses(k) /\ F[k] = l
        BY <1>0, <4>1
      <4>3. QED
        BY <4>1, <4>2, FollowsCases
    <3>3. QED
      BY <2>2, <3>1, <3>2
  <2>3. FollowEach(F) \/ links' = links
    BY <2>1, <2>2 DEF FollowEach
  <2>4. QED
    BY <1>1, <2>3
<1>3. ASSUME NEW t \in Thread, CommitRevoke(t)
      PROVE  \E F : FollowEach(F)
  <2> DEFINE mine == {l \in links : l.id = reqs[t].seen}
             F == [k \in links |-> IF k \in mine THEN [k EXCEPT !.state = "revoked"] ELSE k]
  <2>1. links' = (links \ mine) \cup {[l EXCEPT !.state = "revoked"] : l \in mine}
    BY <1>3 DEF CommitRevoke
  <2>2. ASSUME NEW l \in links'
        PROVE  \E k \in links : l = F[k] /\ Follows(k, l)
    <3>1. CASE l \in links \ mine
      BY <1>0, <3>1, FollowsItself
    <3>2. CASE \E k \in mine : l = [k EXCEPT !.state = "revoked"]
      <4>1. PICK k \in mine : l = [k EXCEPT !.state = "revoked"]
        BY <3>2
      <4>2. k \in links /\ k \in LinkRow /\ F[k] = l
        BY <1>0, <4>1
      <4>3. QED
        BY <4>1, <4>2, FollowsCases
    <3>3. QED
      BY <2>1, <2>2, <3>1, <3>2
  <2>3. FollowEach(F)
    BY <2>2 DEF FollowEach
  <2>4. QED
    BY <2>3
<1>4. ASSUME Expire
      PROVE  \E F : FollowEach(F)
  <2>1. PICK e \in links : e.state = "active" /\ links' = (links \ {e}) \cup {[e EXCEPT !.state = "expired"]}
    BY <1>4 DEF Expire
  <2> DEFINE F == [k \in links |-> IF k = e THEN [k EXCEPT !.state = "expired"] ELSE k]
  <2>2. ASSUME NEW l \in links'
        PROVE  \E k \in links : l = F[k] /\ Follows(k, l)
    <3>1. CASE l \in links \ {e}
      BY <1>0, <3>1, FollowsItself
    <3>2. CASE l = [e EXCEPT !.state = "expired"]
      <4>1. e \in LinkRow /\ F[e] = l /\ e.state # "revoked"
        BY <1>0, <2>1, <3>2
      <4>2. QED
        BY <3>2, <4>1, FollowsCases
    <3>3. QED
      BY <2>1, <2>2, <3>1, <3>2
  <2>3. FollowEach(F)
    BY <2>2 DEF FollowEach
  <2>4. QED
    BY <2>3
<1>5. ASSUME NEW t \in Thread, CommitDeleteGroup(t)
      PROVE  links' \subseteq links
  BY <1>5 DEF CommitDeleteGroup, DropGroups
<1>6. ASSUME NEW t \in Thread, CommitDeleteMe(t)
      PROVE  links' \subseteq links
  BY <1>6 DEF CommitDeleteMe, DropGroups, groupVars, membership
<1>7. QED
  BY <1>1, <1>2, <1>3, <1>4, <1>5, <1>6, Frame, GroupFrame

LEMMA NoMore ==
    ASSUME NEW A, IsFiniteSet(A), NEW B, NEW F, \A b \in B : \E a \in A : b = F[a]
    PROVE  IsFiniteSet(B) /\ Cardinality(B) <= Cardinality(A)
<1> DEFINE C == {a \in A : F[a] \in B}
           f == [a \in C |-> F[a]]
<1>1. IsFiniteSet(C) /\ Cardinality(C) <= Cardinality(A)
  BY FS_Subset
<1>2. f \in Surjection(C, B)
  BY DEF Surjection
<1>3. IsFiniteSet(B) /\ Cardinality(B) <= Cardinality(C)
  <2> HIDE DEF f, C
  <2>1. QED
    BY <1>1, <1>2, FS_Surjection
<1>4. Cardinality(A) \in Nat /\ Cardinality(B) \in Nat /\ Cardinality(C) \in Nat
  BY <1>1, <1>3, FS_CardinalityType
<1>5. QED
  BY <1>1, <1>3, <1>4

LEMMA CommitLinkIs ==
    ASSUME TypeOK, NEW t \in Thread, CommitLink(t)
    PROVE  /\ reqs[t] # None /\ reqs[t].kind = "link" /\ reqs[t].on.group \in Group
           /\ \/ links' = links
              \/ /\ Cardinality(ActiveLinks(reqs[t].on.group)) < LinksMax
                 /\ \E l \in LinkRow : links' = links \cup {l} /\ l.group = reqs[t].on.group /\ l.used = 0
<1>1. reqs[t] # None /\ reqs[t].kind = "link"
  BY DEF CommitLink, At
<1>2. Typed(reqs[t])
  BY <1>1, RequestType
<1>3. reqs[t].on.group \in Group /\ reqs[t].by \in User /\ reqs[t].on.x \in Uses
  BY <1>1, <1>2 DEF Typed, GroupKind
<1> DEFINE l == [id |-> <<acts, t>>, group |-> reqs[t].on.group, by |-> reqs[t].by, max |-> reqs[t].on.x,
                 used |-> 0, state |-> "active"]
<1>4. l \in LinkRow
  BY <1>3 DEF LinkRow, TypeOK
<1>5. links' = links \/ (Cardinality(ActiveLinks(reqs[t].on.group)) < LinksMax /\ links' = links \cup {l})
  BY DEF CommitLink
<1>6. l.group = reqs[t].on.group /\ l.used = 0
  OBVIOUS
<1> HIDE DEF l
<1>7. QED
  BY <1>1, <1>3, <1>4, <1>5, <1>6

LEMMA LinksStep ==
    ASSUME TypeOK, CapsHold, Countable, [Next]_vars
    PROVE  /\ links' \subseteq LinkRow
           /\ \A l \in links' : \/ \E k \in links : k.group = l.group
                                \/ \E t \in Thread : reqs[t] # None /\ reqs[t].kind \in GroupKind \ {"createGroup"}
                                                     /\ reqs[t].on.group = l.group
           /\ \A l \in links' : l.max # None => l.used <= l.max
           /\ \A g \in Group : IsFiniteSet(ActiveLinks(g)') /\ Cardinality(ActiveLinks(g)') <= LinksMax
<1>0. /\ \A k \in links : k \in LinkRow /\ k.used \in Nat /\ (k.max # None => k.max \in Nat /\ k.used <= k.max)
      /\ \A g \in Group : IsFiniteSet(ActiveLinks(g)) /\ Cardinality(ActiveLinks(g)) \in Nat
                          /\ Cardinality(ActiveLinks(g)) <= LinksMax
      /\ LinksMax \in Nat
  <2>1. \A k \in links : k \in LinkRow
    BY DEF TypeOK
  <2>2. \A k \in LinkRow : k.used \in Nat /\ (k.max # None => k.max \in Nat)
    BY LimitAssumption DEF LinkRow
  <2>3. \A g \in Group : IsFiniteSet(ActiveLinks(g))
    BY DEF Countable
  <2>4. \A g \in Group : Cardinality(ActiveLinks(g)) \in Nat
    BY <2>3, FS_CardinalityType
  <2>5. QED
    BY <2>1, <2>2, <2>3, <2>4, LimitAssumption DEF CapsHold
<1>1. ASSUME NEW F, FollowEach(F)
      PROVE  /\ links' \subseteq LinkRow
             /\ \A l \in links' : \E k \in links : k.group = l.group
             /\ \A l \in links' : l.max # None => l.used <= l.max
             /\ \A g \in Group : IsFiniteSet(ActiveLinks(g)') /\ Cardinality(ActiveLinks(g)') <= LinksMax
  <2>1. \A l \in links' : \E k \in links : l = F[k] /\ Follows(k, l)
    BY <1>1 DEF FollowEach
  <2>2. ASSUME NEW l \in links', l.max # None
        PROVE  l.used <= l.max
    <3>1. PICK k \in links : Follows(k, l)
      BY <2>1
    <3>2. l.max = k.max /\ (l.used = k.used \/ (k.used < k.max /\ l.used = k.used + 1))
      BY <2>2, <3>1 DEF Follows, HasUses
    <3>3. k.used \in Nat /\ k.max \in Nat /\ k.used <= k.max
      BY <1>0, <2>2, <3>2
    <3>4. QED
      BY <3>2, <3>3
  <2>3. ASSUME NEW g \in Group
        PROVE  IsFiniteSet(ActiveLinks(g)') /\ Cardinality(ActiveLinks(g)') <= LinksMax
    <3>1. \A b \in ActiveLinks(g)' : \E a \in ActiveLinks(g) : b = F[a]
      BY <2>1 DEF ActiveLinks, Follows
    <3>2. IsFiniteSet(ActiveLinks(g)') /\ Cardinality(ActiveLinks(g)') <= Cardinality(ActiveLinks(g))
      BY <1>0, <3>1, NoMore
    <3>3. Cardinality(ActiveLinks(g)') \in Nat
      BY <3>2, FS_CardinalityType
    <3>4. QED
      BY <1>0, <3>2, <3>3
  <2>4. \A l \in links' : l \in LinkRow /\ \E k \in links : k.group = l.group
    BY <2>1 DEF Follows
  <2>5. QED
    BY <2>2, <2>3, <2>4
<1>2. ASSUME NEW t \in Thread, CommitLink(t), links' # links
      PROVE  /\ links' \subseteq LinkRow
             /\ \A l \in links' : l \in links \/ l.group = reqs[t].on.group
             /\ \A l \in links' : l.max # None => l.used <= l.max
             /\ \A g \in Group : IsFiniteSet(ActiveLinks(g)') /\ Cardinality(ActiveLinks(g)') <= LinksMax
  <2>1. PICK l \in LinkRow : links' = links \cup {l} /\ l.group = reqs[t].on.group /\ l.used = 0
    BY <1>2, CommitLinkIs
  <2>2. Cardinality(ActiveLinks(reqs[t].on.group)) < LinksMax /\ reqs[t].on.group \in Group
    BY <1>2, CommitLinkIs
  <2>3. \A k \in links' : k.max # None => k.used <= k.max
    <3>1. l.max # None => l.max \in Nat
      BY LimitAssumption DEF LinkRow
    <3>2. l.max # None => l.used <= l.max
      BY <2>1, <3>1
    <3>3. \A k \in links : k.max # None => k.used <= k.max
      BY <1>0
    <3>4. QED
      BY <2>1, <3>2, <3>3
  <2>4. ASSUME NEW g \in Group
        PROVE  IsFiniteSet(ActiveLinks(g)') /\ Cardinality(ActiveLinks(g)') <= LinksMax
    <3>1. CASE g # reqs[t].on.group
      <4>1. ActiveLinks(g)' = ActiveLinks(g)
        BY <2>1, <3>1 DEF ActiveLinks
      <4>2. QED
        BY <1>0, <4>1
    <3>2. CASE g = reqs[t].on.group
      <4>1. ActiveLinks(g)' \subseteq ActiveLinks(g) \cup {l}
        BY <2>1 DEF ActiveLinks
      <4>2. IsFiniteSet(ActiveLinks(g) \cup {l}) /\ Cardinality(ActiveLinks(g) \cup {l}) <= Cardinality(ActiveLinks(g)) + 1
        <5>1. IsFiniteSet(ActiveLinks(g)) /\ Cardinality(ActiveLinks(g)) \in Nat
          BY <1>0
        <5>2. /\ IsFiniteSet(ActiveLinks(g) \cup {l})
              /\ \/ Cardinality(ActiveLinks(g) \cup {l}) = Cardinality(ActiveLinks(g))
                 \/ Cardinality(ActiveLinks(g) \cup {l}) = Cardinality(ActiveLinks(g)) + 1
          BY <5>1, FS_AddElement
        <5>3. QED
          BY <5>1, <5>2
      <4>3. IsFiniteSet(ActiveLinks(g)') /\ Cardinality(ActiveLinks(g)') <= Cardinality(ActiveLinks(g) \cup {l})
        BY <4>1, <4>2, FS_Subset
      <4>4. Cardinality(ActiveLinks(g)') \in Nat /\ Cardinality(ActiveLinks(g) \cup {l}) \in Nat
        BY <4>2, <4>3, FS_CardinalityType
      <4>5. Cardinality(ActiveLinks(g)') <= Cardinality(ActiveLinks(g)) + 1 /\ Cardinality(ActiveLinks(g)) < LinksMax
            /\ Cardinality(ActiveLinks(g)) \in Nat /\ LinksMax \in Nat
        BY <1>0, <2>2, <3>2, <4>2, <4>3, <4>4
      <4>6. QED
        BY <4>3, <4>4, <4>5
    <3>3. QED
      BY <3>1, <3>2
  <2>5. \A k \in links' : k \in LinkRow /\ (k \in links \/ k.group = reqs[t].on.group)
    BY <1>0, <2>1
  <2>6. QED
    BY <2>3, <2>4, <2>5
<1>3. ASSUME NEW t \in Thread, CommitLink(t)
      PROVE  reqs[t] # None /\ reqs[t].kind \in GroupKind \ {"createGroup"}
  BY <1>3, CommitLinkIs DEF GroupKind
<1>4. CASE links' = links
  BY <1>0, <1>4 DEF ActiveLinks
<1>5. CASE \E F : FollowEach(F)
  BY <1>1, <1>5
<1>6. CASE links' # links /\ \E t \in Thread : CommitLink(t)
  BY <1>2, <1>3, <1>6
<1>7. QED
  BY <1>4, <1>5, <1>6, LinksShape

(* Invites.                                                                *)
LEMMA InvitesStep ==
    ASSUME TypeOK, [Next]_vars
    PROVE  /\ invites' \subseteq InviteRow
           /\ \A i \in invites' : \/ i \in invites
                                  \/ \E t \in Thread : reqs[t] # None /\ reqs[t].kind \in GroupKind \ {"createGroup"}
                                                       /\ reqs[t].on.group = i.group
<1>0. invites \subseteq InviteRow
  BY DEF TypeOK
<1>1. ASSUME NEW t \in Thread, CommitAccept(t) \/ CommitCancel(t) \/ CommitDeleteGroup(t) \/ CommitDeleteMe(t)
      PROVE  invites' \subseteq invites
  BY <1>1 DEF CommitAccept, CommitCancel, CommitDeleteGroup, CommitDeleteMe, DropGroups, groupVars, membership
<1>2. ASSUME DeclineInvite
      PROVE  invites' \subseteq invites
  BY <1>2 DEF DeclineInvite
<1>3. ASSUME NEW t \in Thread, CommitInvite(t)
      PROVE  /\ invites' \subseteq InviteRow
             /\ \A i \in invites' : i \in invites \/ i.group = reqs[t].on.group
             /\ reqs[t] # None /\ reqs[t].kind \in GroupKind \ {"createGroup"}
  <2>1. reqs[t] # None /\ reqs[t].kind = "invite"
    BY <1>3 DEF CommitInvite, At
  <2>2. Typed(reqs[t])
    BY <2>1, RequestType
  <2>3. reqs[t].on.group \in Group /\ reqs[t].by \in User /\ reqs[t].on.x \in User
    BY <2>1, <2>2 DEF Typed, GroupKind
  <2> DEFINE i == [id |-> <<acts, t>>, group |-> reqs[t].on.group, to |-> reqs[t].on.x, by |-> reqs[t].by]
  <2>4. i \in InviteRow /\ i.group = reqs[t].on.group
    BY <2>3 DEF InviteRow, TypeOK
  <2>5. invites' = invites \/ invites' = invites \cup {i}
    BY <1>3 DEF CommitInvite
  <2> HIDE DEF i
  <2>6. QED
    BY <1>0, <2>1, <2>4, <2>5 DEF GroupKind
<1>4. CASE invites' \subseteq invites
  BY <1>0, <1>4
<1>5. QED
  BY <1>1, <1>2, <1>3, <1>4, Frame, GroupFrame

-----------------------------------------------------------------------------
(* Requests of friends and friendships.                                    *)
LEMMA OneMore ==
    ASSUME NEW A, IsFiniteSet(A), NEW x, NEW B, B \subseteq A \cup {x}, NEW n \in Nat, Cardinality(A) < n
    PROVE  IsFiniteSet(B) /\ Cardinality(B) <= n
<1>1. Cardinality(A) \in Nat
  BY FS_CardinalityType
<1>2. /\ IsFiniteSet(A \cup {x})
      /\ Cardinality(A \cup {x}) = Cardinality(A) \/ Cardinality(A \cup {x}) = Cardinality(A) + 1
  BY FS_AddElement
<1>3. IsFiniteSet(B) /\ Cardinality(B) <= Cardinality(A \cup {x})
  BY <1>2, FS_Subset
<1>4. Cardinality(B) \in Nat
  BY <1>3, FS_CardinalityType
<1>5. QED
  BY <1>1, <1>2, <1>3, <1>4

LEMMA NoneMore ==
    ASSUME NEW A, IsFiniteSet(A), NEW B, B \subseteq A, NEW n \in Nat, Cardinality(A) <= n
    PROVE  IsFiniteSet(B) /\ Cardinality(B) <= n
<1>1. IsFiniteSet(B) /\ Cardinality(B) <= Cardinality(A)
  BY FS_Subset
<1>2. Cardinality(A) \in Nat /\ Cardinality(B) \in Nat
  BY <1>1, FS_CardinalityType
<1>3. QED
  BY <1>1, <1>2

FriendsKept == \A u \in User : IsFiniteSet(FriendsOf(u)) /\ Cardinality(FriendsOf(u)) <= FriendsMax
SentKept == \A u \in User : IsFiniteSet(SentBy(u)) /\ Cardinality(SentBy(u)) <= PendingMax

LEMMA FriendsStep ==
    ASSUME TypeOK, FriendsKept, SentKept, [Next]_vars
    PROVE  /\ asked' \subseteq [id : Nat \X Thread, from : User, to : User] /\ friends' \subseteq User \X User
           /\ FriendsKept' /\ SentKept'
<1>0. asked \subseteq [id : Nat \X Thread, from : User, to : User] /\ friends \subseteq User \X User
  BY DEF TypeOK
<1>1. ASSUME asked' \subseteq asked
      PROVE  SentKept'
  <2>1. ASSUME NEW u \in User
        PROVE  IsFiniteSet(SentBy(u)') /\ Cardinality(SentBy(u)') <= PendingMax
    <3>1. SentBy(u)' \subseteq SentBy(u)
      BY <1>1 DEF SentBy
    <3>2. IsFiniteSet(SentBy(u)) /\ Cardinality(SentBy(u)) <= PendingMax /\ PendingMax \in Nat
      BY FriendsAssumption DEF SentKept
    <3>3. QED
      BY <3>1, <3>2, NoneMore
  <2>2. QED
    BY <2>1 DEF SentKept
<1>2. ASSUME friends' \subseteq friends
      PROVE  FriendsKept'
  <2>1. ASSUME NEW u \in User
        PROVE  IsFiniteSet(FriendsOf(u)') /\ Cardinality(FriendsOf(u)') <= FriendsMax
    <3>1. FriendsOf(u)' \subseteq FriendsOf(u)
      BY <1>2 DEF FriendsOf
    <3>2. IsFiniteSet(FriendsOf(u)) /\ Cardinality(FriendsOf(u)) <= FriendsMax /\ FriendsMax \in Nat
      BY FriendsAssumption DEF FriendsKept
    <3>3. QED
      BY <3>1, <3>2, NoneMore
  <2>2. QED
    BY <2>1 DEF FriendsKept
<1>3. ASSUME NEW t \in Thread, InsertRequest(t)
      PROVE  /\ asked' \subseteq [id : Nat \X Thread, from : User, to : User] /\ friends' = friends
             /\ SentKept'
  <2>1. reqs[t] # None /\ reqs[t].kind = "request"
    BY <1>3 DEF InsertRequest, At
  <2>2. Typed(reqs[t])
    BY <2>1, RequestType
  <2>3. reqs[t].by \in User /\ reqs[t].on \in User
    BY <2>1, <2>2 DEF Typed
  <2> DEFINE u == reqs[t].by
             r == [id |-> <<acts, t>>, from |-> u, to |-> reqs[t].on]
  <2>4. r \in [id : Nat \X Thread, from : User, to : User] /\ r.from = u
    BY <2>3 DEF TypeOK
  <2>5. friends' = friends /\ (asked' = asked \/ (Cardinality(SentBy(u)) < PendingMax /\ asked' = asked \cup {r}))
    BY <1>3 DEF InsertRequest, SentBy
  <2> HIDE DEF r
  <2>6. ASSUME Cardinality(SentBy(u)) < PendingMax, asked' = asked \cup {r}
        PROVE  SentKept'
    <3>1. ASSUME NEW v \in User
          PROVE  IsFiniteSet(SentBy(v)') /\ Cardinality(SentBy(v)') <= PendingMax
      <4>1. IsFiniteSet(SentBy(v)) /\ Cardinality(SentBy(v)) <= PendingMax /\ PendingMax \in Nat
        BY FriendsAssumption DEF SentKept
      <4>2. CASE v = u
        <5>1. SentBy(v)' \subseteq SentBy(v) \cup {r}
          BY <2>6 DEF SentBy
        <5>2. QED
          BY <2>6, <4>1, <4>2, <5>1, OneMore
      <4>3. CASE v # u
        <5>1. SentBy(v)' = SentBy(v)
          BY <2>4, <2>6, <4>3 DEF SentBy
        <5>2. QED
          BY <4>1, <5>1
      <4>4. QED
        BY <4>2, <4>3
    <3>2. QED
      BY <3>1 DEF SentKept
  <2>7. QED
    BY <1>0, <1>1, <2>4, <2>5, <2>6
<1>4. ASSUME NEW t \in Thread, AcceptById(t)
      PROVE  friends' \subseteq User \X User /\ asked' \subseteq asked /\ FriendsKept'
  <2>1. reqs[t] # None /\ reqs[t].kind \in {"request", "acceptFriend"}
    BY <1>4 DEF AcceptById
  <2>2. Typed(reqs[t])
    BY <2>1, RequestType
  <2>3. reqs[t].by \in User /\ reqs[t].on \in User
    BY <2>1, <2>2 DEF Typed
  <2> DEFINE u == reqs[t].by
             v == reqs[t].on
  <2>4. asked' \subseteq asked
    BY <1>4 DEF AcceptById
  <2>5. friends' = friends \/ (HasRoom(u, v) /\ friends' = friends \cup {<<u, v>>, <<v, u>>})
    BY <1>4 DEF AcceptById
  <2>6. ASSUME HasRoom(u, v), friends' = friends \cup {<<u, v>>, <<v, u>>}
        PROVE  FriendsKept'
    <3>1. ASSUME NEW x \in User
          PROVE  IsFiniteSet(FriendsOf(x)') /\ Cardinality(FriendsOf(x)') <= FriendsMax
      <4>1. IsFiniteSet(FriendsOf(x)) /\ Cardinality(FriendsOf(x)) <= FriendsMax /\ FriendsMax \in Nat
        BY FriendsAssumption DEF FriendsKept
      <4>2. CASE x \in {u, v}
        <5>1. \E y : FriendsOf(x)' \subseteq FriendsOf(x) \cup {y}
          BY <2>6, <4>2 DEF FriendsOf
        <5>2. Cardinality(FriendsOf(x)) < FriendsMax
          BY <2>6, <4>2 DEF HasRoom
        <5>3. QED
          BY <4>1, <5>1, <5>2, OneMore
      <4>3. CASE x \notin {u, v}
        <5>1. FriendsOf(x)' = FriendsOf(x)
          BY <2>6, <4>3 DEF FriendsOf
        <5>2. QED
          BY <4>1, <5>1
      <4>4. QED
        BY <4>2, <4>3
    <3>2. QED
      BY <3>1 DEF FriendsKept
  <2>7. QED
    BY <1>0, <1>2, <2>3, <2>4, <2>5, <2>6
<1>5. ASSUME FriendsNext
      PROVE  \/ asked' \subseteq asked /\ friends' \subseteq friends
             \/ \E t \in Thread : InsertRequest(t) \/ AcceptById(t)
  <2>1. ASSUME NEW t \in Thread, Request(t) \/ Accept(t)
        PROVE  asked' = asked /\ friends' = friends
    BY <2>1 DEF Request, Accept, friendVars
  <2>2. CASE RemoveRequest \/ Unfriend
    BY <2>2 DEF RemoveRequest, Unfriend
  <2>3. ASSUME NEW u \in User, Track(u) \/ Rest(u) \/ Presence(u)
        PROVE  asked' = asked /\ friends' = friends
    BY <2>3 DEF Track, Rest, Presence
  <2>4. QED
    BY <1>5, <2>1, <2>2, <2>3 DEF FriendsNext
<1>6. ASSUME NEW t \in Thread, CommitDeleteMe(t)
      PROVE  asked' \subseteq asked /\ friends' \subseteq friends
  BY <1>6 DEF CommitDeleteMe, friendVars
<1>7. CASE asked' \subseteq asked /\ friends' \subseteq friends
  BY <1>0, <1>1, <1>2, <1>7
<1>8. CASE \E t \in Thread : InsertRequest(t)
  BY <1>0, <1>2, <1>3, <1>8
<1>9. CASE \E t \in Thread : AcceptById(t)
  BY <1>0, <1>1, <1>4, <1>9
<1>10. QED
  BY <1>5, <1>6, <1>7, <1>8, <1>9, Frame

-----------------------------------------------------------------------------
(* What is born stays so, and only one request makes a group.              *)
LEMMA CreatesBefore ==
    ASSUME TypeOK, Births, [Next]_vars, NEW x \in Thread, NEW g, Creates(x, g)'
    PROVE  Creates(x, g) \/ (g \notin used /\ g \in used' /\ \A o \in Thread \ {x} : reqs'[o] = reqs[o])
<1>1. CASE reqs' = reqs
  BY <1>1 DEF Creates
<1>2. ASSUME NEW t \in Thread, BeginStep(t) \/ MoveStep(t), x # t
      PROVE  Creates(x, g)
  <2>1. PICK q : Moves(t, q)
    BY <1>2 DEF BeginStep, MoveStep
  <2>2. reqs'[x] = reqs[x]
    BY <1>2, <2>1, Moved
  <2>3. QED
    BY <2>2 DEF Creates
<1>3. CASE BeginStep(x)
  <2>1. PICK q : Moves(x, q) /\ Grounded(q)
    BY <1>3 DEF BeginStep
  <2>2. reqs'[x] = q /\ \A o \in Thread \ {x} : reqs'[o] = reqs[o]
    BY <2>1, Moved
  <2>3. QED
    BY <2>1, <2>2 DEF Creates, Grounded, GroupKind
<1>4. CASE MoveStep(x)
  <2>1. reqs[x] # None /\ Typed(reqs[x])
    BY <1>4, RequestType DEF MoveStep
  <2>2. CASE Moves(x, None)
    BY <2>2, Moved DEF Creates
  <2>3. CASE Moves(x, [reqs[x] EXCEPT !.pc = "tell"])
    <3>1. reqs'[x].pc = "tell"
      BY <2>1, <2>3, Moved DEF Typed
    <3>2. QED
      BY <3>1 DEF Creates
  <2>4. CASE Moves(x, [reqs[x] EXCEPT !.pc = "member"]) /\ reqs[x].pc = "write" /\ reqs[x].kind = "createGroup"
    <3>1. reqs'[x].on = reqs[x].on
      BY <2>1, <2>4, Moved DEF Typed
    <3>2. QED
      BY <2>1, <2>4, <3>1 DEF Creates
  <2>5. QED
    BY <1>4, <2>2, <2>3, <2>4 DEF MoveStep
<1>5. QED
  BY <1>1, <1>2, <1>3, <1>4, ThreadStep

LEMMA BornStays ==
    ASSUME TypeOK, Births, [Next]_vars, NEW g, Born(g)
    PROVE  Born(g)'
<1>1. g \in used' /\ g \in used
  BY Frame DEF Born
<1>2. QED
  BY <1>1, CreatesBefore DEF Born

LEMMA CreatesAlone ==
    ASSUME TypeOK, Births, NEW x \in Thread, NEW g, Creates(x, g)
    PROVE  g \in used /\ \A o \in Thread : Creates(o, g) => o = x
  BY DEF Creates, Births, Grounds, GroupKind

LEMMA CreationEnds ==
    ASSUME TypeOK, Births, [Next]_vars, NEW x \in Thread, NEW g, Creates(x, g), ~Creates(x, g)'
    PROVE  Born(g)'
<1>1. g \in used /\ \A o \in Thread : Creates(o, g) => o = x
  BY CreatesAlone
<1>2. g \in used'
  BY <1>1, Frame
<1>3. QED
  BY <1>1, <1>2, CreatesBefore DEF Born

LEMMA GroundsStep ==
    ASSUME TypeOK, Births, [Next]_vars, NEW x \in Thread
    PROVE  Grounds(x)'
<1>1. CASE reqs'[x] = None
  BY <1>1 DEF Grounds
<1>2. ASSUME reqs'[x] # None, reqs'[x].kind \in GroupKind, NEW g, g = reqs'[x].on.group, Creates(x, g)'
      PROVE  Grounds(x)'
  <2>1. CASE Creates(x, g)
    <3>1. g \in used /\ \A o \in Thread : Creates(o, g) => o = x
      BY <2>1, CreatesAlone
    <3>2. g \in used' /\ \A o \in Thread : Creates(o, g)' => o = x
      BY <3>1, Frame, CreatesBefore
    <3>3. reqs'[x].kind = "createGroup" /\ reqs'[x].pc # "tell"
      BY <1>2 DEF Creates
    <3>4. QED
      BY <1>2, <3>2, <3>3 DEF Grounds, Creates
  <2>2. CASE ~Creates(x, g)
    <3>1. g \notin used /\ g \in used' /\ \A o \in Thread \ {x} : reqs'[o] = reqs[o]
      BY <1>2, <2>2, CreatesBefore
    <3>2. \A o \in Thread : Creates(o, g)' => o = x
      <4>1. ASSUME NEW o \in Thread \ {x}, Creates(o, g)'
            PROVE  FALSE
        <5>1. Creates(o, g)
          BY <3>1, <4>1 DEF Creates
        <5>2. QED
          BY <3>1, <5>1, CreatesAlone
      <4>2. QED
        BY <4>1
    <3>3. reqs'[x].kind = "createGroup" /\ reqs'[x].pc # "tell"
      BY <1>2 DEF Creates
    <3>4. QED
      BY <1>2, <3>1, <3>2, <3>3 DEF Grounds, Creates
  <2>3. QED
    BY <2>1, <2>2
<1>3. ASSUME reqs'[x] # None, reqs'[x].kind \in GroupKind, NEW g, g = reqs'[x].on.group, ~Creates(x, g)',
             Born(g) \/ Creates(x, g), Typed(reqs'[x])
      PROVE  Grounds(x)'
  <2>1. Born(g)'
    BY <1>3, BornStays, CreationEnds
  <2>2. ~(reqs'[x].kind = "createGroup" /\ reqs'[x].pc # "tell")
    BY <1>3 DEF Creates, Typed
  <2>3. QED
    BY <1>3, <2>1, <2>2 DEF Grounds, Born, Creates
<1>4. ASSUME reqs'[x] = reqs[x], reqs[x] # None, reqs[x].kind \in GroupKind
      PROVE  /\ Typed(reqs'[x])
             /\ Born(reqs'[x].on.group) \/ Creates(x, reqs'[x].on.group)
  <2>1. Typed(reqs[x])
    BY <1>4, RequestType
  <2>2. QED
    BY <1>4, <2>1 DEF Births, Grounds, Typed, Creates
<1>5. ASSUME NEW q, Moves(x, q), Typed(q), Grounded(q), q.kind \in GroupKind, q # None, q.pc = "write",
             NEW g, g = reqs'[x].on.group
      PROVE  Typed(reqs'[x]) /\ (Born(g) \/ Creates(x, g)')
  <2>1. reqs'[x] = q
    BY <1>5, Moved
  <2>2. QED
    BY <1>5, <2>1 DEF Grounded, Creates
<1>6. ASSUME MoveStep(x), reqs'[x] # None, reqs'[x].kind \in GroupKind
      PROVE  Typed(reqs'[x]) /\ (Born(reqs'[x].on.group) \/ Creates(x, reqs'[x].on.group))
  <2>1. reqs[x] # None /\ Typed(reqs[x])
    BY <1>6, RequestType DEF MoveStep
  <2>2. PICK pc : /\ Moves(x, [reqs[x] EXCEPT !.pc = pc])
                  /\ \/ pc = "tell" /\ reqs[x].kind \in GroupKind
                     \/ pc = "member" /\ reqs[x].kind = "createGroup"
    BY <1>6, Moved DEF MoveStep
  <2>3. reqs'[x] = [reqs[x] EXCEPT !.pc = pc]
    BY <2>2, Moved
  <2>4. reqs'[x] = [kind |-> reqs[x].kind, by |-> reqs[x].by, on |-> reqs[x].on, seen |-> reqs[x].seen, pc |-> pc]
    BY <2>1, <2>3 DEF Typed
  <2>5. Typed(reqs'[x])
    <3>1. reqs[x].kind \in MemberKind => reqs'[x] \in MemberRequest
      BY <2>1, <2>2, <2>4 DEF Typed, MemberRequest
    <3>2. QED
      BY <2>1, <2>2, <2>4, <3>1 DEF Typed
  <2>6. reqs[x].kind \in GroupKind /\ reqs'[x].on = reqs[x].on
    BY <1>6, <2>4
  <2>7. Born(reqs[x].on.group) \/ Creates(x, reqs[x].on.group)
    BY <2>1, <2>6 DEF Births, Grounds, Typed, Creates
  <2>8. QED
    BY <2>5, <2>6, <2>7
<1>7. ASSUME reqs'[x] # None, reqs'[x].kind \in GroupKind
      PROVE  Grounds(x)'
  <2>0. PICK g : g = reqs'[x].on.group
    OBVIOUS
  <2>1. CASE reqs'[x] = reqs[x]
    BY <2>0, <1>2, <1>3, <1>4, <1>7, <2>1
  <2>2. CASE MoveStep(x)
    BY <1>2, <1>3, <1>6, <1>7, <2>0, <2>2
  <2>3. CASE BeginStep(x)
    <3>1. PICK q : Moves(x, q) /\ Typed(q) /\ Grounded(q) /\ q.pc = "write"
      BY <2>3 DEF BeginStep
    <3>2. reqs'[x] = q
      BY <3>1, Moved
    <3>3. QED
      BY <1>2, <1>3, <1>5, <1>7, <2>0, <3>1, <3>2
  <2>4. ASSUME NEW t \in Thread, BeginStep(t) \/ MoveStep(t), t # x
        PROVE  reqs'[x] = reqs[x]
    BY <2>4, Moved DEF BeginStep, MoveStep
  <2>5. QED
    BY <2>1, <2>2, <2>3, <2>4, ThreadStep
<1>8. CASE reqs'[x] # None /\ reqs'[x].kind \notin GroupKind
  BY <1>8 DEF Grounds
<1>9. QED
  BY <1>1, <1>7, <1>8

LEMMA BirthsStep ==
    ASSUME TypeOK, OneRowEach, Births, CapsHold, Countable, [Next]_vars
    PROVE  Births'
<1>2. ASSUME NEW g \in Group, members'[g] # <<>>
      PROVE  Born(g)'
  <2>1. CASE members[g] # <<>>
    <3>1. Born(g)
      BY <2>1 DEF Births
    <3>2. QED
      BY <3>1, BornStays
  <2>2. ASSUME NEW t \in Thread, reqs[t] # None, reqs[t].kind \in GroupKind \ {"createGroup"}, reqs[t].on.group = g
        PROVE  Born(g)'
    <3>1. Born(g)
      BY <2>2 DEF Births, Grounds
    <3>2. QED
      BY <3>1, BornStays
  <2>3. ASSUME NEW t \in Thread, InsertOwner(t), reqs[t].on.group = g
        PROVE  Born(g)'
    <3>1. Creates(t, g) /\ Typed(reqs[t])
      BY <2>3, OwnerOf, RequestType
    <3>2. Moves(t, None) \/ Moves(t, [reqs[t] EXCEPT !.pc = "tell"])
      BY <2>3, WritesMoves DEF InsertOwner
    <3>3. ~Creates(t, g)'
      BY <3>1, <3>2, Moved DEF Creates, Typed
    <3>4. QED
      BY <3>1, <3>3, CreationEnds
  <2>4. QED
    BY <1>2, <2>1, <2>2, <2>3, MembersStep
<1>3. ASSUME NEW l \in links'
      PROVE  Born(l.group)'
  <2>1. PICK g : g = l.group
    OBVIOUS
  <2>2. \/ \E k \in links : k.group = g
        \/ \E t \in Thread : reqs[t] # None /\ reqs[t].kind \in GroupKind \ {"createGroup"} /\ reqs[t].on.group = g
    BY <2>1, LinksStep
  <2>3. Born(g)
    BY <2>2 DEF Births, Grounds
  <2>4. QED
    BY <2>1, <2>3, BornStays
<1>4. ASSUME NEW i \in invites'
      PROVE  Born(i.group)'
  <2>1. PICK g : g = i.group
    OBVIOUS
  <2>2. \/ i \in invites
        \/ \E t \in Thread : reqs[t] # None /\ reqs[t].kind \in GroupKind \ {"createGroup"} /\ reqs[t].on.group = g
    BY <2>1, InvitesStep
  <2>3. Born(g)
    BY <2>1, <2>2 DEF Births, Grounds
  <2>4. QED
    BY <2>1, <2>3, BornStays
<1>5. QED
  BY <1>2, <1>3, <1>4, GroundsStep DEF Births

-----------------------------------------------------------------------------
(* Accounts, owners and devices.                                           *)
LEMMA StatusStep ==
    ASSUME TypeOK, [Next]_vars
    PROVE  /\ status' \in [User -> {"active", "inactive", "gone"}]
           /\ \/ Known' = Known
              \/ \E t \in Thread : CommitDeleteMe(t) /\ status' # status
           /\ \A u \in User : status[u] = "gone" => status'[u] = "gone"
           /\ \/ status' = status
              \/ \E t \in Thread : CommitDeleteMe(t)
              \/ \E u \in User : SetActive(u)
<1>0. status \in [User -> {"active", "inactive", "gone"}]
  BY DEF TypeOK
<1>1. CASE status' = status
  BY <1>0, <1>1 DEF Known
<1>2. ASSUME NEW t \in Thread, CommitDeleteMe(t), status' # status
      PROVE  /\ status' \in [User -> {"active", "inactive", "gone"}]
             /\ \A u \in User : status[u] = "gone" => status'[u] = "gone"
  <2>1. status' = [status EXCEPT ![reqs[t].by] = "gone"]
    BY <1>2 DEF CommitDeleteMe
  <2>2. QED
    BY <1>0, <2>1
<1>3. ASSUME NEW u \in User, SetActive(u)
      PROVE  /\ status' \in [User -> {"active", "inactive", "gone"}] /\ Known' = Known
             /\ \A v \in User : status[v] = "gone" => status'[v] = "gone"
  <2>1. (status[u] = "active" /\ status' = [status EXCEPT ![u] = "inactive"])
        \/ (status[u] = "inactive" /\ status' = [status EXCEPT ![u] = "active"])
    BY <1>3 DEF SetActive, Deactivate, Activate
  <2>2. \A v \in User : status'[v] = IF v = u THEN status'[u] ELSE status[v]
    BY <1>0, <2>1
  <2>3. status'[u] # "gone" /\ status[u] # "gone"
    BY <1>0, <2>1
  <2>4. QED
    BY <1>0, <2>1, <2>2, <2>3 DEF Known
<1>4. CASE GroupsNext
  BY <1>1, <1>4, GroupFrame
<1>5. CASE FriendsNext
  <2>1. ASSUME NEW t \in Thread, Request(t) \/ Accept(t) \/ InsertRequest(t) \/ AcceptById(t)
        PROVE  status' = status
    BY <2>1 DEF Request, Accept, InsertRequest, AcceptById, Begins
  <2>2. CASE RemoveRequest \/ Unfriend
    BY <1>1, <2>2 DEF RemoveRequest, Unfriend, AtOnce
  <2>3. ASSUME NEW u \in User, Track(u) \/ Rest(u) \/ Presence(u)
        PROVE  status' = status
    BY <2>3 DEF Track, Rest, Presence, AtOnce
  <2>4. QED
    BY <1>1, <1>5, <2>1, <2>2, <2>3 DEF FriendsNext
<1>6. ASSUME NEW t \in Thread, DeleteMe(t) \/ Die(t)
      PROVE  status' = status
  BY <1>6 DEF DeleteMe, Begins, Die
<1>7. CASE UNCHANGED vars
  BY <1>1, <1>7 DEF vars, accountVars
<1>8. QED
  BY <1>1, <1>2, <1>3, <1>4, <1>5, <1>6, <1>7 DEF Next

(* Flags are set for good, and only Die sets cut.                          *)
LEMMA FlagsStep ==
    ASSUME TypeOK, [Next]_vars
    PROVE  stale' \in BOOLEAN /\ cut' \in BOOLEAN /\ (stale => stale') /\ (cut => cut')
<1>0. stale \in BOOLEAN /\ cut \in BOOLEAN
  BY DEF TypeOK
<1>1. ASSUME NEW t, NEW holds, NEW next, Writes(t, holds, next)
      PROVE  stale' \in BOOLEAN /\ cut' = cut /\ (stale => stale')
  BY <1>1, Zenon DEF Writes
<1>2. ASSUME NEW t, NEW kind, NEW u, NEW on, NEW seen, Begins(t, kind, u, on, seen)
      PROVE  stale' = stale /\ cut' = cut
  BY <1>2 DEF Begins
<1>3. ASSUME NEW kind, NEW u, AtOnce(kind, u)
      PROVE  stale' = stale /\ cut' = cut
  BY <1>3 DEF AtOnce
<1> DEFINE Goal == stale' \in BOOLEAN /\ cut' \in BOOLEAN /\ (stale => stale') /\ (cut => cut')
<1>4. CASE FriendsNext
  <2>1. ASSUME NEW t \in Thread, Request(t) \/ Accept(t)
        PROVE  Goal
    BY <1>0, <1>2, <2>1 DEF Request, Accept
  <2>2. ASSUME NEW t \in Thread, InsertRequest(t) \/ AcceptById(t)
        PROVE  Goal
    BY <1>0, <1>1, <2>2 DEF InsertRequest, AcceptById
  <2>3. CASE RemoveRequest \/ Unfriend
    BY <1>0, <1>3, <2>3 DEF RemoveRequest, Unfriend
  <2>4. ASSUME NEW u \in User, Track(u) \/ Rest(u) \/ Presence(u)
        PROVE  Goal
    BY <1>0, <1>3, <2>4 DEF Track, Rest, Presence
  <2>5. QED
    BY <1>4, <2>1, <2>2, <2>3, <2>4 DEF FriendsNext
<1>5. CASE GroupsNext
  <2>1. ASSUME NEW t \in Thread, Beginning(t)
        PROVE  Goal
    BY <1>0, <2>1, BeginningFrame
  <2>2. ASSUME NEW t \in Thread, CreateGroup(t) \/ NewProject(t)
        PROVE  Goal
    BY <1>0, <1>2, <2>2 DEF CreateGroup, NewProject
  <2>3. ASSUME NEW t \in Thread, Tells(t) \/ InsertGroup(t) \/ InsertOwner(t) \/ CommitJoin(t) \/ CommitAccept(t)
        PROVE  Goal
    BY <1>0, <1>1, <2>3 DEF Tells, InsertGroup, InsertOwner, CommitJoin, CommitAccept
  <2>4. ASSUME NEW t \in Thread, CommitInvite(t) \/ CommitCancel(t) \/ CommitLink(t) \/ CommitRevoke(t)
        PROVE  Goal
    BY <1>0, <1>1, <2>4 DEF CommitInvite, CommitCancel, CommitLink, CommitRevoke
  <2>5. ASSUME NEW t \in Thread, CommitLeave(t) \/ CommitPatch(t) \/ CommitDeleteGroup(t)
        PROVE  Goal
    BY <1>0, <1>1, <2>5 DEF CommitLeave, CommitPatch, CommitDeleteGroup
  <2>6. ASSUME NEW t \in Thread, CommitProject(t) \/ CommitEdit(t) \/ CommitDeleteMessage(t)
        PROVE  Goal
    BY <1>0, <1>1, <2>6 DEF CommitProject, CommitEdit, CommitDeleteMessage
  <2>7. CASE DeclineInvite \/ Expire
    BY <1>0, <1>3, <2>7 DEF DeclineInvite, Expire
  <2>8. ASSUME NEW u \in User, Refetch(u) \/ DropProject(u) \/ AddTask(u) \/ TrackTime(u) \/ Post(u)
        PROVE  Goal
    BY <1>0, <1>3, <2>8 DEF Refetch, DropProject, AddTask, TrackTime, Post, accountVars
  <2>9. QED
    BY <1>5, <2>1, <2>2, <2>3, <2>4, <2>5, <2>6, <2>7, <2>8 DEF GroupsNext, Beginning
<1>6. ASSUME NEW t \in Thread, DeleteMe(t) \/ CommitDeleteMe(t) \/ Die(t)
      PROVE  Goal
  BY <1>0, <1>1, <1>2, <1>6 DEF DeleteMe, CommitDeleteMe, Die
<1>7. ASSUME NEW u \in User, SetActive(u)
      PROVE  Goal
  BY <1>0, <1>7 DEF SetActive, Deactivate, Activate
<1>8. CASE UNCHANGED vars
  BY <1>0, <1>8 DEF vars, accountVars
<1>9. QED
  BY <1>4, <1>5, <1>6, <1>7, <1>8 DEF Next

-----------------------------------------------------------------------------
(* What a cascade leaves is as it was handed on.                           *)
LEMMA CascadeLeaves ==
    ASSUME NEW ps, NEW cs, NEW rows, NEW by, NEW gone, Cascade(ps, cs, rows, by, gone)
    PROVE  /\ projects' = [p \in Project |-> projects'[p]] /\ tasks' = [c \in Task |-> tasks'[c]]
           /\ \A p \in Project : IF ps[p] = None \/ ps[p].by = by \/ ps[p].group \in gone
                                 THEN projects'[p] = None ELSE projects'[p] = ps[p]
           /\ \A c \in Task : IF cs[c] = None \/ cs[c].by = by \/ projects'[cs[c].project] = None
                              THEN tasks'[c] = None ELSE tasks'[c] = cs[c]
           /\ time' = {r \in rows : r[1] # by /\ tasks'[r[2]] # None}
  BY DEF Cascade

LEMMA NoneIsNoRow ==
    ASSUME NEW r, r \in ProjectRow \/ r \in TaskRow
    PROVE  r # None
  BY GroupAssumption DEF ProjectRow, TaskRow

LEMMA ProjectIs ==
    ASSUME TypeOK, NEW p \in Project, projects[p] # None
    PROVE  /\ projects[p] \in ProjectRow
           /\ projects[p] = [by |-> projects[p].by, group |-> projects[p].group, dead |-> projects[p].dead]
           /\ projects[p].by \in User /\ projects[p].group \in Group \cup {None} /\ projects[p].dead \in BOOLEAN
           /\ ProjectRow = [by : User, group : Group \cup {None}, dead : BOOLEAN]
<1>1. projects[p] \in ProjectRow
  BY DEF TypeOK
<1>2. QED
  BY <1>1 DEF ProjectRow

LEMMA TaskIs ==
    ASSUME TypeOK, NEW c \in Task, tasks[c] # None
    PROVE  /\ tasks[c] \in TaskRow
           /\ tasks[c] = [by |-> tasks[c].by, project |-> tasks[c].project, dead |-> tasks[c].dead]
           /\ tasks[c].by \in User /\ tasks[c].project \in Project /\ tasks[c].dead \in BOOLEAN
           /\ TaskRow = [by : User, project : Project, dead : BOOLEAN]
<1>1. tasks[c] \in TaskRow
  BY DEF TypeOK
<1>2. QED
  BY <1>1 DEF TaskRow

LEMMA DetachedIs ==
    ASSUME TypeOK, NEW gs, None \notin gs, NEW p \in Project
    PROVE  /\ Detached(gs, projects)[p] = None <=> projects[p] = None
           /\ projects[p] # None =>
                 LET q == Detached(gs, projects)[p] IN
                 /\ q.by = projects[p].by
                 /\ \/ q = projects[p] /\ (projects[p].group \in gs => projects[p].dead)
                    \/ /\ projects[p].group \in gs /\ ~projects[p].dead
                       /\ q = [by |-> projects[p].by, group |-> None, dead |-> TRUE]
<1>1. CASE projects[p] = None
  BY <1>1 DEF Detached
<1>2. CASE projects[p] # None
  <2>1. /\ projects[p] = [by |-> projects[p].by, group |-> projects[p].group, dead |-> projects[p].dead]
        /\ projects[p].dead \in BOOLEAN
    BY <1>2, ProjectIs
  <2>2. CASE projects[p].group \in gs /\ ~projects[p].dead
    <3>1. Detached(gs, projects)[p] = [projects[p] EXCEPT !.group = None, !.dead = TRUE]
      BY <1>2, <2>2 DEF Detached
    <3>2. Detached(gs, projects)[p] = [by |-> projects[p].by, group |-> None, dead |-> TRUE]
      BY <2>1, <3>1
    <3>3. Detached(gs, projects)[p] # None
      <4>1. Detached(gs, projects)[p] \in ProjectRow
        BY <1>2, <3>2, ProjectIs
      <4>2. QED
        BY <4>1, NoneIsNoRow
    <3>4. QED
      BY <1>2, <2>2, <3>2, <3>3
  <2>3. CASE ~(projects[p].group \in gs /\ ~projects[p].dead)
    <3>1. Detached(gs, projects)[p] = projects[p]
      BY <1>2, <2>3 DEF Detached
    <3>2. QED
      BY <1>2, <2>3, <3>1
  <2>4. QED
    BY <2>2, <2>3
<1>3. QED
  BY <1>1, <1>2

LEMMA TombstonedIs ==
    ASSUME TypeOK, NEW gs, NEW c \in Task
    PROVE  /\ Tombstoned(gs, projects, tasks)[c] = None <=> tasks[c] = None
           /\ tasks[c] # None =>
                 LET k == Tombstoned(gs, projects, tasks)[c] IN
                 \E dead \in BOOLEAN : k = [by |-> tasks[c].by, project |-> tasks[c].project, dead |-> dead]
<1>1. CASE tasks[c] = None
  BY <1>1 DEF Tombstoned
<1>2. CASE tasks[c] # None
  <2> DEFINE k == Tombstoned(gs, projects, tasks)[c]
  <2>1. k = tasks[c] \/ k = [tasks[c] EXCEPT !.dead = TRUE]
    BY <1>2 DEF Tombstoned
  <2> HIDE DEF k
  <2>2. PICK dead \in BOOLEAN : k = [by |-> tasks[c].by, project |-> tasks[c].project, dead |-> dead]
    BY <1>2, <2>1, TaskIs
  <2>3. k \in TaskRow
    BY <1>2, <2>2, TaskIs
  <2>4. k # None
    BY <2>3, NoneIsNoRow
  <2>5. QED
    BY <1>2, <2>2, <2>4 DEF k
<1>3. QED
  BY <1>1, <1>2

-----------------------------------------------------------------------------
(* Projects, tasks and time, and what they refer to.                       *)
ContentType ==
    /\ projects \in [Project -> ProjectRow \cup {None}] /\ tasks \in [Task -> TaskRow \cup {None}]
    /\ time \subseteq User \X Task

OwnersKnown == \A g \in Group : owner[g] # None => owner[g] \in Known

ProjectsRefer ==
    \A p \in Project : projects[p] # None =>
        /\ projects[p].by \in Known
        /\ IF projects[p].group = None THEN projects[p].dead ELSE owner[projects[p].group] # None

TasksRefer ==
    \A c \in Task : tasks[c] # None => tasks[c].by \in Known /\ projects[tasks[c].project] # None

TimeRefers == \A r \in time : tasks[r[2]] # None

LEMMA ReferencesAre ==
    ASSUME ContentType
    PROVE  References <=> OwnersKnown /\ ProjectsRefer /\ TasksRefer /\ TimeRefers
  BY DEF ContentType, References, OwnersKnown, ProjectsRefer, TasksRefer, TimeRefers, Stored

(* What SharedTimeSurvives allows to be lost.                              *)
MayGo(r) ==
    LET p == tasks[r[2]].project IN
    \/ status'[r[1]] = "gone"
    \/ projects[p].dead
    \/ status' # status /\ projects[p].group # None /\ owner'[projects[p].group] = None

LEMMA DeleteGroupContent ==
    ASSUME TypeOK, References, NEW t \in Thread, CommitDeleteGroup(t)
    PROVE  ContentType' /\ References' /\ \A r \in time \ time' : MayGo(r)
<1> DEFINE g == reqs[t].on.group
           ps == Detached({g}, projects)
           cs == Tombstoned({g}, projects, tasks)
<1>1. g \in Group /\ g # None
  <2>1. reqs[t] # None /\ reqs[t].kind = "deleteGroup"
    BY DEF CommitDeleteGroup, At
  <2>2. Typed(reqs[t])
    BY <2>1, RequestType
  <2>3. QED
    BY <2>1, <2>2, GroupAssumption DEF Typed, GroupKind
<1>2. /\ owner' = [owner EXCEPT ![g] = None] /\ status' = status
      /\ Cascade(ps, cs, time, None, {g})
  BY DEF CommitDeleteGroup
<1>3. /\ projects' = [p \in Project |-> projects'[p]] /\ tasks' = [c \in Task |-> tasks'[c]]
      /\ \A p \in Project : IF ps[p] = None \/ ps[p].by = None \/ ps[p].group \in {g}
                            THEN projects'[p] = None ELSE projects'[p] = ps[p]
      /\ \A c \in Task : IF cs[c] = None \/ cs[c].by = None \/ projects'[cs[c].project] = None
                         THEN tasks'[c] = None ELSE tasks'[c] = cs[c]
      /\ time' = {r \in time : r[1] # None /\ tasks'[r[2]] # None}
  <2> HIDE DEF ps, cs
  <2>1. QED
    BY <1>2, CascadeLeaves
<1>4. /\ ContentType /\ OwnersKnown /\ ProjectsRefer /\ TasksRefer /\ TimeRefers
      /\ owner \in [Group -> User \cup {None}]
  BY ReferencesAre DEF TypeOK, ContentType
<1>5. \A h \in Group : owner'[h] = IF h = g THEN None ELSE owner[h]
  BY <1>2, <1>4
<1>6. Known' = Known
  BY <1>2 DEF Known
<1>7. ASSUME NEW p \in Project
      PROVE  /\ (ps[p] = None <=> projects[p] = None)
             /\ projects[p] # None =>
                  /\ ps[p].by = projects[p].by
                  /\ \/ ps[p] = projects[p] /\ (projects[p].group = g => projects[p].dead)
                     \/ ps[p] = [by |-> projects[p].by, group |-> None, dead |-> TRUE]
  BY <1>1, DetachedIs
<1>8. ASSUME NEW c \in Task
      PROVE  /\ (cs[c] = None <=> tasks[c] = None)
             /\ tasks[c] # None =>
                  \E dead \in BOOLEAN : cs[c] = [by |-> tasks[c].by, project |-> tasks[c].project, dead |-> dead]
  BY TombstonedIs
<1> HIDE DEF ps, cs, g
<1>9. ASSUME NEW p \in Project, projects'[p] # None
      PROVE  /\ projects'[p] \in ProjectRow /\ projects'[p].by \in Known
             /\ IF projects'[p].group = None THEN projects'[p].dead ELSE owner'[projects'[p].group] # None
  <2>1. projects'[p] = ps[p] /\ ps[p] # None /\ ps[p].group # g
    BY <1>3, <1>9
  <2>2. projects[p] # None
    BY <1>7, <2>1
  <2>3. projects[p] \in ProjectRow /\ projects[p].by \in User /\ projects[p].by \in Known
        /\ projects[p].group \in Group \cup {None}
        /\ (IF projects[p].group = None THEN projects[p].dead ELSE owner[projects[p].group] # None)
    BY <1>4, <2>2, ProjectIs DEF ProjectsRefer
  <2>4. CASE ps[p] = projects[p]
    BY <1>5, <2>1, <2>3, <2>4
  <2>5. CASE ps[p] = [by |-> projects[p].by, group |-> None, dead |-> TRUE]
    BY <2>1, <2>3, <2>5 DEF ProjectRow
  <2>6. QED
    BY <1>7, <2>2, <2>4, <2>5
<1>10. ASSUME NEW c \in Task, tasks'[c] # None
       PROVE  tasks'[c] \in TaskRow /\ tasks'[c].by \in Known /\ projects'[tasks'[c].project] # None
  <2>1. tasks'[c] = cs[c] /\ cs[c] # None /\ projects'[cs[c].project] # None
    BY <1>3, <1>10
  <2>2. tasks[c] # None
    BY <1>8, <2>1
  <2>3. tasks[c].by \in User /\ tasks[c].project \in Project /\ tasks[c].by \in Known
    BY <1>4, <2>2, TaskIs DEF TasksRefer
  <2>4. PICK dead \in BOOLEAN : cs[c] = [by |-> tasks[c].by, project |-> tasks[c].project, dead |-> dead]
    BY <1>8, <2>2
  <2>5. QED
    BY <2>1, <2>3, <2>4 DEF TaskRow
<1>11. ContentType'
  <2>1. \A p \in Project : projects'[p] \in ProjectRow \cup {None}
    BY <1>9
  <2>2. \A c \in Task : tasks'[c] \in TaskRow \cup {None}
    BY <1>10
  <2>3. time' \subseteq User \X Task
    BY <1>3, <1>4 DEF ContentType
  <2>4. QED
    BY <1>3, <2>1, <2>2, <2>3 DEF ContentType
<1>12. References'
  <2>1. ProjectsRefer'
    BY <1>6, <1>9 DEF ProjectsRefer
  <2>2. TasksRefer'
    BY <1>6, <1>10 DEF TasksRefer
  <2>3. TimeRefers'
    BY <1>3 DEF TimeRefers
  <2>4. OwnersKnown'
    BY <1>4, <1>5, <1>6 DEF OwnersKnown
  <2>5. (ContentType => (References <=> OwnersKnown /\ ProjectsRefer /\ TasksRefer /\ TimeRefers))'
    BY <1>11 DEF ContentType, References, OwnersKnown, ProjectsRefer, TasksRefer, TimeRefers, Stored
  <2>6. QED
    BY <1>11, <2>1, <2>2, <2>3, <2>4, <2>5
<1>13. ASSUME NEW r \in time \ time'
       PROVE  MayGo(r)
  <2> DEFINE c == r[2]
             p == tasks[c].project
  <2>1. r[1] \in User /\ c \in Task /\ tasks[c] # None
    BY <1>4 DEF ContentType, TimeRefers
  <2>2. tasks'[c] = None
    BY <1>3, <2>1, UserAssumption
  <2>3. PICK dead \in BOOLEAN : cs[c] = [by |-> tasks[c].by, project |-> tasks[c].project, dead |-> dead]
    BY <1>8, <2>1
  <2>4. cs[c] # None /\ cs[c].by # None /\ cs[c].project = p /\ p \in Project
    <3>1. tasks[c].by \in User /\ tasks[c].project \in Project
      BY <2>1, TaskIs
    <3>2. cs[c] # None
      BY <1>8, <2>1
    <3>3. cs[c].by = tasks[c].by /\ cs[c].project = p
      BY <2>3
    <3>4. QED
      BY <3>1, <3>2, <3>3, UserAssumption
  <2>5. projects'[p] = None
    BY <1>3, <2>1, <2>2, <2>4
  <2>6. projects[p] # None
    BY <1>4, <2>1 DEF TasksRefer
  <2>7. ps[p] # None /\ ps[p].by = projects[p].by /\ projects[p].by # None
    BY <1>7, <2>4, <2>6, ProjectIs, UserAssumption
  <2>8. ps[p].group = g
    BY <1>3, <2>4, <2>5, <2>7
  <2>9. projects[p].dead
    <3>1. ps[p].group = None => ps[p].group # g
      BY <1>1
    <3>2. ps[p] = projects[p] /\ (projects[p].group = g => projects[p].dead)
      <4>1. ps[p] # [by |-> projects[p].by, group |-> None, dead |-> TRUE]
        BY <2>8, <3>1
      <4>2. QED
        BY <1>7, <2>4, <2>6, <4>1
    <3>3. QED
      BY <2>8, <3>2
  <2>10. QED
    BY <2>9 DEF MayGo
<1>14. QED
  BY <1>11, <1>12, <1>13

LEMMA MadeOverIs ==
    ASSUME NEW u, NEW owners, NEW ps, NEW p \in Project, ps[p] # None,
           ps[p] = [by |-> ps[p].by, group |-> ps[p].group, dead |-> ps[p].dead]
    PROVE  LET q == MadeOver(u, owners, ps)[p] IN
           \/ q = ps[p] /\ (ps[p].by = u => ps[p].group = None)
           \/ /\ ps[p].by = u /\ ps[p].group # None
              /\ q = [by |-> owners[ps[p].group], group |-> ps[p].group, dead |-> ps[p].dead]
  BY DEF MadeOver

LEMMA TaskMadeOverIs ==
    ASSUME NEW u, NEW owners, NEW ps, NEW cs, NEW c \in Task, cs[c] # None,
           cs[c] = [by |-> cs[c].by, project |-> cs[c].project, dead |-> cs[c].dead]
    PROVE  LET k == TasksMadeOver(u, owners, ps, cs)[c]
               h == ps[cs[c].project].group
           IN  \/ k = cs[c] /\ (cs[c].by = u => h = None)
               \/ cs[c].by = u /\ h # None /\ k = [by |-> owners[h], project |-> cs[c].project, dead |-> cs[c].dead]
  BY DEF TasksMadeOver

(* Who owns a group after its owner is gone.                               *)
LEMMA NextOwnerIs ==
    ASSUME TypeOK, References, NEW t \in Thread, CommitDeleteMe(t), status' = [status EXCEPT ![reqs[t].by] = "gone"],
           \A g \in Group : NextOwner(t)[g] # reqs[t].by, \A g \in Passed(t) : reqs[t].seen[g] \in Known
    PROVE  /\ None \notin Solo(t) /\ Known' = Known \ {reqs[t].by} /\ reqs[t].by # None
           /\ NextOwner(t) = [g \in Group |-> NextOwner(t)[g]]
           /\ \A g \in Group : /\ NextOwner(t)[g] \in User \cup {None}
                               /\ NextOwner(t)[g] # None => NextOwner(t)[g] \in Known /\ NextOwner(t)[g] # reqs[t].by
                               /\ g \in Solo(t) => NextOwner(t)[g] = None
                               /\ g \notin Solo(t) /\ owner[g] # None => NextOwner(t)[g] # None
<1>1. /\ reqs[t].by \in User
      /\ \A g \in DOMAIN reqs[t].seen : g \in Group /\ reqs[t].seen[g] \in User \cup {None}
  BY DeleteMeCases
<1>2. None \notin Solo(t) /\ reqs[t].by # None
  BY <1>1, GroupAssumption, UserAssumption DEF Solo
<1>3. Known' = Known \ {reqs[t].by}
  BY <1>1 DEF Known, TypeOK
<1>4. NextOwner(t) = [g \in Group |-> NextOwner(t)[g]]
  BY DEF NextOwner
<1>5. ASSUME NEW g \in Group
      PROVE  /\ NextOwner(t)[g] \in User \cup {None}
             /\ NextOwner(t)[g] # None => NextOwner(t)[g] \in Known /\ NextOwner(t)[g] # reqs[t].by
             /\ g \in Solo(t) => NextOwner(t)[g] = None
             /\ g \notin Solo(t) /\ owner[g] # None => NextOwner(t)[g] # None
  <2>1. NextOwner(t)[g] = IF g \in Passed(t) THEN reqs[t].seen[g] ELSE IF g \in Solo(t) THEN None ELSE owner[g]
    BY DEF NextOwner
  <2>2. owner[g] \in User \cup {None} /\ (owner[g] # None => owner[g] \in Known)
    BY DEF TypeOK, References
  <2>3. g \in Passed(t) => reqs[t].seen[g] \in User /\ reqs[t].seen[g] # None /\ g \notin Solo(t)
    BY <1>1 DEF Passed, Solo
  <2>4. QED
    BY <2>1, <2>2, <2>3
<1>6. QED
  BY <1>2, <1>3, <1>4, <1>5

LEMMA DeleteMeContent ==
    ASSUME TypeOK, References, NEW t \in Thread, CommitDeleteMe(t), ~UNCHANGED <<status, friendVars, groupVars>>
    PROVE  ContentType' /\ References' /\ (\A r \in time \ time' : MayGo(r)) /\ owner' \in [Group -> User \cup {None}]
<1> DEFINE u == reqs[t].by
           gs == Solo(t)
           os == NextOwner(t)
           ps == Detached(gs, projects)
           cs == Tombstoned(gs, projects, tasks)
           pn == MadeOver(u, os, ps)
           cn == TasksMadeOver(u, os, ps, cs)
<1>1. /\ \A g \in Group : os[g] # u
      /\ \A g \in Passed(t) : reqs[t].seen[g] \in Known
      /\ status' = [status EXCEPT ![u] = "gone"] /\ owner' = os
      /\ Cascade(pn, cn, time, u, gs) /\ u \in User
  BY DeleteMeCases
<1>2. /\ None \notin gs /\ Known' = Known \ {u} /\ u # None
      /\ os = [g \in Group |-> os[g]]
      /\ \A g \in Group : /\ os[g] \in User \cup {None}
                          /\ os[g] # None => os[g] \in Known /\ os[g] # u
                          /\ g \in gs => os[g] = None
                          /\ g \notin gs /\ owner[g] # None => os[g] # None
  BY <1>1, NextOwnerIs
<1>3. /\ projects' = [p \in Project |-> projects'[p]] /\ tasks' = [c \in Task |-> tasks'[c]]
      /\ \A p \in Project : IF pn[p] = None \/ pn[p].by = u \/ pn[p].group \in gs
                            THEN projects'[p] = None ELSE projects'[p] = pn[p]
      /\ \A c \in Task : IF cn[c] = None \/ cn[c].by = u \/ projects'[cn[c].project] = None
                         THEN tasks'[c] = None ELSE tasks'[c] = cn[c]
      /\ time' = {r \in time : r[1] # u /\ tasks'[r[2]] # None}
  <2> HIDE DEF pn, cn, u, gs
  <2>1. QED
    BY <1>1, CascadeLeaves
<1>4. /\ ContentType /\ OwnersKnown /\ ProjectsRefer /\ TasksRefer /\ TimeRefers
      /\ owner \in [Group -> User \cup {None}] /\ status \in [User -> {"active", "inactive", "gone"}]
  BY ReferencesAre DEF TypeOK, ContentType
<1>5. ASSUME NEW p \in Project
      PROVE  /\ (ps[p] = None <=> projects[p] = None)
             /\ projects[p] # None =>
                  /\ ps[p].by = projects[p].by
                  /\ \/ ps[p] = projects[p] /\ (projects[p].group \in gs => projects[p].dead)
                     \/ projects[p].group \in gs /\ ps[p] = [by |-> projects[p].by, group |-> None, dead |-> TRUE]
  BY <1>2, DetachedIs
<1>6. ASSUME NEW c \in Task
      PROVE  /\ (cs[c] = None <=> tasks[c] = None)
             /\ tasks[c] # None =>
                  \E dead \in BOOLEAN : cs[c] = [by |-> tasks[c].by, project |-> tasks[c].project, dead |-> dead]
  BY TombstonedIs
<1>7. ASSUME NEW p \in Project, projects[p] # None
      PROVE  /\ ps[p] # None /\ ps[p].by \in Known /\ ps[p].by \in User
             /\ ps[p] = [by |-> ps[p].by, group |-> ps[p].group, dead |-> ps[p].dead]
             /\ ps[p].group \in Group \cup {None} /\ ps[p].dead \in BOOLEAN
             /\ IF ps[p].group = None THEN ps[p].dead ELSE owner[ps[p].group] # None
  <2>1. /\ projects[p] = [by |-> projects[p].by, group |-> projects[p].group, dead |-> projects[p].dead]
        /\ projects[p].by \in User /\ projects[p].group \in Group \cup {None} /\ projects[p].dead \in BOOLEAN
    BY <1>7, ProjectIs
  <2>2. projects[p].by \in Known /\ IF projects[p].group = None THEN projects[p].dead ELSE owner[projects[p].group] # None
    BY <1>4, <1>7 DEF ProjectsRefer
  <2> HIDE DEF ps
  <2>3. ps[p] # None
    BY <1>5, <1>7
  <2>4. CASE ps[p] = projects[p]
    BY <2>1, <2>2, <2>3, <2>4
  <2>5. CASE ps[p] = [by |-> projects[p].by, group |-> None, dead |-> TRUE]
    BY <2>1, <2>2, <2>3, <2>5
  <2>6. QED
    BY <1>5, <1>7, <2>4, <2>5
<1>8. ASSUME NEW p \in Project, projects[p] # None
      PROVE  \/ pn[p] = ps[p] /\ (ps[p].by = u => ps[p].group = None)
             \/ /\ ps[p].by = u /\ ps[p].group # None
                /\ pn[p] = [by |-> os[ps[p].group], group |-> ps[p].group, dead |-> ps[p].dead]
  <2>1. ps[p] # None /\ ps[p] = [by |-> ps[p].by, group |-> ps[p].group, dead |-> ps[p].dead]
    BY <1>7, <1>8
  <2> HIDE DEF u, ps, os
  <2>2. QED
    BY <2>1, MadeOverIs
<1>9. ASSUME NEW p \in Project, projects[p] = None
      PROVE  pn[p] = None
  <2>1. ps[p] = None
    BY <1>5, <1>9
  <2>2. pn[p] = IF ps[p] # None /\ ps[p].by = u /\ ps[p].group # None
                THEN [ps[p] EXCEPT !.by = os[ps[p].group]] ELSE ps[p]
    BY Zenon DEF MadeOver
  <2> HIDE DEF ps, pn
  <2>3. QED
    BY <2>1, <2>2
<1>10. ASSUME NEW c \in Task, tasks[c] = None
       PROVE  cn[c] = None
  <2>1. cs[c] = None
    BY <1>6, <1>10
  <2>2. cn[c] = IF cs[c] # None /\ cs[c].by = u /\ ps[cs[c].project].group # None
                THEN [cs[c] EXCEPT !.by = os[ps[cs[c].project].group]] ELSE cs[c]
    BY Zenon DEF TasksMadeOver
  <2> HIDE DEF ps, cs, cn
  <2>3. QED
    BY <2>1, <2>2
<1>11. ASSUME NEW c \in Task, tasks[c] # None
       PROVE  LET p == tasks[c].project
                  h == ps[p].group
              IN  /\ p \in Project /\ projects[p] # None /\ tasks[c].by \in Known /\ tasks[c].by \in User
                  /\ cs[c] # None /\ cs[c].by = tasks[c].by /\ cs[c].project = p
                  /\ cs[c] = [by |-> cs[c].by, project |-> cs[c].project, dead |-> cs[c].dead]
                  /\ cs[c].dead \in BOOLEAN /\ cs[c] \in TaskRow
                  /\ \/ cn[c] = cs[c] /\ (tasks[c].by = u => h = None)
                     \/ tasks[c].by = u /\ h # None /\ cn[c] = [by |-> os[h], project |-> p, dead |-> cs[c].dead]
  <2>1. tasks[c].project \in Project /\ tasks[c].by \in User
    BY <1>11, TaskIs
  <2>2. projects[tasks[c].project] # None /\ tasks[c].by \in Known
    BY <1>4, <1>11 DEF TasksRefer
  <2>3. PICK dead \in BOOLEAN : cs[c] = [by |-> tasks[c].by, project |-> tasks[c].project, dead |-> dead]
    BY <1>6, <1>11
  <2>4. /\ cs[c] # None /\ cs[c].by = tasks[c].by /\ cs[c].project = tasks[c].project
        /\ cs[c] = [by |-> cs[c].by, project |-> cs[c].project, dead |-> cs[c].dead] /\ cs[c].dead \in BOOLEAN
    <3> HIDE DEF cs
    <3>1. QED
      BY <1>6, <1>11, <2>3
  <2>5. cs[c] \in TaskRow
    <3> HIDE DEF cs
    <3>1. QED
      BY <2>1, <2>4 DEF TaskRow
  <2>6. LET h == ps[cs[c].project].group
        IN  \/ cn[c] = cs[c] /\ (cs[c].by = u => h = None)
            \/ cs[c].by = u /\ h # None /\ cn[c] = [by |-> os[h], project |-> cs[c].project, dead |-> cs[c].dead]
    <3> HIDE DEF u, ps, os, cs
    <3>1. QED
      BY <2>4, TaskMadeOverIs
  <2> HIDE DEF ps, cs, cn, os, u
  <2>7. QED
    BY <2>1, <2>2, <2>4, <2>5, <2>6
<1> HIDE DEF u, gs, os, ps, cs, pn, cn
(* What is kept of projects.                                               *)
<1>12. ASSUME NEW p \in Project, projects'[p] # None
       PROVE  /\ projects'[p] \in ProjectRow /\ projects'[p].by \in Known'
              /\ IF projects'[p].group = None THEN projects'[p].dead ELSE owner'[projects'[p].group] # None
              /\ projects[p] # None /\ projects'[p] = pn[p] /\ projects'[p].group \notin gs
              /\ projects'[p].group = ps[p].group
  <2>1. projects'[p] = pn[p] /\ pn[p] # None /\ pn[p].by # u /\ pn[p].group \notin gs
    BY <1>3, <1>12
  <2>2. projects[p] # None
    BY <1>9, <2>1
  <2>3. /\ ps[p].by \in Known /\ ps[p].by \in User
        /\ ps[p] = [by |-> ps[p].by, group |-> ps[p].group, dead |-> ps[p].dead]
        /\ ps[p].group \in Group \cup {None} /\ ps[p].dead \in BOOLEAN
        /\ IF ps[p].group = None THEN ps[p].dead ELSE owner[ps[p].group] # None
    BY <1>7, <2>2
  <2>4. ASSUME ps[p].group # None, ps[p].group \notin gs
        PROVE  /\ ps[p].group \in Group
               /\ os[ps[p].group] \in User /\ os[ps[p].group] \in Known /\ os[ps[p].group] # u /\ os[ps[p].group] # None
    BY <1>2, <2>3, <2>4
  <2>5. CASE pn[p] = ps[p]
    <3>1. ps[p] \in ProjectRow
      BY <2>3 DEF ProjectRow
    <3>2. ps[p].by \in Known'
      BY <1>2, <2>1, <2>3, <2>5
    <3>3. IF ps[p].group = None THEN ps[p].dead ELSE owner'[ps[p].group] # None
      BY <1>1, <2>1, <2>3, <2>4, <2>5
    <3>4. QED
      BY <2>1, <2>2, <2>5, <3>1, <3>2, <3>3
  <2>6. CASE ps[p].group # None /\ pn[p] = [by |-> os[ps[p].group], group |-> ps[p].group, dead |-> ps[p].dead]
    <3>1. pn[p].group = ps[p].group /\ pn[p].by = os[ps[p].group]
      BY <2>6
    <3>2. ps[p].group \in Group /\ os[ps[p].group] \in User /\ os[ps[p].group] \in Known
          /\ os[ps[p].group] # u /\ os[ps[p].group] # None
      BY <2>1, <2>4, <2>6, <3>1
    <3>3. pn[p] \in ProjectRow
      BY <2>3, <2>6, <3>2 DEF ProjectRow
    <3>4. QED
      BY <1>1, <1>2, <2>1, <2>2, <2>6, <3>1, <3>2, <3>3
  <2>7. QED
    BY <1>8, <2>2, <2>5, <2>6
(* What is kept of tasks.                                                  *)
<1>13. ASSUME NEW c \in Task, tasks'[c] # None
       PROVE  tasks'[c] \in TaskRow /\ tasks'[c].by \in Known' /\ projects'[tasks'[c].project] # None
  <2>1. tasks'[c] = cn[c] /\ cn[c] # None /\ cn[c].by # u /\ projects'[cn[c].project] # None
    BY <1>3, <1>13
  <2>2. tasks[c] # None
    BY <1>10, <2>1
  <2> DEFINE p == tasks[c].project
             h == ps[p].group
  <2>3. /\ p \in Project /\ tasks[c].by \in Known /\ tasks[c].by \in User
        /\ cs[c].by = tasks[c].by /\ cs[c].project = p /\ cs[c].dead \in BOOLEAN /\ cs[c] \in TaskRow
        /\ \/ cn[c] = cs[c] /\ (tasks[c].by = u => h = None)
           \/ tasks[c].by = u /\ h # None /\ cn[c] = [by |-> os[h], project |-> p, dead |-> cs[c].dead]
    BY <1>11, <2>2
  <2> HIDE DEF p, h
  <2>4. CASE cn[c] = cs[c]
    BY <1>2, <2>1, <2>3, <2>4
  <2>5. CASE h # None /\ cn[c] = [by |-> os[h], project |-> p, dead |-> cs[c].dead]
    <3>1. cn[c].project = p /\ cn[c].by = os[h]
      BY <2>5
    <3>2. projects[p] # None /\ h \notin gs
      BY <1>12, <2>1, <2>3, <3>1 DEF h
    <3>3. h \in Group /\ owner[h] # None
      BY <1>7, <2>3, <2>5, <3>2 DEF h
    <3>4. os[h] \in User /\ os[h] \in Known /\ os[h] # u
      BY <1>2, <3>2, <3>3
    <3>5. cn[c] \in TaskRow
      BY <2>3, <2>5, <3>4 DEF TaskRow
    <3>6. QED
      BY <1>2, <2>1, <3>1, <3>4, <3>5
  <2>6. QED
    BY <2>3, <2>4, <2>5
(* What goes of the time.                                                  *)
<1>14. ASSUME NEW r \in time \ time'
       PROVE  MayGo(r)
  <2> DEFINE c == r[2]
             p == tasks[c].project
             h == ps[p].group
  <2>1. r[1] \in User /\ c \in Task /\ tasks[c] # None
    BY <1>4 DEF ContentType, TimeRefers
  <2>2. CASE r[1] = u
    BY <1>1, <1>4, <2>1, <2>2 DEF MayGo
  <2>3. CASE projects[p].dead
    BY <2>3 DEF MayGo
  <2>4. CASE r[1] # u /\ ~projects[p].dead
    <3>1. tasks'[c] = None
      BY <1>3, <2>1, <2>4
    <3>2. /\ p \in Project /\ projects[p] # None /\ tasks[c].by \in Known
          /\ cs[c] # None /\ cs[c].by = tasks[c].by /\ cs[c].project = p /\ cs[c].dead \in BOOLEAN
          /\ \/ cn[c] = cs[c] /\ (tasks[c].by = u => h = None)
             \/ tasks[c].by = u /\ h # None /\ cn[c] = [by |-> os[h], project |-> p, dead |-> cs[c].dead]
      BY <1>11, <2>1
    <3>3. projects[p].group \in Group /\ projects[p].group # None /\ owner[projects[p].group] # None
          /\ projects[p].by \in Known
      BY <1>4, <2>4, <3>2, ProjectIs DEF ProjectsRefer
    <3>4. /\ ps[p] # None /\ ps[p].by = projects[p].by
          /\ \/ ps[p] = projects[p] /\ projects[p].group \notin gs
             \/ projects[p].group \in gs /\ h = None
      <4>1. ps[p] # None /\ ps[p].by = projects[p].by
        BY <1>5, <3>2
      <4>2. \/ ps[p] = projects[p] /\ (projects[p].group \in gs => projects[p].dead)
            \/ projects[p].group \in gs /\ ps[p] = [by |-> projects[p].by, group |-> None, dead |-> TRUE]
        BY <1>5, <3>2
      <4>3. QED
        BY <2>4, <4>1, <4>2
    <3>5. \/ pn[p] = ps[p] /\ (ps[p].by = u => h = None)
          \/ /\ ps[p].by = u /\ h # None
             /\ pn[p] = [by |-> os[h], group |-> h, dead |-> ps[p].dead]
      BY <1>8, <3>2
    <3>6. projects'[p] # None => cn[c] = None \/ cn[c].by = u \/ cn[c].project # p
      BY <1>3, <2>1, <3>1
    <3>7. projects'[p] = None => pn[p] = None \/ pn[p].by = u \/ pn[p].group \in gs
      BY <1>3, <3>2
    <3> HIDE DEF h, p
    <3>8. CASE projects[p].group \in gs /\ h = None
      <4>1. pn[p] = ps[p] /\ cn[c] = cs[c]
        BY <3>2, <3>5, <3>8
      <4>2. projects'[p] = None => projects[p].by = u
        BY <1>2, <3>4, <3>7, <3>8, <4>1 DEF h
      <4>3. projects'[p] # None => tasks[c].by = u
        BY <3>2, <3>6, <4>1
      <4>4. u \in Known
        BY <3>2, <3>3, <4>2, <4>3
      <4>5. status' # status
        BY <1>1, <1>4, <4>4 DEF Known
      <4>6. owner'[projects[p].group] = None
        BY <1>1, <1>2, <3>3, <3>8
      <4>7. QED
        BY <3>3, <4>5, <4>6 DEF MayGo, p
    <3>9. CASE ps[p] = projects[p] /\ projects[p].group \notin gs
      <4>1. h \in Group /\ h # None /\ h \notin gs /\ h = projects[p].group
        BY <3>3, <3>9 DEF h
      <4>2. os[h] \in User /\ os[h] # u
        BY <1>2, <3>3, <4>1
      <4>3. projects'[p] # None
        <5>1. CASE pn[p] = ps[p]
          BY <3>4, <3>5, <3>7, <4>1, <4>2, <5>1 DEF h
        <5>2. CASE pn[p] = [by |-> os[h], group |-> h, dead |-> ps[p].dead]
          <6>0. ps[p].dead \in BOOLEAN
            BY <1>7, <3>2
          <6>1. pn[p] \in ProjectRow
            BY <4>1, <4>2, <5>2, <6>0 DEF ProjectRow
          <6>2. pn[p] # None
            BY <6>1, NoneIsNoRow
          <6>3. pn[p].by # u /\ pn[p].group \notin gs
            BY <4>1, <4>2, <5>2
          <6>4. QED
            BY <3>7, <6>2, <6>3
        <5>3. QED
          BY <3>5, <5>1, <5>2
      <4>4. CASE cn[c] = cs[c] /\ tasks[c].by # u
        BY <3>2, <3>6, <4>3, <4>4
      <4>5. CASE cn[c] = [by |-> os[h], project |-> p, dead |-> cs[c].dead]
        <5>1. cn[c] \in TaskRow
          BY <3>2, <4>2, <4>5 DEF TaskRow
        <5>2. cn[c] # None
          BY <5>1, NoneIsNoRow
        <5>3. cn[c].by # u /\ cn[c].project = p
          BY <4>2, <4>5
        <5>4. QED
          BY <3>6, <4>3, <5>2, <5>3
      <4>6. QED
        BY <3>2, <4>1, <4>4, <4>5
    <3>10. QED
      BY <3>4, <3>8, <3>9
  <2>5. QED
    BY <2>2, <2>3, <2>4
<1>15. ContentType'
  <2>1. \A p \in Project : projects'[p] \in ProjectRow \cup {None}
    BY <1>12
  <2>2. \A c \in Task : tasks'[c] \in TaskRow \cup {None}
    BY <1>13
  <2>3. time' \subseteq User \X Task
    BY <1>3, <1>4 DEF ContentType
  <2>4. QED
    BY <1>3, <2>1, <2>2, <2>3 DEF ContentType
<1>16. References'
  <2>1. ProjectsRefer'
    BY <1>12 DEF ProjectsRefer
  <2>2. TasksRefer'
    BY <1>13 DEF TasksRefer
  <2>3. TimeRefers'
    BY <1>3 DEF TimeRefers
  <2>4. OwnersKnown'
    BY <1>1, <1>2 DEF OwnersKnown
  <2>5. (ContentType => (References <=> OwnersKnown /\ ProjectsRefer /\ TasksRefer /\ TimeRefers))'
    BY <1>15 DEF ContentType, References, OwnersKnown, ProjectsRefer, TasksRefer, TimeRefers, Stored
  <2>6. QED
    BY <1>15, <2>1, <2>2, <2>3, <2>4, <2>5
<1>17. owner' \in [Group -> User \cup {None}]
  BY <1>1, <1>2
<1>18. QED
  BY <1>14, <1>15, <1>16, <1>17

LEMMA InsertGroupIs ==
    ASSUME TypeOK, NEW t \in Thread, InsertGroup(t)
    PROVE  /\ reqs[t] # None /\ reqs[t].kind = "createGroup" /\ reqs[t].pc = "write"
           /\ reqs[t].on.group \in Group /\ reqs[t].by \in User
           /\ UNCHANGED <<projects, tasks, time, status>>
           /\ \/ owner' = owner
              \/ owner' = [owner EXCEPT ![reqs[t].on.group] = reqs[t].by] /\ reqs[t].by \in Known
<1>1. reqs[t] # None /\ reqs[t].kind = "createGroup" /\ reqs[t].pc = "write"
  BY DEF InsertGroup, At
<1>2. Typed(reqs[t])
  BY <1>1, RequestType
<1>3. QED
  BY <1>1, <1>2 DEF Typed, GroupKind, InsertGroup, content

LEMMA ContentOfGroups ==
    ASSUME TypeOK, References, GroupsNext, ~ \E t \in Thread : CommitDeleteGroup(t)
    PROVE  ContentType' /\ References' /\ time \subseteq time' /\ owner' \in [Group -> User \cup {None}]
<1>0. /\ ContentType /\ OwnersKnown /\ ProjectsRefer /\ TasksRefer /\ TimeRefers
      /\ owner \in [Group -> User \cup {None}]
  BY ReferencesAre DEF TypeOK, ContentType
<1>1. Known' = Known
  BY GroupFrame DEF Known
<1> DEFINE Goal == ContentType' /\ References' /\ time \subseteq time' /\ owner' \in [Group -> User \cup {None}]
<1>2. ASSUME ContentType', OwnersKnown', ProjectsRefer', TasksRefer', TimeRefers'
      PROVE  References'
  BY <1>2 DEF ContentType, References, OwnersKnown, ProjectsRefer, TasksRefer, TimeRefers, Stored
<1>3. CASE UNCHANGED <<owner, projects, tasks, time>>
  BY <1>0, <1>1, <1>2, <1>3 DEF ContentType, OwnersKnown, ProjectsRefer, TasksRefer, TimeRefers
<1>4. ASSUME NEW t \in Thread, InsertGroup(t), owner' # owner
      PROVE  Goal
  <2>1. /\ reqs[t].on.group \in Group /\ reqs[t].by \in User /\ reqs[t].by \in Known
        /\ owner' = [owner EXCEPT ![reqs[t].on.group] = reqs[t].by] /\ UNCHANGED <<projects, tasks, time>>
    BY <1>4, InsertGroupIs
  <2>2. \A g \in Group : owner'[g] = owner[g] \/ (owner'[g] \in Known /\ owner'[g] # None)
    BY <1>0, <2>1, UserAssumption
  <2>3. owner' \in [Group -> User \cup {None}]
    BY <1>0, <2>1
  <2>4. OwnersKnown'
    BY <1>0, <1>1, <2>2 DEF OwnersKnown
  <2>5. ProjectsRefer'
    <3>1. ASSUME NEW p \in Project, projects[p] # None, projects[p].group # None
          PROVE  owner'[projects[p].group] # None
      BY <1>0, <2>2, <3>1, ProjectIs DEF ProjectsRefer
    <3>2. QED
      BY <1>0, <1>1, <2>1, <3>1 DEF ProjectsRefer
  <2>6. TasksRefer' /\ TimeRefers' /\ ContentType'
    BY <1>0, <1>1, <2>1 DEF TasksRefer, TimeRefers, ContentType
  <2>7. QED
    BY <1>2, <2>1, <2>3, <2>4, <2>5, <2>6
<1>5. ASSUME NEW t \in Thread, CommitProject(t), projects' # projects
      PROVE  Goal
  <2>1. reqs[t] # None /\ reqs[t].kind = "project"
    BY <1>5 DEF CommitProject, At
  <2>2. Typed(reqs[t])
    BY <2>1, RequestType
  <2>3. reqs[t].on.group \in Group /\ reqs[t].by \in User /\ reqs[t].seen \in Project
    BY <2>1, <2>2 DEF Typed, GroupKind
  <2> DEFINE q == [by |-> reqs[t].by, group |-> reqs[t].on.group, dead |-> FALSE]
  <2>4. /\ projects' = [projects EXCEPT ![reqs[t].seen] = q]
        /\ owner[reqs[t].on.group] # None /\ reqs[t].by \in Known /\ UNCHANGED <<owner, tasks, time>>
    BY <1>5 DEF CommitProject, membership
  <2>5. q \in ProjectRow /\ q.by \in Known /\ q.group \in Group /\ owner[q.group] # None
    BY <2>3, <2>4 DEF ProjectRow
  <2>6. q.group # None /\ q # None
    BY <2>5, GroupAssumption, NoneIsNoRow
  <2> HIDE DEF q
  <2>7. \A p \in Project : projects'[p] = IF p = reqs[t].seen THEN q ELSE projects[p]
    BY <1>0, <2>4 DEF ContentType
  <2>8. ContentType'
    BY <1>0, <2>4, <2>5 DEF ContentType
  <2>9. ProjectsRefer'
    BY <1>0, <1>1, <2>4, <2>5, <2>6, <2>7 DEF ProjectsRefer
  <2>10. TasksRefer'
    <3>1. \A c \in Task : tasks[c] # None => tasks[c].project \in Project
      BY TaskIs
    <3>2. QED
      BY <1>0, <1>1, <2>4, <2>6, <2>7, <3>1 DEF TasksRefer
  <2>11. OwnersKnown' /\ TimeRefers'
    BY <1>0, <1>1, <2>4 DEF OwnersKnown, TimeRefers
  <2>12. QED
    BY <1>0, <1>2, <2>4, <2>8, <2>9, <2>10, <2>11
<1>6. ASSUME NEW u \in User, DropProject(u)
      PROVE  Goal
  <2>1. PICK d \in Project :
          /\ projects[d] # None
          /\ projects' = [projects EXCEPT ![d].dead = TRUE]
          /\ tasks' = [c \in Task |-> IF tasks[c] # None /\ tasks[c].project = d
                                      THEN [tasks[c] EXCEPT !.dead = TRUE] ELSE tasks[c]]
          /\ UNCHANGED <<owner, time>>
    BY <1>0, <1>6 DEF DropProject, LiveIn, Stored, ContentType, membership
  <2>2. ASSUME NEW p \in Project
        PROVE  /\ projects'[p] \in ProjectRow \cup {None} /\ (projects'[p] = None <=> projects[p] = None)
               /\ projects[p] # None => /\ projects'[p].by = projects[p].by /\ projects'[p].group = projects[p].group
                                        /\ projects[p].dead => projects'[p].dead
    <3>1. CASE p # d
      BY <1>0, <2>1, <3>1 DEF ContentType
    <3>2. CASE p = d
      <4>1. projects'[p] = [projects[p] EXCEPT !.dead = TRUE]
        BY <1>0, <2>1, <3>2 DEF ContentType
      <4>0. /\ projects[p] = [by |-> projects[p].by, group |-> projects[p].group, dead |-> projects[p].dead]
            /\ projects[p].by \in User /\ projects[p].group \in Group \cup {None}
        BY <2>1, <3>2, ProjectIs
      <4>2. projects'[p] = [by |-> projects[p].by, group |-> projects[p].group, dead |-> TRUE]
        BY <4>0, <4>1
      <4>3. projects'[p] \in ProjectRow
        BY <4>0, <4>2 DEF ProjectRow
      <4>4. projects'[p] # None
        BY <4>3, NoneIsNoRow
      <4>5. QED
        BY <2>1, <3>2, <4>2, <4>3, <4>4
    <3>3. QED
      BY <3>1, <3>2
  <2>3. ASSUME NEW c \in Task
        PROVE  /\ tasks'[c] \in TaskRow \cup {None} /\ (tasks'[c] = None <=> tasks[c] = None)
               /\ tasks[c] # None => tasks'[c].by = tasks[c].by /\ tasks'[c].project = tasks[c].project
    <3>1. CASE tasks'[c] = tasks[c]
      BY <1>0, <3>1 DEF ContentType
    <3>2. CASE tasks[c] # None /\ tasks'[c] = [tasks[c] EXCEPT !.dead = TRUE]
      <4>1. tasks'[c] = [by |-> tasks[c].by, project |-> tasks[c].project, dead |-> TRUE]
        BY <3>2, TaskIs
      <4>2. tasks'[c] \in TaskRow
        BY <3>2, <4>1, TaskIs
      <4>3. tasks'[c] # None
        BY <4>2, NoneIsNoRow
      <4>4. QED
        BY <3>2, <4>1, <4>2, <4>3
    <3>3. QED
      BY <2>1, <3>1, <3>2
  <2>4. ContentType'
    <3>1. projects' = [p \in Project |-> projects'[p]] /\ tasks' = [c \in Task |-> tasks'[c]]
      BY <1>0, <2>1 DEF ContentType
    <3>2. QED
      BY <1>0, <2>1, <2>2, <2>3, <3>1 DEF ContentType
  <2>5. ProjectsRefer'
    BY <1>0, <1>1, <2>1, <2>2 DEF ProjectsRefer
  <2>6. TasksRefer'
    <3>1. \A c \in Task : tasks[c] # None => tasks[c].project \in Project
      BY TaskIs
    <3>2. QED
      BY <1>0, <1>1, <2>2, <2>3, <3>1 DEF TasksRefer
  <2>7. TimeRefers'
    <3>1. \A r \in time : r[2] \in Task
      BY <1>0 DEF ContentType
    <3>2. QED
      BY <1>0, <2>1, <2>3, <3>1 DEF TimeRefers
  <2>8. OwnersKnown'
    BY <1>0, <1>1, <2>1 DEF OwnersKnown
  <2>9. QED
    BY <1>0, <1>2, <2>1, <2>4, <2>5, <2>6, <2>7, <2>8
<1>7. ASSUME NEW u \in User, AddTask(u)
      PROVE  Goal
  <2>1. PICK d \in Task, p \in Project :
          /\ projects[p] # None /\ u \in Active
          /\ tasks' = [tasks EXCEPT ![d] = [by |-> u, project |-> p, dead |-> FALSE]]
          /\ UNCHANGED <<owner, projects, time>>
    BY <1>0, <1>7 DEF AddTask, AtOnce, LiveIn, Stored, ContentType, membership
  <2> DEFINE k == [by |-> u, project |-> p, dead |-> FALSE]
  <2>2. k \in TaskRow /\ k.by \in Known /\ k.project = p
    BY <1>7, <2>1 DEF TaskRow, Active, Known
  <2>3. k # None
    BY <2>2, NoneIsNoRow
  <2>4. tasks' = [tasks EXCEPT ![d] = k]
    BY <2>1
  <2> HIDE DEF k
  <2>5. \A c \in Task : tasks'[c] = IF c = d THEN k ELSE tasks[c]
    BY <1>0, <2>4 DEF ContentType
  <2>6. ContentType'
    BY <1>0, <2>1, <2>2, <2>4 DEF ContentType
  <2>7. ProjectsRefer' /\ OwnersKnown'
    BY <1>0, <1>1, <2>1 DEF ProjectsRefer, OwnersKnown
  <2>8. TasksRefer'
    BY <1>0, <1>1, <2>1, <2>2, <2>5 DEF TasksRefer
  <2>9. TimeRefers'
    <3>1. \A r \in time : r[2] \in Task
      BY <1>0 DEF ContentType
    <3>2. QED
      BY <1>0, <2>1, <2>3, <2>5, <3>1 DEF TimeRefers
  <2>10. QED
    BY <1>0, <1>2, <2>1, <2>6, <2>7, <2>8, <2>9
<1>8. ASSUME NEW u \in User, TrackTime(u)
      PROVE  Goal
  <2>1. PICK c \in Stored(tasks) : time' = time \cup {<<u, c>>} /\ UNCHANGED <<owner, projects, tasks>>
    BY <1>8 DEF TrackTime, membership
  <2>2. c \in Task /\ tasks[c] # None
    BY <1>0 DEF Stored, ContentType
  <2>3. ContentType' /\ TimeRefers'
    BY <1>0, <1>8, <2>1, <2>2 DEF ContentType, TimeRefers
  <2>4. ProjectsRefer' /\ OwnersKnown' /\ TasksRefer'
    BY <1>0, <1>1, <2>1 DEF ProjectsRefer, OwnersKnown, TasksRefer
  <2>5. QED
    BY <1>0, <1>2, <2>1, <2>3, <2>4
<1>9. ASSUME NEW t \in Thread, InsertGroup(t) \/ CommitProject(t)
      PROVE  \/ UNCHANGED <<owner, projects, tasks, time>>
             \/ InsertGroup(t) /\ owner' # owner
             \/ CommitProject(t) /\ projects' # projects
  BY <1>9, InsertGroupIs DEF CommitProject, membership
<1>10. \/ UNCHANGED <<owner, projects, tasks, time>>
       \/ \E t \in Thread : InsertGroup(t) \/ CommitProject(t)
       \/ \E u \in User : DropProject(u) \/ AddTask(u) \/ TrackTime(u)
  BY GroupFrame
<1>11. CASE \E t \in Thread : InsertGroup(t) \/ CommitProject(t)
  BY <1>3, <1>4, <1>5, <1>9, <1>11
<1>12. QED
  BY <1>3, <1>6, <1>7, <1>8, <1>10, <1>11

LEMMA ContentStep ==
    ASSUME TypeOK, References, [Next]_vars
    PROVE  /\ ContentType' /\ References' /\ owner' \in [Group -> User \cup {None}]
           /\ \A r \in time \ time' : MayGo(r)
<1> DEFINE Goal == /\ ContentType' /\ References' /\ owner' \in [Group -> User \cup {None}]
                   /\ \A r \in time \ time' : MayGo(r)
<1>0. ContentType /\ owner \in [Group -> User \cup {None}]
  BY DEF TypeOK, ContentType
<1>1. ASSUME UNCHANGED <<owner, projects, tasks, time>>, Known' = Known
      PROVE  Goal
  <2>1. ContentType' /\ owner' \in [Group -> User \cup {None}] /\ time \ time' = {}
    BY <1>0, <1>1 DEF ContentType
  <2>2. References'
    BY <1>1 DEF References, Stored
  <2>3. QED
    BY <2>1, <2>2
<1>2. ASSUME NEW t \in Thread, CommitDeleteGroup(t)
      PROVE  Goal
  <2>1. owner' \in [Group -> User \cup {None}]
    BY <1>0, <1>2 DEF CommitDeleteGroup
  <2>3. QED
    BY <1>2, <2>1, DeleteGroupContent
<1>3. CASE GroupsNext /\ ~ \E t \in Thread : CommitDeleteGroup(t)
  BY <1>3, ContentOfGroups
<1>4. ASSUME NEW t \in Thread, CommitDeleteMe(t)
      PROVE  Goal
  <2>1. CASE UNCHANGED <<status, friendVars, groupVars>>
    BY <1>1, <2>1 DEF groupVars, membership, content, Known
  <2>2. CASE ~UNCHANGED <<status, friendVars, groupVars>>
    BY <1>4, <2>2, DeleteMeContent
  <2>3. QED
    BY <2>1, <2>2
<1>5. CASE ~(\E t \in Thread : CommitDeleteMe(t)) /\ UNCHANGED <<owner, projects, tasks, time>>
  <2>1. Known' = Known
    BY <1>5, StatusStep
  <2>2. QED
    BY <1>1, <1>5, <2>1
<1>6. CASE \E t \in Thread : CommitDeleteMe(t)
  BY <1>4, <1>6
<1>7. CASE GroupsNext
  BY <1>2, <1>3, <1>7
<1>8. QED
  BY <1>5, <1>6, <1>7, Frame

-----------------------------------------------------------------------------
(* Chat, and what devices show.                                            *)
LEMMA MessageIs ==
    ASSUME TypeOK, NEW m \in Message, chat[m] # None
    PROVE  /\ chat[m] = [group |-> chat[m].group, by |-> chat[m].by, body |-> chat[m].body, dead |-> chat[m].dead]
           /\ chat[m].group \in Group /\ chat[m].by \in User /\ chat[m].body \in Nat /\ chat[m].dead \in BOOLEAN
           /\ chat[m] \in MessageRow
<1>1. chat[m] \in MessageRow
  BY DEF TypeOK
<1>2. QED
  BY <1>1 DEF MessageRow

LEMMA ChatStep ==
    ASSUME TypeOK, MessagesUsed, [Next]_vars
    PROVE  /\ chat' \in [Message -> MessageRow \cup {None}] /\ MessagesUsed'
           /\ \A m \in Message : chat[m] # None /\ chat[m].dead /\ chat'[m] # None => chat'[m].dead = TRUE
<1> DEFINE Goal ==
           /\ chat' \in [Message -> MessageRow \cup {None}] /\ MessagesUsed'
           /\ \A m \in Message : chat[m] # None /\ chat[m].dead /\ chat'[m] # None => chat'[m].dead = TRUE
<1>0. /\ chat \in [Message -> MessageRow \cup {None}] /\ used \subseteq used'
      /\ \A m \in Message : chat[m] # None => m \in used /\ chat[m].dead \in BOOLEAN
  BY Frame, MessageIs DEF TypeOK, MessagesUsed, Stored
<1>1. ASSUME chat' = [m \in Message |-> chat'[m]],
             \A m \in Message : \/ chat'[m] = None \/ chat'[m] = chat[m]
                                \/ chat[m] # None /\ chat'[m] \in MessageRow /\ (chat[m].dead => chat'[m].dead = TRUE)
      PROVE  Goal
  <2>1. chat' \in [Message -> MessageRow \cup {None}]
    BY <1>0, <1>1
  <2>2. MessagesUsed'
    BY <1>0, <1>1, <2>1 DEF MessagesUsed, Stored
  <2>3. \A m \in Message : chat[m] # None /\ chat[m].dead /\ chat'[m] # None => chat'[m].dead = TRUE
    BY <1>0, <1>1
  <2>4. QED
    BY <2>1, <2>2, <2>3
<1>2. CASE chat' = chat
  BY <1>0, <1>1, <1>2
<1>3. ASSUME NEW t \in Thread, CommitEdit(t), chat' # chat
      PROVE  Goal
  <2>1. chat' = [chat EXCEPT ![reqs[t].seen].body = acts] /\ chat[reqs[t].seen] # None
    BY <1>3 DEF CommitEdit
  <2>2. \A m \in Message : IF m = reqs[t].seen THEN chat'[m] = [chat[m] EXCEPT !.body = acts] ELSE chat'[m] = chat[m]
    BY <1>0, <2>1
  <2>3. acts \in Nat
    BY DEF TypeOK
  <2>4. ASSUME NEW m \in Message, m = reqs[t].seen
        PROVE  chat[m] # None /\ chat'[m] \in MessageRow /\ (chat[m].dead => chat'[m].dead = TRUE)
    <3>1. chat[m] # None
      BY <2>1, <2>4
    <3>2. /\ chat[m] = [group |-> chat[m].group, by |-> chat[m].by, body |-> chat[m].body, dead |-> chat[m].dead]
          /\ chat[m].group \in Group /\ chat[m].by \in User /\ chat[m].dead \in BOOLEAN
      BY <3>1, MessageIs
    <3>3. chat'[m] = [group |-> chat[m].group, by |-> chat[m].by, body |-> acts, dead |-> chat[m].dead]
      BY <2>2, <2>4, <3>2
    <3>4. chat'[m] \in MessageRow
      BY <2>3, <3>2, <3>3 DEF MessageRow
    <3>5. QED
      BY <3>1, <3>2, <3>3, <3>4
  <2>5. chat' = [m \in Message |-> chat'[m]]
    BY <1>0, <2>1
  <2>6. QED
    BY <1>1, <2>2, <2>4, <2>5
<1>4. ASSUME NEW t \in Thread, CommitDeleteMessage(t), chat' # chat
      PROVE  Goal
  <2>1. chat' = [chat EXCEPT ![reqs[t].seen].body = 0, ![reqs[t].seen].dead = TRUE] /\ chat[reqs[t].seen] # None
    BY <1>4 DEF CommitDeleteMessage
  <2>2. \A m \in Message : IF m = reqs[t].seen THEN chat'[m] = [chat[m] EXCEPT !.body = 0, !.dead = TRUE]
                           ELSE chat'[m] = chat[m]
    BY <1>0, <2>1
  <2>3. ASSUME NEW m \in Message, m = reqs[t].seen
        PROVE  chat[m] # None /\ chat'[m] \in MessageRow /\ (chat[m].dead => chat'[m].dead = TRUE)
    <3>1. chat[m] # None
      BY <2>1, <2>3
    <3>2. /\ chat[m] = [group |-> chat[m].group, by |-> chat[m].by, body |-> chat[m].body, dead |-> chat[m].dead]
          /\ chat[m].group \in Group /\ chat[m].by \in User
      BY <3>1, MessageIs
    <3>3. chat'[m] = [group |-> chat[m].group, by |-> chat[m].by, body |-> 0, dead |-> TRUE]
      BY <2>2, <2>3, <3>2
    <3>4. chat'[m] \in MessageRow
      BY <3>2, <3>3 DEF MessageRow
    <3>5. QED
      BY <3>1, <3>3, <3>4
  <2>4. chat' = [m \in Message |-> chat'[m]]
    BY <1>0, <2>1
  <2>5. QED
    BY <1>1, <2>2, <2>3, <2>4
<1>5. ASSUME NEW u \in User, Post(u)
      PROVE  Goal
  <2>1. PICK g \in Group, n \in Message :
          /\ n \notin used /\ used' = used \cup {n}
          /\ chat' = [chat EXCEPT ![n] = [group |-> g, by |-> u, body |-> 1, dead |-> FALSE]]
    BY <1>5 DEF Post, GroupsOf
  <2>2. chat[n] = None
    BY <1>0, <2>1
  <2>3. [group |-> g, by |-> u, body |-> 1, dead |-> FALSE] \in MessageRow
    BY <1>5 DEF MessageRow
  <2>4. chat' \in [Message -> MessageRow \cup {None}]
    BY <1>0, <2>1, <2>3
  <2>5. \A m \in Message : m # n => chat'[m] = chat[m]
    BY <1>0, <2>1
  <2>6. MessagesUsed'
    <3>1. \A m \in Message : chat'[m] # None => m \in used'
      BY <1>0, <2>1, <2>5
    <3>2. QED
      BY <2>4, <3>1 DEF MessagesUsed, Stored
  <2>7. \A m \in Message : chat[m] # None /\ chat[m].dead /\ chat'[m] # None => chat'[m].dead = TRUE
    BY <1>0, <2>2, <2>5
  <2>8. QED
    BY <2>4, <2>6, <2>7
<1>6. ASSUME NEW rows, NEW gs, NEW lost, DropGroups(rows, gs, lost)
      PROVE  Goal
  <2>1. chat' = [m \in Message |->
                   IF chat[m] # None /\ (chat[m].group \in gs \/ chat[m].by = lost) THEN None ELSE chat[m]]
    BY <1>6 DEF DropGroups
  <2>2. QED
    BY <1>1, <2>1
<1>7. ASSUME NEW t \in Thread, CommitDeleteGroup(t)
      PROVE  Goal
  <2>1. DropGroups(members, {reqs[t].on.group}, None)
    BY <1>7 DEF CommitDeleteGroup
  <2>2. QED
    BY <1>6, <2>1
<1>8. ASSUME NEW t \in Thread, CommitDeleteMe(t)
      PROVE  Goal
  <2>1. chat' = chat \/ DropGroups(NextRows(t), Solo(t), reqs[t].by)
    BY <1>8, DeleteMeCases DEF groupVars, content
  <2>2. QED
    BY <1>2, <1>6, <2>1
<1>9. ASSUME NEW t \in Thread, CommitEdit(t) \/ CommitDeleteMessage(t)
      PROVE  Goal
  BY <1>2, <1>3, <1>4, <1>9
<1>10. QED
  BY <1>2, <1>5, <1>7, <1>8, <1>9, Frame, GroupFrame

LEMMA DevicesStep ==
    ASSUME TypeOK, [Next]_vars
    PROVE  /\ listed' \in [User -> SUBSET Group] /\ signalled' \subseteq User
           /\ \/ UNCHANGED <<listed, signalled>>
              \/ \E t \in Thread : Tells(t)
              \/ \E u \in User : Refetch(u) \/ SetActive(u)
<1>0. listed \in [User -> SUBSET Group] /\ signalled \subseteq User
  BY DEF TypeOK
<1>1. ASSUME NEW t \in Thread, Tells(t)
      PROVE  listed' = listed /\ signalled' \subseteq User
  <2>1. reqs[t] # None /\ reqs[t].pc = "tell" /\ Typed(reqs[t])
    BY <1>1, RequestType DEF Tells
  <2>2. reqs[t].on.group \in Group /\ reqs[t].on.told \in SUBSET User
    BY <2>1 DEF Typed
  <2>3. Members(reqs[t].on.group) \in SUBSET User
    BY <2>2, MembersType
  <2>4. listed' = listed /\ signalled' = signalled \cup Members(reqs[t].on.group) \cup reqs[t].on.told
    BY <1>1 DEF Tells
  <2>5. QED
    BY <1>0, <2>2, <2>3, <2>4
<1>2. ASSUME NEW u \in User, Refetch(u)
      PROVE  listed' \in [User -> SUBSET Group] /\ signalled' \subseteq User
  <2>1. GroupsOf(u) \in SUBSET Group
    BY DEF GroupsOf
  <2>2. QED
    BY <1>0, <1>2, <2>1 DEF Refetch
<1>3. ASSUME NEW u \in User, SetActive(u)
      PROVE  listed' = listed /\ signalled' \subseteq User
  BY <1>0, <1>3 DEF SetActive, groupVars, devices
<1>4. ASSUME GroupsNext
      PROVE  \/ UNCHANGED <<listed, signalled>>
             \/ \E t \in Thread : Tells(t)
             \/ \E u \in User : Refetch(u)
  <2>1. ASSUME NEW t \in Thread, Beginning(t)
        PROVE  UNCHANGED <<listed, signalled>>
    BY <2>1, BeginningFrame
  <2>2. ASSUME NEW t \in Thread,
               \/ CreateGroup(t) \/ NewProject(t) \/ InsertGroup(t) \/ InsertOwner(t)
               \/ CommitJoin(t) \/ CommitAccept(t) \/ CommitInvite(t) \/ CommitCancel(t) \/ CommitLink(t)
        PROVE  UNCHANGED devices
    BY <2>2 DEF CreateGroup, NewProject, InsertGroup, InsertOwner, CommitJoin, CommitAccept, CommitInvite,
                CommitCancel, CommitLink
  <2>3. ASSUME NEW t \in Thread,
               \/ CommitRevoke(t) \/ CommitLeave(t) \/ CommitPatch(t) \/ CommitDeleteGroup(t)
               \/ CommitProject(t) \/ CommitEdit(t) \/ CommitDeleteMessage(t)
        PROVE  UNCHANGED devices
    BY <2>3 DEF CommitRevoke, CommitLeave, CommitPatch, CommitDeleteGroup, CommitProject, CommitEdit,
                CommitDeleteMessage
  <2>4. CASE DeclineInvite \/ Expire
    <3>1. UNCHANGED devices
      BY <2>4 DEF DeclineInvite, Expire
    <3>2. QED
      BY <3>1 DEF devices
  <2>5. ASSUME NEW u \in User, DropProject(u) \/ AddTask(u) \/ TrackTime(u) \/ Post(u)
        PROVE  UNCHANGED devices
    BY <2>5 DEF DropProject, AddTask, TrackTime, Post
  <2>6. QED
    BY <1>4, <2>1, <2>2, <2>3, <2>4, <2>5 DEF GroupsNext, Beginning, devices
<1>5. CASE UNCHANGED <<listed, signalled>>
  BY <1>0, <1>5
<1>6. ASSUME NEW t \in Thread, DeleteMe(t) \/ CommitDeleteMe(t) \/ (Die(t) /\ UNCHANGED <<friendVars, groupVars>>)
      PROVE  UNCHANGED <<listed, signalled>>
  BY <1>6 DEF DeleteMe, CommitDeleteMe, groupVars, devices
<1>7. CASE (FriendsNext /\ UNCHANGED groupVars) \/ UNCHANGED vars
  BY <1>5, <1>7 DEF groupVars, devices, vars
<1>8. CASE GroupsNext
  BY <1>0, <1>1, <1>2, <1>4, <1>5, <1>8
<1>9. QED
  BY <1>0, <1>1, <1>2, <1>3, <1>5, <1>6, <1>7, <1>8 DEF Next

-----------------------------------------------------------------------------
(* Every row and every request keeps its type.                             *)
LEMMA RequestsStep ==
    ASSUME TypeOK, Births, [Next]_vars
    PROVE  reqs' = [x \in Thread |-> reqs'[x]] /\ \A x \in Thread : reqs'[x] # None => Typed(reqs'[x])
<1>1. CASE reqs' = reqs
  BY <1>1 DEF TypeOK
<1>2. ASSUME NEW t \in Thread, NEW q, Moves(t, q), q # None => Typed(q)
      PROVE  reqs' = [x \in Thread |-> reqs'[x]] /\ \A x \in Thread : reqs'[x] # None => Typed(reqs'[x])
  <2>1. /\ reqs' = [x \in Thread |-> reqs'[x]] /\ reqs'[t] = q
        /\ \A x \in Thread \ {t} : reqs'[x] = reqs[x]
    BY <1>2, Moved
  <2>2. QED
    BY <1>2, <2>1, RequestType
<1>3. ASSUME NEW t \in Thread, BeginStep(t)
      PROVE  \E q : Moves(t, q) /\ (q # None => Typed(q))
  BY <1>3 DEF BeginStep
<1>4. ASSUME NEW t \in Thread, MoveStep(t)
      PROVE  \E q : Moves(t, q) /\ (q # None => Typed(q))
  <2>1. reqs[t] # None /\ Typed(reqs[t])
    BY <1>4, RequestType DEF MoveStep
  <2>2. CASE Moves(t, None)
    BY <2>2
  <2>3. ASSUME NEW pc, (pc = "tell" /\ reqs[t].kind \in GroupKind) \/ (pc = "member" /\ reqs[t].kind = "createGroup"),
               Moves(t, [reqs[t] EXCEPT !.pc = pc])
        PROVE  Typed([reqs[t] EXCEPT !.pc = pc])
    <3>1. [reqs[t] EXCEPT !.pc = pc] =
          [kind |-> reqs[t].kind, by |-> reqs[t].by, on |-> reqs[t].on, seen |-> reqs[t].seen, pc |-> pc]
      BY <2>1 DEF Typed
    <3>2. reqs[t].kind \in MemberKind => [reqs[t] EXCEPT !.pc = pc] \in MemberRequest
      BY <2>1, <2>3, <3>1 DEF Typed, MemberRequest
    <3>3. QED
      BY <2>1, <2>3, <3>1, <3>2 DEF Typed
  <2>4. QED
    BY <1>4, <2>2, <2>3 DEF MoveStep
<1>5. QED
  BY <1>1, <1>2, <1>3, <1>4, ThreadStep

LEMMA FriendsKeptHere ==
    ASSUME Countable, CapsHold
    PROVE  FriendsKept /\ SentKept
  BY DEF Countable, CapsHold, FriendsKept, SentKept, SentBy

LEMMA TypeStep ==
    ASSUME TypeOK, OneRowEach, Births, References, MessagesUsed, Countable, CapsHold, [Next]_vars
    PROVE  TypeOK'
<1>1. acts' \in Nat /\ {stale', cut'} \subseteq BOOLEAN
  BY ThreadStep, FlagsStep
<1>2. status' \in [User -> {"active", "inactive", "gone"}]
  BY StatusStep
<1>3. reqs' = [t \in Thread |-> reqs'[t]] /\ \A t \in Thread : reqs'[t] # None => Typed(reqs'[t])
  BY RequestsStep
<1>4. owner' \in [Group -> User \cup {None}] /\ ContentType'
  BY ContentStep
<1>5. members' \in [Group -> Seq(MemberRow)]
  <2>1. members' = [g \in Group |-> members'[g]] /\ \A g \in Group : members'[g] \in Seq(MemberRow)
    BY MembersStep DEF GoodRows
  <2>2. QED
    BY <2>1
<1>6. invites' \subseteq InviteRow /\ links' \subseteq LinkRow
  BY InvitesStep, LinksStep
<1>7. chat' \in [Message -> MessageRow \cup {None}]
  BY ChatStep
<1>8. listed' \in [User -> SUBSET Group] /\ signalled' \subseteq User
  BY DevicesStep
<1>9. asked' \subseteq [id : Nat \X Thread, from : User, to : User] /\ friends' \subseteq User \X User
  BY FriendsStep, FriendsKeptHere
<1>10. QED
  BY <1>1, <1>2, <1>3, <1>4, <1>5, <1>6, <1>7, <1>8, <1>9 DEF TypeOK, ContentType, Typed

LEMMA CapsStep ==
    ASSUME TypeOK, OneRowEach, Births, Countable, CapsHold, [Next]_vars
    PROVE  OneRowEach' /\ Countable' /\ CapsHold'
<1>1. \A g \in Group : OneEach(members'[g]) /\ Len(members'[g]) <= MembersMax
  BY MembersStep DEF GoodRows
<1>2. /\ \A l \in links' : l.max # None => l.used <= l.max
      /\ \A g \in Group : IsFiniteSet(ActiveLinks(g)') /\ Cardinality(ActiveLinks(g)') <= LinksMax
  BY LinksStep
<1>3. FriendsKept' /\ SentKept'
  BY FriendsStep, FriendsKeptHere
<1>4. QED
  BY <1>1, <1>2, <1>3 DEF OneRowEach, Countable, CapsHold, FriendsKept, SentKept, SentBy

-----------------------------------------------------------------------------
(* At first there is one group of two.                                     *)
FirstRows == <<Row(Founder, "owner", {}), Row(Second, "member", {})>>

LEMMA FirstRowsAre ==
    /\ GoodRows(FirstRows) /\ DOMAIN FirstRows = {1, 2}
    /\ FirstRows[1].user = Founder /\ FirstRows[1].role = "owner"
    /\ FirstRows[2].user = Second /\ FirstRows[2].role = "member"
<1>1. /\ Row(Founder, "owner", {}) \in MemberRow /\ Row(Second, "member", {}) \in MemberRow
      /\ Row(Founder, "owner", {}).user = Founder /\ Row(Founder, "owner", {}).role = "owner"
      /\ Row(Second, "member", {}).user = Second /\ Row(Second, "member", {}).role = "member"
  BY GroupAssumption DEF Row, MemberRow
<1>2. /\ FirstRows \in Seq(MemberRow) /\ Len(FirstRows) = 2 /\ DOMAIN FirstRows = {1, 2}
      /\ FirstRows[1] = Row(Founder, "owner", {}) /\ FirstRows[2] = Row(Second, "member", {})
  BY <1>1 DEF FirstRows
<1>3. OneEach(FirstRows)
  BY <1>1, <1>2, GroupAssumption DEF OneEach
<1>4. QED
  BY <1>1, <1>2, <1>3, LimitAssumption DEF GoodRows

LEMMA InitKept ==
    ASSUME Init
    PROVE  SocialInv
<1> USE DEF Init
<1>1. /\ status = [u \in User |-> "active"] /\ reqs = [t \in Thread |-> None] /\ acts = 0
      /\ stale = FALSE /\ cut = FALSE /\ asked = {} /\ friends = {}
  BY DEF InitAccounts, InitFriends
<1>2. /\ owner = [g \in Group |-> IF g = Home THEN Founder ELSE None]
      /\ members = [g \in Group |-> IF g = Home THEN FirstRows ELSE <<>>]
      /\ invites = {} /\ links = {} /\ time = {<<Founder, Todo>>, <<Second, Todo>>}
      /\ chat = [m \in Message |-> None] /\ used = {Home, Shared, Todo}
      /\ listed = [u \in User |-> GroupsOf(u)] /\ signalled = {}
  BY DEF InitGroups, FirstRows
<1>3. PICK u \in {Founder, Second}, v \in {Founder, Second} :
        /\ projects = [p \in Project |-> IF p = Shared THEN [by |-> u, group |-> Home, dead |-> FALSE] ELSE None]
        /\ tasks = [c \in Task |-> IF c = Todo THEN [by |-> v, project |-> Shared, dead |-> FALSE] ELSE None]
  BY DEF InitGroups
<1>4. /\ Home \in Group /\ Home # None /\ {Founder, Second} \subseteq User /\ Shared \in Project /\ Todo \in Task
      /\ None \notin User
  BY GroupAssumption, UserAssumption
<1>5. Known = User
  BY <1>1 DEF Known
<1>6. \A g \in Group : GoodRows(members[g])
  BY <1>2, FirstRowsAre, EmptyRows
<1>7. TypeOK
  <2>1. members \in [Group -> Seq(MemberRow)]
    BY <1>2, <1>6 DEF GoodRows
  <2>2. [by |-> u, group |-> Home, dead |-> FALSE] \in ProjectRow
        /\ [by |-> v, project |-> Shared, dead |-> FALSE] \in TaskRow
    BY <1>4 DEF ProjectRow, TaskRow
  <2>3. projects \in [Project -> ProjectRow \cup {None}] /\ tasks \in [Task -> TaskRow \cup {None}]
    BY <1>3, <2>2
  <2>4. listed \in [User -> SUBSET Group]
    BY <1>2 DEF GroupsOf
  <2>5. owner \in [Group -> User \cup {None}] /\ chat \in [Message -> MessageRow \cup {None}]
        /\ time \subseteq User \X Task
    BY <1>2, <1>4
  <2>6. status \in [User -> {"active", "inactive", "gone"}] /\ reqs = [t \in Thread |-> reqs[t]]
        /\ (\A t \in Thread : reqs[t] # None => Typed(reqs[t]))
    BY <1>1
  <2>7. QED
    BY <1>1, <1>2, <2>1, <2>3, <2>4, <2>5, <2>6 DEF TypeOK
<1>8. OneRowEach
  BY <1>6 DEF OneRowEach, GoodRows
<1>9. Births
  <2>1. \A t \in Thread : reqs[t] = None
    BY <1>1
  <2>2. Born(Home)
    BY <1>2, <2>1 DEF Born, Creates
  <2>3. QED
    BY <1>2, <2>1, <2>2 DEF Births, Grounds
<1>10. References
  <2>1. OwnersKnown
    BY <1>2, <1>4, <1>5 DEF OwnersKnown
  <2>2. ProjectsRefer
    BY <1>2, <1>3, <1>4, <1>5 DEF ProjectsRefer
  <2>3. [by |-> u, group |-> Home, dead |-> FALSE] # None /\ [by |-> v, project |-> Shared, dead |-> FALSE] # None
    <3>1. [by |-> u, group |-> Home, dead |-> FALSE] \in ProjectRow
          /\ [by |-> v, project |-> Shared, dead |-> FALSE] \in TaskRow
      BY <1>4 DEF ProjectRow, TaskRow
    <3>2. QED
      BY <3>1, NoneIsNoRow
  <2>4. TasksRefer
    BY <1>3, <1>4, <1>5, <2>3 DEF TasksRefer
  <2>5. TimeRefers
    BY <1>2, <1>3, <1>4, <2>3 DEF TimeRefers
  <2>6. QED
    BY <1>7, <2>1, <2>2, <2>4, <2>5, ReferencesAre DEF TypeOK, ContentType
<1>11. MessagesUsed
  BY <1>2 DEF MessagesUsed, Stored
<1>12. RolesHold
  <2>1. OwnedBy(members[Home], Founder)
    BY <1>2, <1>4, FirstRowsAre, GroupAssumption DEF OwnedBy
  <2>2. QED
    BY <1>1, <1>2, <1>4, <2>1 DEF RolesHold, At
<1>13. ListsKept
  BY <1>1, <1>2 DEF ListsKept, Active
<1>14. Countable /\ CapsHold
  <2>0. Cardinality({}) = 0
    BY FS_EmptySet
  <2>1. \A g \in Group : ActiveLinks(g) = {}
    BY <1>2 DEF ActiveLinks
  <2>2. \A w \in User : FriendsOf(w) = {} /\ SentBy(w) = {}
    BY <1>1 DEF FriendsOf, SentBy
  <2>3. \A w \in User : {r \in asked : r.from = w} = {}
    BY <1>1
  <2>4. \A g \in Group : Len(members[g]) <= MembersMax /\ Cardinality(ActiveLinks(g)) <= LinksMax
    <3>1. ASSUME NEW g \in Group
          PROVE  Cardinality(ActiveLinks(g)) = 0
      <4>1. ActiveLinks(g) = {}
        BY <2>1
      <4>2. QED
        BY <2>0, <4>1, Zenon
    <3>2. QED
      BY <1>6, <3>1, LimitAssumption DEF GoodRows
  <2>5. \A w \in User : /\ Cardinality(FriendsOf(w)) <= FriendsMax
                        /\ Cardinality({r \in asked : r.from = w}) <= PendingMax
    <3>1. ASSUME NEW w \in User
          PROVE  /\ Cardinality(FriendsOf(w)) <= FriendsMax
                 /\ Cardinality({r \in asked : r.from = w}) <= PendingMax
      <4> DEFINE sent == {r \in asked : r.from = w}
      <4>1. FriendsOf(w) = {} /\ sent = {}
        BY <2>2, <2>3
      <4> HIDE DEF sent
      <4>2. Cardinality(FriendsOf(w)) = 0 /\ Cardinality(sent) = 0
        BY <2>0, <4>1, Zenon
      <4>3. Cardinality(FriendsOf(w)) <= FriendsMax /\ Cardinality(sent) <= PendingMax
        BY <4>2, FriendsAssumption
      <4>4. QED
        BY <4>3 DEF sent
    <3>2. QED
      BY <3>1, Zenon
  <2>6. Countable
    BY <2>1, <2>2, FS_EmptySet DEF Countable
  <2>7. QED
    BY <1>2, <2>4, <2>5, <2>6 DEF CapsHold
<1>15. QED
  BY <1>7, <1>8, <1>9, <1>10, <1>11, <1>12, <1>13, <1>14 DEF SocialInv

-----------------------------------------------------------------------------
(* A request goes on only by steps of its own.                             *)
LEMMA OthersMove ==
    ASSUME TypeOK, NEW x \in Thread, NEW t \in Thread, t # x
    PROVE  /\ \A kind, u, on, seen : Begins(t, kind, u, on, seen) => reqs'[x] = reqs[x]
           /\ \A holds, next : Writes(t, holds, next) => reqs'[x] = reqs[x]
<1>1. reqs = [y \in Thread |-> reqs[y]]
  BY DEF TypeOK
<1>2. ASSUME NEW q, reqs' = [reqs EXCEPT ![t] = q]
      PROVE  reqs'[x] = reqs[x]
  BY <1>1, <1>2
<1>3. QED
  BY <1>2 DEF Begins, Writes

LEMMA Stays ==
    ASSUME TypeOK, [Next]_vars, NEW x \in Thread, reqs[x] # None,
           reqs[x].kind = "createGroup" \/ reqs[x].pc = "tell"
    PROVE  \/ reqs'[x] = reqs[x]
           \/ Die(x)
           \/ At(x, "createGroup", "write") /\ InsertGroup(x)
           \/ At(x, "createGroup", "member") /\ InsertOwner(x)
           \/ reqs[x].pc = "tell" /\ Tells(x)
<1>1. ASSUME NEW t \in Thread, NEW kind, NEW u, NEW on, NEW seen, Begins(t, kind, u, on, seen)
      PROVE  reqs'[x] = reqs[x]
  <2>1. t # x
    BY <1>1 DEF Begins
  <2>2. QED
    BY <1>1, <2>1, OthersMove
<1>2. ASSUME NEW t \in Thread, t # x, \E holds, next : Writes(t, holds, next)
      PROVE  reqs'[x] = reqs[x]
  BY <1>2, OthersMove
<1>3. Typed(reqs[x])
  BY RequestType
<1>4. ASSUME NEW t \in Thread, NEW kind, At(t, kind, "write"), kind # "createGroup"
      PROVE  t # x
  BY <1>4 DEF At
<1>5. CASE FriendsNext
  <2>1. ASSUME NEW t \in Thread, Request(t) \/ Accept(t)
        PROVE  reqs'[x] = reqs[x]
    BY <1>1, <2>1 DEF Request, Accept
  <2>2. ASSUME NEW t \in Thread, InsertRequest(t)
        PROVE  reqs'[x] = reqs[x]
    BY <1>2, <1>4, <2>2 DEF InsertRequest
  <2>3. ASSUME NEW t \in Thread, AcceptById(t)
        PROVE  reqs'[x] = reqs[x]
    <3>1. t # x
      BY <1>3, <2>3 DEF AcceptById, Typed, At, GroupKind
    <3>2. QED
      BY <1>2, <2>3, <3>1 DEF AcceptById
  <2>4. CASE RemoveRequest \/ Unfriend
    BY <2>4 DEF RemoveRequest, Unfriend, AtOnce
  <2>5. ASSUME NEW u \in User, Track(u) \/ Rest(u) \/ Presence(u)
        PROVE  reqs' = reqs
    BY <2>5 DEF Track, Rest, Presence, AtOnce
  <2>6. QED
    BY <1>5, <2>1, <2>2, <2>3, <2>4, <2>5 DEF FriendsNext
<1>6. CASE GroupsNext
  <2>1. ASSUME NEW t \in Thread,
               \/ CreateGroup(t) \/ JoinByLink(t) \/ AcceptInvite(t) \/ Invite(t) \/ CancelInvite(t)
               \/ NewLink(t) \/ RevokeLink(t) \/ Leave(t) \/ RemoveMember(t) \/ PatchMember(t)
               \/ DeleteGroup(t) \/ NewProject(t) \/ EditMessage(t) \/ DeleteMessage(t)
        PROVE  reqs'[x] = reqs[x]
    BY <1>1, <2>1
    DEF CreateGroup, JoinByLink, AcceptInvite, Invite, CancelInvite, NewLink, RevokeLink, Leave,
        RemoveMember, PatchMember, DeleteGroup, NewProject, EditMessage, DeleteMessage
  <2>2. ASSUME NEW t \in Thread, InsertGroup(t)
        PROVE  reqs'[x] = reqs[x] \/ (At(x, "createGroup", "write") /\ InsertGroup(x))
    BY <1>2, <2>2 DEF InsertGroup
  <2>3. ASSUME NEW t \in Thread, CommitJoin(t) \/ CommitAccept(t) \/ CommitInvite(t)
        PROVE  reqs'[x] = reqs[x]
    BY <1>2, <1>4, <2>3 DEF CommitJoin, CommitAccept, CommitInvite
  <2>4. ASSUME NEW t \in Thread, CommitCancel(t) \/ CommitLink(t) \/ CommitRevoke(t)
        PROVE  reqs'[x] = reqs[x]
    BY <1>2, <1>4, <2>4 DEF CommitCancel, CommitLink, CommitRevoke
  <2>5. ASSUME NEW t \in Thread, CommitLeave(t) \/ CommitPatch(t) \/ CommitDeleteGroup(t)
        PROVE  reqs'[x] = reqs[x]
    BY <1>2, <1>4, <2>5 DEF CommitLeave, CommitPatch, CommitDeleteGroup
  <2>6. ASSUME NEW t \in Thread, CommitProject(t) \/ CommitEdit(t) \/ CommitDeleteMessage(t)
        PROVE  reqs'[x] = reqs[x]
    BY <1>2, <1>4, <2>6 DEF CommitProject, CommitEdit, CommitDeleteMessage
  <2>7. ASSUME NEW t \in Thread, InsertOwner(t)
        PROVE  reqs'[x] = reqs[x] \/ (At(x, "createGroup", "member") /\ InsertOwner(x))
    BY <1>2, <2>7 DEF InsertOwner
  <2>8. ASSUME NEW t \in Thread, Tells(t)
        PROVE  reqs'[x] = reqs[x] \/ (reqs[x].pc = "tell" /\ Tells(x))
    BY <1>2, <2>8 DEF Tells
  <2>9. CASE DeclineInvite \/ Expire
    BY <2>9 DEF DeclineInvite, Expire, AtOnce
  <2>10. ASSUME NEW u \in User, Refetch(u) \/ DropProject(u) \/ AddTask(u) \/ TrackTime(u) \/ Post(u)
         PROVE  reqs' = reqs
    BY <2>10 DEF Refetch, DropProject, AddTask, TrackTime, Post, AtOnce, accountVars
  <2>11. QED
    BY <1>6, <2>1, <2>2, <2>3, <2>4, <2>5, <2>6, <2>7, <2>8, <2>9, <2>10 DEF GroupsNext
<1>7. ASSUME NEW t \in Thread, DeleteMe(t)
      PROVE  reqs'[x] = reqs[x]
  BY <1>1, <1>7 DEF DeleteMe
<1>8. ASSUME NEW t \in Thread, CommitDeleteMe(t)
      PROVE  reqs'[x] = reqs[x]
  BY <1>2, <1>4, <1>8 DEF CommitDeleteMe
<1>9. ASSUME NEW t \in Thread, Die(t)
      PROVE  reqs'[x] = reqs[x] \/ Die(x)
  <2>1. reqs = [y \in Thread |-> reqs[y]] /\ reqs' = [reqs EXCEPT ![t] = None]
    BY <1>9 DEF Die, TypeOK
  <2>2. QED
    BY <1>9, <2>1
<1>10. ASSUME NEW u \in User, SetActive(u)
       PROVE  reqs' = reqs
  BY <1>10 DEF SetActive, Deactivate, Activate
<1>11. CASE UNCHANGED vars
  BY <1>11 DEF vars, accountVars
<1>12. QED
  BY <1>5, <1>6, <1>7, <1>8, <1>9, <1>10, <1>11 DEF Next

(* Who is the owner of a group.                                            *)
LEMMA RowOfIs ==
    ASSUME TypeOK, OneRowEach, NEW g \in Group, NEW u
    PROVE  /\ \A i \in DOMAIN members[g] : members[g][i].user = u => RowOf(g, u) = members[g][i]
           /\ IsOwner(g, u) <=> \E i \in DOMAIN members[g] : members[g][i].user = u /\ members[g][i].role = "owner"
<1>1. ASSUME NEW i \in DOMAIN members[g], members[g][i].user = u
      PROVE  RowOf(g, u) = members[g][i]
  <2> DEFINE rows == {members[g][k] : k \in DOMAIN members[g]}
  <2>1. members[g][i] \in rows
    OBVIOUS
  <2>2. \A r \in rows : r.user = u => r = members[g][i]
    BY <1>1 DEF OneRowEach, OneEach
  <2>3. RowOf(g, u) = CHOOSE r \in rows : r.user = u
    BY DEF RowOf
  <2> HIDE DEF rows
  <2>4. QED
    BY <1>1, <2>1, <2>2, <2>3
<1>2. QED
  BY <1>1 DEF IsOwner, Members

LEMMA HalfIsEmpty ==
    ASSUME TypeOK, Births, NEW g \in Group, Half(g)
    PROVE  members[g] = <<>> /\ ~Born(g)
<1>1. ~Born(g)
  BY DEF Half, At, Born, Creates
<1>2. QED
  BY <1>1 DEF Births

LEMMA OwnedIsOwner ==
    ASSUME TypeOK, OneRowEach, Births, RolesHold, ~stale, ~cut, NEW g \in Group, members[g] # <<>>
    PROVE  /\ owner[g] # None /\ owner[g] \in User /\ OwnedBy(members[g], owner[g]) /\ ~Half(g)
           /\ \A u : IsOwner(g, u) <=> u = owner[g]
<1>1. owner[g] # None /\ OwnedBy(members[g], owner[g]) /\ ~Half(g)
  BY HalfIsEmpty DEF RolesHold
<1>2. owner[g] \in User
  BY <1>1 DEF TypeOK
<1>3. QED
  BY <1>1, <1>2, RowOfIs DEF OwnedBy

LEMMA WritesHold ==
    ASSUME TypeOK, NEW t, NEW holds, NEW next, Writes(t, holds, next), ~stale'
    PROVE  holds
  BY Zenon DEF Writes
(* The request whose group has no owner's row yet.                         *)
LEMMA HalfStays ==
    ASSUME TypeOK, [Next]_vars, ~cut', NEW x \in Thread, At(x, "createGroup", "member"), ~InsertOwner(x)
    PROVE  reqs'[x] = reqs[x]
<1>1. reqs[x] # None /\ reqs[x].kind = "createGroup" /\ reqs[x].pc = "member"
  BY DEF At
<1>2. ~Die(x)
  BY DEF Die
<1>3. QED
  BY <1>1, <1>2, Stays DEF At

LEMMA MemberFrom ==
    ASSUME TypeOK, Births, [Next]_vars, NEW x \in Thread, At(x, "createGroup", "member")'
    PROVE  \/ reqs'[x] = reqs[x] /\ At(x, "createGroup", "member")
           \/ InsertGroup(x) /\ reqs[x] # None /\ reqs'[x].on = reqs[x].on /\ reqs'[x].by = reqs[x].by
<1>1. reqs'[x] # None /\ reqs'[x].kind = "createGroup" /\ reqs'[x].pc = "member"
  BY DEF At
<1>2. CASE reqs'[x] = reqs[x]
  BY <1>1, <1>2 DEF At
<1>3. CASE reqs'[x] # reqs[x]
  <2>1. PICK t \in Thread : BeginStep(t) \/ MoveStep(t)
    BY <1>3, ThreadStep
  <2>2. ~BeginStep(t)
    <3>1. ASSUME BeginStep(t)
          PROVE  FALSE
      <4>1. PICK q : Moves(t, q) /\ q.pc = "write"
        BY <3>1 DEF BeginStep
      <4>2. QED
        BY <1>1, <1>3, <4>1, Moved
    <3>2. QED
      BY <3>1
  <2>3. t = x
    BY <1>3, <2>1, <2>2, Moved DEF MoveStep
  <2>4. Typed(reqs[x]) /\ reqs[x] # None
    BY <2>1, <2>2, <2>3, RequestType DEF MoveStep
  <2>5. Moves(x, [reqs[x] EXCEPT !.pc = "member"]) /\ reqs[x].kind = "createGroup" /\ reqs[x].pc = "write"
    <3>1. reqs'[x] # [reqs[x] EXCEPT !.pc = "tell"]
      BY <1>1, <2>4 DEF Typed
    <3>2. QED
      BY <1>1, <2>1, <2>2, <2>3, <3>1, Moved DEF MoveStep
  <2>6. reqs'[x] = [reqs[x] EXCEPT !.pc = "member"]
    BY <2>5, Moved
  <2>7. reqs'[x].on = reqs[x].on /\ reqs'[x].by = reqs[x].by
    BY <2>4, <2>6 DEF Typed
  <2>8. ~Die(x)
    BY <1>1, Moved DEF Die, Moves
  <2>9. QED
    BY <1>3, <2>4, <2>5, <2>7, <2>8, Stays DEF At
<1>4. QED
  BY <1>2, <1>3

(* What the changes of a group's rows leave of its owner's.                *)
LEMMA OwnedRows ==
    ASSUME NEW rows, GoodRows(rows), NEW o \in User, OwnedBy(rows, o)
    PROVE  /\ \A v \in User : Len(rows) < MembersMax /\ (\A i \in DOMAIN rows : rows[i].user # v) =>
                 OwnedBy(Append(rows, Row(v, "member", {})), o)
           /\ \A v : v # o => OwnedBy(Without(rows, v), o)
           /\ \A r \in MemberRow : r.user # o /\ r.role # "owner" => OwnedBy(Updated(rows, r.user, r.role, r.perms), o)
           /\ \A v : v # o /\ (\E i \in DOMAIN rows : rows[i].user = v) => OwnedBy(Promoted(rows, o, v), v)
<1>1. ASSUME NEW v \in User, Len(rows) < MembersMax, \A i \in DOMAIN rows : rows[i].user # v
      PROVE  OwnedBy(Append(rows, Row(v, "member", {})), o)
  <2> DEFINE w == Append(rows, Row(v, "member", {}))
  <2>1. /\ DOMAIN w = 1..(Len(rows) + 1) /\ Len(rows) \in Nat /\ DOMAIN rows = 1..Len(rows)
        /\ \A i \in DOMAIN rows : w[i] = rows[i]
        /\ w[Len(rows) + 1] = Row(v, "member", {})
        /\ Row(v, "member", {}).user = v /\ Row(v, "member", {}).role = "member"
    BY <1>1, AppendedRows
  <2>2. v # o
    BY <1>1 DEF OwnedBy
  <2> HIDE DEF w
  <2>3. \A i \in DOMAIN w : i \in DOMAIN rows \/ i = Len(rows) + 1
    BY <2>1
  <2>4. \A i \in DOMAIN rows : i \in DOMAIN w
    BY <2>1
  <2>5. OwnedBy(w, o)
    BY <2>1, <2>2, <2>3, <2>4 DEF OwnedBy
  <2>6. QED
    BY <2>5 DEF w
<1>2. ASSUME NEW v, v # o
      PROVE  OwnedBy(Without(rows, v), o)
  BY <1>2, WithoutIs DEF OwnedBy
<1>3. ASSUME NEW r \in MemberRow, r.user # o, r.role # "owner"
      PROVE  OwnedBy(Updated(rows, r.user, r.role, r.perms), o)
  <2> DEFINE w == Updated(rows, r.user, r.role, r.perms)
  <2>1. DOMAIN w = DOMAIN rows
    BY UpdatedRows
  <2>2. \A i \in DOMAIN rows : /\ w[i].user = rows[i].user
                                /\ w[i].role = IF rows[i].user = r.user THEN r.role ELSE rows[i].role
    BY UpdatedRows
  <2> HIDE DEF w
  <2>3. OwnedBy(w, o)
    BY <1>3, <2>1, <2>2 DEF OwnedBy
  <2>4. QED
    BY <2>3 DEF w
<1>4. ASSUME NEW v, v # o, \E i \in DOMAIN rows : rows[i].user = v
      PROVE  OwnedBy(Promoted(rows, o, v), v)
  BY <1>4, PromotedRows DEF OwnedBy
<1>5. QED
  BY <1>1, <1>2, <1>3, <1>4

LEMMA FirstOwned ==
    ASSUME NEW u
    PROVE  OwnedBy(Append(<<>>, Row(u, "owner", {})), u)
  BY DEF OwnedBy, Row

-----------------------------------------------------------------------------
(* The owner's row is where the group says.                                *)
RolesOf(g) == IF owner[g] = None THEN members[g] = <<>> ELSE Half(g) \/ OwnedBy(members[g], owner[g])

SameRow(g) == owner'[g] = owner[g] /\ members'[g] = members[g]

LEMMA SameRoles ==
    ASSUME TypeOK, [Next]_vars, ~cut', NEW g \in Group, RolesOf(g), SameRow(g),
           \A x \in Thread : InsertOwner(x) => reqs[x].on.group # g
    PROVE  RolesOf(g)'
<1>1. Half(g) => Half(g)'
  <2>1. ASSUME NEW x \in Thread, At(x, "createGroup", "member"), reqs[x].on.group = g
        PROVE  Half(g)'
    <3>1. reqs'[x] = reqs[x]
      BY <2>1, HalfStays
    <3>2. QED
      BY <2>1, <3>1 DEF Half, At
  <2>2. QED
    BY <2>1 DEF Half
<1>2. QED
  BY <1>1 DEF RolesOf, SameRow

LEMMA OwnerOfMembers ==
    ASSUME TypeOK, Births, NEW g \in Group, RolesOf(g), Born(g), owner[g] # None \/ members[g] # <<>>
    PROVE  owner[g] # None /\ owner[g] \in User /\ OwnedBy(members[g], owner[g])
<1>1. ~Half(g)
  BY HalfIsEmpty
<1>2. owner[g] # None /\ OwnedBy(members[g], owner[g])
  BY <1>1 DEF RolesOf
<1>3. QED
  BY <1>2 DEF TypeOK

RolesAt == \A g \in Group : RolesOf(g)

LEMMA JoinRoles ==
    ASSUME TypeOK, OneRowEach, Births, CapsHold, RolesAt, NEW t \in Thread, CommitJoin(t) \/ CommitAccept(t),
           NEW g \in Group, ~SameRow(g)
    PROVE  RolesOf(g)'
<1> DEFINE u == reqs[t].by
           h == reqs[t].on.group
<1>1. /\ reqs[t] # None /\ reqs[t].kind \in {"join", "accept"} /\ u \in User /\ h \in Group
      /\ members' = members \/ members' = [members EXCEPT ![h] = Joined(h, u)]
  BY JoinsOf
<1>2. owner' = owner
  BY DEF CommitJoin, CommitAccept
<1>3. /\ g = h /\ Joins(h, u) /\ members'[g] = Joined(h, u)
  BY <1>1, <1>2 DEF SameRow, TypeOK, Joined
<1>4. Born(h)
  BY <1>1 DEF Births, Grounds, GroupKind
<1>5. /\ Joined(h, u) = Append(members[h], Row(u, "member", {}))
      /\ Len(members[h]) < MembersMax /\ owner[h] # None
      /\ \A i \in DOMAIN members[h] : members[h][i].user # u
  BY <1>1, <1>3, JoinedIs
<1>6. owner[h] \in User /\ OwnedBy(members[h], owner[h]) /\ GoodRows(members[h])
  BY <1>1, <1>4, <1>5, OwnerOfMembers, RowsGood DEF RolesAt
<1> HIDE DEF u, h
<1>7. OwnedBy(Append(members[h], Row(u, "member", {})), owner[h])
  BY <1>1, <1>5, <1>6, OwnedRows
<1>8. QED
  BY <1>2, <1>3, <1>5, <1>7 DEF RolesOf, h

LEMMA RoleOfOwner ==
    ASSUME TypeOK, OneRowEach, Births, RolesAt, NEW g \in Group, members[g] # <<>>
    PROVE  /\ owner[g] # None /\ owner[g] \in User /\ OwnedBy(members[g], owner[g]) /\ Born(g)
           /\ \A u : IsOwner(g, u) <=> u = owner[g]
<1>1. Born(g)
  BY DEF Births
<1>2. owner[g] # None /\ owner[g] \in User /\ OwnedBy(members[g], owner[g])
  BY <1>1, OwnerOfMembers DEF RolesAt
<1>3. QED
  BY <1>1, <1>2, RowOfIs DEF OwnedBy

LEMMA LeaveRoles ==
    ASSUME TypeOK, OneRowEach, Births, CapsHold, RolesAt, ~stale', NEW t \in Thread, CommitLeave(t),
           NEW g \in Group, ~SameRow(g)
    PROVE  RolesOf(g)'
<1> DEFINE h == reqs[t].on.group
           x == reqs[t].on.x
<1>1. reqs[t] # None /\ reqs[t].kind \in {"leave", "remove"}
  BY DEF CommitLeave, At
<1>2. Typed(reqs[t])
  BY <1>1, RequestType
<1>3. h \in Group
  BY <1>1, <1>2 DEF Typed, GroupKind
<1>4. owner' = owner /\ members' = [members EXCEPT ![h] = Without(@, x)]
  BY DEF CommitLeave
<1>5. g = h /\ members'[h] = Without(members[h], x)
  BY <1>3, <1>4 DEF SameRow, TypeOK
<1>6. members[h] # <<>>
  <2>1. Without(<<>>, x) = <<>>
    BY DEF Without
  <2>2. QED
    BY <1>4, <1>5, <2>1 DEF SameRow
<1>7. /\ owner[h] # None /\ owner[h] \in User /\ OwnedBy(members[h], owner[h])
      /\ \A u : IsOwner(h, u) <=> u = owner[h]
  BY <1>3, <1>6, RoleOfOwner
<1>8. IF reqs[t].kind = "leave" THEN ~IsOwner(h, x)
      ELSE Allows(h, reqs[t].by, "remove_members") /\ x # owner[h]
  <2> DEFINE holds == IF reqs[t].kind = "leave" THEN ~IsOwner(h, x)
                      ELSE Allows(h, reqs[t].by, "remove_members") /\ x # owner[h]
             told == reqs[t].kind = "leave" \/ x \in Members(h)
  <2>1. Writes(t, holds, IF told THEN "tell" ELSE None)
    BY DEF CommitLeave
  <2>2. QED
    BY <2>1, WritesHold
<1>9. x # owner[h]
  BY <1>7, <1>8
<1>10. OwnedBy(Without(members[h], x), owner[h])
  BY <1>3, <1>7, <1>9, OwnedRows, RowsGood
<1>11. QED
  BY <1>4, <1>5, <1>7, <1>10 DEF RolesOf

LEMMA PatchRoles ==
    ASSUME TypeOK, OneRowEach, Births, CapsHold, RolesAt, ~stale', NEW t \in Thread, CommitPatch(t),
           NEW g \in Group, ~SameRow(g)
    PROVE  RolesOf(g)'
<1> DEFINE h == reqs[t].on.group
           r == reqs[t].on.x
<1>1. reqs[t] # None /\ reqs[t].kind = "patchMember"
  BY DEF CommitPatch, At
<1>2. Typed(reqs[t])
  BY <1>1, RequestType
<1>3. h \in Group /\ r \in MemberRow /\ r.role # "owner"
  BY <1>1, <1>2 DEF Typed, GroupKind
<1>4. owner' = owner /\ members' = [members EXCEPT ![h] = Updated(@, r.user, r.role, r.perms)]
  BY DEF CommitPatch
<1>5. g = h /\ members'[h] = Updated(members[h], r.user, r.role, r.perms)
  BY <1>3, <1>4 DEF SameRow, TypeOK
<1>6. IsOwner(h, reqs[t].by) /\ ~IsOwner(h, r.user)
  <2> DEFINE holds == IsOwner(h, reqs[t].by) /\ ~IsOwner(h, r.user)
  <2>1. Writes(t, holds, "tell")
    BY DEF CommitPatch
  <2>2. holds
    <3> HIDE DEF holds
    <3>1. QED
      BY <2>1, WritesHold
  <2>3. QED
    BY <2>2
<1>7. members[h] # <<>>
  <2>1. reqs[t].by \in Members(h)
    BY <1>6 DEF IsOwner
  <2>2. QED
    BY <2>1 DEF Members
<1>8. /\ owner[h] # None /\ owner[h] \in User /\ OwnedBy(members[h], owner[h])
      /\ \A u : IsOwner(h, u) <=> u = owner[h]
  BY <1>3, <1>7, RoleOfOwner
<1>9. r.user # owner[h]
  BY <1>6, <1>8
<1>10. OwnedBy(Updated(members[h], r.user, r.role, r.perms), owner[h])
  BY <1>3, <1>8, <1>9, OwnedRows, RowsGood
<1>11. QED
  BY <1>4, <1>5, <1>8, <1>10 DEF RolesOf

LEMMA DeleteGroupRoles ==
    ASSUME TypeOK, NEW t \in Thread, CommitDeleteGroup(t), NEW g \in Group, ~SameRow(g)
    PROVE  RolesOf(g)'
<1> DEFINE h == reqs[t].on.group
<1>1. owner' = [owner EXCEPT ![h] = None] /\ DropGroups(members, {h}, None)
  BY DEF CommitDeleteGroup
<1>2. members' = [k \in Group |-> IF k \in {h} THEN <<>> ELSE Without(members[k], None)]
  BY <1>1 DEF DropGroups
<1>3. CASE g = h
  BY <1>1, <1>2, <1>3 DEF RolesOf, TypeOK
<1>4. CASE g # h
  <2>1. \A i \in DOMAIN members[g] : members[g][i].user # None
    BY RowType, UserAssumption
  <2>2. Without(members[g], None) = members[g]
    BY <2>1 DEF Without
  <2>3. QED
    BY <1>1, <1>2, <1>4, <2>2 DEF SameRow, TypeOK
<1>5. QED
  BY <1>3, <1>4

LEMMA InsertOwnerRoles ==
    ASSUME TypeOK, OneRowEach, Births, CapsHold, RolesAt, [Next]_vars, ~cut', NEW t \in Thread, InsertOwner(t),
           owner[reqs[t].on.group] \in {None, reqs[t].by}, NEW g \in Group
    PROVE  RolesOf(g)'
<1> DEFINE h == reqs[t].on.group
           u == reqs[t].by
<1>1. /\ reqs[t] # None /\ u \in User /\ h \in Group /\ Creates(t, h) /\ members[h] = <<>>
      /\ \/ members' = members
         \/ owner[h] # None /\ members' = [members EXCEPT ![h] = Append(@, Row(u, "owner", {}))]
  BY OwnerOf
<1>2. owner' = owner
  BY DEF InsertOwner
<1>3. CASE g # h
  <2>1. SameRow(g)
    BY <1>1, <1>2, <1>3 DEF SameRow, TypeOK
  <2>2. ASSUME NEW x \in Thread, InsertOwner(x)
        PROVE  reqs[x].on.group # g
    <3>1. CASE x = t
      BY <1>3, <3>1
    <3>2. CASE x # t
      <4>1. \E next : Writes(t, TRUE, next)
        BY DEF InsertOwner
      <4>2. reqs'[x] = reqs[x]
        BY <3>2, <4>1, OthersMove
      <4>3. reqs[x] # None /\ reqs[x].pc = "member" /\ Typed(reqs[x])
        BY <2>2, RequestType DEF InsertOwner, At
      <4>4. reqs'[x] = None \/ reqs'[x] = [reqs[x] EXCEPT !.pc = "tell"]
        <5>1. Moves(x, None) \/ Moves(x, [reqs[x] EXCEPT !.pc = "tell"])
          BY <2>2, WritesMoves DEF InsertOwner
        <5>2. QED
          BY <5>1, Moved
      <4>5. QED
        BY <4>2, <4>3, <4>4 DEF Typed
    <3>3. QED
      BY <3>1, <3>2
  <2>3. QED
    BY <2>1, <2>2, SameRoles DEF RolesAt
<1>4. CASE g = h /\ owner[h] = None
  <2>1. members' = members
    <3>1. QED
      BY <1>4 DEF InsertOwner
  <2>2. QED
    BY <1>1, <1>2, <1>4, <2>1 DEF RolesOf
<1>5. CASE g = h /\ owner[h] # None
  <2>1. owner[h] = u
    BY <1>5
  <2>2. members' = [members EXCEPT ![h] = Append(@, Row(u, "owner", {}))]
    BY <1>5 DEF InsertOwner
  <2>3. members'[h] = Append(<<>>, Row(u, "owner", {}))
    BY <1>1, <2>2 DEF TypeOK
  <2> HIDE DEF u, h
  <2>4. OwnedBy(members'[h], u)
    BY <2>3, FirstOwned
  <2>5. QED
    BY <1>2, <1>5, <2>1, <2>4 DEF RolesOf
<1>6. QED
  BY <1>3, <1>4, <1>5

(* A request that goes on is the same request.                             *)
LEMMA NextRequest ==
    ASSUME NEW q, Typed(q), q.kind \in MemberKind, NEW pc \in {"write", "member", "tell"}
    PROVE  LET r == [q EXCEPT !.pc = pc] IN
           r # None /\ r.kind = q.kind /\ r.by = q.by /\ r.on = q.on /\ r.seen = q.seen /\ r.pc = pc
<1> DEFINE r == [q EXCEPT !.pc = pc]
<1>1. q = [kind |-> q.kind, by |-> q.by, on |-> q.on, seen |-> q.seen, pc |-> q.pc] /\ q \in MemberRequest
  BY DEF Typed
<1>2. r = [kind |-> q.kind, by |-> q.by, on |-> q.on, seen |-> q.seen, pc |-> pc]
  BY <1>1
<1>3. r \in MemberRequest
  BY <1>1, <1>2 DEF MemberRequest
<1>4. r # None
  BY <1>3, RequestAssumption DEF MemberRequest, MemberKind
<1>5. QED
  BY <1>2, <1>4

LEMMA InsertGroupRoles ==
    ASSUME TypeOK, NEW t \in Thread, InsertGroup(t), NEW g \in Group, ~SameRow(g)
    PROVE  RolesOf(g)'
<1> DEFINE h == reqs[t].on.group
<1>1. reqs[t] # None /\ reqs[t].kind = "createGroup" /\ h \in Group /\ members' = members
  BY InsertGroupIs DEF InsertGroup
<1>2. owner' = [owner EXCEPT ![h] = reqs[t].by] /\ Writes(t, TRUE, "member")
  BY <1>1 DEF InsertGroup, SameRow
<1>3. g = h
  <2>1. owner' [g] # owner[g]
    BY <1>1 DEF SameRow
  <2>2. QED
    BY <1>1, <1>2, <2>1 DEF TypeOK
<1>4. reqs' = [reqs EXCEPT ![t] = [reqs[t] EXCEPT !.pc = "member"]]
  <2>1. "member" # None
    BY RequestAssumption
  <2>2. QED
    BY <1>2, <2>1 DEF Writes
<1>5. Typed(reqs[t]) /\ reqs[t].by \in User
  BY <1>1, RequestType DEF Typed
<1>6. reqs'[t] = [reqs[t] EXCEPT !.pc = "member"]
  BY <1>4 DEF TypeOK
<1>7. reqs'[t].kind = "createGroup" /\ reqs'[t].pc = "member" /\ reqs'[t].on = reqs[t].on /\ reqs'[t] # None
  BY <1>1, <1>5, <1>6, NextRequest DEF MemberKind
<1>8. Half(g)'
  BY <1>3, <1>7 DEF Half, At
<1>9. owner'[g] # None
  BY <1>2, <1>3, <1>5, UserAssumption DEF TypeOK
<1>10. QED
  BY <1>8, <1>9 DEF RolesOf

(* The grounds of the deletion of an account hold: the user owned just     *)
(* these groups, and the members come next in the order they have joined.  *)
LEMMA PlanHolds ==
    ASSUME TypeOK, ~stale', NEW t \in Thread, CommitDeleteMe(t), NEW g \in Group
    PROVE  /\ g \in Solo(t) => owner[g] = reqs[t].by /\ \A i \in DOMAIN members[g] :
                                  members[g][i].user \notin Active \ {reqs[t].by}
           /\ g \in Passed(t) => /\ owner[g] = reqs[t].by /\ reqs[t].seen[g] # reqs[t].by
                                 /\ \E i \in DOMAIN members[g] : members[g][i].user = reqs[t].seen[g]
           /\ g \notin Solo(t) \cup Passed(t) => owner[g] # reqs[t].by
<1> DEFINE u == reqs[t].by
<1>1. reqs[t].seen = Plan(u)
  <2> DEFINE holds == reqs[t].seen = Plan(u)
  <2>1. Writes(t, holds, None)
    BY DeleteMeCases
  <2>2. holds
    <3> HIDE DEF holds
    <3>1. QED
      BY <2>1, WritesHold
  <2>3. QED
    BY <2>2
<1>2. u \in User /\ u # None
  BY DeleteMeCases, UserAssumption
<1>3. /\ DOMAIN Plan(u) = {h \in Group : owner[h] = u}
      /\ g \in DOMAIN Plan(u) => Plan(u)[g] = Successor(g, u)
  BY DEF Plan
<1>4. \/ Successor(g, u) = None /\ \A i \in DOMAIN members[g] : members[g][i].user \notin Active \ {u}
      \/ \E i \in DOMAIN members[g] : Successor(g, u) = members[g][i].user /\ members[g][i].user \in Active \ {u}
  BY SuccessorIs
<1>5. \A i \in DOMAIN members[g] : members[g][i].user # None
  BY RowType, UserAssumption
<1>6. QED
  BY <1>1, <1>2, <1>3, <1>4, <1>5 DEF Solo, Passed

LEMMA DeleteMeRoles ==
    ASSUME TypeOK, OneRowEach, Births, CapsHold, RolesAt, ~stale', NEW t \in Thread, CommitDeleteMe(t),
           NEW g \in Group, ~SameRow(g)
    PROVE  RolesOf(g)'
<1> DEFINE u == reqs[t].by
           s == reqs[t].seen[g]
<1>1. ~UNCHANGED <<status, friendVars, groupVars>>
  BY DEF SameRow, groupVars, membership
<1>2. /\ owner' = NextOwner(t) /\ DropGroups(NextRows(t), Solo(t), u) /\ u \in User
      /\ \A h \in DOMAIN reqs[t].seen : h \in Group /\ reqs[t].seen[h] \in User \cup {None}
  BY <1>1, DeleteMeCases
<1>3. members'[g] = IF g \in Solo(t) THEN <<>> ELSE Without(NextRows(t)[g], u)
  BY <1>2 DEF DropGroups
<1>4. owner'[g] = IF g \in Passed(t) THEN s ELSE IF g \in Solo(t) THEN None ELSE owner[g]
  BY <1>2 DEF NextOwner
<1>5. CASE g \in Solo(t)
  BY <1>3, <1>4, <1>5 DEF RolesOf, Solo, Passed
<1>6. CASE g \in Passed(t)
  <2>1. /\ owner[g] = u /\ s # u /\ \E i \in DOMAIN members[g] : members[g][i].user = s
    BY <1>6, PlanHolds
  <2>2. s \in User /\ s # None /\ g \notin Solo(t)
    BY <1>2, <1>6 DEF Passed, Solo
  <2>3. GoodRows(members[g]) /\ OwnedBy(members[g], u)
    <3>1. members[g] # <<>>
      BY <2>1
    <3>2. QED
      BY <2>1, <3>1, RowsGood, RoleOfOwner
  <2>4. NextRows(t)[g] = Promoted(members[g], u, s)
    BY <1>6 DEF NextRows
  <2> HIDE DEF u, s
  <2>5. OwnedBy(Promoted(members[g], u, s), s)
    BY <1>2, <2>1, <2>3, OwnedRows
  <2>6. GoodRows(Promoted(members[g], u, s))
    BY <2>3, PromotedRows
  <2>7. OwnedBy(Without(Promoted(members[g], u, s), u), s)
    BY <2>1, <2>2, <2>5, <2>6, OwnedRows
  <2>8. QED
    BY <1>3, <1>4, <1>6, <2>2, <2>4, <2>7 DEF RolesOf
<1>7. CASE g \notin Solo(t) \cup Passed(t)
  <2>1. owner[g] # u /\ owner'[g] = owner[g] /\ members'[g] = Without(members[g], u)
    <3>1. NextRows(t)[g] = members[g]
      BY <1>7 DEF NextRows
    <3>2. QED
      BY <1>3, <1>4, <1>7, <3>1, PlanHolds
  <2>2. CASE owner[g] = None
    <3>1. members[g] = <<>>
      BY <2>2 DEF RolesAt, RolesOf
    <3>2. Without(<<>>, u) = <<>>
      BY DEF Without
    <3>3. QED
      BY <2>1, <2>2, <3>1, <3>2 DEF RolesOf
  <2>3. CASE owner[g] # None
    <3>0. members[g] # <<>>
      <4>1. Without(<<>>, u) = <<>>
        BY DEF Without
      <4>2. QED
        BY <2>1, <4>1 DEF SameRow
    <3>1. OwnedBy(members[g], owner[g]) /\ owner[g] \in User
      BY <3>0, RoleOfOwner
    <3>2. OwnedBy(Without(members[g], u), owner[g])
      BY <2>1, <3>1, OwnedRows, RowsGood
    <3>3. QED
      BY <2>1, <2>3, <3>2 DEF RolesOf
  <2>4. QED
    BY <2>2, <2>3
<1>8. QED
  BY <1>5, <1>6, <1>7

(* A group without the owner's row is its creator's.                       *)
FounderOf(x) == At(x, "createGroup", "member") => owner[reqs[x].on.group] \in {None, reqs[x].by}

LEMMA CreationOwners ==
    ASSUME TypeOK, OneRowEach, Births, RolesAt, ~stale', [Next]_vars, NEW x \in Thread, NEW g \in Group, Creates(x, g)
    PROVE  owner'[g] = owner[g] \/ owner'[g] = None \/ (InsertGroup(x) /\ owner'[g] = reqs[x].by)
<1>1. members[g] = <<>>
  BY DEF Births, Born
<1>2. ASSUME NEW t \in Thread, InsertGroup(t)
      PROVE  owner'[g] = owner[g] \/ (InsertGroup(x) /\ owner'[g] = reqs[x].by)
  <2>1. /\ reqs[t] # None /\ reqs[t].kind = "createGroup" /\ reqs[t].pc = "write" /\ reqs[t].on.group \in Group
        /\ owner' = owner \/ owner' = [owner EXCEPT ![reqs[t].on.group] = reqs[t].by]
    BY <1>2, InsertGroupIs
  <2>2. CASE reqs[t].on.group = g
    <3>1. Creates(t, g)
      BY <2>1, <2>2 DEF Creates
    <3>2. t = x
      BY <3>1, CreatesAlone
    <3>3. QED
      BY <1>2, <2>1, <2>2, <3>2 DEF TypeOK
  <2>3. CASE reqs[t].on.group # g
    BY <2>1, <2>3 DEF TypeOK
  <2>4. QED
    BY <2>2, <2>3
<1>3. ASSUME NEW t \in Thread, CommitDeleteGroup(t)
      PROVE  owner'[g] = owner[g] \/ owner'[g] = None
  BY <1>3 DEF CommitDeleteGroup, TypeOK
<1>4. ASSUME NEW t \in Thread, CommitDeleteMe(t)
      PROVE  owner'[g] = owner[g] \/ owner'[g] = None
  <2>1. CASE UNCHANGED <<status, friendVars, groupVars>>
    BY <2>1 DEF groupVars, membership
  <2>2. CASE ~UNCHANGED <<status, friendVars, groupVars>>
    <3>1. owner' = NextOwner(t)
      BY <1>4, <2>2, DeleteMeCases
    <3>2. g \notin Passed(t)
      BY <1>1, <1>4, PlanHolds
    <3>3. QED
      BY <3>1, <3>2 DEF NextOwner
  <2>3. QED
    BY <2>1, <2>2
<1>5. QED
  BY <1>2, <1>3, <1>4, Frame, GroupFrame

LEMMA FoundersStep ==
    ASSUME TypeOK, OneRowEach, Births, RolesAt, \A y \in Thread : FounderOf(y), ~stale', [Next]_vars, NEW x \in Thread
    PROVE  FounderOf(x)'
<1>1. SUFFICES ASSUME At(x, "createGroup", "member")'
               PROVE  owner'[reqs'[x].on.group] \in {None, reqs'[x].by}
  BY DEF FounderOf
<1>2. CASE reqs'[x] = reqs[x] /\ At(x, "createGroup", "member")
  <2>1. /\ reqs[x] # None /\ reqs[x].kind = "createGroup" /\ reqs[x].pc = "member"
        /\ reqs[x].on.group \in Group /\ Creates(x, reqs[x].on.group)
    BY <1>2, RequestType DEF At, Creates, Typed, GroupKind
  <2>2. ~InsertGroup(x)
    BY <2>1 DEF InsertGroup, At
  <2>3. owner[reqs[x].on.group] \in {None, reqs[x].by}
    BY <1>2 DEF FounderOf
  <2>4. QED
    BY <1>2, <2>1, <2>2, <2>3, CreationOwners
<1>3. CASE InsertGroup(x) /\ reqs[x] # None /\ reqs'[x].on = reqs[x].on /\ reqs'[x].by = reqs[x].by
  <2>1. /\ reqs[x].on.group \in Group
        /\ owner' = owner \/ owner' = [owner EXCEPT ![reqs[x].on.group] = reqs[x].by]
    BY <1>3, InsertGroupIs
  <2>2. CASE owner' = [owner EXCEPT ![reqs[x].on.group] = reqs[x].by]
    BY <1>3, <2>1, <2>2 DEF TypeOK
  <2>3. CASE ~(reqs[x].by \in Known /\ Cardinality(GroupsOf(reqs[x].by)) < GroupsMax)
    <3>1. Writes(x, TRUE, None)
      BY <1>3, <2>3 DEF InsertGroup
    <3>2. reqs'[x] = None
      BY <3>1 DEF Writes, TypeOK
    <3>3. QED
      BY <1>1, <3>2 DEF At
  <2>4. QED
    BY <1>3, <2>2, <2>3 DEF InsertGroup
<1>4. QED
  BY <1>1, <1>2, <1>3, MemberFrom

LEMMA RolesStep ==
    ASSUME TypeOK, OneRowEach, Births, CapsHold, RolesHold, [Next]_vars
    PROVE  RolesHold'
<1>1. RolesHold <=> (~stale /\ ~cut => RolesAt /\ \A x \in Thread : FounderOf(x))
  BY DEF RolesHold, RolesAt, RolesOf, FounderOf
<1>2. RolesHold' <=> (~stale' /\ ~cut' => RolesAt' /\ \A x \in Thread : FounderOf(x)')
  BY DEF RolesHold, RolesAt, RolesOf, FounderOf
<1>3. SUFFICES ASSUME ~stale', ~cut'
               PROVE  RolesAt' /\ \A x \in Thread : FounderOf(x)'
  BY <1>2
<1>4. RolesAt /\ \A x \in Thread : FounderOf(x)
  <2>1. ~stale /\ ~cut
    BY <1>3, FlagsStep, Zenon
  <2>2. QED
    BY <1>1, <2>1, Zenon
<1>5. \A x \in Thread : FounderOf(x)'
  BY <1>3, <1>4, FoundersStep
<1>6. ASSUME NEW g \in Group
      PROVE  RolesOf(g)'
  <2>1. CASE \E t \in Thread : InsertOwner(t)
    <3>1. PICK t \in Thread : InsertOwner(t)
      BY <2>1
    <3>2. owner[reqs[t].on.group] \in {None, reqs[t].by}
      BY <1>4, <3>1 DEF FounderOf, InsertOwner
    <3>3. QED
      BY <1>3, <1>4, <3>1, <3>2, InsertOwnerRoles
  <2>2. CASE (~ \E t \in Thread : InsertOwner(t)) /\ SameRow(g)
    BY <1>3, <1>4, <2>2, SameRoles DEF RolesAt
  <2>3. CASE (~ \E t \in Thread : InsertOwner(t)) /\ ~SameRow(g)
    <3>1. \/ \E t \in Thread : CommitDeleteMe(t)
          \/ \E t \in Thread : CommitJoin(t) \/ CommitAccept(t) \/ CommitLeave(t)
          \/ \E t \in Thread : CommitPatch(t) \/ CommitDeleteGroup(t) \/ InsertGroup(t)
      BY <2>3, Frame, GroupFrame DEF SameRow
    <3>2. QED
      BY <1>3, <1>4, <2>3, <3>1, DeleteMeRoles, JoinRoles, LeaveRoles, PatchRoles, DeleteGroupRoles, InsertGroupRoles
  <2>4. QED
    BY <2>1, <2>2, <2>3
<1>7. QED
  BY <1>5, <1>6 DEF RolesAt

-----------------------------------------------------------------------------
(* Whoever belongs to other groups than before is about to be told.        *)
LEMMA RequestTold ==
    ASSUME TypeOK, NEW t \in Thread, reqs[t] # None, reqs[t].kind \in MemberKind, NEW holds, Writes(t, holds, "tell"),
           NEW u \in reqs[t].on.told
    PROVE  ToldOf(u)'
<1>1. Typed(reqs[t])
  BY RequestType
<1>2. reqs' = [reqs EXCEPT ![t] = [reqs[t] EXCEPT !.pc = "tell"]]
  <2>1. "tell" # None
    BY RequestAssumption
  <2>2. QED
    BY <2>1 DEF Writes
<1>3. reqs'[t] = [reqs[t] EXCEPT !.pc = "tell"]
  BY <1>2 DEF TypeOK
<1>4. reqs'[t] # None /\ reqs'[t].pc = "tell" /\ reqs'[t].on = reqs[t].on
  BY <1>1, <1>3, NextRequest
<1>5. QED
  BY <1>4 DEF ToldOf

LEMMA ToldStays ==
    ASSUME TypeOK, [Next]_vars, ~cut', NEW u \in User, ToldOf(u), ~Refetch(u)
    PROVE  ToldOf(u)'
<1>1. CASE u \in signalled
  <2>1. u \in signalled'
    <3>1. ASSUME NEW v \in User, SetActive(v)
          PROVE  signalled \subseteq signalled'
      BY <3>1 DEF SetActive, groupVars, devices
    <3>2. ASSUME NEW v \in User, Refetch(v)
          PROVE  u \in signalled'
      <4>1. v # u
        BY <3>2
      <4>2. QED
        BY <1>1, <3>2, <4>1 DEF Refetch
    <3>3. ASSUME NEW t \in Thread, Tells(t)
          PROVE  signalled \subseteq signalled'
      BY <3>3 DEF Tells
    <3>4. QED
      BY <1>1, <3>1, <3>2, <3>3, DevicesStep
  <2>2. QED
    BY <2>1 DEF ToldOf
<1>2. CASE u \notin signalled
  <2>1. PICK t \in Thread : reqs[t] # None /\ reqs[t].pc = "tell" /\ u \in reqs[t].on.told
    BY <1>2 DEF ToldOf
  <2>2. reqs'[t] = reqs[t] \/ Tells(t)
    <3>1. ~Die(t)
      BY DEF Die
    <3>2. QED
      BY <2>1, <3>1, Stays DEF At
  <2>3. CASE reqs'[t] = reqs[t]
    BY <2>1, <2>3 DEF ToldOf
  <2>4. CASE Tells(t)
    BY <2>1, <2>4 DEF Tells, ToldOf
  <2>5. QED
    BY <2>2, <2>3, <2>4
<1>3. QED
  BY <1>1, <1>2

Comes(g, u) == u \notin Members(g) /\ u \in Members(g)'
Goes(g, u) == u \in Members(g) /\ u \notin Members(g)'

LEMMA OnlyAt ==
    ASSUME TypeOK, NEW h \in Group, NEW rows, members' = [members EXCEPT ![h] = rows], NEW g \in Group, NEW u,
           Comes(g, u) \/ Goes(g, u)
    PROVE  g = h /\ members'[h] = rows
<1>1. members'[h] = rows
  BY DEF TypeOK
<1>2. ASSUME g # h
      PROVE  FALSE
  <2>1. members'[g] = members[g]
    BY <1>2 DEF TypeOK
  <2>2. QED
    BY <2>1 DEF Comes, Goes, Members
<1>3. QED
  BY <1>1, <1>2

LEMMA JoinTold ==
    ASSUME TypeOK, OneRowEach, CapsHold, ~stale', NEW t \in Thread, CommitJoin(t) \/ CommitAccept(t),
           NEW g \in Group, NEW u, Comes(g, u) \/ Goes(g, u)
    PROVE  ToldOf(u)'
<1> DEFINE by == reqs[t].by
           h == reqs[t].on.group
<1>1. /\ reqs[t] # None /\ reqs[t].kind \in {"join", "accept"} /\ by \in User /\ h \in Group
      /\ members' = members \/ members' = [members EXCEPT ![h] = Joined(h, by)]
  BY JoinsOf
<1>2. by \in reqs[t].on.told /\ reqs[t].kind \in MemberKind
  BY <1>1, RequestType DEF Typed, MemberKind
<1>3. members' # members
  BY DEF Comes, Goes, Members
<1>4. g = h /\ members'[h] = Joined(h, by)
  BY <1>1, <1>3, OnlyAt
<1>5. Joins(h, by)
  <2>1. Joined(h, by) # members[h]
    BY <1>4 DEF Comes, Goes, Members
  <2>2. QED
    BY <2>1 DEF Joined
<1>6. u = by
  <2> HIDE DEF by, h
  <2>1. /\ Joined(h, by) = Append(members[h], Row(by, "member", {})) /\ Len(members[h]) < MembersMax
        /\ \A i \in DOMAIN members[h] : members[h][i].user # by
    BY <1>1, <1>5, JoinedIs
  <2>2. GoodRows(members[h])
    BY <1>1, RowsGood
  <2> DEFINE w == Append(members[h], Row(by, "member", {}))
  <2>3. /\ DOMAIN w = 1..(Len(members[h]) + 1) /\ Len(members[h]) \in Nat /\ DOMAIN members[h] = 1..Len(members[h])
        /\ \A i \in DOMAIN members[h] : w[i] = members[h][i]
        /\ w[Len(members[h]) + 1] = Row(by, "member", {}) /\ Row(by, "member", {}).user = by
    BY <1>1, <2>1, <2>2, AppendedRows
  <2>4. members'[g] = w
    BY <1>4, <2>1
  <2> HIDE DEF w
  <2>5. \A i \in DOMAIN w : i \in DOMAIN members[h] \/ i = Len(members[h]) + 1
    BY <2>3
  <2>6. \A i \in DOMAIN members[h] : i \in DOMAIN w
    BY <2>3
  <2>7. QED
    BY <1>4, <2>3, <2>4, <2>5, <2>6 DEF Comes, Goes, Members
<1>7. CASE CommitJoin(t)
  <2> DEFINE mine == {l \in links : l.id = reqs[t].seen}
             counted == {l \in mine : HasUses(l)}
             holds == \E l \in mine : Usable(l)
  <2>1. Writes(t, holds, IF counted # {} /\ Joins(h, by) THEN "tell" ELSE None)
    BY <1>5, <1>7 DEF CommitJoin, Joins
  <2>2. holds
    <3> HIDE DEF holds
    <3>1. QED
      BY <2>1, WritesHold
  <2>3. counted # {}
    BY <2>2 DEF Usable
  <2>4. Writes(t, holds, "tell")
    BY <1>5, <2>1, <2>3
  <2>5. QED
    BY <1>1, <1>2, <1>6, <2>4, RequestTold
<1>8. CASE CommitAccept(t)
  <2>1. \E holds : Writes(t, holds, "tell")
    BY <1>5, <1>8 DEF CommitAccept, Joins
  <2>2. QED
    BY <1>1, <1>2, <1>6, <2>1, RequestTold
<1>9. QED
  BY <1>7, <1>8

LEMMA CreatorTold ==
    ASSUME TypeOK, Births, NEW t \in Thread, InsertOwner(t), NEW g \in Group, NEW u, Comes(g, u) \/ Goes(g, u)
    PROVE  ToldOf(u)'
<1> DEFINE by == reqs[t].by
           h == reqs[t].on.group
<1>1. /\ reqs[t] # None /\ reqs[t].kind = "createGroup" /\ by \in User /\ h \in Group /\ members[h] = <<>>
      /\ \/ members' = members
         \/ /\ owner[h] # None
            /\ members' = [members EXCEPT ![h] = Append(@, Row(by, "owner", {}))]
  BY OwnerOf
<1>2. by \in reqs[t].on.told /\ reqs[t].kind \in MemberKind
  BY <1>1, RequestType DEF Typed, MemberKind
<1>3. members' # members
  BY DEF Comes, Goes, Members
<1>4. owner[h] # None /\ members' = [members EXCEPT ![h] = Append(members[h], Row(by, "owner", {}))]
  BY <1>1, <1>3
<1>5. g = h /\ members'[h] = Append(members[h], Row(by, "owner", {}))
  BY <1>1, <1>4, OnlyAt
<1>6. members'[g] = <<Row(by, "owner", {})>>
  BY <1>1, <1>5
<1>7. u = by
  <2> DEFINE row == Row(by, "owner", {})
  <2>1. row.user = by
    BY DEF Row
  <2> HIDE DEF by, h
  <2> DEFINE w == <<row>>
  <2>2. DOMAIN w = {1} /\ w[1] = row
    OBVIOUS
  <2>3. members'[g] = w
    BY <1>6
  <2> HIDE DEF w, row
  <2>4. Members(g)' = {by}
    <3>1. Members(g)' = {w[i].user : i \in DOMAIN w}
      BY <2>3 DEF Members
    <3>2. QED
      BY <2>1, <2>2, <3>1
  <2>5. Members(g) = {}
    <3>1. members[g] = <<>> /\ DOMAIN members[g] = {}
      BY <1>1, <1>5
    <3>2. QED
      BY <3>1 DEF Members
  <2>6. QED
    BY <2>4, <2>5 DEF Comes, Goes
<1>8. Writes(t, TRUE, "tell")
  BY <1>4 DEF InsertOwner
<1>9. QED
  BY <1>1, <1>2, <1>7, <1>8, RequestTold

LEMMA LeaverTold ==
    ASSUME TypeOK, OneRowEach, CapsHold, NEW t \in Thread, CommitLeave(t), NEW g \in Group, NEW u, Comes(g, u) \/ Goes(g, u)
    PROVE  ToldOf(u)'
<1> DEFINE h == reqs[t].on.group
           x == reqs[t].on.x
<1>1. reqs[t] # None /\ reqs[t].kind \in {"leave", "remove"}
  BY DEF CommitLeave, At
<1>2. Typed(reqs[t])
  BY <1>1, RequestType
<1>3. h \in Group /\ x \in reqs[t].on.told /\ reqs[t].kind \in MemberKind
  BY <1>1, <1>2 DEF Typed, GroupKind, MemberKind
<1>4. members' = [members EXCEPT ![h] = Without(@, x)]
  BY DEF CommitLeave
<1>5. g = h /\ members'[h] = Without(members[h], x)
  BY <1>3, <1>4, OnlyAt
<1>6. u = x /\ x \in Members(h)
  <2> HIDE DEF h, x
  <2>1. GoodRows(members[h])
    BY <1>3, RowsGood
  <2>2. /\ \A i \in DOMAIN Without(members[h], x) :
              \E j \in DOMAIN members[h] : Without(members[h], x)[i] = members[h][j] /\ members[h][j].user # x
        /\ \A j \in DOMAIN members[h] : members[h][j].user # x =>
              \E i \in DOMAIN Without(members[h], x) : Without(members[h], x)[i] = members[h][j]
    BY <2>1, WithoutIs
  <2>3. QED
    BY <1>5, <2>2 DEF Comes, Goes, Members
<1>7. \E holds : Writes(t, holds, "tell")
  BY <1>6 DEF CommitLeave
<1>8. QED
  BY <1>1, <1>3, <1>6, <1>7, RequestTold

LEMMA DeletedTold ==
    ASSUME TypeOK, ~stale', NEW t \in Thread, CommitDeleteGroup(t), NEW g \in Group, NEW u, Comes(g, u) \/ Goes(g, u)
    PROVE  ToldOf(u)'
<1> DEFINE h == reqs[t].on.group
           holds == IsOwner(h, reqs[t].by) /\ Members(h) = reqs[t].on.told
<1>1. reqs[t] # None /\ reqs[t].kind = "deleteGroup"
  BY DEF CommitDeleteGroup, At
<1>2. Typed(reqs[t]) /\ reqs[t].kind \in MemberKind
  BY <1>1, RequestType DEF MemberKind
<1>3. Writes(t, holds, "tell") /\ DropGroups(members, {h}, None)
  BY DEF CommitDeleteGroup
<1>4. holds
  <2> HIDE DEF holds
  <2>1. QED
    BY <1>3, WritesHold
<1>5. members'[g] = IF g = h THEN <<>> ELSE Without(members[g], None)
  BY <1>3 DEF DropGroups
<1>6. CASE g # h
  <2>1. \A i \in DOMAIN members[g] : members[g][i].user # None
    BY RowType, UserAssumption
  <2>2. Without(members[g], None) = members[g]
    BY <2>1 DEF Without
  <2>3. QED
    BY <1>5, <1>6, <2>2 DEF Comes, Goes, Members
<1>7. CASE g = h
  <2>1. u \in Members(h)
    BY <1>5, <1>7 DEF Comes, Goes, Members
  <2>2. QED
    BY <1>1, <1>2, <1>3, <1>4, <2>1, RequestTold
<1>8. QED
  BY <1>6, <1>7

LEMMA PatchTold ==
    ASSUME TypeOK, OneRowEach, CapsHold, NEW t \in Thread, CommitPatch(t), NEW g \in Group, NEW u, Comes(g, u) \/ Goes(g, u)
    PROVE  FALSE
<1> DEFINE h == reqs[t].on.group
           r == reqs[t].on.x
<1>1. reqs[t] # None /\ reqs[t].kind = "patchMember"
  BY DEF CommitPatch, At
<1>2. h \in Group /\ r \in MemberRow
  BY <1>1, RequestType DEF Typed, GroupKind
<1>3. members' = [members EXCEPT ![h] = Updated(@, r.user, r.role, r.perms)]
  BY DEF CommitPatch
<1>4. g = h /\ members'[h] = Updated(members[h], r.user, r.role, r.perms)
  BY <1>2, <1>3, OnlyAt
<1> DEFINE w == Updated(members[h], r.user, r.role, r.perms)
<1>5. DOMAIN w = DOMAIN members[h] /\ \A i \in DOMAIN members[h] : w[i].user = members[h][i].user
  BY <1>2, RowsGood, UpdatedRows
<1> HIDE DEF w
<1>6. QED
  BY <1>4, <1>5 DEF Comes, Goes, Members, w

LEMMA PassedOn ==
    ASSUME TypeOK, OneRowEach, CapsHold, ~stale', NEW t \in Thread, CommitDeleteMe(t), NEW g \in Group,
           NEW u \in User, u \in Active', Comes(g, u) \/ Goes(g, u)
    PROVE  FALSE
<1> DEFINE by == reqs[t].by
<1>1. ~UNCHANGED <<status, friendVars, groupVars>>
  BY DEF Comes, Goes, Members, groupVars, membership
<1>2. DropGroups(NextRows(t), Solo(t), by) /\ status' = [status EXCEPT ![by] = "gone"] /\ by \in User
  BY <1>1, DeleteMeCases
<1>3. u # by /\ u \in Active
  BY <1>2 DEF Active, TypeOK
<1>4. CASE g \in Solo(t)
  <2>1. u \notin Members(g)
    BY <1>3, <1>4, PlanHolds DEF Members
  <2>2. members'[g] = <<>>
    BY <1>2, <1>4 DEF DropGroups
  <2>3. QED
    BY <2>1, <2>2 DEF Comes, Goes, Members
<1>5. CASE g \notin Solo(t)
  <2> DEFINE rows == NextRows(t)[g]
  <2>1. members'[g] = Without(rows, by)
    BY <1>2, <1>5 DEF DropGroups
  <2>2. GoodRows(rows)
    BY NextRowsGood
  <2>3. DOMAIN rows = DOMAIN members[g] /\ \A i \in DOMAIN members[g] : rows[i].user = members[g][i].user
    <3>1. GoodRows(members[g])
      BY RowsGood
    <3>2. rows = members[g] \/ rows = Promoted(members[g], by, reqs[t].seen[g])
      BY DEF NextRows
    <3> HIDE DEF rows
    <3>3. QED
      BY <3>1, <3>2, PromotedRows
  <2> HIDE DEF rows, by
  <2>4. /\ \A i \in DOMAIN Without(rows, by) :
              \E j \in DOMAIN rows : Without(rows, by)[i] = rows[j] /\ rows[j].user # by
        /\ \A j \in DOMAIN rows : rows[j].user # by =>
              \E i \in DOMAIN Without(rows, by) : Without(rows, by)[i] = rows[j]
    BY <2>2, WithoutIs
  <2>5. QED
    BY <1>3, <2>1, <2>3, <2>4 DEF Comes, Goes, Members
<1>6. QED
  BY <1>4, <1>5

LEMMA ChangeTold ==
    ASSUME TypeOK, OneRowEach, Births, CapsHold, ~stale', [Next]_vars, NEW g \in Group,
           NEW u \in User, u \in Active', Comes(g, u) \/ Goes(g, u)
    PROVE  ToldOf(u)'
<1>1. members' # members
  BY DEF Comes, Goes, Members
<1>2. \/ \E t \in Thread : CommitDeleteMe(t)
      \/ \E t \in Thread : CommitJoin(t) \/ CommitAccept(t)
      \/ \E t \in Thread : InsertOwner(t)
      \/ \E t \in Thread : CommitLeave(t)
      \/ \E t \in Thread : CommitPatch(t)
      \/ \E t \in Thread : CommitDeleteGroup(t)
  BY <1>1, Frame, GroupFrame
<1>3. QED
  BY <1>2, PassedOn, JoinTold, CreatorTold, LeaverTold, PatchTold, DeletedTold

LEMMA ListsStep ==
    ASSUME TypeOK, OneRowEach, Births, CapsHold, ListsKept, [Next]_vars
    PROVE  ListsKept'
<1>1. SUFFICES ASSUME ~stale', ~cut', NEW u \in User, u \in Active'
               PROVE  listed'[u] = GroupsOf(u)' \/ ToldOf(u)'
  BY DEF ListsKept, Active
<1>2. ~stale /\ ~cut
  BY <1>1, FlagsStep, Zenon
<1>3. CASE Refetch(u)
  <2>1. listed'[u] = GroupsOf(u) /\ members' = members
    BY <1>3 DEF Refetch, membership, TypeOK
  <2>2. GroupsOf(u)' = GroupsOf(u)
    BY <2>1 DEF GroupsOf, Members
  <2>3. QED
    BY <2>1, <2>2
<1>4. CASE u \notin Active
  <2>1. PICK v \in User : SetActive(v)
    <3>1. status' # status
      BY <1>1, <1>4 DEF Active
    <3>2. ASSUME NEW t \in Thread, CommitDeleteMe(t)
          PROVE  FALSE
      <4>1. status' = [status EXCEPT ![reqs[t].by] = "gone"]
        BY <3>1, <3>2 DEF CommitDeleteMe
      <4>2. QED
        BY <1>1, <1>4, <4>1 DEF Active, TypeOK
    <3>3. QED
      BY <3>1, <3>2, StatusStep
  <2>2. v = u /\ Activate(u) /\ signalled' = signalled \cup {u}
    <3>1. ~Deactivate(v)
      BY <1>1, <1>4 DEF Deactivate, Active, TypeOK
    <3>2. Activate(v) /\ signalled' = signalled \cup {v}
      BY <2>1, <3>1 DEF SetActive
    <3>3. v = u
      BY <1>1, <1>4, <3>2 DEF Activate, Active, TypeOK
    <3>4. QED
      BY <3>2, <3>3
  <2>3. QED
    BY <2>2 DEF ToldOf
<1>5. CASE u \in Active /\ ~Refetch(u)
  <2>1. listed'[u] = listed[u]
    <3>1. ASSUME NEW v \in User, Refetch(v)
          PROVE  listed'[u] = listed[u]
      <4>1. v # u
        BY <1>5, <3>1
      <4>2. QED
        BY <3>1, <4>1 DEF Refetch, TypeOK
    <3>2. ASSUME NEW v \in User, SetActive(v)
          PROVE  listed' = listed
      BY <3>2 DEF SetActive, groupVars, devices
    <3>3. ASSUME NEW t \in Thread, Tells(t)
          PROVE  listed' = listed
      BY <3>3 DEF Tells
    <3>4. QED
      BY <3>1, <3>2, <3>3, DevicesStep
  <2>2. CASE ToldOf(u)
    BY <1>1, <1>5, <2>2, ToldStays
  <2>3. CASE \E g \in Group : Comes(g, u) \/ Goes(g, u)
    BY <1>1, <2>3, ChangeTold
  <2>4. CASE ~ToldOf(u) /\ ~ \E g \in Group : Comes(g, u) \/ Goes(g, u)
    <3>1. listed[u] = GroupsOf(u)
      BY <1>2, <1>5, <2>4 DEF ListsKept
    <3>2. GroupsOf(u)' = GroupsOf(u)
      BY <2>4 DEF GroupsOf, Comes, Goes
    <3>3. QED
      BY <2>1, <3>1, <3>2
  <2>5. QED
    BY <2>2, <2>3, <2>4
<1>6. QED
  BY <1>3, <1>4, <1>5

-----------------------------------------------------------------------------
(* Together.                                                               *)
LEMMA InvStep ==
    ASSUME SocialInv, [Next]_vars
    PROVE  SocialInv'
<1>1. /\ TypeOK /\ OneRowEach /\ Births /\ References /\ MessagesUsed
      /\ RolesHold /\ ListsKept /\ Countable /\ CapsHold
  BY DEF SocialInv
<1>2. TypeOK'
  BY <1>1, TypeStep
<1>3. OneRowEach' /\ Countable' /\ CapsHold'
  BY <1>1, CapsStep
<1>4. Births'
  BY <1>1, BirthsStep
<1>5. References' /\ MessagesUsed'
  BY <1>1, ContentStep, ChatStep
<1>6. RolesHold'
  BY <1>1, RolesStep
<1>7. ListsKept'
  BY <1>1, ListsStep
<1>8. QED
  BY <1>2, <1>3, <1>4, <1>5, <1>6, <1>7 DEF SocialInv

(* The types, the keys and the foreign keys of the social tables, who      *)
(* knows of a group, and what the properties below rest on, hold in every  *)
(* state of any number of users, groups and requests in flight.            *)
THEOREM SocialInvariant == Spec => []SocialInv
<1>1. Init => SocialInv
  BY InitKept
<1>2. SocialInv /\ [Next]_vars => SocialInv'
  BY InvStep
<1>3. QED
  BY <1>1, <1>2, PTL DEF Spec

(* No group has more members or links, no link more uses, no user more     *)
(* friends or requests under way than the limits, whatever requests passed *)
(* their checks together: the INSERTs of routes/groups.ts and              *)
(* routes/friends.ts count for themselves.                                 *)
THEOREM CapsAlwaysHold == Spec => []CapsHold
<1>1. SocialInv => CapsHold
  BY DEF SocialInv
<1>2. QED
  BY <1>1, SocialInvariant, PTL

(* A group has one owner, the one its row names, through every leave,      *)
(* removal, change of role and deletion of an account, while no request    *)
(* wrote on grounds that had gone and no Worker died.                      *)
THEOREM OwnerAlwaysHolds == Spec => []OwnerHolds
<1>1. SocialInv => OwnerHolds
  <2>1. SUFFICES ASSUME SocialInv, ~stale, ~cut, NEW g \in Group, owner[g] # None, ~Half(g)
                 PROVE  {u \in Members(g) : IsOwner(g, u)} = {owner[g]}
    BY Zenon DEF OwnerHolds
  <2>2. TypeOK /\ OneRowEach /\ Births /\ RolesHold
    BY <2>1 DEF SocialInv
  <2>3. OwnedBy(members[g], owner[g])
    BY <2>1, <2>2 DEF RolesHold
  <2>4. members[g] # <<>>
    BY <2>3 DEF OwnedBy
  <2>5. \A u : IsOwner(g, u) <=> u = owner[g]
    BY <2>1, <2>2, <2>4, OwnedIsOwner
  <2>6. owner[g] \in Members(g)
    BY <2>5 DEF IsOwner
  <2>7. QED
    BY <2>5, <2>6
<1>2. QED
  BY <1>1, SocialInvariant, PTL

(* A device that has followed every group.* signal shows the groups of its *)
(* user: emitToGroup, and the users it is given besides, reach whoever     *)
(* comes or goes.                                                          *)
THEOREM ListsAlwaysFollow == Spec => []ListsFollow
<1>1. SocialInv => ListsFollow
  <2>1. SUFFICES ASSUME SocialInv, ~stale, ~cut, signalled = {}, \A t \in Thread : reqs[t] = None, NEW u \in Active
                 PROVE  listed[u] = GroupsOf(u)
    BY Zenon DEF ListsFollow
  <2>2. ~ToldOf(u)
    BY <2>1 DEF ToldOf
  <2>3. QED
    BY <2>1, <2>2 DEF SocialInv, ListsKept
<1>2. QED
  BY <1>1, SocialInvariant, PTL

(* INV-06: no step loses time that others tracked on a group's project     *)
(* while the project is there.                                             *)
THEOREM SharedTimeAlwaysSurvives == Spec => SharedTimeSurvives
<1>1. SocialInv /\ [Next]_vars => \A r \in time \ time' : MayGo(r)
  BY ContentStep DEF SocialInv
<1>2. QED
  BY <1>1, SocialInvariant, PTL DEF Spec, SharedTimeSurvives, MayGo

(* No step brings a deleted message back to be served.                     *)
THEOREM DeletedAlwaysStaysHidden == Spec => DeletedStaysHidden
<1>1. SocialInv /\ [Next]_vars =>
        \A m \in Message : chat[m] # None /\ chat[m].dead /\ chat'[m] # None => Presented(chat'[m]) = 0
  BY ChatStep DEF SocialInv, Presented
<1>2. QED
  BY <1>1, SocialInvariant, PTL DEF Spec, DeletedStaysHidden
=============================================================================
