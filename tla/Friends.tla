------------------------------ MODULE Friends -------------------------------
(***************************************************************************)
(* Friend requests, friendships, and the presence that friends see: who is *)
(* tracking on a project that its owner has made visible to friends.       *)
(*                                                                         *)
(* Abstractions: the hub of a user is whether it runs a timer, and whether *)
(* on a visible project.  Of a device there is the presence it shows; the  *)
(* lists it refetches on any friend.* signal are left out.                 *)
(***************************************************************************)
EXTENDS Accounts, FiniteSets

CONSTANTS FriendsMax,  \* LIMITS.friendsMax
          PendingMax   \* LIMITS.pendingRequestsMax

ASSUME FriendsAssumption == FriendsMax \in Nat /\ PendingMax \in Nat

VARIABLES
    asked,    \* D1 friend_requests: [id, from, to]
    friends,  \* D1 friendships: <<user, friend>>, both ways
    timer,    \* hub: User -> "off", "private", "visible"
    shown     \* User -> those whom the user's device shows as tracking

friendVars == <<asked, friends, timer, shown>>

-----------------------------------------------------------------------------
FriendsOf(u) == {v \in User : <<u, v>> \in friends}

Asked(u, v) == {r \in asked : r.from = u /\ r.to = v}

InitFriends ==
    /\ asked = {} /\ friends = {}
    /\ timer = [u \in User |-> "off"]
    /\ shown = [u \in User |-> {}]

(* POST /friends/requests; an answer to a request is an acceptance.        *)
Request(t) ==
    \E u \in User : \E v \in Active \ {u} :
        /\ <<u, v>> \notin friends
        /\ IF Asked(v, u) # {}
           THEN \E r \in Asked(v, u) : Begins(t, "request", u, v, r.id)
           ELSE /\ Asked(u, v) = {} /\ Cardinality(FriendsOf(u)) < FriendsMax
                /\ Begins(t, "request", u, v, None)
        /\ UNCHANGED friendVars

(* The cap is the statement's own; UNIQUE (from, to) and the keys of users *)
(* refuse the rest.                                                        *)
InsertRequest(t) ==
    /\ At(t, "request", "write") /\ reqs[t].seen = None
    /\ LET u == reqs[t].by
           v == reqs[t].on
       IN  /\ asked' = IF /\ Cardinality({r \in asked : r.from = u}) < PendingMax
                          /\ Asked(u, v) = {} /\ {u, v} \subseteq Known
                       THEN asked \cup {[id |-> <<acts, t>>, from |-> u, to |-> v]}
                       ELSE asked
           /\ Writes(t, Asked(v, u) = {} /\ <<u, v>> \notin friends, None)
    /\ UNCHANGED <<status, friends, timer, shown>>

(* POST /friends/requests/:id/accept.                                      *)
Accept(t) ==
    \E r \in asked : Begins(t, "acceptFriend", r.to, r.from, r.id) /\ UNCHANGED friendVars

HasRoom(u, v) ==
    Cardinality(FriendsOf(u)) < FriendsMax /\ Cardinality(FriendsOf(v)) < FriendsMax

(* acceptById: one batch, the pair all or nothing; the request goes where  *)
(* the friendship stands.  It is the pair, not the request, that is checked. *)
AcceptById(t) ==
    /\ reqs[t] # None /\ reqs[t].kind \in {"request", "acceptFriend"} /\ reqs[t].seen # None
    /\ LET u == reqs[t].by
           v == reqs[t].on
           sent == {r \in asked : r.id = reqs[t].seen /\ r.to = u}
           fails == <<u, v>> \in friends \/ <<v, u>> \in friends \/ ~({u, v} \subseteq Known)
       IN  /\ friends' = IF HasRoom(u, v) /\ ~fails
                         THEN friends \cup {<<u, v>>, <<v, u>>}
                         ELSE friends                               \* 422, 409
           /\ asked' = IF (HasRoom(u, v) /\ ~fails) \/ (~HasRoom(u, v) /\ <<u, v>> \in friends)
                       THEN asked \ sent ELSE asked
           /\ Writes(t, sent # {}, None)
    /\ UNCHANGED <<status, timer, shown>>

(* Decline as the recipient, cancel as the sender.                         *)
RemoveRequest ==
    \E r \in asked, u \in User :
        /\ u \in {r.from, r.to}
        /\ AtOnce("dropRequest", u)
        /\ asked' = asked \ {r}
        /\ UNCHANGED <<friends, timer, shown>>

Unfriend ==
    \E u \in User, v \in User :
        /\ <<u, v>> \in friends
        /\ AtOnce("unfriend", u)
        /\ friends' = friends \ {<<u, v>>, <<v, u>>}
        /\ UNCHANGED <<asked, timer, shown>>

-----------------------------------------------------------------------------
(* broadcastFriendPresence: friend.timer to every active friend, naming    *)
(* the friend it is sent to; nothing for a private project.                *)
Seeing(u, tracks) ==
    [v \in User |-> IF v \notin FriendsOf(u) \cap Active THEN shown[v]
                    ELSE IF tracks THEN shown[v] \cup {v} ELSE shown[v] \ {v}]

Track(u) ==
    \E kind \in {"private", "visible"} :
        /\ timer[u] # kind
        /\ AtOnce("presence", u)
        /\ timer' = [timer EXCEPT ![u] = kind]
        /\ shown' = IF kind = "visible" THEN Seeing(u, TRUE) ELSE shown
        /\ UNCHANGED <<asked, friends>>

Rest(u) ==
    /\ timer[u] # "off"
    /\ AtOnce("presence", u)
    /\ timer' = [timer EXCEPT ![u] = "off"]
    /\ shown' = Seeing(u, FALSE)
    /\ UNCHANGED <<asked, friends>>

(* POST /friends/presence, when the list of friends comes into view.       *)
Presence(u) ==
    /\ FriendsOf(u) # {}
    /\ AtOnce("presence", u)
    /\ shown' = [shown EXCEPT ![u] = (@ \ FriendsOf(u)) \cup {v \in FriendsOf(u) : timer[v] = "visible"}]
    /\ UNCHANGED <<asked, friends, timer>>

FriendsNext ==
    \/ \E t \in Thread : Request(t) \/ InsertRequest(t) \/ Accept(t) \/ AcceptById(t)
    \/ RemoveRequest \/ Unfriend
    \/ \E u \in User : Track(u) \/ Rest(u) \/ Presence(u)
=============================================================================
