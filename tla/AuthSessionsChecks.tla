------------------------- MODULE AuthSessionsChecks -------------------------
(* What the session design promises (INV-01 and its companions).           *)
EXTENDS AuthSessions

(* Every variable that the proofs speak of keeps its type.                 *)
TypeOK ==
    /\ account \in AccountRow \cup {None}
    /\ sess \in [SessionId -> SessionRow \cup {None}]
    /\ minted \in Seq(SessionId)
    /\ passwords \in Nat
    /\ jar \in [Browser -> Nat \cup {None}]
    /\ reqs \in [Thread -> RequestRecord \cup {None}]

(* INV-01: a revoked session stays dead.  Whatever was in flight when it   *)
(* was ended - a rotation above all - never brings its row back.           *)
RevokedStaysDead ==
    [][\A i \in Used : sess[i] = None => sess'[i] = None]_vars

(* The cookie follows the rotation: if a browser holds a token of a living *)
(* session that the session no longer goes by, the answer with the new one *)
(* is on its way to that browser, unless it was lost, or never had the     *)
(* token in it (RawDone).  So requests that run in parallel in the final   *)
(* week never leave a browser with a token that an answer it did get has   *)
(* overwritten.                                                            *)
HoldsOld(b) == minted[jar[b]] \in Live /\ sess[minted[jar[b]]].token # jar[b]

OnItsWay(b, token) ==
    \E t \in Thread : reqs[t] # None /\ reqs[t].from = b /\ reqs[t].set = token

CookieFollows ==
    \A b \in Browser : jar[b] # None /\ HoldsOld(b) =>
        LET token == sess[minted[jar[b]]].token IN token \in dropped \/ OnItsWay(b, token)

(* What makes it inductive.  A session goes by a token that was minted for *)
(* it, a browser only has tokens that were minted ...                      *)
TokensKnown ==
    /\ \A i \in Live : sess[i].token \in DOMAIN minted /\ minted[sess[i].token] = i
    /\ \A b \in Browser : jar[b] # None => jar[b] \in DOMAIN minted
    /\ \A t \in Thread : reqs[t] # None =>
          /\ reqs[t].cookie # None => reqs[t].cookie \in DOMAIN minted
          /\ reqs[t].set \notin {None, Clear} => reqs[t].set \in DOMAIN minted

(* ... an answer under way is the only place where its token is, so that   *)
(* nobody has used it, and it is what the session goes by ...              *)
AnswersAreNews ==
    \A t \in Thread : reqs[t] # None /\ reqs[t].set \in DOMAIN minted =>
        LET n == reqs[t].set IN
        /\ \A b \in Browser : jar[b] # n
        /\ \A u \in Thread : reqs[u] # None => reqs[u].cookie # n /\ (u # t => reqs[u].set # n)
        /\ minted[n] \in Live => sess[minted[n]].token = n

(* ... all tokens of a session are with one browser ...                    *)
Holds(b, n) ==
    \/ jar[b] = n
    \/ \E t \in Thread : reqs[t] # None /\ reqs[t].from = b /\ (reqs[t].cookie = n \/ reqs[t].set = n)

OneBrowser ==
    \A b, c \in Browser, n, m \in DOMAIN minted :
        Holds(b, n) /\ Holds(c, m) /\ minted[n] = minted[m] => b = c

(* ... and a handler that runs after a rotation is of the session rotated. *)
RotatedIsOwn ==
    \A t \in Thread : reqs[t] # None /\ reqs[t].set # None /\ reqs[t].pc # "answered" =>
        /\ reqs[t].kind \in Guarded /\ reqs[t].pc \in {"handle", "verified"}
        /\ reqs[t].set \in DOMAIN minted /\ minted[reqs[t].set] = reqs[t].sid

(* A cut-off cuts off: a session outlives a change of the password only as *)
(* the one that made the change, and no session lives on in a deactivated  *)
(* account - but for a login that had already passed its check by then.    *)
CutOffHolds ==
    \A i \in Live : sess[i].past \/ (sess[i].pw = account.pw /\ account.active)

(* It needs that nobody signs in to an account that is gone.               *)
CutOffInv == TypeOK /\ CutOffHolds /\ (account = None => Live = {})

CookieInv ==
    TypeOK /\ TokensKnown /\ AnswersAreNews /\ OneBrowser /\ RotatedIsOwn /\ CookieFollows

(* A socket outlives its session only while the hub is still to be told,   *)
(* and there are never more of them than the hub's two caps allow.         *)
SocketsFollow ==
    /\ \A i \in SessionId : sockets[i] > 0 /\ i \notin Live =>
          i \in excused \/ \E m \in revokes : i \in Victims(m)
    /\ \A i \in SessionId : sockets[i] <= MaxPerSession
    /\ Cardinality(Attached) <= MaxPerUser

SocketsInv == sockets \in [SessionId -> Nat] /\ SocketsFollow
=============================================================================
