---------------------------- MODULE AuthSessions ----------------------------
(***************************************************************************)
(* The sign-in sessions of one account: the rows of users, auth_sessions   *)
(* and email_tokens, the requests that the Worker serves (several at once, *)
(* each suspended at every statement it sends to D1), the cookies of the   *)
(* browsers, and the sockets the user's hub keeps open for a session.      *)
(*                                                                         *)
(* Abstractions: a password is the number of the change that set it, and   *)
(* whoever presents one presents the latest (which may have changed by the *)
(* time it is looked at); a token is its place in the order of minting,    *)
(* its hash the same; the age of a row is what the code distinguishes of   *)
(* expires_at.  CSRF and, in front of the routes without requireAuth,      *)
(* budgets, the captcha and validation only ever refuse a request before   *)
(* it does anything, and are left out, as are the sending of mail and the  *)
(* heartbeat of last_seen_at.  Behind requireAuth they come after a        *)
(* rotation (AnswersRaw).                                                  *)
(* What administrators do is one step: they sign in like anyone else.      *)
(***************************************************************************)
EXTENDS Integers, Sequences, FiniteSets, FiniteSetsExt, SequencesExt

CONSTANTS Browser,        \* cookie jars that sign in to the account
          Thread,         \* bound: requests in flight at once
          None,
          Clear,          \* the Set-Cookie that deletes the session cookie
          ActMax,         \* bound: what users, administrators, time and bad luck do
          SessionMax,     \* bound: rows of auth_sessions ever inserted
          TokenMax,       \* bound: session tokens ever minted
          PasswordMax,    \* bound: passwords ever set
          MailMax,        \* bound: email tokens ever minted
          MaxPerSession,  \* WS_MAX_PER_SESSION
          MaxPerUser,     \* WS_MAX_PER_USER
          Routes,         \* the requests this instance makes
          Admin,          \* what administrators do in this instance
          MayLose,        \* may an answer or a /revoke call be lost?
          MayExpire       \* may a session expire?

SessionId == 1..SessionMax
MailId == 1..MailMax

(* Routes behind requireAuth; the others are login, reset-confirm and ws.  *)
Guarded == {"use", "logout", "endSession", "endOthers", "password", "deleteMe"}

AccountRow == [active : BOOLEAN, must : BOOLEAN, pw : Nat]
SessionRow == [token : Nat, age : {"fresh", "late", "expired"}, pw : Nat \cup {None}, past : BOOLEAN]
RequestRecord ==
    [kind : Guarded \cup {"login", "confirm", "ws"}, from : Browser, cookie : Nat \cup {None},
     pw : Nat \cup {None}, target : Nat \cup {None},
     pc : {"arrived", "stale", "gate", "rotate", "lost", "handle", "verified", "hub", "accept", "answered"},
     sid : SessionId \cup {None}, late : BOOLEAN, set : Nat \cup {None, Clear}]

ASSUME NoneAssumption ==
    /\ None \notin Int /\ Clear \notin Int /\ None # Clear
    /\ None \notin AccountRow /\ None \notin SessionRow /\ None \notin RequestRecord

ASSUME RouteAssumption ==
    /\ Routes \subseteq Guarded \cup {"login", "confirm", "ws"}
    /\ Admin \subseteq {"deactivate", "activate", "reset"}

ASSUME CapAssumption == MaxPerSession \in Nat /\ MaxPerUser \in Nat

ASSUME BoundAssumption == SessionMax \in Nat \ {0} /\ MailMax \in Nat

VARIABLES
    account,   \* D1 users: the row, or None once it is deleted
    sess,      \* D1 auth_sessions: id -> row, or None
    mail,      \* D1 email_tokens, purpose 'reset': "unused", "live", "expired", "claimed"
    minted,    \* the session each token was minted for; its index is the token
    passwords, \* how many passwords the account has had
    jar,       \* browser: the session cookie it holds, or None
    reqs,      \* the requests in flight
    acts,      \* how many such acts there have been (a bound)
    sockets,   \* hub: how many sockets carry a session's tag
    revokes,   \* /revoke calls under way
    excused,   \* history: sessions a /revoke was lost for, or that just expired
    dropped    \* history: tokens whose Set-Cookie was lost, or never in the answer

dbVars == <<account, sess, mail>>
vars == <<dbVars, minted, passwords, jar, reqs, acts, sockets, revokes, excused, dropped>>

-----------------------------------------------------------------------------
(* Rows and requests.                                                      *)

NewAccount == [active |-> TRUE, must |-> TRUE, pw |-> 1]

(* A row as login inserts it.  `pw` and `past` are history: the password   *)
(* the session rests on, and whether that was out of date, or the account  *)
(* inactive, by the time the row was inserted.                             *)
NewSession(token, pw) ==
    [token |-> token, age |-> "fresh", pw |-> pw, past |-> account.pw # pw \/ ~account.active]

Live == {i \in SessionId : sess[i] # None}

Used == {minted[n] : n \in DOMAIN minted}

SessionOf(token) == {i \in Live : sess[i].token = token}

Ended(ids) == [i \in SessionId |-> IF i \in ids THEN None ELSE sess[i]]

(* A request: who sent it, the cookie it carries, the password it presents *)
(* and the session or link it names; then what it has read.                *)
Request(kind, b, pw, target) ==
    [kind |-> kind, from |-> b, cookie |-> jar[b], pw |-> pw, target |-> target,
     pc |-> "arrived", sid |-> None, late |-> FALSE, set |-> None]

At(t, pc) == reqs[t] # None /\ reqs[t].pc = pc

Is(t, pc, kind) == At(t, pc) /\ reqs[t].kind = kind

Step(t, r) == reqs' = [reqs EXCEPT ![t] = r]

Goto(t, pc) == Step(t, [reqs[t] EXCEPT !.pc = pc])

Answer(t, set) == Step(t, [reqs[t] EXCEPT !.pc = "answered", !.set = set])

(* c.json: an answer that carries the cookie the rotation has set; with no *)
(* cookie in it, an answer changes nothing here.                           *)
Done(t) == IF reqs[t].set = None THEN Step(t, None) ELSE Goto(t, "answered")

(* jsonError, tooMany, the forwarded answer of the hub, the file of an     *)
(* export: a Response of its own, without the cookie.                      *)
RawDone(t) ==
    /\ Step(t, None)
    /\ dropped' = IF reqs[t].set = None THEN dropped ELSE dropped \cup {reqs[t].set}

(* Some browser may already be signed in.                                  *)
SignedIn(b) ==
    /\ minted = <<1>>
    /\ sess = [i \in SessionId |-> IF i = 1 THEN NewSession(1, 1) ELSE None]
    /\ jar = [c \in Browser |-> IF c = b THEN 1 ELSE None]

SignedOut ==
    /\ minted = <<>>
    /\ sess = [i \in SessionId |-> None]
    /\ jar = [b \in Browser |-> None]

Init ==
    /\ account \in {NewAccount, [NewAccount EXCEPT !.must = FALSE]}
    /\ SignedOut \/ \E b \in Browser : SignedIn(b)
    /\ mail = [m \in MailId |-> "unused"]
    /\ passwords = 1
    /\ reqs = [t \in Thread |-> None]
    /\ acts = 0
    /\ sockets = [i \in SessionId |-> 0]
    /\ revokes = {}
    /\ excused = {} /\ dropped = {}

Act == acts < ActMax /\ acts' = acts + 1

-----------------------------------------------------------------------------
(* revokeHub is fire and forget: it reaches the hub later, or never.       *)
Revoke(type, sid) == revokes' = revokes \cup {[type |-> type, sid |-> sid]}

(* Mutant: `keep` names the session to close.                              *)
VictimsKept(m) == IF m.type = "all" THEN SessionId ELSE {m.sid}

Victims(m) ==
    CASE m.type = "all" -> SessionId
      [] m.type = "only" -> {m.sid}
      [] m.type = "keep" -> SessionId \ {m.sid}

(* /revoke and /wipe close sockets by the tag they were accepted with.     *)
HubRevokes == \E m \in revokes :
    /\ revokes' = revokes \ {m}
    /\ sockets' = [i \in SessionId |-> IF i \in Victims(m) THEN 0 ELSE sockets[i]]
    /\ UNCHANGED <<dbVars, minted, passwords, jar, reqs, excused, dropped, acts>>

LoseRevoke == MayLose /\ \E m \in revokes :
    /\ Act
    /\ revokes' = revokes \ {m}
    /\ excused' = excused \cup Victims(m)
    /\ UNCHANGED <<dbVars, minted, passwords, jar, reqs, sockets, dropped>>

-----------------------------------------------------------------------------
(* Sending a request, and its answer.                                      *)
Targets(kind) ==
    CASE kind = "endSession" -> Live
      [] kind = "confirm" -> {m \in MailId : mail[m] \in {"live", "expired"}}
      [] OTHER -> {None}

Presented(kind) == IF kind \in {"login", "password", "deleteMe"} THEN passwords ELSE None

Send == \E t \in Thread, b \in Browser, kind \in Routes : \E target \in Targets(kind) :
        /\ reqs[t] = None
        /\ Act
        /\ kind \in Guarded \cup {"ws"} => jar[b] # None
        /\ Step(t, Request(kind, b, Presented(kind), target))
        /\ UNCHANGED <<dbVars, minted, passwords, jar, sockets, revokes, excused, dropped>>

(* The browser applies the cookie of an answer when the answer comes.      *)
Receive == \E t \in Thread :
    /\ At(t, "answered")
    /\ LET set == reqs[t].set IN
       jar' = [jar EXCEPT ![reqs[t].from] =
                 IF set = None THEN @ ELSE IF set = Clear THEN None ELSE set]
    /\ Step(t, None)
    /\ UNCHANGED <<dbVars, minted, passwords, sockets, revokes, excused, dropped, acts>>

(* An answer that is lost on the way, with the cookie in it.               *)
LoseAnswer == MayLose /\ \E t \in Thread :
    /\ Act
    /\ At(t, "answered")
    /\ Step(t, None)
    /\ dropped' = IF reqs[t].set \in DOMAIN minted THEN dropped \cup {reqs[t].set} ELSE dropped
    /\ UNCHANGED <<dbVars, minted, passwords, jar, sockets, revokes, excused>>

-----------------------------------------------------------------------------
(* requireAuth.                                                            *)

(* loadSession: the row of the cookie's hash.                              *)
LoadSession(t) ==
    /\ At(t, "arrived") /\ reqs[t].kind \in Guarded
    /\ IF SessionOf(reqs[t].cookie) = {}
       THEN Done(t)                                             \* 401
       ELSE \E i \in SessionOf(reqs[t].cookie) : Step(t, [reqs[t] EXCEPT
                !.pc = IF sess[i].age = "expired" THEN "stale" ELSE "gate",
                !.sid = i, !.late = sess[i].age = "late"])
    /\ UNCHANGED <<dbVars, minted, passwords, jar, sockets, revokes, excused, dropped, acts>>

(* An expired row is deleted by its id, whatever has become of it: another *)
(* request that had read it in time may just have rotated it.              *)
DropStale(t) ==
    /\ At(t, "stale")
    /\ sess' = Ended({reqs[t].sid})
    /\ excused' = excused \cup {reqs[t].sid}
    /\ Done(t)                                                  \* 401
    /\ UNCHANGED <<account, mail, minted, passwords, jar, sockets, revokes, dropped, acts>>

(* Of the account: it must exist, be active and, except to change the      *)
(* password or to sign out, have no forced change pending.                 *)
MayPass(kind) ==
    /\ account # None
    /\ account.active
    /\ account.must => kind \in {"password", "logout"}

Gate(t) ==
    /\ At(t, "gate") /\ reqs[t].kind \in Guarded
    /\ IF ~MayPass(reqs[t].kind) THEN Done(t)                  \* 401, 403
       ELSE Goto(t, IF reqs[t].late THEN "rotate" ELSE "handle")
    /\ UNCHANGED <<dbVars, minted, passwords, jar, sockets, revokes, excused, dropped, acts>>

(* Mutant: the UPDATE matches the id alone.                                *)
SwappableById(r) == {i \in Live : i = r.sid}

(* The row the rotation's UPDATE matches: the id, and the hash that was    *)
(* read.                                                                   *)
Swappable(r) == {i \in Live : i = r.sid /\ sess[i].token = r.cookie}

(* Mutant: the new token comes as a row of its own, inserted after the old *)
(* one is deleted.                                                         *)
RotateByInsert(t) ==
    /\ At(t, "rotate")
    /\ Len(minted) < TokenMax
    /\ minted' = Append(minted, reqs[t].sid)
    /\ sess' = [sess EXCEPT ![reqs[t].sid] =
                   [token |-> Len(minted'), age |-> "fresh", pw |-> passwords, past |-> FALSE]]
    /\ Step(t, [reqs[t] EXCEPT !.pc = "handle", !.set = Len(minted')])
    /\ UNCHANGED <<account, mail, passwords, jar, sockets, revokes, excused, dropped, acts>>

(* rotateSession: a compare-and-swap of the hash.                          *)
Rotate(t) ==
    /\ At(t, "rotate") /\ reqs[t].kind \in Guarded
    /\ Len(minted) < TokenMax
    /\ LET r == reqs[t] IN
       IF Swappable(r) = {}
       THEN Goto(t, "lost") /\ UNCHANGED <<sess, minted>>
       ELSE /\ minted' = Append(minted, r.sid)
            /\ sess' = [sess EXCEPT ![r.sid] = [@ EXCEPT !.token = Len(minted'), !.age = "fresh"]]
            /\ Step(t, [r EXCEPT !.pc = "handle", !.set = Len(minted')])
    /\ UNCHANGED <<account, mail, passwords, jar, sockets, revokes, excused, dropped, acts>>

(* The swap was lost: to a revocation, or to another request's rotation.   *)
AfterLostSwap(t) ==
    /\ At(t, "lost")
    /\ IF reqs[t].sid \in Live THEN Goto(t, "handle") ELSE Done(t)   \* 401
    /\ UNCHANGED <<dbVars, minted, passwords, jar, sockets, revokes, excused, dropped, acts>>

-----------------------------------------------------------------------------
(* The handlers behind it.                                                 *)

(* After the rotation, the budgets, the validation or a permission refuse  *)
(* the request, or it is one that answers with a Response of its own (the  *)
(* timer, the cycle, the export), or the Worker stops.  The policy for new *)
(* passwords speaks after the present one is verified.                     *)
AnswersRaw(t) ==
    /\ \/ At(t, "handle") /\ reqs[t].kind \in Guarded \ {"logout"}
       \/ Is(t, "verified", "password")
    /\ RawDone(t)
    /\ UNCHANGED <<dbVars, minted, passwords, jar, sockets, revokes, excused, acts>>

Use(t) ==
    /\ Is(t, "handle", "use") /\ Done(t)
    /\ UNCHANGED <<dbVars, minted, passwords, jar, sockets, revokes, excused, dropped, acts>>

Logout(t) ==
    /\ Is(t, "handle", "logout")
    /\ sess' = Ended({reqs[t].sid})
    /\ Revoke("only", reqs[t].sid)
    /\ Answer(t, Clear)
    /\ UNCHANGED <<account, mail, minted, passwords, jar, sockets, excused, dropped, acts>>

EndSession(t) ==
    /\ Is(t, "handle", "endSession")
    /\ sess' = Ended({reqs[t].target})
    /\ Revoke("only", reqs[t].target)
    /\ Done(t)
    /\ UNCHANGED <<account, mail, minted, passwords, jar, sockets, excused, dropped, acts>>

EndOthers(t) ==
    /\ Is(t, "handle", "endOthers")
    /\ sess' = Ended(SessionId \ {reqs[t].sid})
    /\ Revoke("keep", reqs[t].sid)
    /\ Done(t)
    /\ UNCHANGED <<account, mail, minted, passwords, jar, sockets, excused, dropped, acts>>

(* The stored hash is read and the presented password verified against it; *)
(* hashing the new one takes its time.                                     *)
Verify(t) ==
    /\ At(t, "handle") /\ reqs[t].kind \in {"password", "deleteMe"}
    /\ IF account # None /\ account.pw = reqs[t].pw
       THEN Goto(t, "verified") /\ UNCHANGED dropped
       ELSE RawDone(t)                                         \* 403
    /\ UNCHANGED <<dbVars, minted, passwords, jar, sockets, revokes, excused, acts>>

SetPassword(must) ==
    /\ passwords < PasswordMax
    /\ passwords' = passwords + 1
    /\ account' = IF account = None THEN None
                  ELSE [account EXCEPT !.pw = passwords', !.must = must]

(* POST /me/password: one batch keeps this session and ends the others.    *)
ChangePassword(t) ==
    /\ Is(t, "verified", "password")
    /\ SetPassword(FALSE)
    /\ LET me == reqs[t].sid IN
       /\ sess' = [i \in SessionId |-> IF i = me /\ i \in Live THEN [sess[i] EXCEPT !.pw = passwords']
                                       ELSE None]
       /\ Revoke("keep", me)
    /\ Done(t)
    /\ UNCHANGED <<mail, minted, jar, sockets, excused, dropped, acts>>

(* DELETE /me: the account's rows go in one batch, then the hub is wiped.  *)
DeleteMe(t) ==
    /\ Is(t, "verified", "deleteMe")
    /\ account' = None
    /\ sess' = Ended(SessionId)
    /\ mail' = [m \in MailId |-> IF mail[m] \in {"live", "expired"} THEN "claimed" ELSE mail[m]]
    /\ Revoke("all", None)
    /\ Answer(t, Clear)
    /\ UNCHANGED <<minted, passwords, jar, sockets, excused, dropped, acts>>

-----------------------------------------------------------------------------
(* Login, and the reset link.                                              *)

LoginChecks(t) ==
    /\ Is(t, "arrived", "login")
    /\ IF account # None /\ account.pw = reqs[t].pw /\ account.active
       THEN Goto(t, "verified") ELSE Done(t)                   \* 401, 403
    /\ UNCHANGED <<dbVars, minted, passwords, jar, sockets, revokes, excused, dropped, acts>>

(* The row is inserted whatever has become of the account, as long as the  *)
(* account exists (a foreign key).                                         *)
LoginInserts(t) ==
    /\ Is(t, "verified", "login")
    /\ Len(minted) < TokenMax
    /\ IF account = None THEN Done(t) /\ UNCHANGED <<sess, minted>>   \* 500
       ELSE \E i \in SessionId \ Used :
              /\ \A j \in SessionId \ Used : i <= j
              /\ minted' = Append(minted, i)
              /\ sess' = [sess EXCEPT ![i] = NewSession(Len(minted'), reqs[t].pw)]
              /\ Answer(t, Len(minted'))
    /\ UNCHANGED <<account, mail, passwords, jar, sockets, revokes, excused, dropped, acts>>

(* POST /auth/reset-request: a link for an active account.                 *)
ResetRequest ==
    /\ Act
    /\ "confirm" \in Routes
    /\ account # None /\ account.active
    /\ \E m \in MailId :
          /\ mail[m] = "unused" /\ \A n \in MailId : mail[n] = "unused" => m <= n
          /\ mail' = [mail EXCEPT ![m] = "live"]
    /\ UNCHANGED <<account, sess, minted, passwords, jar, reqs, sockets, revokes, excused, dropped>>

(* POST /auth/reset-confirm claims the token by deleting it ...            *)
Claim(t) ==
    /\ Is(t, "arrived", "confirm")
    /\ LET m == reqs[t].target IN
       /\ IF mail[m] = "live" THEN Goto(t, "verified") ELSE Done(t)  \* 422
       /\ mail' = IF mail[m] \in {"live", "expired"} THEN [mail EXCEPT ![m] = "claimed"] ELSE mail
    /\ UNCHANGED <<account, sess, minted, passwords, jar, sockets, revokes, excused, dropped, acts>>

(* Mutant: the sessions are left to expire.                                *)
ResetKeepsSessions(t) ==
    /\ Is(t, "verified", "confirm")
    /\ SetPassword(account # None /\ account.must)
    /\ mail' = [m \in MailId |-> IF mail[m] = "unused" THEN "unused" ELSE "claimed"]
    /\ Revoke("all", None)
    /\ Answer(t, Clear)
    /\ UNCHANGED <<sess, minted, jar, sockets, excused, dropped, acts>>

(* ... and hashes the new password; one batch sets it, ends every session  *)
(* and drops the account's other links.                                    *)
ResetConfirm(t) ==
    /\ Is(t, "verified", "confirm")
    /\ SetPassword(account # None /\ account.must)
    /\ mail' = [m \in MailId |-> IF mail[m] = "unused" THEN "unused" ELSE "claimed"]
    /\ sess' = Ended(SessionId)
    /\ Revoke("all", None)
    /\ Answer(t, Clear)
    /\ UNCHANGED <<minted, jar, sockets, excused, dropped, acts>>

-----------------------------------------------------------------------------
(* /api/ws: the Worker checks the cookie, then the account; the hub checks *)
(* the session again and accepts.                                          *)

WsLoads(t) ==
    /\ Is(t, "arrived", "ws")
    /\ LET found == {i \in SessionOf(reqs[t].cookie) : sess[i].age # "expired"} IN
       IF found = {} THEN Step(t, None)                        \* 401
       ELSE \E i \in found : Step(t, [reqs[t] EXCEPT !.pc = "gate", !.sid = i])
    /\ UNCHANGED <<dbVars, minted, passwords, jar, sockets, revokes, excused, dropped, acts>>

WsGate(t) ==
    /\ Is(t, "gate", "ws")
    /\ IF MayPass("ws") THEN Goto(t, "hub") ELSE Step(t, None)
    /\ UNCHANGED <<dbVars, minted, passwords, jar, sockets, revokes, excused, dropped, acts>>

HubChecks(t) ==
    /\ Is(t, "hub", "ws")
    /\ IF reqs[t].sid \in Live THEN Goto(t, "accept") ELSE Step(t, None)
    /\ UNCHANGED <<dbVars, minted, passwords, jar, sockets, revokes, excused, dropped, acts>>

(* The sockets the hub has, each under the tag of its session.             *)
Attached == UNION {{i} \X (1..sockets[i]) : i \in SessionId}

HasRoom(i) ==
    /\ Cardinality(Attached) < MaxPerUser
    /\ sockets[i] < MaxPerSession

(* A session that ends between the hub's check and its answer gets its     *)
(* socket all the same; history excuses it.                                *)
Accept(t) ==
    /\ Is(t, "accept", "ws")
    /\ LET i == reqs[t].sid IN
       IF ~HasRoom(i) THEN UNCHANGED <<sockets, excused>>      \* 429
       ELSE /\ sockets' = [sockets EXCEPT ![i] = @ + 1]
            /\ excused' = IF i \in Live THEN excused ELSE excused \cup {i}
    /\ Step(t, None)
    /\ UNCHANGED <<dbVars, minted, passwords, jar, revokes, dropped, acts>>

CloseSocket == \E i \in SessionId :
    /\ Act
    /\ sockets[i] > 0
    /\ sockets' = [sockets EXCEPT ![i] = @ - 1]
    /\ UNCHANGED <<dbVars, minted, passwords, jar, reqs, revokes, excused, dropped>>

-----------------------------------------------------------------------------
(* Administrators, time and the daily cron.                                *)

Deactivate ==
    /\ Act
    /\ "deactivate" \in Admin /\ account # None
    /\ account' = [account EXCEPT !.active = FALSE]
    /\ sess' = Ended(SessionId)
    /\ Revoke("all", None)
    /\ UNCHANGED <<mail, minted, passwords, jar, reqs, sockets, excused, dropped>>

Activate ==
    /\ Act
    /\ "activate" \in Admin /\ account # None /\ ~account.active
    /\ account' = [account EXCEPT !.active = TRUE]
    /\ UNCHANGED <<sess, mail, minted, passwords, jar, reqs, sockets, revokes, excused, dropped>>

AdminResets ==
    /\ Act
    /\ "reset" \in Admin /\ account # None
    /\ SetPassword(TRUE)
    /\ sess' = Ended(SessionId)
    /\ Revoke("all", None)
    /\ UNCHANGED <<mail, minted, jar, reqs, sockets, excused, dropped>>

Age == \E i \in Live :
    /\ Act
    /\ sess[i].age # "expired"
    /\ sess[i].age = "late" => MayExpire
    /\ sess' = [sess EXCEPT ![i].age = IF @ = "fresh" THEN "late" ELSE "expired"]
    /\ UNCHANGED <<account, mail, minted, passwords, jar, reqs, sockets, revokes, excused, dropped>>

MailExpires == \E m \in MailId :
    /\ Act
    /\ MayExpire /\ mail[m] = "live"
    /\ mail' = [mail EXCEPT ![m] = "expired"]
    /\ UNCHANGED <<account, sess, minted, passwords, jar, reqs, sockets, revokes, excused, dropped>>

(* The cron deletes what has expired, and tells no hub.                    *)
CollectExpired ==
    /\ Act
    /\ LET old == {i \in Live : sess[i].age = "expired"} IN
       /\ old # {}
       /\ sess' = Ended(old)
       /\ excused' = excused \cup old
    /\ mail' = [m \in MailId |-> IF mail[m] = "expired" THEN "claimed" ELSE mail[m]]
    /\ UNCHANGED <<account, minted, passwords, jar, reqs, sockets, revokes, dropped>>

Serve(t) ==
    \/ LoadSession(t) \/ DropStale(t) \/ Gate(t) \/ Rotate(t) \/ AfterLostSwap(t)
    \/ AnswersRaw(t) \/ Use(t) \/ Logout(t) \/ EndSession(t) \/ EndOthers(t)
    \/ Verify(t) \/ ChangePassword(t) \/ DeleteMe(t)
    \/ LoginChecks(t) \/ LoginInserts(t) \/ Claim(t) \/ ResetConfirm(t)
    \/ WsLoads(t) \/ WsGate(t) \/ HubChecks(t) \/ Accept(t)

Next ==
    \/ Send \/ Receive \/ LoseAnswer \/ HubRevokes \/ LoseRevoke \/ CloseSocket
    \/ ResetRequest \/ Deactivate \/ Activate \/ AdminResets
    \/ Age \/ MailExpires \/ CollectExpired
    \/ \E t \in Thread : Serve(t)

Spec == Init /\ [][Next]_vars
=============================================================================
