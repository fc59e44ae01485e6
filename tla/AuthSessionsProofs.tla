------------------------- MODULE AuthSessionsProofs -------------------------
(***************************************************************************)
(* What AuthSessions' properties say for every number of browsers,         *)
(* requests, sessions and tokens, proved with TLAPS.                       *)
(***************************************************************************)
EXTENDS AuthSessionsChecks, FiniteSetTheorems, SequenceTheorems, TLAPS

-----------------------------------------------------------------------------
(* Types.                                                                  *)

LEMMA RequestType ==
    ASSUME TypeOK, NEW t \in Thread, NEW pc, At(t, pc)
    PROVE  reqs[t] \in RequestRecord /\ reqs[t] # None
  BY DEF TypeOK, At

LEMMA StepType ==
    ASSUME TypeOK, NEW t \in Thread, NEW r \in RequestRecord \cup {None}, Step(t, r)
    PROVE  reqs' \in [Thread -> RequestRecord \cup {None}]
  BY DEF TypeOK, Step

LEMMA GotoType ==
    ASSUME TypeOK, NEW t \in Thread, NEW p, At(t, p),
           NEW pc \in {"arrived", "stale", "gate", "rotate", "lost", "handle", "verified", "hub", "accept", "answered"},
           Goto(t, pc)
    PROVE  reqs' \in [Thread -> RequestRecord \cup {None}]
<1>1. [reqs[t] EXCEPT !.pc = pc] \in RequestRecord
  BY RequestType DEF RequestRecord
<1>2. QED
  BY <1>1, StepType DEF Goto

LEMMA AnswerType ==
    ASSUME TypeOK, NEW t \in Thread, NEW p, At(t, p), NEW set \in Nat \cup {None, Clear},
           Answer(t, set)
    PROVE  reqs' \in [Thread -> RequestRecord \cup {None}]
<1>1. [reqs[t] EXCEPT !.pc = "answered", !.set = set] \in RequestRecord
  BY RequestType DEF RequestRecord
<1>2. QED
  BY <1>1, StepType DEF Answer

LEMMA DoneType ==
    ASSUME TypeOK, NEW t \in Thread, NEW p, At(t, p), Done(t)
    PROVE  reqs' \in [Thread -> RequestRecord \cup {None}]
  BY StepType, GotoType DEF Done

LEMMA RawDoneType ==
    ASSUME TypeOK, NEW t \in Thread, RawDone(t)
    PROVE  reqs' \in [Thread -> RequestRecord \cup {None}]
  BY StepType DEF RawDone

(* loadSession: the request as it goes on, with the row it has found.      *)
Loaded(t, i) == [reqs[t] EXCEPT !.pc = IF sess[i].age = "expired" THEN "stale" ELSE "gate",
                                !.sid = i, !.late = sess[i].age = "late"]

LEMMA LoadedIs ==
    ASSUME TypeOK, NEW t \in Thread, At(t, "arrived"), NEW i \in SessionId
    PROVE  /\ Loaded(t, i) \in RequestRecord
           /\ Loaded(t, i).from = reqs[t].from /\ Loaded(t, i).cookie = reqs[t].cookie
           /\ Loaded(t, i).set = reqs[t].set
<1>1. reqs[t] \in RequestRecord
  BY RequestType
<1>2. PICK pc \in {"stale", "gate"} : pc = IF sess[i].age = "expired" THEN "stale" ELSE "gate"
  OBVIOUS
<1>3. PICK late \in BOOLEAN : late = (sess[i].age = "late")
  OBVIOUS
<1>4. PICK r : r = reqs[t]
  OBVIOUS
<1>5. Loaded(t, i) = [r EXCEPT !.pc = pc, !.sid = i, !.late = late]
  BY <1>2, <1>3, <1>4 DEF Loaded
<1>6. /\ [r EXCEPT !.pc = pc, !.sid = i, !.late = late] \in RequestRecord
      /\ \A x \in {[r EXCEPT !.pc = pc, !.sid = i, !.late = late]} :
            x.from = r.from /\ x.cookie = r.cookie /\ x.set = r.set
  BY <1>1, <1>4 DEF RequestRecord
<1>7. QED
  BY <1>4, <1>5, <1>6

LEMMA EndedType ==
    ASSUME TypeOK, NEW ids
    PROVE  Ended(ids) \in [SessionId -> SessionRow \cup {None}]
  BY DEF TypeOK, Ended

LEMMA SetPasswordType ==
    ASSUME TypeOK, NEW must \in BOOLEAN, SetPassword(must)
    PROVE  account' \in AccountRow \cup {None} /\ passwords' \in Nat
<1>1. passwords' \in Nat
  BY DEF TypeOK, SetPassword
<1>2. account # None => [account EXCEPT !.pw = passwords', !.must = must] \in AccountRow
  BY <1>1 DEF TypeOK, AccountRow
<1>3. QED
  BY <1>1, <1>2 DEF SetPassword

LEMMA NewSessionType ==
    ASSUME TypeOK, account # None, NEW token \in Nat, NEW pw \in Nat \cup {None}
    PROVE  NewSession(token, pw) \in SessionRow
<1>1. account.active \in BOOLEAN
  BY DEF TypeOK, AccountRow
<1>2. QED
  BY <1>1 DEF NewSession, SessionRow

LEMMA Appended ==
    ASSUME TypeOK, NEW i \in SessionId, minted' = Append(minted, i)
    PROVE  /\ minted' \in Seq(SessionId) /\ Len(minted') = Len(minted) + 1 /\ Len(minted) \in Nat
           /\ DOMAIN minted = 1..Len(minted)
           /\ DOMAIN minted' = DOMAIN minted \cup {Len(minted')}
           /\ Len(minted') \notin DOMAIN minted
           /\ minted'[Len(minted')] = i
           /\ \A n \in DOMAIN minted : minted'[n] = minted[n]
<1>1. minted \in Seq(SessionId)
  BY DEF TypeOK
<1>2. /\ minted' \in Seq(SessionId) /\ Len(minted') = Len(minted) + 1 /\ Len(minted) \in Nat
      /\ DOMAIN minted = 1..Len(minted) /\ DOMAIN minted' = 1..Len(minted')
      /\ minted'[Len(minted')] = i /\ \A n \in DOMAIN minted : minted'[n] = minted[n]
  BY <1>1, AppendProperties, LenProperties
<1>3. QED
  BY <1>2

LEMMA AccountInit ==
    Init => account \in AccountRow /\ account # None /\ account.active /\ account.pw = 1
<1> SUFFICES ASSUME Init
             PROVE  account \in AccountRow /\ account # None /\ account.active /\ account.pw = 1
  OBVIOUS
<1>1. NewAccount \in AccountRow /\ [NewAccount EXCEPT !.must = FALSE] \in AccountRow
  BY DEF NewAccount, AccountRow
<1>2. CASE account = NewAccount
  BY <1>1, <1>2, NoneAssumption DEF NewAccount
<1>3. CASE account = [NewAccount EXCEPT !.must = FALSE]
  BY <1>1, <1>3, NoneAssumption DEF NewAccount
<1>4. QED
  BY <1>2, <1>3 DEF Init

LEMMA TypeInit ==
    Init => TypeOK
<1> SUFFICES ASSUME Init
             PROVE  TypeOK
  OBVIOUS
<1>1. account \in AccountRow /\ account.active /\ account.pw = 1
  BY AccountInit
<1>2. NewSession(1, 1) \in SessionRow
  BY <1>1 DEF NewSession, SessionRow
<1>3. sess \in [SessionId -> SessionRow \cup {None}] /\ jar \in [Browser -> Nat \cup {None}]
  BY <1>2 DEF Init, SignedIn, SignedOut
<1>4. minted \in Seq(SessionId)
  <2>1. 1 \in SessionId
    BY BoundAssumption DEF SessionId
  <2>2. <<1>> \in Seq(SessionId) /\ <<>> \in Seq(SessionId)
    BY <2>1
  <2>3. QED
    BY <2>2 DEF Init, SignedIn, SignedOut
<1>5. QED
  BY <1>1, <1>3, <1>4 DEF Init, TypeOK

LEMMA ServeType ==
    ASSUME TypeOK, NEW t \in Thread, Serve(t)
    PROVE  TypeOK'
<1> USE DEF dbVars
<1>0. /\ \A ids : Ended(ids) \in [SessionId -> SessionRow \cup {None}]
      /\ \A p : At(t, p) => reqs[t] \in RequestRecord
  BY EndedType, RequestType
<1> DEFINE Reqs == [Thread -> RequestRecord \cup {None}]
<1>1. CASE LoadSession(t)
  <2>1. ASSUME Done(t)
        PROVE  reqs' \in Reqs
    BY <1>1, <2>1, DoneType DEF LoadSession
  <2>2. ASSUME NEW i \in SessionId, Step(t, Loaded(t, i))
        PROVE  reqs' \in Reqs
    BY <1>1, <2>2, LoadedIs, StepType DEF LoadSession
  <2>3. reqs' \in Reqs
    BY <1>1, <2>1, <2>2 DEF LoadSession, SessionOf, Live, Loaded
  <2>4. QED
    BY <1>1, <2>3 DEF LoadSession, TypeOK
<1>2. CASE Gate(t)
  BY <1>2, DoneType, GotoType DEF Gate, TypeOK
<1>3. CASE Rotate(t)
  <2> DEFINE n == Len(minted')
             row == [sess[reqs[t].sid] EXCEPT !.token = n, !.age = "fresh"]
  <2>1. CASE Swappable(reqs[t]) = {}
    BY <1>3, <2>1, GotoType DEF Rotate, TypeOK
  <2>2. CASE Swappable(reqs[t]) # {}
    <3>1. reqs[t].sid \in SessionId /\ sess[reqs[t].sid] \in SessionRow
      BY <2>2 DEF Swappable, Live, TypeOK
    <3>2. minted' \in Seq(SessionId) /\ n \in Nat
      BY <1>3, <2>2, <3>1, Appended DEF Rotate
    <3>3. row \in SessionRow
      BY <3>1, <3>2 DEF SessionRow
    <3>4. sess' = [sess EXCEPT ![reqs[t].sid] = row]
      BY <1>3, <2>2 DEF Rotate
    <3>5. sess' \in [SessionId -> SessionRow \cup {None}]
      BY <3>1, <3>3, <3>4 DEF TypeOK
    <3>6. [reqs[t] EXCEPT !.pc = "handle", !.set = n] \in RequestRecord
      BY <1>3, <1>0, <3>2 DEF Rotate, RequestRecord
    <3>7. reqs' \in Reqs
      BY <1>3, <2>2, <3>6, StepType DEF Rotate
    <3>8. QED
      BY <1>3, <3>2, <3>5, <3>7 DEF Rotate, TypeOK
  <2>3. QED
    BY <2>1, <2>2
<1>4. CASE AfterLostSwap(t)
  BY <1>4, DoneType, GotoType DEF AfterLostSwap, TypeOK
<1>5. CASE Use(t)
  BY <1>5, DoneType DEF Use, Is, TypeOK
<1>6. CASE Logout(t)
  BY <1>6, <1>0, AnswerType DEF Logout, Is, TypeOK
<1>7. CASE EndSession(t)
  BY <1>7, <1>0, DoneType DEF EndSession, Is, TypeOK
<1>8. CASE EndOthers(t)
  BY <1>8, <1>0, DoneType DEF EndOthers, Is, TypeOK
<1>9. CASE Verify(t)
  BY <1>9, RawDoneType, GotoType DEF Verify, TypeOK
<1>10. CASE ChangePassword(t)
  <2>1. account' \in AccountRow \cup {None} /\ passwords' \in Nat
    BY <1>10, SetPasswordType DEF ChangePassword
  <2>2. \A i \in SessionId : sess[i] # None => [sess[i] EXCEPT !.pw = passwords'] \in SessionRow
    BY <2>1 DEF TypeOK, SessionRow
  <2>3. sess' \in [SessionId -> SessionRow \cup {None}]
    BY <1>10, <2>2 DEF ChangePassword, Live
  <2>4. QED
    BY <1>10, <2>1, <2>3, DoneType DEF ChangePassword, Is, TypeOK
<1>11. CASE DeleteMe(t)
  BY <1>11, <1>0, AnswerType DEF DeleteMe, Is, TypeOK
<1>12. CASE LoginChecks(t)
  BY <1>12, DoneType, GotoType DEF LoginChecks, Is, TypeOK
<1>13. CASE LoginInserts(t)
  <2>1. CASE account = None
    BY <1>13, <2>1, DoneType DEF LoginInserts, Is, TypeOK
  <2>2. CASE account # None
    <3>1. PICK i \in SessionId : /\ minted' = Append(minted, i)
                                 /\ sess' = [sess EXCEPT ![i] = NewSession(Len(minted'), reqs[t].pw)]
                                 /\ Answer(t, Len(minted'))
      BY <1>13, <2>2 DEF LoginInserts
    <3>2. minted' \in Seq(SessionId) /\ Len(minted') \in Nat
      BY <3>1, Appended
    <3>3. reqs[t].pw \in Nat \cup {None}
      BY <1>13, <1>0 DEF LoginInserts, Is, RequestRecord
    <3>4. sess' \in [SessionId -> SessionRow \cup {None}]
      BY <2>2, <3>1, <3>2, <3>3, NewSessionType DEF TypeOK
    <3>5. reqs' \in Reqs
      BY <1>13, <3>1, <3>2, AnswerType DEF LoginInserts, Is
    <3>6. QED
      BY <1>13, <3>2, <3>4, <3>5 DEF LoginInserts, TypeOK
  <2>3. QED
    BY <2>1, <2>2
<1>14. CASE Claim(t)
  BY <1>14, DoneType, GotoType DEF Claim, Is, TypeOK
<1>15. CASE ResetConfirm(t)
  <2>1. (account # None /\ account.must) \in BOOLEAN
    BY DEF TypeOK, AccountRow
  <2>2. account' \in AccountRow \cup {None} /\ passwords' \in Nat
    BY <1>15, <2>1, SetPasswordType DEF ResetConfirm
  <2>3. reqs' \in Reqs
    BY <1>15, AnswerType DEF ResetConfirm, Is
  <2>4. QED
    BY <1>15, <1>0, <2>2, <2>3 DEF ResetConfirm, TypeOK
<1>16. CASE WsLoads(t)
  <2>1. ASSUME NEW i \in SessionId, Step(t, [reqs[t] EXCEPT !.pc = "gate", !.sid = i])
        PROVE  reqs' \in Reqs
    <3>1. [reqs[t] EXCEPT !.pc = "gate", !.sid = i] \in RequestRecord
      BY <1>16, <1>0 DEF WsLoads, Is, RequestRecord
    <3>2. QED
      BY <2>1, <3>1, StepType
  <2>2. reqs' \in Reqs
    BY <1>16, <2>1, StepType DEF WsLoads, SessionOf, Live
  <2>3. QED
    BY <1>16, <2>2 DEF WsLoads, TypeOK
<1>17. CASE WsGate(t)
  BY <1>17, StepType, GotoType DEF WsGate, Is, TypeOK
<1>18. CASE HubChecks(t)
  BY <1>18, StepType, GotoType DEF HubChecks, Is, TypeOK
<1>19. CASE Accept(t)
  BY <1>19, StepType DEF Accept, TypeOK
<1>20. CASE DropStale(t)
  BY <1>20, <1>0, DoneType DEF DropStale, TypeOK
<1>21. CASE AnswersRaw(t)
  BY <1>21, RawDoneType DEF AnswersRaw, TypeOK
<1>22. QED
  BY <1>1, <1>2, <1>3, <1>4, <1>5, <1>6, <1>7, <1>8, <1>9, <1>10, <1>11, <1>12, <1>13,
     <1>14, <1>15, <1>16, <1>17, <1>18, <1>19, <1>20, <1>21 DEF Serve

LEMMA TypeStep ==
    TypeOK /\ [Next]_vars => TypeOK'
<1> SUFFICES ASSUME TypeOK, [Next]_vars
             PROVE  TypeOK'
  OBVIOUS
<1> USE DEF dbVars
<1> DEFINE Reqs == [Thread -> RequestRecord \cup {None}]
<1>0. \A ids : Ended(ids) \in [SessionId -> SessionRow \cup {None}]
  BY EndedType
<1>1. CASE Send
  <2>1. PICK t \in Thread, b \in Browser, kind \in Routes : \E target \in Targets(kind) :
                Step(t, Request(kind, b, Presented(kind), target))
    BY <1>1 DEF Send
  <2>2. PICK target \in Targets(kind) : Step(t, Request(kind, b, Presented(kind), target))
    BY <2>1
  <2>3. kind \in Guarded \cup {"login", "confirm", "ws"}
    BY RouteAssumption
  <2>4. target \in Nat \cup {None}
    BY <2>3, BoundAssumption DEF Targets, Live, SessionId, MailId, Guarded
  <2>5. Presented(kind) \in Nat \cup {None} /\ jar[b] \in Nat \cup {None}
    BY DEF Presented, TypeOK
  <2>6. Request(kind, b, Presented(kind), target) \in RequestRecord
    BY <2>3, <2>4, <2>5 DEF Request, RequestRecord
  <2>7. reqs' \in Reqs
    BY <2>2, <2>6, StepType
  <2>8. QED
    BY <1>1, <2>7 DEF Send, TypeOK
<1>2. CASE Receive
  <2>1. PICK t \in Thread : /\ At(t, "answered") /\ Step(t, None)
                            /\ jar' = [jar EXCEPT ![reqs[t].from] =
                                IF reqs[t].set = None THEN @ ELSE IF reqs[t].set = Clear THEN None ELSE reqs[t].set]
    BY <1>2 DEF Receive
  <2>2. reqs[t].set \in Nat \cup {None, Clear} /\ reqs[t].from \in Browser
    BY <2>1, RequestType DEF RequestRecord
  <2>3. jar' \in [Browser -> Nat \cup {None}]
    BY <2>1, <2>2 DEF TypeOK
  <2>4. reqs' \in Reqs
    BY <2>1, StepType
  <2>5. QED
    BY <1>2, <2>3, <2>4 DEF Receive, TypeOK
<1>3. CASE LoseAnswer
  BY <1>3, StepType DEF LoseAnswer, TypeOK
<1>4. CASE HubRevokes \/ LoseRevoke \/ CloseSocket \/ ResetRequest \/ MailExpires
  BY <1>4 DEF HubRevokes, LoseRevoke, CloseSocket, ResetRequest, MailExpires, TypeOK
<1>5. CASE Deactivate
  <2>1. account' \in AccountRow
    BY <1>5 DEF Deactivate, TypeOK, AccountRow
  <2>2. QED
    BY <1>5, <1>0, <2>1 DEF Deactivate, TypeOK
<1>6. CASE Activate
  <2>1. account' \in AccountRow
    BY <1>6 DEF Activate, TypeOK, AccountRow
  <2>2. QED
    BY <1>6, <2>1 DEF Activate, TypeOK
<1>7. CASE AdminResets
  BY <1>7, <1>0, SetPasswordType DEF AdminResets, TypeOK
<1>8. CASE Age
  <2>1. PICK i \in Live : sess' = [sess EXCEPT ![i].age = IF @ = "fresh" THEN "late" ELSE "expired"]
    BY <1>8 DEF Age
  <2>2. sess[i] \in SessionRow
    BY DEF Live, TypeOK
  <2>3. sess' \in [SessionId -> SessionRow \cup {None}]
    BY <2>1, <2>2 DEF TypeOK, SessionRow
  <2>4. QED
    BY <1>8, <2>3 DEF Age, TypeOK
<1>9. CASE CollectExpired
  BY <1>9, <1>0 DEF CollectExpired, TypeOK
<1>10. CASE \E t \in Thread : Serve(t)
  BY <1>10, ServeType
<1>11. CASE UNCHANGED vars
  BY <1>11 DEF vars, TypeOK
<1>12. QED
  BY <1>1, <1>2, <1>3, <1>4, <1>5, <1>6, <1>7, <1>8, <1>9, <1>10, <1>11 DEF Next

-----------------------------------------------------------------------------
(* Steps that only take away: no session is inserted, no token minted.     *)

Dwindle ==
    /\ minted' = minted
    /\ \A i \in SessionId : sess'[i] # None => sess[i] # None /\ sess'[i].token = sess[i].token

LEMMA EndedDwindle ==
    ASSUME TypeOK, minted' = minted, NEW ids, sess' = Ended(ids)
    PROVE  Dwindle
  BY DEF TypeOK, Dwindle, Ended

LEMMA SameDwindle ==
    ASSUME TypeOK, minted' = minted, sess' = sess
    PROVE  Dwindle
  BY DEF TypeOK, Dwindle

LEMMA ServeDwindle ==
    ASSUME TypeOK, NEW t \in Thread, Serve(t), ~Rotate(t), ~LoginInserts(t)
    PROVE  Dwindle
<1> USE DEF dbVars
<1>1. CASE DropStale(t) \/ Logout(t) \/ EndSession(t) \/ EndOthers(t) \/ DeleteMe(t) \/ ResetConfirm(t)
  BY <1>1, EndedDwindle DEF DropStale, Logout, EndSession, EndOthers, DeleteMe, ResetConfirm
<1>2. CASE \/ LoadSession(t) \/ Gate(t) \/ AfterLostSwap(t) \/ AnswersRaw(t) \/ Use(t) \/ Verify(t)
           \/ LoginChecks(t) \/ Claim(t) \/ WsLoads(t) \/ WsGate(t) \/ HubChecks(t) \/ Accept(t)
  BY <1>2, SameDwindle DEF LoadSession, Gate, AfterLostSwap, AnswersRaw, Use, Verify, LoginChecks, Claim,
     WsLoads, WsGate, HubChecks, Accept
<1>3. CASE ChangePassword(t)
  <2>1. \A i \in SessionId : sess[i] # None => [sess[i] EXCEPT !.pw = passwords'].token = sess[i].token
    BY DEF TypeOK, SessionRow
  <2>2. QED
    BY <1>3, <2>1 DEF ChangePassword, Dwindle, Live
<1>4. QED
  BY <1>1, <1>2, <1>3 DEF Serve

LEMMA OtherDwindle ==
    ASSUME TypeOK, [Next]_vars, \A t \in Thread : ~Serve(t)
    PROVE  Dwindle
<1> USE DEF dbVars
<1>1. CASE Deactivate \/ AdminResets \/ CollectExpired
  BY <1>1, EndedDwindle DEF Deactivate, AdminResets, CollectExpired
<1>2. CASE \/ Send \/ Receive \/ LoseAnswer \/ HubRevokes \/ LoseRevoke \/ CloseSocket
           \/ ResetRequest \/ Activate \/ MailExpires
  BY <1>2, SameDwindle DEF Send, Receive, LoseAnswer, HubRevokes, LoseRevoke, CloseSocket,
     ResetRequest, Activate, MailExpires
<1>3. CASE Age
  <2>1. PICK i \in Live : sess' = [sess EXCEPT ![i].age = IF @ = "fresh" THEN "late" ELSE "expired"]
    BY <1>3 DEF Age
  <2>2. sess[i] \in SessionRow /\ sess[i] # None
    BY DEF Live, TypeOK
  <2>3. sess'[i].token = sess[i].token /\ \A j \in SessionId : j # i => sess'[j] = sess[j]
    BY <2>1, <2>2 DEF TypeOK, SessionRow
  <2>4. QED
    BY <1>3, <2>2, <2>3 DEF Age, Dwindle
<1>4. CASE UNCHANGED vars
  BY <1>4, SameDwindle DEF vars
<1>5. QED
  BY <1>1, <1>2, <1>3, <1>4 DEF Next

(* INV-01, of every step: only a rotation and a login write a session, the *)
(* one where the row is still there, the other under an id of its own.     *)
LEMMA DeadStep ==
    ASSUME TypeOK, [Next]_vars, NEW i \in Used, sess[i] = None
    PROVE  sess'[i] = None
<1>0. i \in SessionId
  BY DEF TypeOK, Used
<1>1. CASE \E t \in Thread : Rotate(t)
  <2>1. PICK t \in Thread : Rotate(t)
    BY <1>1
  <2>2. CASE Swappable(reqs[t]) = {}
    BY <2>1, <2>2 DEF Rotate
  <2>3. CASE Swappable(reqs[t]) # {}
    <3>1. reqs[t].sid # i
      BY <2>3 DEF Swappable, Live
    <3>2. QED
      BY <2>1, <2>3, <3>1, <1>0 DEF Rotate, TypeOK
  <2>4. QED
    BY <2>2, <2>3
<1>2. CASE \E t \in Thread : LoginInserts(t)
  BY <1>2, <1>0 DEF LoginInserts, TypeOK
<1>3. CASE ~\E t \in Thread : Rotate(t) \/ LoginInserts(t)
  BY <1>0, <1>3, ServeDwindle, OtherDwindle DEF Dwindle
<1>4. QED
  BY <1>1, <1>2, <1>3

(* A session that was ended, by whatever means, is never written again:    *)
(* not by a rotation or a handler that was already under way.              *)
THEOREM NoRevival == Spec => RevokedStaysDead
<1>1. TypeOK /\ [Next]_vars => [\A i \in Used : sess[i] = None => sess'[i] = None]_vars
  BY DeadStep
<1>2. QED
  BY <1>1, TypeInit, TypeStep, PTL DEF Spec, RevokedStaysDead

-----------------------------------------------------------------------------
(* Cutting off.                                                            *)

(* A step that leaves what the sessions rest on: the account's password    *)
(* and state, and the password of each session.                            *)
Steady ==
    /\ account' = account
    /\ \A i \in SessionId : sess'[i] # None =>
          sess[i] # None /\ sess'[i].pw = sess[i].pw /\ sess'[i].past = sess[i].past

LEMMA SteadyKeeps ==
    ASSUME CutOffInv, TypeOK', Steady
    PROVE  CutOffInv'
  BY DEF CutOffInv, CutOffHolds, Steady, Live

LEMMA AllEnded ==
    ASSUME CutOffInv, TypeOK', sess' = Ended(SessionId)
    PROVE  CutOffInv'
<1>1. Live' = {}
  BY DEF Ended, Live
<1>2. QED
  BY <1>1 DEF CutOffInv, CutOffHolds

LEMMA EndedSteady ==
    ASSUME TypeOK, account' = account, NEW ids, sess' = Ended(ids)
    PROVE  Steady
  BY DEF TypeOK, Steady, Ended

LEMMA ServeCutOff ==
    ASSUME CutOffInv, TypeOK', NEW t \in Thread, Serve(t)
    PROVE  CutOffInv'
<1> USE DEF dbVars
<1>0. TypeOK
  BY DEF CutOffInv
<1>1. CASE DropStale(t) \/ Logout(t) \/ EndSession(t) \/ EndOthers(t)
  BY <1>0, <1>1, EndedSteady, SteadyKeeps DEF DropStale, Logout, EndSession, EndOthers
<1>2. CASE DeleteMe(t) \/ ResetConfirm(t)
  BY <1>2, AllEnded DEF DeleteMe, ResetConfirm
<1>3. CASE \/ LoadSession(t) \/ Gate(t) \/ AfterLostSwap(t) \/ AnswersRaw(t) \/ Use(t) \/ Verify(t)
           \/ LoginChecks(t) \/ Claim(t) \/ WsLoads(t) \/ WsGate(t) \/ HubChecks(t) \/ Accept(t)
  <2>1. account' = account /\ sess' = sess
    BY <1>3 DEF LoadSession, Gate, AfterLostSwap, AnswersRaw, Use, Verify, LoginChecks, Claim, WsLoads,
       WsGate, HubChecks, Accept
  <2>2. QED
    BY <1>0, <2>1, SteadyKeeps DEF Steady, TypeOK
<1>4. CASE ChangePassword(t)
  <2> DEFINE me == reqs[t].sid
  <2>1. ASSUME NEW i \in Live'
        PROVE  /\ i = me /\ i \in Live /\ sess'[i] = [sess[i] EXCEPT !.pw = passwords']
    BY <1>4, <2>1 DEF ChangePassword, Live
  <2>2. ASSUME NEW i \in Live'
        PROVE  /\ account # None /\ sess'[i].pw = passwords' /\ sess'[i].past = sess[i].past
               /\ account'.pw = passwords' /\ account'.active = account.active
    <3>1. account # None /\ account \in AccountRow /\ sess[i] \in SessionRow
      BY <1>0, <2>1 DEF CutOffInv, TypeOK, Live
    <3>2. account' = [account EXCEPT !.pw = passwords', !.must = FALSE]
      BY <1>4, <3>1 DEF ChangePassword, SetPassword
    <3>3. account'.pw = passwords' /\ account'.active = account.active
      BY <3>1, <3>2 DEF AccountRow
    <3>4. sess'[i].pw = passwords' /\ sess'[i].past = sess[i].past
      BY <2>1, <3>1 DEF SessionRow
    <3>5. QED
      BY <3>1, <3>3, <3>4
  <2>3. CutOffHolds'
    BY <2>1, <2>2 DEF CutOffInv, CutOffHolds
  <2>4. account' = None => account = None
    BY <1>4, <1>0, NoneAssumption DEF ChangePassword, SetPassword, TypeOK, AccountRow
  <2>5. (account = None => Live = {})'
    BY <2>1, <2>4 DEF CutOffInv
  <2>6. QED
    BY <2>3, <2>5 DEF CutOffInv
<1>5. CASE Rotate(t)
  <2>1. CASE Swappable(reqs[t]) = {}
    BY <1>0, <1>5, <2>1, SteadyKeeps DEF Rotate, Steady, TypeOK
  <2>2. CASE Swappable(reqs[t]) # {}
    <3> DEFINE i == reqs[t].sid
               n == Len(minted')
    <3>1. i \in SessionId /\ sess[i] # None /\ sess[i] \in SessionRow
      BY <1>0, <2>2 DEF Swappable, Live, TypeOK
    <3>2. sess' = [sess EXCEPT ![i] = [sess[i] EXCEPT !.token = n, !.age = "fresh"]]
      BY <1>5, <2>2 DEF Rotate
    <3>3. sess'[i].pw = sess[i].pw /\ sess'[i].past = sess[i].past
      <4>1. sess'[i] = [sess[i] EXCEPT !.token = n, !.age = "fresh"]
        BY <1>0, <3>1, <3>2 DEF TypeOK
      <4>2. QED
        BY <3>1, <4>1 DEF SessionRow
    <3>4. \A j \in SessionId : j # i => sess'[j] = sess[j]
      BY <1>0, <3>2 DEF TypeOK
    <3>5. account' = account
      BY <1>5 DEF Rotate
    <3>6. Steady
      BY <3>1, <3>3, <3>4, <3>5 DEF Steady
    <3>7. QED
      BY <3>6, SteadyKeeps
  <2>3. QED
    BY <2>1, <2>2
<1>6. CASE LoginInserts(t)
  <2>1. CASE account = None
    BY <1>0, <1>6, <2>1, SteadyKeeps DEF LoginInserts, Steady, TypeOK
  <2>2. CASE account # None
    <3>1. PICK i \in SessionId : sess' = [sess EXCEPT ![i] = NewSession(Len(minted'), reqs[t].pw)]
      BY <1>6, <2>2 DEF LoginInserts
    <3>2. /\ sess'[i].pw = reqs[t].pw
          /\ sess'[i].past <=> (account.pw # reqs[t].pw \/ ~account.active)
      BY <1>0, <3>1 DEF TypeOK, NewSession
    <3>3. \A j \in SessionId : j # i => sess'[j] = sess[j]
      BY <1>0, <3>1 DEF TypeOK
    <3>4. account' = account
      BY <1>6 DEF LoginInserts
    <3>5. CutOffHolds'
      BY <3>2, <3>3, <3>4 DEF CutOffInv, CutOffHolds, Live
    <3>6. QED
      BY <2>2, <3>4, <3>5 DEF CutOffInv
  <2>3. QED
    BY <2>1, <2>2
<1>7. QED
  BY <1>1, <1>2, <1>3, <1>4, <1>5, <1>6 DEF Serve

LEMMA CutOffStep ==
    CutOffInv /\ [Next]_vars => CutOffInv'
<1> SUFFICES ASSUME CutOffInv, [Next]_vars
             PROVE  CutOffInv'
  OBVIOUS
<1> USE DEF dbVars
<1>0. TypeOK /\ TypeOK'
  BY TypeStep DEF CutOffInv
<1>1. CASE Deactivate \/ AdminResets
  BY <1>0, <1>1, AllEnded DEF Deactivate, AdminResets
<1>2. CASE CollectExpired
  BY <1>0, <1>2, EndedSteady, SteadyKeeps DEF CollectExpired
<1>3. CASE \/ Send \/ Receive \/ LoseAnswer \/ HubRevokes \/ LoseRevoke \/ CloseSocket
           \/ ResetRequest \/ MailExpires \/ UNCHANGED vars
  <2>1. account' = account /\ sess' = sess
    BY <1>3 DEF Send, Receive, LoseAnswer, HubRevokes, LoseRevoke, CloseSocket, ResetRequest,
       MailExpires, vars
  <2>2. QED
    BY <1>0, <2>1, SteadyKeeps DEF Steady, TypeOK
<1>4. CASE Age
  <2>1. PICK i \in Live : sess' = [sess EXCEPT ![i].age = IF @ = "fresh" THEN "late" ELSE "expired"]
    BY <1>4 DEF Age
  <2>2. sess[i] \in SessionRow /\ sess[i] # None
    BY <1>0 DEF Live, TypeOK
  <2>3. /\ sess'[i].pw = sess[i].pw /\ sess'[i].past = sess[i].past
        /\ \A j \in SessionId : j # i => sess'[j] = sess[j]
    BY <1>0, <2>1, <2>2 DEF TypeOK, SessionRow
  <2>4. Steady
    BY <1>4, <2>2, <2>3 DEF Age, Steady
  <2>5. QED
    BY <1>0, <2>4, SteadyKeeps
<1>5. CASE Activate
  <2>1. account \in AccountRow /\ account # None /\ account'.pw = account.pw /\ account'.active
    BY <1>0, <1>5 DEF Activate, TypeOK, AccountRow
  <2>2. account' # None /\ sess' = sess
    BY <1>0, <1>5, <2>1, NoneAssumption DEF Activate, TypeOK, AccountRow
  <2>3. CutOffHolds'
    BY <2>1, <2>2 DEF CutOffInv, CutOffHolds, Live
  <2>4. QED
    BY <1>0, <2>2, <2>3 DEF CutOffInv
<1>6. CASE \E t \in Thread : Serve(t)
  BY <1>0, <1>6, ServeCutOff
<1>7. QED
  BY <1>1, <1>2, <1>3, <1>4, <1>5, <1>6 DEF Next

LEMMA CutOffInit ==
    Init => CutOffInv
<1> SUFFICES ASSUME Init
             PROVE  CutOffInv
  OBVIOUS
<1>1. TypeOK
  BY TypeInit
<1>2. account # None /\ account.active /\ account.pw = 1
  BY AccountInit
<1>3. \A i \in Live : sess[i].pw = 1
  BY DEF Init, SignedIn, SignedOut, Live, NewSession
<1>4. QED
  BY <1>1, <1>2, <1>3 DEF CutOffInv, CutOffHolds

(* A change of the password, a reset, and a deactivation cut off every     *)
(* session but the one that made the change, and logins already past       *)
(* their check.                                                            *)
THEOREM CutOff == Spec => []CutOffHolds
<1>1. CutOffInv => CutOffHolds
  BY DEF CutOffInv
<1>2. QED
  BY <1>1, CutOffInit, CutOffStep, PTL DEF Spec

-----------------------------------------------------------------------------
(* Cookies.                                                                *)

(* What becomes of the request of a thread in a step that takes nothing in *)
(* and mints nothing: a cookie it is to set stays with it, unless the step *)
(* ends that session, or loses the answer or answers without it.           *)
Follows(t) ==
    /\ reqs'[t] # None =>
          /\ reqs[t] # None
          /\ reqs'[t].from = reqs[t].from /\ reqs'[t].cookie = reqs[t].cookie
          /\ reqs'[t].set \in {reqs[t].set, Clear}
          /\ reqs'[t].set # None /\ reqs'[t].pc # "answered" =>
                /\ reqs'[t].set = reqs[t].set /\ reqs[t].pc # "answered"
                /\ reqs'[t].kind = reqs[t].kind /\ reqs'[t].sid = reqs[t].sid
                /\ reqs'[t].pc \in {"handle", "verified"}
    /\ reqs[t] # None /\ reqs[t].set \in DOMAIN minted =>
          \/ reqs'[t] # None /\ reqs'[t].set = reqs[t].set
          \/ sess'[minted[reqs[t].set]] = None
          \/ reqs[t].set \in dropped'

Calm ==
    /\ Dwindle
    /\ jar' = jar
    /\ dropped \subseteq dropped'
    /\ \A t \in Thread : Follows(t)

LEMMA TokenIsNat ==
    ASSUME TypeOK
    PROVE  /\ \A n \in DOMAIN minted : n \in Nat /\ n # None /\ n # Clear /\ minted[n] \in SessionId
  BY NoneAssumption DEF TypeOK

LEMMA CalmKeeps ==
    ASSUME CookieInv, TypeOK', Calm
    PROVE  CookieInv'
<1>0. /\ TypeOK /\ TokensKnown /\ AnswersAreNews /\ OneBrowser /\ RotatedIsOwn /\ CookieFollows
      /\ minted' = minted /\ jar' = jar
      /\ \A i \in Live' : i \in Live /\ sess'[i].token = sess[i].token
      /\ \A n \in DOMAIN minted : n \in Nat /\ n # None /\ n # Clear /\ minted[n] \in SessionId
  BY TokenIsNat DEF CookieInv, Calm, Dwindle, Live
<1>1. TokensKnown'
  BY <1>0 DEF TokensKnown, Calm, Follows
<1>2. AnswersAreNews'
  <2> SUFFICES ASSUME NEW t \in Thread, reqs'[t] # None, reqs'[t].set \in DOMAIN minted
               PROVE  LET n == reqs'[t].set IN
                      /\ \A b \in Browser : jar[b] # n
                      /\ \A u \in Thread : reqs'[u] # None =>
                            reqs'[u].cookie # n /\ (u # t => reqs'[u].set # n)
                      /\ minted[n] \in Live' => sess'[minted[n]].token = n
    BY <1>0 DEF AnswersAreNews
  <2>1. reqs[t] # None /\ reqs'[t].set = reqs[t].set
    BY <1>0 DEF Calm, Follows
  <2>2. \A u \in Thread : reqs'[u] # None =>
           reqs[u] # None /\ reqs'[u].cookie = reqs[u].cookie /\ reqs'[u].set \in {reqs[u].set, Clear}
    BY DEF Calm, Follows
  <2>3. QED
    BY <1>0, <2>1, <2>2 DEF AnswersAreNews
<1>3. OneBrowser'
  <2>1. ASSUME NEW b \in Browser, NEW n \in DOMAIN minted, Holds(b, n)'
        PROVE  Holds(b, n)
    BY <1>0, <2>1 DEF Holds, Calm, Follows
  <2>2. QED
    BY <1>0, <2>1 DEF OneBrowser
<1>4. RotatedIsOwn'
  BY <1>0 DEF RotatedIsOwn, Calm, Follows
<1>5. CookieFollows'
  <2> SUFFICES ASSUME NEW b \in Browser, jar[b] # None, NEW i, i = minted[jar[b]],
                      i \in Live', sess'[i].token # jar[b], sess'[i].token \notin dropped'
               PROVE  \E t \in Thread : /\ reqs'[t] # None /\ reqs'[t].from = b
                                        /\ reqs'[t].set = sess'[i].token
    BY <1>0 DEF CookieFollows, HoldsOld, OnItsWay
  <2>1. i \in Live /\ sess'[i].token = sess[i].token /\ sess[i].token \notin dropped
    BY <1>0 DEF Calm
  <2>2. PICK t \in Thread : reqs[t] # None /\ reqs[t].from = b /\ reqs[t].set = sess[i].token
    BY <1>0, <2>1 DEF CookieFollows, HoldsOld, OnItsWay
  <2>3. reqs[t].set \in DOMAIN minted /\ minted[reqs[t].set] = i
    BY <1>0, <2>1, <2>2 DEF TokensKnown
  <2>4. reqs'[t] # None /\ reqs'[t].set = reqs[t].set
    BY <2>1, <2>2, <2>3 DEF Calm, Follows, Live
  <2>5. QED
    BY <2>1, <2>2, <2>4 DEF Calm, Follows
<1>6. QED
  BY <1>1, <1>2, <1>3, <1>4, <1>5 DEF CookieInv

(* The ways a handler leaves its request.                                  *)
LEMMA SameFollows ==
    ASSUME TypeOK, RotatedIsOwn, NEW t \in Thread, reqs'[t] = reqs[t]
    PROVE  Follows(t)
  BY DEF Follows, RotatedIsOwn

LEMMA StepFollows ==
    ASSUME TypeOK, RotatedIsOwn, NEW t \in Thread, NEW r, Step(t, r),
           reqs'[t] = r => Follows(t)
    PROVE  \A u \in Thread : Follows(u)
<1>1. reqs'[t] = r /\ \A u \in Thread : u # t => reqs'[u] = reqs[u]
  BY DEF TypeOK, Step
<1>2. QED
  BY <1>1, SameFollows

LEMMA GotoFollows ==
    ASSUME TypeOK, RotatedIsOwn, NEW t \in Thread, NEW p, At(t, p), p # "answered",
           NEW pc \in {"stale", "gate", "rotate", "lost", "handle", "verified", "hub", "accept", "answered"},
           pc \in {"handle", "verified", "answered"} \/ p \notin {"handle", "verified"},
           Goto(t, pc)
    PROVE  \A u \in Thread : Follows(u)
<1>1. reqs[t] \in RequestRecord /\ reqs[t] # None /\ reqs[t].pc = p
  BY RequestType DEF At
<1>2. ASSUME reqs'[t] = [reqs[t] EXCEPT !.pc = pc]
      PROVE  Follows(t)
  <2>1. /\ reqs'[t].from = reqs[t].from /\ reqs'[t].cookie = reqs[t].cookie
        /\ reqs'[t].set = reqs[t].set /\ reqs'[t].kind = reqs[t].kind
        /\ reqs'[t].sid = reqs[t].sid /\ reqs'[t].pc = pc
    BY <1>1, <1>2 DEF RequestRecord
  <2>2. reqs[t].set # None => p \in {"handle", "verified"}
    BY <1>1 DEF RotatedIsOwn
  <2>3. [reqs[t] EXCEPT !.pc = pc] \in RequestRecord
    BY <1>1 DEF RequestRecord
  <2>4. QED
    BY <1>1, <1>2, <2>1, <2>2, <2>3, NoneAssumption DEF Follows
<1>3. QED
  BY <1>2, StepFollows DEF Goto

LEMMA DropFollows ==
    ASSUME TypeOK, RotatedIsOwn, NEW t \in Thread, NEW p, At(t, p), reqs[t].set \notin DOMAIN minted,
           Step(t, None)
    PROVE  \A u \in Thread : Follows(u)
  BY StepFollows DEF Follows

LEMMA DoneFollows ==
    ASSUME TypeOK, RotatedIsOwn, NEW t \in Thread, NEW p, At(t, p), p # "answered", Done(t)
    PROVE  \A u \in Thread : Follows(u)
<1>1. None \notin DOMAIN minted
  BY TokenIsNat
<1>2. QED
  BY <1>1, GotoFollows, DropFollows DEF Done

LEMMA RawFollows ==
    ASSUME TypeOK, RotatedIsOwn, NEW t \in Thread, RawDone(t)
    PROVE  \A u \in Thread : Follows(u)
<1>1. reqs'[t] = None => Follows(t)
  <2>1. \A n \in DOMAIN minted : n # None
    BY TokenIsNat
  <2>2. reqs[t].set \in DOMAIN minted => reqs[t].set \in dropped'
    BY <2>1 DEF RawDone
  <2>3. QED
    BY <2>2 DEF Follows
<1>2. QED
  BY <1>1, StepFollows DEF RawDone

LEMMA ClearFollows ==
    ASSUME TypeOK, RotatedIsOwn, NEW t \in Thread, NEW p, At(t, p), Answer(t, Clear),
           reqs[t].set \in DOMAIN minted => sess'[minted[reqs[t].set]] = None
    PROVE  \A u \in Thread : Follows(u)
<1>1. reqs[t] \in RequestRecord /\ reqs[t] # None
  BY RequestType DEF At
<1>2. ASSUME reqs'[t] = [reqs[t] EXCEPT !.pc = "answered", !.set = Clear]
      PROVE  Follows(t)
  <2>1. /\ reqs'[t].from = reqs[t].from /\ reqs'[t].cookie = reqs[t].cookie
        /\ reqs'[t].set = Clear /\ reqs'[t].pc = "answered"
    BY <1>1, <1>2 DEF RequestRecord
  <2>2. QED
    BY <1>1, <2>1 DEF Follows
<1>3. QED
  BY <1>2, StepFollows DEF Answer

LEMMA LoadedFollows ==
    ASSUME TypeOK, RotatedIsOwn, NEW t \in Thread, At(t, "arrived"),
           NEW r, Step(t, r), r.from = reqs[t].from, r.cookie = reqs[t].cookie, r.set = reqs[t].set
    PROVE  \A u \in Thread : Follows(u)
<1>1. reqs[t] \in RequestRecord /\ reqs[t] # None /\ reqs[t].set = None
  BY RequestType DEF At, RotatedIsOwn
<1>2. None \notin DOMAIN minted
  BY TokenIsNat
<1>3. reqs'[t] = r => Follows(t)
  BY <1>1, <1>2 DEF Follows
<1>4. QED
  BY <1>3, StepFollows

LEMMA ServeFollows ==
    ASSUME TypeOK, RotatedIsOwn, NEW t \in Thread, Serve(t), minted' = minted
    PROVE  \A u \in Thread : Follows(u)
<1>0. /\ \A p : At(t, p) => reqs[t] # None /\ reqs[t].pc = p /\ reqs[t] \in RequestRecord
      /\ \A n \in DOMAIN minted : n # None /\ minted[n] \in SessionId
  BY RequestType, TokenIsNat DEF At
<1>1. CASE LoadSession(t)
  <2>1. ASSUME NEW i \in SessionId, Step(t, Loaded(t, i))
        PROVE  \A u \in Thread : Follows(u)
    BY <1>1, <2>1, LoadedIs, LoadedFollows DEF LoadSession
  <2>2. QED
    BY <1>1, <2>1, DoneFollows DEF LoadSession, SessionOf, Live, Loaded
<1>2. CASE WsLoads(t)
  <2>1. ASSUME NEW i \in SessionId, Step(t, [reqs[t] EXCEPT !.pc = "gate", !.sid = i])
        PROVE  \A u \in Thread : Follows(u)
    <3> DEFINE r == [reqs[t] EXCEPT !.pc = "gate", !.sid = i]
    <3>1. r.from = reqs[t].from /\ r.cookie = reqs[t].cookie /\ r.set = reqs[t].set
      BY <1>0, <1>2 DEF WsLoads, Is, RequestRecord
    <3>2. QED
      BY <1>2, <2>1, <3>1, LoadedFollows DEF WsLoads, Is
  <2>2. At(t, "arrived") /\ reqs[t] # None /\ reqs[t].pc = "arrived"
    BY <1>0, <1>2 DEF WsLoads, Is
  <2>3. reqs[t].set \notin DOMAIN minted
    BY <1>0, <2>2 DEF RotatedIsOwn
  <2>4. QED
    BY <1>2, <2>1, <2>2, <2>3, DropFollows DEF WsLoads, SessionOf, Live
<1>3. CASE WsGate(t) \/ HubChecks(t) \/ Accept(t)
  <2>1. PICK p \in {"gate", "hub", "accept"} : Is(t, p, "ws")
    BY <1>3 DEF WsGate, HubChecks, Accept
  <2>2. reqs[t].set \notin DOMAIN minted
    BY <1>0, <2>1 DEF Is, RotatedIsOwn, Guarded
  <2>3. Step(t, None) \/ Goto(t, "hub") \/ Goto(t, "accept")
    BY <1>3 DEF WsGate, HubChecks, Accept
  <2>4. QED
    BY <2>1, <2>2, <2>3, DropFollows, GotoFollows DEF Is
<1>4. CASE DropStale(t) \/ Gate(t) \/ AfterLostSwap(t) \/ LoginChecks(t) \/ Claim(t)
  <2>1. PICK p \in {"arrived", "stale", "gate", "lost"} : At(t, p)
    BY <1>4 DEF DropStale, Gate, AfterLostSwap, LoginChecks, Claim, Is
  <2>2. Done(t) \/ \E pc \in {"rotate", "handle", "verified"} : Goto(t, pc)
    BY <1>4 DEF DropStale, Gate, AfterLostSwap, LoginChecks, Claim
  <2>3. QED
    BY <2>1, <2>2, DoneFollows, GotoFollows
<1>5. CASE AnswersRaw(t) \/ Use(t) \/ EndSession(t) \/ EndOthers(t) \/ Verify(t) \/ ChangePassword(t)
  <2>1. PICK p \in {"handle", "verified"} : At(t, p)
    BY <1>5 DEF AnswersRaw, Use, EndSession, EndOthers, Verify, ChangePassword, Is
  <2>2. Done(t) \/ Goto(t, "verified") \/ RawDone(t)
    BY <1>5 DEF AnswersRaw, Use, EndSession, EndOthers, Verify, ChangePassword
  <2>3. QED
    BY <2>1, <2>2, DoneFollows, GotoFollows, RawFollows
<1>6. CASE Logout(t)
  <2>1. ASSUME reqs[t].set \in DOMAIN minted
        PROVE  sess'[minted[reqs[t].set]] = None
    <3>1. minted[reqs[t].set] = reqs[t].sid /\ minted[reqs[t].set] \in SessionId
      BY <1>0, <1>6, <2>1 DEF Logout, Is, RotatedIsOwn
    <3>2. QED
      BY <1>6, <3>1 DEF Logout, Ended
  <2>2. QED
    BY <1>6, <2>1, ClearFollows DEF Logout, Is
<1>7. CASE DeleteMe(t) \/ ResetConfirm(t)
  <2>1. \A i \in SessionId : sess'[i] = None
    BY <1>7 DEF DeleteMe, ResetConfirm, Ended
  <2>2. At(t, "verified") /\ Answer(t, Clear)
    BY <1>7 DEF DeleteMe, ResetConfirm, Is
  <2>3. QED
    BY <1>0, <2>1, <2>2, ClearFollows
<1>8. CASE Rotate(t)
  <2>1. ~\E i \in SessionId : minted' = Append(minted, i)
    BY Appended
  <2>2. Goto(t, "lost")
    BY <1>8, <2>1 DEF Rotate, Swappable, Live
  <2>3. QED
    BY <1>8, <2>2, GotoFollows DEF Rotate
<1>9. CASE LoginInserts(t)
  <2>1. ~\E i \in SessionId : minted' = Append(minted, i)
    BY Appended
  <2>2. QED
    BY <1>9, <2>1, DoneFollows DEF LoginInserts, Is
<1>10. QED
  BY <1>1, <1>2, <1>3, <1>4, <1>5, <1>6, <1>7, <1>8, <1>9 DEF Serve

LEMMA ServeCalm ==
    ASSUME TypeOK, RotatedIsOwn, NEW t \in Thread, Serve(t), minted' = minted
    PROVE  Calm
<1>1. Dwindle
  <2>1. ~\E i \in SessionId : minted' = Append(minted, i)
    BY Appended
  <2>2. Rotate(t) => sess' = sess
    BY <2>1 DEF Rotate, Swappable, Live
  <2>3. LoginInserts(t) => sess' = sess
    BY <2>1 DEF LoginInserts
  <2>4. QED
    BY <2>2, <2>3, SameDwindle, ServeDwindle
<1>2. jar' = jar
  BY DEF Serve, LoadSession, DropStale, AnswersRaw, Gate, Rotate, AfterLostSwap, Use, Logout, EndSession, EndOthers, Verify,
     ChangePassword, DeleteMe, LoginChecks, LoginInserts, Claim, ResetConfirm, WsLoads, WsGate,
     HubChecks, Accept
<1>3. dropped \subseteq dropped'
  BY DEF Serve, LoadSession, DropStale, AnswersRaw, RawDone, Gate, Rotate, AfterLostSwap, Use, Logout, EndSession, EndOthers, Verify,
     ChangePassword, DeleteMe, LoginChecks, LoginInserts, Claim, ResetConfirm, WsLoads, WsGate,
     HubChecks, Accept
<1>4. QED
  BY <1>1, <1>2, <1>3, ServeFollows DEF Calm

LEMMA OtherCalm ==
    ASSUME TypeOK, RotatedIsOwn, [Next]_vars, ~Send, ~Receive, \A t \in Thread : ~Serve(t)
    PROVE  Calm
<1>1. Dwindle
  BY OtherDwindle
<1>2. jar' = jar
  BY DEF Next, LoseAnswer, HubRevokes, LoseRevoke, CloseSocket, ResetRequest, Deactivate, Activate,
     AdminResets, Age, MailExpires, CollectExpired, vars
<1>3. CASE LoseAnswer
  <2>1. PICK t \in Thread : /\ At(t, "answered") /\ Step(t, None)
                            /\ dropped' = IF reqs[t].set \in DOMAIN minted
                                          THEN dropped \cup {reqs[t].set} ELSE dropped
    BY <1>3 DEF LoseAnswer
  <2>2. reqs'[t] = None => Follows(t)
    BY <2>1 DEF Follows
  <2>3. \A u \in Thread : Follows(u)
    BY <2>1, <2>2, StepFollows
  <2>4. QED
    BY <1>1, <1>2, <2>1, <2>3 DEF Calm
<1>4. CASE ~LoseAnswer
  <2>1. reqs' = reqs /\ dropped \subseteq dropped'
    BY <1>4 DEF Next, HubRevokes, LoseRevoke, CloseSocket, ResetRequest, Deactivate, Activate,
       AdminResets, Age, MailExpires, CollectExpired, vars
  <2>2. \A u \in Thread : Follows(u)
    BY <2>1, SameFollows
  <2>3. QED
    BY <1>1, <1>2, <2>1, <2>2 DEF Calm
<1>5. QED
  BY <1>3, <1>4

LEMMA SendKeeps ==
    ASSUME CookieInv, TypeOK', Send
    PROVE  CookieInv'
<1>0. /\ TypeOK /\ TokensKnown /\ AnswersAreNews /\ OneBrowser /\ RotatedIsOwn /\ CookieFollows
      /\ minted' = minted /\ jar' = jar /\ sess' = sess /\ dropped' = dropped /\ Live' = Live
      /\ \A n \in DOMAIN minted : n \in Nat /\ n # None /\ n # Clear /\ minted[n] \in SessionId
  BY TokenIsNat DEF CookieInv, Send, dbVars, Live
<1>1. PICK t \in Thread, b \in Browser :
        /\ reqs[t] = None /\ reqs'[t].from = b /\ reqs'[t].cookie = jar[b] /\ reqs'[t].set = None
        /\ \A u \in Thread : u # t => reqs'[u] = reqs[u]
  <2>1. PICK t \in Thread, b \in Browser, kind \in Routes : \E target \in Targets(kind) :
                reqs[t] = None /\ Step(t, Request(kind, b, Presented(kind), target))
    BY DEF Send
  <2>2. PICK target \in Targets(kind) : Step(t, Request(kind, b, Presented(kind), target))
    BY <2>1
  <2>3. /\ reqs'[t] = Request(kind, b, Presented(kind), target)
        /\ \A u \in Thread : u # t => reqs'[u] = reqs[u]
    BY <1>0, <2>2 DEF Step, TypeOK
  <2>4. QED
    BY <2>1, <2>3 DEF Request
<1>2. TokensKnown'
  BY <1>0, <1>1 DEF TokensKnown
<1>3. AnswersAreNews'
  BY <1>0, <1>1 DEF AnswersAreNews
<1>4. OneBrowser'
  <2>1. ASSUME NEW c \in Browser, NEW n \in DOMAIN minted, Holds(c, n)'
        PROVE  Holds(c, n)
    BY <1>0, <1>1, <2>1 DEF Holds
  <2>2. QED
    BY <1>0, <2>1 DEF OneBrowser
<1>5. RotatedIsOwn'
  BY <1>0, <1>1 DEF RotatedIsOwn
<1>6. CookieFollows'
  BY <1>0, <1>1 DEF CookieFollows, HoldsOld, OnItsWay
<1>7. QED
  BY <1>2, <1>3, <1>4, <1>5, <1>6 DEF CookieInv

LEMMA ReceiveKeeps ==
    ASSUME CookieInv, TypeOK', Receive
    PROVE  CookieInv'
<1>0. /\ TypeOK /\ TokensKnown /\ AnswersAreNews /\ OneBrowser /\ RotatedIsOwn /\ CookieFollows
      /\ minted' = minted /\ sess' = sess /\ dropped' = dropped /\ Live' = Live
      /\ \A n \in DOMAIN minted : n \in Nat /\ n # None /\ n # Clear /\ minted[n] \in SessionId
  BY TokenIsNat DEF CookieInv, Receive, dbVars, Live
<1>a. PICK t \in Thread :
        /\ At(t, "answered") /\ Step(t, None)
        /\ jar' = [jar EXCEPT ![reqs[t].from] =
               IF reqs[t].set = None THEN @ ELSE IF reqs[t].set = Clear THEN None ELSE reqs[t].set]
  BY DEF Receive
<1> DEFINE b == reqs[t].from
           n == reqs[t].set
<1>1. /\ reqs[t] # None /\ b \in Browser /\ n \in Nat \cup {None, Clear}
      /\ reqs'[t] = None /\ \A u \in Thread : u # t => reqs'[u] = reqs[u]
      /\ jar'[b] = IF n = None THEN jar[b] ELSE IF n = Clear THEN None ELSE n
      /\ \A c \in Browser : c # b => jar'[c] = jar[c]
  <2>1. reqs[t] \in RequestRecord /\ reqs[t] # None
    BY <1>0, <1>a, RequestType DEF At
  <2>2. b \in Browser /\ n \in Nat \cup {None, Clear}
    BY <2>1 DEF RequestRecord
  <2>3. QED
    BY <1>0, <1>a, <2>1, <2>2 DEF TypeOK, Step
<1>2. n \notin {None, Clear} => n \in DOMAIN minted
  BY <1>0, <1>1 DEF TokensKnown
<1> HIDE DEF b, n
<1>3. TokensKnown'
  <2>1. \A c \in Browser : jar'[c] # None => jar'[c] \in DOMAIN minted
    BY <1>0, <1>1, <1>2 DEF TokensKnown
  <2>2. QED
    BY <1>0, <1>1, <2>1 DEF TokensKnown
<1>4. AnswersAreNews'
  <2> SUFFICES ASSUME NEW u \in Thread, u # t, reqs[u] # None, reqs[u].set \in DOMAIN minted
               PROVE  LET m == reqs[u].set IN
                      /\ \A c \in Browser : jar'[c] # m
                      /\ \A w \in Thread : reqs'[w] # None =>
                            reqs'[w].cookie # m /\ (w # u => reqs'[w].set # m)
                      /\ minted[m] \in Live => sess[minted[m]].token = m
    BY <1>0, <1>1 DEF AnswersAreNews
  <2>1. n # reqs[u].set
    BY <1>0, <1>1 DEF AnswersAreNews, n
  <2>2. QED
    BY <1>0, <1>1, <2>1 DEF AnswersAreNews
<1>5. OneBrowser'
  <2>1. ASSUME NEW c \in Browser, NEW m \in DOMAIN minted, Holds(c, m)'
        PROVE  Holds(c, m)
    BY <1>0, <1>1, <2>1 DEF Holds, b, n
  <2>2. QED
    BY <1>0, <2>1 DEF OneBrowser
<1>6. RotatedIsOwn'
  BY <1>0, <1>1 DEF RotatedIsOwn
<1>7. CookieFollows'
  <2> DEFINE Outdated(i, m) == i \in Live /\ sess[i].token # m /\ sess[i].token \notin dropped
             Coming(c, i) == \E u \in Thread : /\ reqs'[u] # None /\ reqs'[u].from = c
                                               /\ reqs'[u].set = sess[i].token
  <2>0. SUFFICES ASSUME NEW c \in Browser, jar'[c] # None, Outdated(minted[jar'[c]], jar'[c])
                 PROVE  Coming(c, minted[jar'[c]])
    BY <1>0 DEF CookieFollows, HoldsOld, OnItsWay
  <2> DEFINE i == minted[jar'[c]]
  <2>1. CASE c = b /\ n \notin {None, Clear}
    <3>1. jar'[c] = n /\ n \in DOMAIN minted
      BY <1>1, <1>2, <2>1
    <3>2. QED
      BY <1>0, <1>1, <2>0, <3>1 DEF AnswersAreNews, n
  <2>2. CASE ~(c = b /\ n \notin {None, Clear})
    <3>1. jar'[c] = jar[c]
      BY <1>1, <2>0, <2>2
    <3>2. PICK u \in Thread : reqs[u] # None /\ reqs[u].from = c /\ reqs[u].set = sess[i].token
      BY <1>0, <2>0, <3>1 DEF CookieFollows, HoldsOld, OnItsWay
    <3>3. reqs[u].set \in DOMAIN minted
      BY <1>0, <2>0, <3>2 DEF TokensKnown
    <3>4. u # t
      BY <1>0, <2>2, <3>2, <3>3 DEF b, n
    <3>5. QED
      BY <1>1, <3>2, <3>4
  <2>3. QED
    BY <2>1, <2>2
<1>8. QED
  BY <1>3, <1>4, <1>5, <1>6, <1>7 DEF CookieInv

(* A token minted for session i, on its way to the browser of thread t:    *)
(* that browser alone has tokens of i, and no other is under way.          *)
Mints(t, i) ==
    /\ minted' = Append(minted, i) /\ jar' = jar /\ dropped' = dropped
    /\ sess'[i] # None /\ sess'[i].token = Len(minted')
    /\ \A j \in SessionId : j # i => sess'[j] = sess[j]
    /\ reqs[t] # None /\ reqs[t].set = None
    /\ reqs'[t] # None /\ reqs'[t].set = Len(minted')
    /\ reqs'[t].from = reqs[t].from /\ reqs'[t].cookie = reqs[t].cookie
    /\ \/ reqs'[t].pc = "answered"
       \/ reqs'[t].pc = "handle" /\ reqs'[t].kind \in Guarded /\ reqs'[t].sid = i
    /\ \A u \in Thread : u # t => reqs'[u] = reqs[u]
    /\ \A b \in Browser, m \in DOMAIN minted : Holds(b, m) /\ minted[m] = i => b = reqs[t].from
    /\ \A u \in Thread : reqs[u] # None /\ reqs[u].set \in DOMAIN minted => minted[reqs[u].set] # i

LEMMA MintKeeps ==
    ASSUME CookieInv, TypeOK', NEW t \in Thread, NEW i \in SessionId, Mints(t, i)
    PROVE  CookieInv'
<1> DEFINE n == Len(minted')
<1>0. /\ TypeOK /\ TokensKnown /\ AnswersAreNews /\ OneBrowser /\ RotatedIsOwn /\ CookieFollows
      /\ \A m \in DOMAIN minted : m \in Nat /\ m # None /\ m # Clear /\ minted[m] \in SessionId
  BY TokenIsNat DEF CookieInv
<1>1. /\ n \in Nat /\ n # None /\ n # Clear /\ n \notin DOMAIN minted
      /\ DOMAIN minted' = DOMAIN minted \cup {n} /\ minted'[n] = i
      /\ \A m \in DOMAIN minted : minted'[m] = minted[m]
  BY <1>0, Appended, NoneAssumption DEF Mints
<1>2. /\ jar' = jar /\ dropped' = dropped
      /\ sess'[i] # None /\ sess'[i].token = n
      /\ \A j \in SessionId : j # i => sess'[j] = sess[j]
      /\ reqs[t] # None /\ reqs[t].set = None /\ reqs'[t] # None /\ reqs'[t].set = n
      /\ reqs'[t].from = reqs[t].from /\ reqs'[t].cookie = reqs[t].cookie
      /\ \A u \in Thread : u # t => reqs'[u] = reqs[u]
  BY DEF Mints
<1>3. reqs[t] \in RequestRecord /\ reqs[t].from \in Browser
  BY <1>0, <1>2 DEF TypeOK, RequestRecord
<1> HIDE DEF n
<1>4. /\ \A b \in Browser : jar[b] # n
      /\ \A u \in Thread : reqs[u] # None => reqs[u].cookie # n /\ reqs[u].set # n
      /\ \A j \in Live : sess[j].token # n
  BY <1>0, <1>1 DEF TokensKnown
<1>5. TokensKnown'
  <2>1. \A j \in Live' : sess'[j].token \in DOMAIN minted' /\ minted'[sess'[j].token] = j
    BY <1>0, <1>1, <1>2 DEF TokensKnown, Live
  <2>2. \A u \in Thread : reqs'[u] # None =>
          /\ reqs'[u].cookie # None => reqs'[u].cookie \in DOMAIN minted'
          /\ reqs'[u].set \notin {None, Clear} => reqs'[u].set \in DOMAIN minted'
    BY <1>0, <1>1, <1>2 DEF TokensKnown
  <2>3. QED
    BY <1>0, <1>1, <1>2, <2>1, <2>2 DEF TokensKnown
<1>6. AnswersAreNews'
  <2> SUFFICES ASSUME NEW u \in Thread, reqs'[u] # None, reqs'[u].set \in DOMAIN minted'
               PROVE  LET m == reqs'[u].set IN
                      /\ \A b \in Browser : jar'[b] # m
                      /\ \A w \in Thread : reqs'[w] # None =>
                            reqs'[w].cookie # m /\ (w # u => reqs'[w].set # m)
                      /\ minted'[m] \in Live' => sess'[minted'[m]].token = m
    BY DEF AnswersAreNews
  <2>1. CASE u = t
    BY <1>1, <1>2, <1>4, <2>1
  <2>2. CASE u # t
    <3>1. reqs[u] # None /\ reqs'[u].set = reqs[u].set /\ reqs[u].set \in DOMAIN minted
      BY <1>1, <1>2, <1>4, <2>2
    <3>2. minted[reqs[u].set] # i /\ minted'[reqs[u].set] = minted[reqs[u].set]
      BY <1>1, <3>1 DEF Mints
    <3>3. /\ \A b \in Browser : jar[b] # reqs[u].set
          /\ \A w \in Thread : reqs[w] # None =>
                reqs[w].cookie # reqs[u].set /\ (w # u => reqs[w].set # reqs[u].set)
          /\ minted[reqs[u].set] \in Live => sess[minted[reqs[u].set]].token = reqs[u].set
      BY <1>0, <3>1 DEF AnswersAreNews
    <3>4. minted[reqs[u].set] \in SessionId
      BY <1>0, <3>1
    <3>5. QED
      BY <1>2, <1>4, <3>1, <3>2, <3>3, <3>4 DEF Live
  <2>3. QED
    BY <2>1, <2>2
<1>7. OneBrowser'
  <2>1. ASSUME NEW b \in Browser, NEW m \in DOMAIN minted', Holds(b, m)'
        PROVE  (m # n /\ Holds(b, m)) \/ (m = n /\ b = reqs[t].from)
    <3>1. CASE jar[b] = m
      BY <1>4, <3>1 DEF Holds
    <3>2. CASE jar[b] # m
      <4>1. PICK u \in Thread : reqs'[u] # None /\ reqs'[u].from = b /\ (reqs'[u].cookie = m \/ reqs'[u].set = m)
        BY <1>2, <2>1, <3>2 DEF Holds
      <4>2. CASE u = t
        BY <1>2, <1>4, <4>1, <4>2 DEF Holds
      <4>3. CASE u # t
        BY <1>2, <1>4, <4>1, <4>3 DEF Holds
      <4>4. QED
        BY <4>2, <4>3
    <3>3. QED
      BY <3>1, <3>2
  <2>2. ASSUME NEW b \in Browser, NEW m \in DOMAIN minted', Holds(b, m)', minted'[m] = i
        PROVE  b = reqs[t].from
    <3>1. CASE m = n
      BY <2>1, <2>2, <3>1
    <3>2. CASE m # n
      <4>1. m \in DOMAIN minted /\ Holds(b, m) /\ minted[m] = i
        BY <1>1, <2>1, <2>2, <3>2
      <4>2. QED
        BY <4>1 DEF Mints
    <3>3. QED
      BY <3>1, <3>2
  <2>3. SUFFICES ASSUME NEW b \in Browser, NEW c \in Browser,
                        NEW m \in DOMAIN minted', NEW k \in DOMAIN minted',
                        Holds(b, m)', Holds(c, k)', minted'[m] = minted'[k]
                 PROVE  b = c
    BY DEF OneBrowser
  <2>4. CASE minted'[m] = i
    BY <2>2, <2>3, <2>4
  <2>5. CASE minted'[m] # i
    <3>1. m # n /\ k # n
      BY <1>1, <2>3, <2>5
    <3>2. /\ m \in DOMAIN minted /\ k \in DOMAIN minted
          /\ Holds(b, m) /\ Holds(c, k) /\ minted[m] = minted[k]
      BY <1>1, <2>1, <2>3, <3>1
    <3>3. QED
      BY <1>0, <3>2 DEF OneBrowser
  <2>6. QED
    BY <2>4, <2>5
<1>8. RotatedIsOwn'
  <2> SUFFICES ASSUME NEW u \in Thread, reqs'[u] # None, reqs'[u].set # None, reqs'[u].pc # "answered"
               PROVE  /\ reqs'[u].kind \in Guarded /\ reqs'[u].pc \in {"handle", "verified"}
                      /\ reqs'[u].set \in DOMAIN minted' /\ minted'[reqs'[u].set] = reqs'[u].sid
    BY DEF RotatedIsOwn
  <2>1. CASE u = t
    BY <1>1, <1>2, <2>1 DEF Mints
  <2>2. CASE u # t
    BY <1>0, <1>1, <1>2, <2>2 DEF RotatedIsOwn
  <2>3. QED
    BY <2>1, <2>2
<1>9. CookieFollows'
  <2> DEFINE Outdated(j, m) == j \in Live' /\ sess'[j].token # m /\ sess'[j].token \notin dropped
             Coming(b, j) == \E u \in Thread : /\ reqs'[u] # None /\ reqs'[u].from = b
                                               /\ reqs'[u].set = sess'[j].token
  <2>1. SUFFICES ASSUME NEW b \in Browser, jar[b] # None, Outdated(minted'[jar[b]], jar[b])
                 PROVE  Coming(b, minted'[jar[b]])
    BY <1>2 DEF CookieFollows, HoldsOld, OnItsWay
  <2> DEFINE j == minted[jar[b]]
  <2>2. jar[b] \in DOMAIN minted /\ minted'[jar[b]] = j /\ j \in SessionId
    BY <1>0, <1>1, <2>1 DEF TokensKnown
  <2>3. CASE j = i
    <3>1. b = reqs[t].from
      BY <2>2, <2>3 DEF Mints, Holds
    <3>2. QED
      BY <1>2, <2>2, <2>3, <3>1
  <2>4. CASE j # i
    <3>1. j \in Live /\ sess'[j] = sess[j]
      BY <1>2, <2>1, <2>2, <2>4 DEF Live
    <3>2. PICK u \in Thread : reqs[u] # None /\ reqs[u].from = b /\ reqs[u].set = sess[j].token
      BY <1>0, <2>1, <2>2, <3>1 DEF CookieFollows, HoldsOld, OnItsWay
    <3>3. u # t
      BY <1>0, <1>2, <3>1, <3>2 DEF TokensKnown
    <3>4. QED
      BY <1>2, <2>2, <3>1, <3>2, <3>3
  <2>5. QED
    BY <2>3, <2>4
<1>10. QED
  BY <1>5, <1>6, <1>7, <1>8, <1>9 DEF CookieInv

LEMMA RotateKeeps ==
    ASSUME CookieInv, TypeOK', NEW t \in Thread, Rotate(t), minted' # minted
    PROVE  CookieInv'
<1> DEFINE r == reqs[t]
           i == r.sid
           n == Len(minted')
<1>0. /\ TypeOK /\ TokensKnown /\ AnswersAreNews /\ OneBrowser /\ RotatedIsOwn
      /\ \A m \in DOMAIN minted : m # None
  BY TokenIsNat DEF CookieInv
<1>1. r \in RequestRecord /\ r # None /\ r.pc = "rotate" /\ r.set = None
  BY <1>0, RequestType DEF Rotate, At, RotatedIsOwn
<1>2. /\ i \in Live /\ sess[i].token = r.cookie /\ r.kind \in Guarded
      /\ minted' = Append(minted, i)
      /\ sess' = [sess EXCEPT ![i] = [sess[i] EXCEPT !.token = n, !.age = "fresh"]]
      /\ Step(t, [r EXCEPT !.pc = "handle", !.set = n])
  BY DEF Rotate, Swappable
<1>3. jar' = jar /\ dropped' = dropped
  BY DEF Rotate
<1>4. i \in SessionId /\ sess[i] \in SessionRow /\ n \in Nat
  <2>1. i \in SessionId /\ sess[i] \in SessionRow
    BY <1>0, <1>2 DEF Live, TypeOK
  <2>2. QED
    BY <1>0, <1>2, <2>1, Appended
<1>5. /\ sess'[i] # None /\ sess'[i].token = n
      /\ \A j \in SessionId : j # i => sess'[j] = sess[j]
  <2>1. sess'[i] = [sess[i] EXCEPT !.token = n, !.age = "fresh"]
    BY <1>0, <1>2, <1>4 DEF TypeOK
  <2>2. sess'[i] \in SessionRow /\ sess'[i].token = n
    BY <1>4, <2>1 DEF SessionRow
  <2>3. QED
    BY <1>0, <1>2, <1>4, <2>2, NoneAssumption DEF TypeOK
<1>6. /\ reqs'[t] # None /\ reqs'[t].set = n
      /\ reqs'[t].from = r.from /\ reqs'[t].cookie = r.cookie
      /\ reqs'[t].pc = "handle" /\ reqs'[t].kind \in Guarded /\ reqs'[t].sid = i
      /\ \A u \in Thread : u # t => reqs'[u] = reqs[u]
  <2>1. reqs'[t] = [r EXCEPT !.pc = "handle", !.set = n] /\ \A u \in Thread : u # t => reqs'[u] = reqs[u]
    BY <1>0, <1>2 DEF Step, TypeOK
  <2>2. [r EXCEPT !.pc = "handle", !.set = n] \in RequestRecord
    BY <1>1, <1>4 DEF RequestRecord
  <2>3. reqs'[t] # None
    BY <2>1, <2>2, NoneAssumption
  <2>4. QED
    BY <1>1, <1>2, <2>1, <2>3 DEF RequestRecord
<1>7. r.cookie \in DOMAIN minted /\ minted[r.cookie] = i
  BY <1>0, <1>2 DEF TokensKnown
<1>8. \A b \in Browser, m \in DOMAIN minted : Holds(b, m) /\ minted[m] = i => b = r.from
  <2>1. r.from \in Browser /\ Holds(r.from, r.cookie)
    BY <1>1 DEF Holds, RequestRecord
  <2>2. QED
    BY <1>0, <1>7, <2>1 DEF OneBrowser
<1>9. \A u \in Thread : reqs[u] # None /\ reqs[u].set \in DOMAIN minted => minted[reqs[u].set] # i
  BY <1>0, <1>1, <1>2 DEF AnswersAreNews
<1>10. Mints(t, i)
  BY <1>1, <1>2, <1>3, <1>5, <1>6, <1>8, <1>9 DEF Mints
<1>11. QED
  BY <1>4, <1>10, MintKeeps

LEMMA LoginKeeps ==
    ASSUME CookieInv, TypeOK', NEW t \in Thread, LoginInserts(t), minted' # minted
    PROVE  CookieInv'
<1> DEFINE r == reqs[t]
           n == Len(minted')
<1>0. TypeOK /\ TokensKnown /\ RotatedIsOwn
  BY DEF CookieInv
<1>1. r \in RequestRecord /\ r # None /\ r.set = None
  BY <1>0, RequestType DEF LoginInserts, Is, At, RotatedIsOwn, Guarded
<1>2. PICK i \in SessionId \ Used :
        /\ minted' = Append(minted, i)
        /\ sess' = [sess EXCEPT ![i] = NewSession(n, r.pw)]
        /\ Answer(t, n)
  BY DEF LoginInserts
<1>3. jar' = jar /\ dropped' = dropped
  BY DEF LoginInserts
<1>4. n \in Nat
  BY <1>0, <1>2, Appended
<1>5. /\ sess'[i] # None /\ sess'[i].token = n
      /\ \A j \in SessionId : j # i => sess'[j] = sess[j]
  <2>1. account # None
    BY DEF LoginInserts
  <2>2. NewSession(n, r.pw) \in SessionRow /\ NewSession(n, r.pw).token = n
    BY <1>0, <1>1, <1>4, <2>1, NewSessionType DEF RequestRecord, NewSession
  <2>3. QED
    BY <1>0, <1>2, <2>2, NoneAssumption DEF TypeOK
<1>6. /\ reqs'[t] # None /\ reqs'[t].set = n /\ reqs'[t].pc = "answered"
      /\ reqs'[t].from = r.from /\ reqs'[t].cookie = r.cookie
      /\ \A u \in Thread : u # t => reqs'[u] = reqs[u]
  <2>1. /\ reqs'[t] = [r EXCEPT !.pc = "answered", !.set = n]
        /\ \A u \in Thread : u # t => reqs'[u] = reqs[u]
    BY <1>0, <1>2 DEF Answer, Step, TypeOK
  <2>2. [r EXCEPT !.pc = "answered", !.set = n] \in RequestRecord
    BY <1>1, <1>4 DEF RequestRecord
  <2>3. QED
    BY <1>1, <2>1, <2>2, NoneAssumption DEF RequestRecord
<1>7. /\ \A b \in Browser, m \in DOMAIN minted : Holds(b, m) /\ minted[m] = i => b = r.from
      /\ \A u \in Thread : reqs[u] # None /\ reqs[u].set \in DOMAIN minted => minted[reqs[u].set] # i
  BY DEF Used
<1>8. Mints(t, i)
  BY <1>1, <1>2, <1>3, <1>5, <1>6, <1>7 DEF Mints
<1>9. QED
  BY <1>8, MintKeeps

LEMMA CookieStep ==
    CookieInv /\ [Next]_vars => CookieInv'
<1> SUFFICES ASSUME CookieInv, [Next]_vars
             PROVE  CookieInv'
  OBVIOUS
<1>0. TypeOK /\ TypeOK' /\ RotatedIsOwn
  BY TypeStep DEF CookieInv
<1>1. CASE Send
  BY <1>0, <1>1, SendKeeps
<1>2. CASE Receive
  BY <1>0, <1>2, ReceiveKeeps
<1>3. CASE \E t \in Thread : Serve(t)
  <2>1. PICK t \in Thread : Serve(t)
    BY <1>3
  <2>2. CASE minted' = minted
    BY <1>0, <2>1, <2>2, ServeCalm, CalmKeeps
  <2>3. CASE minted' # minted
    <3>1. Rotate(t) \/ LoginInserts(t)
      BY <1>0, <2>1, <2>3, ServeDwindle DEF Dwindle
    <3>2. QED
      BY <1>0, <2>3, <3>1, RotateKeeps, LoginKeeps
  <2>4. QED
    BY <2>2, <2>3
<1>4. CASE ~Send /\ ~Receive /\ \A t \in Thread : ~Serve(t)
  BY <1>0, <1>4, OtherCalm, CalmKeeps
<1>5. QED
  BY <1>1, <1>2, <1>3, <1>4

LEMMA CookieInit ==
    Init => CookieInv
<1> SUFFICES ASSUME Init
             PROVE  CookieInv
  OBVIOUS
<1>1. TypeOK /\ \A t \in Thread : reqs[t] = None
  BY TypeInit DEF Init
<1>2. CASE SignedOut
  BY <1>1, <1>2 DEF SignedOut, CookieInv, TokensKnown, AnswersAreNews, OneBrowser, Holds, RotatedIsOwn,
     CookieFollows, HoldsOld, Live
<1>3. CASE \E b \in Browser : SignedIn(b)
  <2>1. PICK b \in Browser : SignedIn(b)
    BY <1>3
  <2>2. /\ DOMAIN minted = {1} /\ minted[1] = 1
        /\ \A i \in Live : i = 1 /\ sess[i].token = 1
        /\ \A c \in Browser : jar[c] # None => c = b /\ jar[c] = 1
    BY <2>1 DEF SignedIn, Live, NewSession
  <2>3. TokensKnown /\ AnswersAreNews /\ RotatedIsOwn /\ CookieFollows
    BY <1>1, <2>2 DEF TokensKnown, AnswersAreNews, RotatedIsOwn, CookieFollows, HoldsOld
  <2>4. OneBrowser
    BY <1>1, <2>2, NoneAssumption DEF OneBrowser, Holds
  <2>5. QED
    BY <1>1, <2>3, <2>4 DEF CookieInv
<1>4. QED
  BY <1>2, <1>3 DEF Init

(* Parallel requests of a browser in a session's final week never leave it *)
(* with a token that a rotation has overwritten: the new one is there, or  *)
(* on its way in an answer, or was in an answer that got lost, or that the *)
(* code made without it.                                                   *)
THEOREM CookieFollowsRotation == Spec => []CookieFollows
<1>1. CookieInv => CookieFollows
  BY DEF CookieInv
<1>2. QED
  BY <1>1, CookieInit, CookieStep, PTL DEF Spec

-----------------------------------------------------------------------------
(* Sockets.                                                                *)

(* What the hub is told of, or history excuses.                            *)
LetGo(i) == i \in excused \/ \E m \in revokes : i \in Victims(m)

(* A step that leaves the sockets alone, and of which the hub will hear if *)
(* it ends a session.                                                      *)
Announced ==
    /\ sockets' = sockets /\ excused \subseteq excused' /\ revokes \subseteq revokes'
    /\ \A i \in SessionId : i \in Live => i \in Live' \/ LetGo(i)'

LEMMA QuietAnnounced ==
    ASSUME sess' = sess, sockets' = sockets, excused' = excused, revokes' = revokes
    PROVE  Announced
  BY DEF Announced, Live

LEMMA RevokeAnnounced ==
    ASSUME NEW type \in {"all", "only", "keep"}, NEW sid, Revoke(type, sid),
           sockets' = sockets, excused' = excused,
           \A i \in SessionId : i \in Live /\ i \notin Live' => i \in Victims([type |-> type, sid |-> sid])
    PROVE  Announced
<1> DEFINE m == [type |-> type, sid |-> sid]
<1>1. m \in revokes' /\ revokes \subseteq revokes'
  BY DEF Revoke
<1>2. \A i : (i \in Victims(m)) => LetGo(i)'
  BY <1>1 DEF LetGo
<1>3. QED
  BY <1>1, <1>2 DEF Announced

LEMMA VictimsAre ==
    ASSUME NEW sid
    PROVE  /\ Victims([type |-> "all", sid |-> sid]) = SessionId
           /\ Victims([type |-> "only", sid |-> sid]) = {sid}
           /\ Victims([type |-> "keep", sid |-> sid]) = SessionId \ {sid}
  BY DEF Victims

LEMMA ServeAnnounced ==
    ASSUME TypeOK, NEW t \in Thread, Serve(t), ~Accept(t)
    PROVE  Announced
<1> USE DEF dbVars
<1>1. CASE DropStale(t)
  <2> DEFINE old == {reqs[t].sid}
  <2>1. sess' = Ended(old) /\ excused' = excused \cup old /\ sockets' = sockets /\ revokes' = revokes
    BY <1>1 DEF DropStale
  <2>2. \A i \in SessionId : i \in Live => i \in Live' \/ i \in excused'
    BY <2>1 DEF Live, Ended
  <2>3. QED
    BY <2>1, <2>2 DEF Announced, LetGo
<1>2. CASE Logout(t)
  <2>1. \A i \in SessionId : i \in Live /\ i \notin Live' => i = reqs[t].sid
    BY <1>2 DEF Logout, Live, Ended
  <2>2. QED
    BY <1>2, <2>1, VictimsAre, RevokeAnnounced DEF Logout
<1>3. CASE EndSession(t)
  <2>1. \A i \in SessionId : i \in Live /\ i \notin Live' => i = reqs[t].target
    BY <1>3 DEF EndSession, Live, Ended
  <2>2. QED
    BY <1>3, <2>1, VictimsAre, RevokeAnnounced DEF EndSession
<1>4. CASE EndOthers(t)
  <2>1. \A i \in SessionId : i \in Live /\ i \notin Live' => i # reqs[t].sid
    BY <1>4 DEF EndOthers, Live, Ended
  <2>2. \A i \in SessionId : i # reqs[t].sid => i \in Victims([type |-> "keep", sid |-> reqs[t].sid])
    BY VictimsAre
  <2>3. QED
    BY <1>4, <2>1, <2>2, RevokeAnnounced DEF EndOthers
<1>5. CASE ChangePassword(t)
  <2>0. \A i \in SessionId : sess[i] # None => [sess[i] EXCEPT !.pw = passwords'] # None
    <3>1. passwords' \in Nat
      BY <1>5 DEF ChangePassword, SetPassword, TypeOK
    <3>2. \A i \in SessionId : sess[i] # None => [sess[i] EXCEPT !.pw = passwords'] \in SessionRow
      BY <3>1 DEF TypeOK, SessionRow
    <3>3. QED
      BY <3>2, NoneAssumption
  <2>1. \A i \in SessionId : i \in Live /\ i \notin Live' => i # reqs[t].sid
    BY <1>5, <2>0 DEF ChangePassword, Live
  <2>2. \A i \in SessionId : i # reqs[t].sid => i \in Victims([type |-> "keep", sid |-> reqs[t].sid])
    BY VictimsAre
  <2>3. QED
    BY <1>5, <2>1, <2>2, RevokeAnnounced DEF ChangePassword
<1>6. CASE DeleteMe(t) \/ ResetConfirm(t)
  BY <1>6, VictimsAre, RevokeAnnounced DEF DeleteMe, ResetConfirm
<1>7. CASE Rotate(t)
  <2>1. CASE Swappable(reqs[t]) = {}
    BY <1>7, <2>1, QuietAnnounced DEF Rotate
  <2>2. CASE Swappable(reqs[t]) # {}
    <3> DEFINE n == Len(minted')
               row == [sess[reqs[t].sid] EXCEPT !.token = n, !.age = "fresh"]
    <3>1. reqs[t].sid \in SessionId /\ sess[reqs[t].sid] \in SessionRow
      BY <2>2 DEF Swappable, Live, TypeOK
    <3>2. n \in Nat
      BY <1>7, <2>2, <3>1, Appended DEF Rotate
    <3>3. row # None
      BY <3>1, <3>2, NoneAssumption DEF SessionRow
    <3>4. sess' = [sess EXCEPT ![reqs[t].sid] = row]
      BY <1>7, <2>2 DEF Rotate
    <3>5. \A i \in SessionId : i \in Live => i \in Live'
      BY <3>3, <3>4 DEF Live, TypeOK
    <3>6. QED
      BY <1>7, <3>5 DEF Rotate, Announced
  <2>3. QED
    BY <2>1, <2>2
<1>8. CASE LoginInserts(t)
  <2>1. CASE account = None
    BY <1>8, <2>1, QuietAnnounced DEF LoginInserts
  <2>2. CASE account # None
    <3>1. PICK i \in SessionId : /\ minted' = Append(minted, i)
                                 /\ sess' = [sess EXCEPT ![i] = NewSession(Len(minted'), reqs[t].pw)]
      BY <1>8, <2>2 DEF LoginInserts
    <3>2. Len(minted') \in Nat
      BY <3>1, Appended
    <3>3. reqs[t].pw \in Nat \cup {None}
      BY <1>8, RequestType DEF LoginInserts, Is, RequestRecord
    <3>4. NewSession(Len(minted'), reqs[t].pw) # None
      BY <2>2, <3>2, <3>3, NewSessionType, NoneAssumption
    <3>5. \A j \in SessionId : j \in Live => j \in Live'
      BY <3>1, <3>4 DEF Live, TypeOK
    <3>6. QED
      BY <1>8, <3>5 DEF LoginInserts, Announced
  <2>3. QED
    BY <2>1, <2>2
<1>9. CASE \/ LoadSession(t) \/ Gate(t) \/ AfterLostSwap(t) \/ AnswersRaw(t) \/ Use(t) \/ Verify(t)
           \/ LoginChecks(t) \/ Claim(t) \/ WsLoads(t) \/ WsGate(t) \/ HubChecks(t)
  BY <1>9, QuietAnnounced DEF LoadSession, AnswersRaw, Gate, AfterLostSwap, Use, Verify, LoginChecks, Claim, WsLoads, WsGate, HubChecks
<1>10. QED
  BY <1>1, <1>2, <1>3, <1>4, <1>5, <1>6, <1>7, <1>8, <1>9 DEF Serve

LEMMA OtherAnnounced ==
    ASSUME TypeOK, [Next]_vars, \A t \in Thread : ~Serve(t), ~HubRevokes, ~LoseRevoke, ~CloseSocket
    PROVE  Announced
<1> USE DEF dbVars
<1>1. CASE Deactivate \/ AdminResets
  BY <1>1, VictimsAre, RevokeAnnounced DEF Deactivate, AdminResets
<1>2. CASE CollectExpired
  <2>1. \A i \in SessionId : i \in Live => i \in Live' \/ i \in excused'
    BY <1>2 DEF CollectExpired, Live, Ended
  <2>2. QED
    BY <1>2, <2>1 DEF CollectExpired, Announced, LetGo
<1>3. CASE LoseAnswer
  BY <1>3 DEF LoseAnswer, Announced, Live
<1>4. CASE Send \/ Receive \/ ResetRequest \/ Activate \/ MailExpires \/ UNCHANGED vars
  BY <1>4, QuietAnnounced DEF Send, Receive, ResetRequest, Activate, MailExpires, vars
<1>5. CASE Age
  <2>1. PICK i \in Live : sess' = [sess EXCEPT ![i].age = IF @ = "fresh" THEN "late" ELSE "expired"]
    BY <1>5 DEF Age
  <2>2. sess[i] \in SessionRow
    BY DEF Live, TypeOK
  <2>3. [sess[i] EXCEPT !.age = IF @ = "fresh" THEN "late" ELSE "expired"] # None
    BY <2>2, NoneAssumption DEF SessionRow
  <2>4. \A j \in SessionId : j \in Live => j \in Live'
    BY <2>1, <2>3 DEF Live, TypeOK
  <2>5. QED
    BY <1>5, <2>4 DEF Age, Announced
<1>6. QED
  BY <1>1, <1>2, <1>3, <1>4, <1>5 DEF Next

(* The sockets of the hub, counted.                                        *)
LEMMA AttachedFinite ==
    ASSUME NEW f \in [SessionId -> Nat]
    PROVE  IsFiniteSet(UNION {{i} \X (1..f[i]) : i \in SessionId})
<1> DEFINE g == [i \in SessionId |-> {i} \X (1..f[i])]
           S == {{i} \X (1..f[i]) : i \in SessionId}
<1>1. IsFiniteSet(SessionId)
  BY BoundAssumption, FS_Interval DEF SessionId
<1>2. IsFiniteSet(S)
  <2>1. g \in Surjection(SessionId, S)
    BY DEF Surjection
  <2>2. QED
    BY <1>1, <2>1, FS_Surjection DEF ExistsSurjection
<1>3. ASSUME NEW i \in SessionId
      PROVE  IsFiniteSet({i} \X (1..f[i]))
  <2>1. IsFiniteSet({i}) /\ IsFiniteSet(1..f[i])
    <3>1. f[i] \in Int
      OBVIOUS
    <3>2. IsFiniteSet(1..f[i])
      BY <3>1, FS_Interval
    <3>3. QED
      BY <3>2, FS_Singleton
  <2>2. QED
    BY <2>1, FS_Product
<1>4. QED
  BY <1>2, <1>3, FS_UNION

LEMMA FewerAttached ==
    ASSUME sockets \in [SessionId -> Nat], sockets' \in [SessionId -> Nat],
           \A i \in SessionId : sockets'[i] <= sockets[i]
    PROVE  /\ Cardinality(Attached) \in Nat /\ Cardinality(Attached') \in Nat
           /\ Cardinality(Attached') <= Cardinality(Attached)
<1>1. Attached' \subseteq Attached
  BY DEF Attached
<1>2. IsFiniteSet(Attached)
  BY AttachedFinite DEF Attached
<1>3. QED
  BY <1>1, <1>2, FS_Subset, FS_CardinalityType

LEMMA OneMoreAttached ==
    ASSUME sockets \in [SessionId -> Nat], NEW i \in SessionId, sockets' = [sockets EXCEPT ![i] = @ + 1]
    PROVE  /\ Cardinality(Attached) \in Nat /\ Cardinality(Attached') \in Nat
           /\ Cardinality(Attached') <= Cardinality(Attached) + 1
<1>1. Attached' = Attached \cup {<<i, sockets[i] + 1>>}
  BY DEF Attached
<1>2. IsFiniteSet(Attached)
  BY AttachedFinite DEF Attached
<1>3. Cardinality(Attached) \in Nat
  BY <1>2, FS_CardinalityType
<1> DEFINE A == Attached
           x == <<i, sockets[i] + 1>>
<1>4. Cardinality(A \cup {x}) = IF x \in A THEN Cardinality(A) ELSE Cardinality(A) + 1
  <2> HIDE DEF A, x
  <2>1. IsFiniteSet(A)
    BY <1>2 DEF A
  <2>2. QED
    BY <2>1, FS_AddElement
<1>5. QED
  BY <1>1, <1>3, <1>4

(* The same, and what ends without the hub's sockets is announced.         *)
LEMMA SocketsStep ==
    SocketsInv /\ TypeOK /\ [Next]_vars => SocketsInv'
<1> SUFFICES ASSUME SocketsInv, TypeOK, [Next]_vars
             PROVE  SocketsInv'
  OBVIOUS
<1> USE DEF dbVars
<1>0. sockets \in [SessionId -> Nat] /\ MaxPerUser \in Nat /\ MaxPerSession \in Nat
  BY CapAssumption DEF SocketsInv
<1> DEFINE Follow == \A i \in SessionId : sockets[i] > 0 /\ i \notin Live => LetGo(i)
           Capped == \A i \in SessionId : sockets[i] <= MaxPerSession
           Room == Cardinality(Attached) <= MaxPerUser
<1>1. Follow /\ Capped /\ Room
  BY DEF SocketsInv, SocketsFollow, LetGo
<1>2. SUFFICES sockets' \in [SessionId -> Nat] /\ Follow' /\ Capped' /\ Room'
  BY DEF SocketsInv, SocketsFollow, LetGo
<1>3. CASE Announced
  <2>1. \A i \in SessionId : LetGo(i) => LetGo(i)'
    BY <1>3 DEF Announced, LetGo
  <2>2. Attached' = Attached
    BY <1>3 DEF Announced, Attached
  <2>3. QED
    BY <1>0, <1>1, <1>3, <2>1, <2>2 DEF Announced
<1>4. CASE HubRevokes
  <2>1. PICK m \in revokes : /\ revokes' = revokes \ {m} /\ excused' = excused /\ sess' = sess
                             /\ sockets' = [i \in SessionId |-> IF i \in Victims(m) THEN 0 ELSE sockets[i]]
    BY <1>4 DEF HubRevokes
  <2>2. sockets' \in [SessionId -> Nat] /\ \A i \in SessionId : sockets'[i] <= sockets[i]
    BY <1>0, <2>1
  <2>3. Follow'
    BY <1>1, <2>1 DEF LetGo, Live
  <2>4. Room'
    BY <1>0, <1>1, <2>2, FewerAttached
  <2>5. QED
    BY <1>0, <1>1, <2>2, <2>3, <2>4
<1>5. CASE LoseRevoke
  <2>1. PICK m \in revokes : /\ revokes' = revokes \ {m} /\ excused' = excused \cup Victims(m)
                             /\ sess' = sess /\ sockets' = sockets
    BY <1>5 DEF LoseRevoke
  <2>2. Follow'
    BY <1>1, <2>1 DEF LetGo, Live
  <2>3. Room'
    BY <1>1, <2>1 DEF Attached
  <2>4. QED
    BY <1>0, <1>1, <2>1, <2>2, <2>3
<1>6. CASE CloseSocket
  <2>1. PICK i \in SessionId : /\ sockets[i] > 0 /\ sockets' = [sockets EXCEPT ![i] = @ - 1]
                               /\ revokes' = revokes /\ excused' = excused /\ sess' = sess
    BY <1>6 DEF CloseSocket
  <2>2. sockets' \in [SessionId -> Nat] /\ \A j \in SessionId : sockets'[j] <= sockets[j]
    BY <1>0, <2>1
  <2>3. Follow'
    BY <1>0, <1>1, <2>1, <2>2 DEF LetGo, Live
  <2>4. Room'
    BY <1>0, <1>1, <2>2, FewerAttached
  <2>5. QED
    BY <1>0, <1>1, <2>2, <2>3, <2>4
<1>7. CASE \E t \in Thread : Accept(t)
  <2>1. PICK t \in Thread : Accept(t)
    BY <1>7
  <2> DEFINE i == reqs[t].sid
  <2>2. sess' = sess /\ revokes' = revokes
    BY <2>1 DEF Accept
  <2>3. CASE ~HasRoom(i) \/ i \notin SessionId
    <3>1. sockets' = sockets /\ excused \subseteq excused'
      BY <1>0, <2>1, <2>3 DEF Accept
    <3>2. QED
      BY <1>3, <2>2, <3>1 DEF Announced, Live
  <2>4. CASE HasRoom(i) /\ i \in SessionId
    <3>1. sockets' = [sockets EXCEPT ![i] = @ + 1] /\ excused' = IF i \in Live THEN excused ELSE excused \cup {i}
      BY <2>1, <2>4 DEF Accept
    <3>2. sockets' \in [SessionId -> Nat] /\ sockets[i] < MaxPerSession
      BY <1>0, <2>4, <3>1 DEF HasRoom
    <3>3. Follow'
      BY <1>0, <1>1, <2>2, <2>4, <3>1 DEF LetGo, Live
    <3>4. Capped'
      BY <1>0, <1>1, <2>4, <3>1, <3>2
    <3>5. Room'
      <4>1. Cardinality(Attached) < MaxPerUser
        BY <2>4 DEF HasRoom
      <4>2. /\ Cardinality(Attached) \in Nat /\ Cardinality(Attached') \in Nat
            /\ Cardinality(Attached') <= Cardinality(Attached) + 1
        BY <1>0, <2>4, <3>1, OneMoreAttached
      <4>3. QED
        BY <1>0, <4>1, <4>2
    <3>6. QED
      BY <3>2, <3>3, <3>4, <3>5
  <2>5. QED
    BY <2>3, <2>4
<1>8. QED
  BY <1>3, <1>4, <1>5, <1>6, <1>7, ServeAnnounced, OtherAnnounced

(* A socket outlives its session only while the hub is still to be told,   *)
(* and the hub's two caps hold, for any number of sessions and requests.   *)
THEOREM SocketsAlwaysFollow == Spec => []SocketsFollow
<1>1. Init => SocketsInv
  <2> SUFFICES ASSUME Init
               PROVE  SocketsInv
    OBVIOUS
  <2>1. sockets = [i \in SessionId |-> 0]
    BY DEF Init
  <2>2. Attached = {}
    BY <2>1 DEF Attached
  <2>3. QED
    BY <2>1, <2>2, FS_EmptySet, CapAssumption DEF SocketsInv, SocketsFollow
<1>2. SocketsInv => SocketsFollow
  BY DEF SocketsInv
<1>3. QED
  BY <1>1, <1>2, SocketsStep, TypeInit, TypeStep, PTL DEF Spec
=============================================================================
