-------------------------- MODULE RateLimitsProofs --------------------------
(***************************************************************************)
(* A budget holds: however requests interleave, straddle windows and fall  *)
(* back from the hub to D1, a counter lets no more of them through than    *)
(* its limit, and refuses none before so many have come.  And a name is    *)
(* not locked out by one source alone.                                     *)
(***************************************************************************)
EXTENDS RateLimitsChecks, FiniteSetTheorems, TLAPS

(* Windows.                                                                *)
LEMMA SameWindow ==
    ASSUME NEW a \in Nat, NEW b \in Nat, NEW w \in Nat \ {0}, a \div w = b \div w
    PROVE  b < a + w
  OBVIOUS

LEMMA LaterWindow ==
    ASSUME NEW a \in Nat, NEW b \in Nat, NEW w \in Nat \ {0}, a <= b
    PROVE  a \div w <= b \div w /\ a \div w \in Nat
  OBVIOUS

-----------------------------------------------------------------------------
(* What a request is charged for.                                          *)
LEMMA ChainType ==
    ASSUME NEW r \in RequestRecord
    PROVE  /\ Len(Chain(r)) \in 1..3 /\ DOMAIN Chain(r) = 1..Len(Chain(r))
           /\ \A n \in DOMAIN Chain(r) :
                 Chain(r)[n].rule \in Rule /\ Chain(r)[n].subject \in Ip \cup Name \cup (Name \X Ip)
<1>0. r.ip \in Ip /\ r.name \in Name /\ r.kind \in Kind
  BY DEF RequestRecord
<1>1. CASE r.kind = "login"
  <2>1. Chain(r) = <<Charge("login_ip", r.ip), Charge("login_user_ip", <<r.name, r.ip>>),
                     Charge("login_identity", r.name)>>
    BY <1>1 DEF Chain
  <2>2. QED
    BY <1>0, <2>1 DEF Charge, Rule
<1>2. CASE r.kind \in {"reset", "resend"}
  <2>1. Chain(r) = <<Charge("reset_ip", r.ip), Charge("reset_email", r.name)>>
    BY <1>2 DEF Chain
  <2>2. QED
    BY <1>0, <2>1 DEF Charge, Rule
<1>3. CASE r.kind \in {"token", "admin", "lookup", "heavy"}
  <2>1. Chain(r) \in {<<Charge("token_ip", r.ip)>>, <<Charge("admin_ip", r.ip)>>,
                      <<Charge("social_user", r.name)>>, <<Charge("api_user", r.name)>>}
    BY <1>3 DEF Chain
  <2>2. QED
    BY <1>0, <2>1 DEF Charge, Rule
<1>4. CASE r.kind \in {"write", "nested"}
  <2>1. Chain(r) = <<Charge("write_user", r.name), Charge("write_user_day", r.name)>>
    BY <1>4 DEF Chain
  <2>2. QED
    BY <1>0, <2>1 DEF Charge, Rule
<1>5. CASE r.kind \in {"group", "message"}
  <2>1. Chain(r) = <<Charge("social_write", r.name), Charge("write_user_day", r.name)>>
    BY <1>5 DEF Chain
  <2>2. QED
    BY <1>0, <2>1 DEF Charge, Rule
<1>6. QED
  BY <1>0, <1>1, <1>2, <1>3, <1>4, <1>5 DEF Kind

LEMMA ChainSame ==
    ASSUME NEW r, NEW q, r.kind = q.kind, r.ip = q.ip, r.name = q.name
    PROVE  Chain(r) = Chain(q)
  BY DEF Chain

LEMMA KeyType ==
    ASSUME NEW r \in RequestRecord, NEW n \in DOMAIN Chain(r), NEW at \in Nat
    PROVE  LET k == Key(Chain(r)[n], at) IN
           k \in Keys /\ k.rule = Chain(r)[n].rule /\ k.window = at \div Window[k.rule]
<1>1. Window[Chain(r)[n].rule] \in Nat \ {0}
  BY ChainType, RuleAssumption
<1>2. at \div Window[Chain(r)[n].rule] \in Nat
  BY <1>1, LaterWindow
<1>3. QED
  BY <1>2, ChainType DEF Key, Keys

LEMMA KeyRule ==
    ASSUME NEW k \in Keys
    PROVE  k.rule \in Rule /\ Window[k.rule] \in Nat \ {0} /\ Limit[k.rule] \in Nat \ {0} /\ k.window \in Nat
  BY RuleAssumption DEF Keys

-----------------------------------------------------------------------------
(* A step of one request changes who holds a key by that request at most.  *)
LEMMA HoldersFinite ==
    ASSUME NEW s, NEW k
    PROVE  IsFiniteSet(Holders(s, k)) /\ Cardinality(Holders(s, k)) \in Nat
  BY ThreadAssumption, FS_Subset, FS_CardinalityType DEF Holders

LEMMA HoldersMove ==
    ASSUME TypeOK, NEW t \in Thread, NEW q, reqs' = [reqs EXCEPT ![t] = q], NEW s, NEW k
    PROVE  /\ Cardinality(Holders(s, k)) \in Nat /\ Cardinality(Holders(s, k)') \in Nat
           /\ Cardinality(Holders(s, k)') <= Cardinality(Holders(s, k)) + 1
           /\ t \in Holders(s, k) \/ t \notin Holders(s, k)'
                => Cardinality(Holders(s, k)') <= Cardinality(Holders(s, k))
           /\ t \in Holders(s, k) /\ t \notin Holders(s, k)'
                => Cardinality(Holders(s, k)') + 1 = Cardinality(Holders(s, k))
<1> DEFINE H == Holders(s, k)
           N == Holders(s, k)'
<1>1. N \ {t} = H \ {t}
  BY DEF Holders, TypeOK
<1>2. IsFiniteSet(H)
  BY HoldersFinite
<1>3. IsFiniteSet(N)
  BY ThreadAssumption, FS_Subset DEF Holders
<1> HIDE DEF H, N
<1>4. /\ Cardinality(H) \in Nat /\ Cardinality(N) \in Nat
      /\ Cardinality(H \ {t}) = IF t \in H THEN Cardinality(H) - 1 ELSE Cardinality(H)
      /\ Cardinality(N \ {t}) = IF t \in N THEN Cardinality(N) - 1 ELSE Cardinality(N)
  BY <1>2, <1>3, FS_CardinalityType, FS_RemoveElement
<1>5. /\ Cardinality(N) <= Cardinality(H) + 1
      /\ t \in H \/ t \notin N => Cardinality(N) <= Cardinality(H)
      /\ t \in H /\ t \notin N => Cardinality(N) + 1 = Cardinality(H)
  BY <1>1, <1>4
<1>6. QED
  BY <1>4, <1>5 DEF H, N

-----------------------------------------------------------------------------
(* Types.                                                                  *)
LEMMA PutType ==
    ASSUME TypeOK, NEW t \in Thread, NEW q \in RequestRecord \cup {None}, Put(t, q)
    PROVE  reqs' \in [Thread -> RequestRecord \cup {None}]
  BY DEF Put, TypeOK

LEMMA GoesType ==
    ASSUME NEW r \in RequestRecord, NEW pc \in {"d1", "challenge", "hub", "answer"}, now \in Nat
    PROVE  Goes(r, pc) \in RequestRecord
  BY DEF Goes, RequestRecord

LEMMA EntersType ==
    ASSUME NEW r \in RequestRecord, now \in Nat
    PROVE  Enters(r) \in RequestRecord
<1>1. r.throttles - 1 \in Int /\ {} \in SUBSET Keys
  BY DEF RequestRecord
<1>2. [r EXCEPT !.throttles = r.throttles - 1] \in RequestRecord
  BY <1>1 DEF RequestRecord
<1>3. [[r EXCEPT !.throttles = r.throttles - 1] EXCEPT !.counted = TRUE, !.paid = {}] \in RequestRecord
  BY <1>1, <1>2 DEF RequestRecord
<1>4. Enters(r) = Goes([[r EXCEPT !.throttles = r.throttles - 1] EXCEPT !.counted = TRUE, !.paid = {}], "hub")
  BY DEF Enters
<1>5. QED
  BY <1>3, <1>4, GoesType

(* A charge that was paid.                                                 *)
PaidFor(r, k) == [r EXCEPT !.done = r.done + 1, !.keys = @ \cup {k}, !.paid = r.paid \cup {k}]

LEMMA PaidType ==
    ASSUME NEW r \in RequestRecord, NEW k \in Keys
    PROVE  PaidFor(r, k) \in RequestRecord
<1>1. r.done + 1 \in Nat /\ r.keys \cup {k} \in SUBSET Keys /\ r.paid \cup {k} \in SUBSET Keys
  BY DEF RequestRecord
<1>2. [r EXCEPT !.done = r.done + 1] \in RequestRecord
  BY <1>1 DEF RequestRecord
<1>3. [[r EXCEPT !.done = r.done + 1] EXCEPT !.keys = r.keys \cup {k}] \in RequestRecord
  BY <1>1, <1>2 DEF RequestRecord
<1>4. [[[r EXCEPT !.done = r.done + 1] EXCEPT !.keys = r.keys \cup {k}] EXCEPT !.paid = r.paid \cup {k}] \in RequestRecord
  BY <1>1, <1>3 DEF RequestRecord
<1>5. QED
  BY <1>4 DEF PaidFor

LEMMA InFlight ==
    ASSUME TypeOK, NEW t \in Thread, reqs[t] # None
    PROVE  reqs[t] \in RequestRecord /\ now \in Nat
  BY DEF TypeOK

LEMMA ServeType ==
    ASSUME TypeOK, NEW t \in Thread, NEW store \in Store, NEW keys \in SUBSET Keys, Serve(t, store, keys)
    PROVE  /\ reqs' \in [Thread -> RequestRecord \cup {None}]
           /\ DOMAIN served' \subseteq Store \X Keys
           /\ \A p \in DOMAIN served' : served'[p] \in Nat
<1>1. reqs' \in [Thread -> RequestRecord \cup {None}]
  BY PutType DEF Serve
<1>2. \A p : Count(served, p) \in Nat
  BY DEF TypeOK, Count
<1>3. QED
  BY <1>1, <1>2 DEF Serve, Upsert, TypeOK

LEMMA OnwardType ==
    ASSUME TypeOK, NEW t \in Thread, NEW store \in Store, NEW keys \in SUBSET Keys,
           reqs[t] # None, Onward(t, store, keys)
    PROVE  /\ reqs' \in [Thread -> RequestRecord \cup {None}]
           /\ DOMAIN served' \subseteq Store \X Keys
           /\ \A p \in DOMAIN served' : served'[p] \in Nat
<1>1. CASE Serve(t, store, keys)
  BY <1>1, ServeType
<1>2. CASE Put(t, Enters(reqs[t])) /\ UNCHANGED <<served, refused>>
  BY <1>2, InFlight, EntersType, PutType DEF TypeOK
<1>3. QED
  BY <1>1, <1>2 DEF Onward

LEMMA ArriveType ==
    ASSUME TypeOK, scene \in Scenes, NEW t \in Thread, Arrive(t)
    PROVE  TypeOK'
<1>1. PICK kind \in scene.kinds, ip \in scene.ips, name \in Name :
        LET r == [kind |-> kind, ip |-> ip, name |-> name, at |-> now, pc |-> "d1",
                  throttles |-> Throttles(kind), counted |-> FALSE,
                  done |-> 0, keys |-> {}, paid |-> {}, over |-> None]
        IN  Put(t, IF kind \in ByHub THEN Enters(r) ELSE r)
  BY DEF Arrive
<1> DEFINE r == [kind |-> kind, ip |-> ip, name |-> name, at |-> now, pc |-> "d1",
                 throttles |-> Throttles(kind), counted |-> FALSE,
                 done |-> 0, keys |-> {}, paid |-> {}, over |-> None]
<1>2. r \in RequestRecord
  <2>1. kind \in Kind /\ ip \in Ip /\ now \in Nat
    BY SceneAssumption DEF TypeOK
  <2>2. Throttles(kind) \in Int
    BY DEF Throttles
  <2>3. QED
    BY <2>1, <2>2 DEF RequestRecord
<1> HIDE DEF r
<1>3. reqs' \in [Thread -> RequestRecord \cup {None}]
  BY <1>1, <1>2, EntersType, PutType DEF TypeOK, r
<1>4. QED
  BY <1>3 DEF TypeOK, Arrive

(* The counter that a hit charges.                                         *)
HitKey(t) == Key(Chain(reqs[t])[reqs[t].done + 1], reqs[t].at)
HitCount(t) == (IF HitKey(t) \in DOMAIN d1 THEN d1[HitKey(t)].n ELSE 0) + 1

LEMMA HitKeyType ==
    ASSUME TypeOK, InTime, NEW t \in Thread, At(t, "d1")
    PROVE  /\ HitKey(t) \in Keys /\ HitKey(t).window = reqs[t].at \div Window[HitKey(t).rule]
           /\ HitCount(t) \in Nat /\ reqs[t].at \in Nat
           /\ reqs[t].done + 1 \in DOMAIN Chain(reqs[t])
<1>1. reqs[t] \in RequestRecord /\ reqs[t].at \in Nat /\ reqs[t].done \in Nat
      /\ reqs[t].done < Len(Chain(reqs[t]))
  BY InFlight DEF At, RequestRecord, InTime, RequestsInTime
<1>2. reqs[t].done + 1 \in DOMAIN Chain(reqs[t])
  BY <1>1, ChainType
<1>3. QED
  BY <1>1, <1>2, KeyType DEF HitKey, HitCount, TypeOK

(* What a hit comes to.                                                    *)
LEMMA HitCases ==
    ASSUME TypeOK, InTime, NEW t \in Thread, Hit(t)
    PROVE  LET r == reqs[t]
               k == HitKey(t)
           IN  /\ At(t, "d1")
               /\ d1' = Upsert([x \in {k} |-> [n |-> HitCount(t), expires |-> r.at + Window[k.rule] + Slack]], d1)
               /\ \/ Refuse(t, k)
                  \/ HitCount(t) <= Limit[k.rule] /\ Onward(t, "d1", r.paid \cup {k})
                  \/ /\ HitCount(t) <= Limit[k.rule] /\ r.done + 1 # Len(Chain(r))
                     /\ \E pc \in {"challenge", "d1"} :
                           Put(t, Goes(PaidFor(r, k), pc))
                     /\ UNCHANGED <<served, refused>>
               /\ UNCHANGED <<now, hub, made, scene>>
<1>1. HitKey(t) \in Keys /\ HitCount(t) \in Nat
  BY HitKeyType DEF Hit
<1>2. Limit[HitKey(t).rule] \in Nat
  BY <1>1, KeyRule
<1> DEFINE r == reqs[t]
           k == HitKey(t)
           n == HitCount(t)
<1>3. /\ At(t, "d1")
      /\ d1' = Upsert([x \in {k} |-> [n |-> n, expires |-> r.at + Window[k.rule] + Slack]], d1)
      /\ UNCHANGED <<now, hub, made, scene>>
  BY DEF Hit, HitKey, HitCount
<1>4. IF n > Limit[k.rule] THEN Refuse(t, k)
      ELSE IF r.done + 1 = Len(Chain(r)) THEN Onward(t, "d1", r.paid \cup {k})
      ELSE /\ Put(t, Goes(PaidFor(r, k), IF r.kind \in Challenged /\ r.done + 1 = 1 THEN "challenge" ELSE "d1"))
           /\ UNCHANGED <<served, refused>>
  BY DEF Hit, HitKey, HitCount, PaidFor
<1> HIDE DEF r, k, n
<1>5. \/ Refuse(t, k)
      \/ n <= Limit[k.rule] /\ Onward(t, "d1", r.paid \cup {k})
      \/ /\ n <= Limit[k.rule] /\ r.done + 1 # Len(Chain(r))
         /\ \E pc \in {"challenge", "d1"} : Put(t, Goes(PaidFor(r, k), pc))
         /\ UNCHANGED <<served, refused>>
  <2>1. n > Limit[k.rule] \/ n <= Limit[k.rule]
    BY <1>1, <1>2 DEF n, k
  <2>2. QED
    BY <1>4, <2>1
<1>6. QED
  BY <1>3, <1>5 DEF r, k, n

LEMMA HitType ==
    ASSUME TypeOK, InTime, NEW t \in Thread, Hit(t)
    PROVE  TypeOK'
<1> DEFINE r == reqs[t]
           k == HitKey(t)
<1>1. k \in Keys /\ HitCount(t) \in Nat /\ reqs[t] # None /\ reqs[t] \in RequestRecord /\ now \in Nat
  BY HitCases, HitKeyType, InFlight DEF At
<1> HIDE DEF k
<1>2. DOMAIN d1' \subseteq Keys /\ \A x \in DOMAIN d1' : d1'[x].n \in Nat
  <2>1. PICK e : d1' = Upsert([x \in {k} |-> [n |-> HitCount(t), expires |-> e]], d1)
    BY HitCases DEF k
  <2>2. QED
    BY <1>1, <2>1 DEF Upsert, TypeOK
<1>3. /\ reqs' \in [Thread -> RequestRecord \cup {None}]
      /\ DOMAIN served' \subseteq Store \X Keys
      /\ \A p \in DOMAIN served' : served'[p] \in Nat
  <2>1. CASE Refuse(t, k)
    BY <2>1, PutType DEF Refuse, TypeOK
  <2>2. CASE Onward(t, "d1", r.paid \cup {k})
    <3>1. r.paid \cup {k} \in SUBSET Keys
      BY <1>1 DEF RequestRecord
    <3>2. QED
      BY <1>1, <2>2, <3>1, OnwardType DEF Store
  <2>3. CASE /\ UNCHANGED served
             /\ \E pc \in {"challenge", "d1"} :
                   Put(t, Goes(PaidFor(r, k), pc))
    <3>1. \A pc \in {"challenge", "d1"} : Goes(PaidFor(r, k), pc) \in RequestRecord
      BY <1>1, PaidType, GoesType
    <3>2. QED
      BY <1>1, <2>3, <3>1, PutType DEF TypeOK
  <2>4. QED
    BY <2>1, <2>2, <2>3, HitCases DEF k
<1>4. QED
  BY <1>2, <1>3, HitCases DEF TypeOK

LEMMA MinOfFew ==
    ASSUME NEW S \in SUBSET (1..3), S # {}
    PROVE  Min(S) \in S
<1>0. \A y \in S : y \in Int /\ 1 <= y /\ y <= 3
  OBVIOUS
<1>1. \E x \in S : \A y \in S : x <= y
  <2>1. CASE 1 \in S
    BY <1>0, <2>1
  <2>2. CASE 1 \notin S /\ 2 \in S
    <3>1. \A y \in S : 2 <= y
      BY <1>0, <2>2
    <3>2. QED
      BY <2>2, <3>1
  <2>3. CASE 1 \notin S /\ 2 \notin S
    <3>1. \A y \in S : y = 3
      BY <1>0, <2>3
    <3>2. PICK z \in S : TRUE
      OBVIOUS
    <3>3. QED
      BY <3>1, <3>2
  <2>4. QED
    BY <2>1, <2>2, <2>3
<1>2. PICK m \in S : \A y \in S : m <= y
  BY <1>1
<1>3. QED
  BY <1>2 DEF Min

(* What the hub counts.                                                    *)
HubKeys(t) == {Key(Chain(reqs[t])[i], now) : i \in DOMAIN Chain(reqs[t])}

Counted(r, keys, over) == [r EXCEPT !.pc = "answer", !.keys = @ \cup keys, !.paid = keys, !.over = over]

LEMMA HubKeysType ==
    ASSUME TypeOK, NEW t \in Thread, reqs[t] # None
    PROVE  /\ HubKeys(t) \in SUBSET Keys
           /\ \A k \in HubKeys(t) : k.window = now \div Window[k.rule]
  BY InFlight, KeyType DEF HubKeys

LEMMA HubCountsCases ==
    ASSUME TypeOK, NEW t \in Thread, HubCounts(t)
    PROVE  /\ At(t, "hub") /\ UNCHANGED <<now, d1, made, scene, served, refused>>
           /\ \E over \in Keys \cup {None} :
                 /\ Put(t, Counted(reqs[t], HubKeys(t), over))
                 /\ over = None => \A k \in HubKeys(t) : Count(hub, k) + 1 <= Limit[k.rule]
           /\ \E old \in SUBSET DOMAIN hub :
                 /\ hub' = [k \in HubKeys(t) \cup (DOMAIN hub \ old) |->
                               IF k \in HubKeys(t) THEN Count(hub, k) + 1 ELSE hub[k]]
                 /\ \A k \in old : k \notin HubKeys(t) /\ \E c \in HubKeys(t) : k.rule = c.rule /\ k.subject = c.subject
<1> DEFINE r == reqs[t]
           charges == Chain(r)
           keys == HubKeys(t)
           over == {i \in DOMAIN charges : Count(hub, Key(charges[i], now)) + 1 > Limit[charges[i].rule]}
           first == IF over = {} THEN None ELSE Key(charges[Min(over)], now)
           old == {k \in DOMAIN hub : \E c \in keys : k.rule = c.rule /\ k.subject = c.subject} \ keys
<1>0. r \in RequestRecord /\ now \in Nat
  BY InFlight DEF HubCounts, At
<1>1. over # {} => Min(over) \in over
  <2>1. over \in SUBSET (1..3)
    BY <1>0, ChainType
  <2>2. QED
    BY <2>1, MinOfFew
<1>2. over # {} => first \in Keys
  BY <1>0, <1>1, KeyType
<1>3. first \in Keys \cup {None} /\ (first = None => over = {})
  BY <1>2, NoneAssumption
<1>4. over = {} => \A k \in keys : Count(hub, k) + 1 <= Limit[k.rule]
  <2> SUFFICES ASSUME over = {}, NEW i \in DOMAIN charges
               PROVE  Count(hub, Key(charges[i], now)) + 1 <= Limit[Key(charges[i], now).rule]
    BY DEF HubKeys
  <2>1. Key(charges[i], now).rule = charges[i].rule /\ charges[i].rule \in Rule
    BY <1>0, KeyType, ChainType
  <2>2. Limit[charges[i].rule] \in Nat /\ Count(hub, Key(charges[i], now)) \in Nat
    BY <2>1, RuleAssumption DEF Count, TypeOK
  <2>3. QED
    BY <2>1, <2>2
<1>5. Put(t, Counted(r, keys, first))
  BY DEF HubCounts, Counted, HubKeys
<1>6. hub' = [k \in keys \cup (DOMAIN hub \ old) |-> IF k \in keys THEN Count(hub, k) + 1 ELSE hub[k]]
  BY DEF HubCounts, HubKeys
<1>7. \A k \in old : k \in DOMAIN hub /\ k \notin keys /\ \E c \in keys : k.rule = c.rule /\ k.subject = c.subject
  OBVIOUS
<1>8. At(t, "hub") /\ UNCHANGED <<now, d1, made, scene, served, refused>>
  BY DEF HubCounts
<1> HIDE DEF over, first, old
<1>9. QED
  BY <1>3, <1>4, <1>5, <1>6, <1>7, <1>8

LEMMA CountedType ==
    ASSUME NEW r \in RequestRecord, NEW keys \in SUBSET Keys, NEW over \in Keys \cup {None}
    PROVE  Counted(r, keys, over) \in RequestRecord
<1>1. r.keys \cup keys \in SUBSET Keys
  BY DEF RequestRecord
<1>2. [r EXCEPT !.pc = "answer", !.keys = r.keys \cup keys] \in RequestRecord
  BY <1>1 DEF RequestRecord
<1>3. [[r EXCEPT !.pc = "answer", !.keys = r.keys \cup keys] EXCEPT !.paid = keys, !.over = over] \in RequestRecord
  BY <1>2 DEF RequestRecord
<1>4. QED
  BY <1>3 DEF Counted

LEMMA HubCountsType ==
    ASSUME TypeOK, NEW t \in Thread, HubCounts(t)
    PROVE  TypeOK'
<1>1. reqs[t] # None /\ HubKeys(t) \in SUBSET Keys
  BY HubCountsCases, HubKeysType DEF At
<1>2. reqs' \in [Thread -> RequestRecord \cup {None}]
  BY <1>1, HubCountsCases, InFlight, CountedType, PutType
<1>3. DOMAIN hub' \subseteq Keys /\ \A k \in DOMAIN hub' : hub'[k] \in Nat
  <2>1. \A k \in Keys : Count(hub, k) + 1 \in Nat
    BY DEF Count, TypeOK
  <2>2. PICK old \in SUBSET DOMAIN hub :
          hub' = [k \in HubKeys(t) \cup (DOMAIN hub \ old) |-> IF k \in HubKeys(t) THEN Count(hub, k) + 1 ELSE hub[k]]
    BY HubCountsCases
  <2>3. QED
    BY <1>1, <2>1, <2>2 DEF TypeOK
<1>4. QED
  BY <1>2, <1>3, HubCountsCases DEF TypeOK

LEMMA FailsType ==
    ASSUME TypeOK, NEW t \in Thread, HubFails(t)
    PROVE  TypeOK'
<1>1. reqs[t] \in RequestRecord /\ now \in Nat
  BY InFlight DEF HubFails, At
<1>2. [reqs[t] EXCEPT !.done = 0, !.paid = {}] \in RequestRecord
  BY <1>1 DEF RequestRecord
<1>3. Goes([reqs[t] EXCEPT !.done = 0, !.paid = {}], "d1") \in RequestRecord
  BY <1>1, <1>2, GoesType
<1>4. QED
  BY <1>3, PutType DEF HubFails, TypeOK

LEMMA TypeStep ==
    ASSUME TypeOK, InTime, scene \in Scenes, [Next]_vars
    PROVE  TypeOK' /\ (scene \in Scenes)'
<1>1. ASSUME NEW t \in Thread, Arrive(t)
      PROVE  TypeOK' /\ scene' = scene
  BY <1>1, ArriveType DEF Arrive
<1>2. ASSUME NEW t \in Thread, Hit(t)
      PROVE  TypeOK' /\ scene' = scene
  BY <1>2, HitType DEF Hit
<1>3. ASSUME NEW t \in Thread, Challenge(t)
      PROVE  TypeOK' /\ scene' = scene
  <2>1. Goes(reqs[t], "d1") \in RequestRecord
    BY <1>3, InFlight, GoesType DEF Challenge, At
  <2>2. QED
    BY <1>3, <2>1, PutType DEF Challenge, TypeOK
<1>4. ASSUME NEW t \in Thread, HubCounts(t)
      PROVE  TypeOK' /\ scene' = scene
  BY <1>4, HubCountsType DEF HubCounts
<1>5. ASSUME NEW t \in Thread, HubAnswers(t)
      PROVE  TypeOK' /\ scene' = scene
  <2>1. reqs[t] # None /\ reqs[t].paid \in SUBSET Keys
    BY <1>5, InFlight DEF HubAnswers, At, RequestRecord
  <2>2. CASE Refuse(t, reqs[t].over)
    BY <1>5, <2>2, PutType DEF HubAnswers, Refuse, TypeOK
  <2>3. CASE Onward(t, "hub", reqs[t].paid)
    BY <1>5, <2>1, <2>3, OnwardType DEF HubAnswers, Store, TypeOK
  <2>4. QED
    BY <1>5, <2>2, <2>3 DEF HubAnswers
<1>6. ASSUME NEW t \in Thread, HubFails(t)
      PROVE  TypeOK' /\ scene' = scene
  BY <1>6, FailsType DEF HubFails
<1>7. CASE Collect
  BY <1>7 DEF Collect, TypeOK
<1>8. CASE Tick
  BY <1>8 DEF Tick, TypeOK
<1>9. CASE UNCHANGED vars
  BY <1>9 DEF vars, TypeOK
<1>10. QED
  BY <1>1, <1>2, <1>3, <1>4, <1>5, <1>6, <1>7, <1>8, <1>9 DEF Next

-----------------------------------------------------------------------------
(* Time.                                                                   *)
OnTime(q) ==
    q # None => /\ q.at <= now /\ now <= q.at + Slack
                /\ q.pc \in {"d1", "challenge"} => q.done < Len(Chain(q))

LEMMA PutInTime ==
    ASSUME TypeOK, RequestsInTime, NEW t \in Thread, NEW q, Put(t, q), OnTime(q), now' = now
    PROVE  RequestsInTime'
  BY DEF Put, TypeOK, RequestsInTime, OnTime

LEMMA ServedInTime ==
    ASSUME TypeOK, RequestsInTime, NEW t \in Thread, NEW store, NEW keys, reqs[t] # None,
           Onward(t, store, keys) \/ Refuse(t, keys), now' = now
    PROVE  RequestsInTime'
<1>1. OnTime(None)
  BY DEF OnTime
<1>2. OnTime(Enters(reqs[t]))
  <2>1. reqs[t] \in RequestRecord /\ now \in Nat /\ Slack \in Nat
    BY InFlight, RuleAssumption
  <2>2. Enters(reqs[t]).at = now /\ Enters(reqs[t]).pc = "hub"
    BY <2>1 DEF Enters, Goes, RequestRecord
  <2>3. now <= now /\ now <= now + Slack
    BY <2>1
  <2>4. QED
    BY <2>2, <2>3 DEF OnTime
<1>3. QED
  BY <1>1, <1>2, PutInTime DEF Onward, Refuse, Serve

LEMMA ArriveInTime ==
    ASSUME TypeOK, RequestsInTime, scene \in Scenes, NEW t \in Thread, Arrive(t)
    PROVE  RequestsInTime'
<1>1. PICK kind \in scene.kinds, ip \in scene.ips, name \in Name :
        LET r == [kind |-> kind, ip |-> ip, name |-> name, at |-> now, pc |-> "d1",
                  throttles |-> Throttles(kind), counted |-> FALSE,
                  done |-> 0, keys |-> {}, paid |-> {}, over |-> None]
        IN  Put(t, IF kind \in ByHub THEN Enters(r) ELSE r)
  BY DEF Arrive
<1> DEFINE r == [kind |-> kind, ip |-> ip, name |-> name, at |-> now, pc |-> "d1",
                 throttles |-> Throttles(kind), counted |-> FALSE,
                 done |-> 0, keys |-> {}, paid |-> {}, over |-> None]
<1>2. now \in Nat /\ Slack \in Nat /\ now' = now
  BY RuleAssumption DEF TypeOK, Arrive
<1>3. r \in RequestRecord
  <2>1. kind \in Kind /\ ip \in Ip
    BY SceneAssumption
  <2>2. Throttles(kind) \in Int
    BY DEF Throttles
  <2>3. QED
    BY <1>2, <2>1, <2>2 DEF RequestRecord
<1>4. r.at = now /\ r.done = 0 /\ Len(Chain(r)) \in 1..3
  BY <1>3, ChainType
<1>5. Enters(r).at = now /\ Enters(r).pc = "hub"
  BY DEF Enters, Goes
<1> HIDE DEF r
<1>6. OnTime(r) /\ OnTime(Enters(r))
  <2>1. now <= now /\ now <= now + Slack
    BY <1>2
  <2>2. r.done < Len(Chain(r))
    <3>1. \A n \in 1..3 : 0 < n
      OBVIOUS
    <3>2. QED
      BY <1>4, <3>1, Zenon
  <2>3. QED
    BY <1>4, <1>5, <2>1, <2>2 DEF OnTime
<1>7. QED
  BY <1>1, <1>2, <1>6, PutInTime DEF r

LEMMA HitInTime ==
    ASSUME TypeOK, InTime, NEW t \in Thread, Hit(t)
    PROVE  RequestsInTime'
<1> DEFINE r == reqs[t]
           k == HitKey(t)
<1>1. r \in RequestRecord /\ now \in Nat /\ Slack \in Nat /\ now' = now /\ r # None
  BY HitCases, InFlight, RuleAssumption DEF At
<1>2. r.done \in Nat /\ r.done < Len(Chain(r)) /\ Len(Chain(r)) \in Nat
  <2>1. At(t, "d1")
    BY HitCases
  <2>2. r.done < Len(Chain(r))
    BY <2>1 DEF InTime, RequestsInTime, At
  <2>3. QED
    BY <1>1, <2>2, ChainType DEF RequestRecord
<1>3. ASSUME NEW pc \in {"challenge", "d1"}, r.done + 1 # Len(Chain(r))
      PROVE  OnTime(Goes(PaidFor(r, k), pc))
  <2>1. /\ Goes(PaidFor(r, k), pc).at = now /\ Goes(PaidFor(r, k), pc).done = r.done + 1
        /\ Goes(PaidFor(r, k), pc).kind = r.kind /\ Goes(PaidFor(r, k), pc).ip = r.ip
        /\ Goes(PaidFor(r, k), pc).name = r.name
    BY <1>1 DEF Goes, PaidFor, RequestRecord
  <2>2. Chain(Goes(PaidFor(r, k), pc)) = Chain(r)
    BY <2>1, ChainSame
  <2>3. QED
    BY <1>1, <1>2, <1>3, <2>1, <2>2 DEF OnTime
<1>4. CASE Refuse(t, k) \/ Onward(t, "d1", r.paid \cup {k})
  BY <1>1, <1>4, ServedInTime DEF InTime
<1>5. CASE r.done + 1 # Len(Chain(r)) /\ \E pc \in {"challenge", "d1"} : Put(t, Goes(PaidFor(r, k), pc))
  BY <1>1, <1>3, <1>5, PutInTime DEF InTime
<1>6. QED
  BY <1>4, <1>5, HitCases

LEMMA RequestsStep ==
    ASSUME TypeOK, InTime, scene \in Scenes, [Next]_vars
    PROVE  RequestsInTime'
<1>0. now \in Nat /\ Slack \in Nat /\ OnTime(None)
  BY RuleAssumption DEF TypeOK, OnTime
<1>1. ASSUME NEW t \in Thread, Challenge(t)
      PROVE  RequestsInTime'
  <2>1. reqs[t] \in RequestRecord /\ reqs[t].done < Len(Chain(reqs[t])) /\ reqs[t] # None
    BY <1>1, InFlight DEF Challenge, At, InTime, RequestsInTime
  <2>2. /\ Goes(reqs[t], "d1").at = now /\ Goes(reqs[t], "d1").done = reqs[t].done
        /\ Goes(reqs[t], "d1").kind = reqs[t].kind /\ Goes(reqs[t], "d1").ip = reqs[t].ip
        /\ Goes(reqs[t], "d1").name = reqs[t].name
    BY <2>1 DEF Goes, RequestRecord
  <2>3. OnTime(Goes(reqs[t], "d1"))
    BY <1>0, <2>1, <2>2, ChainSame DEF OnTime
  <2>4. QED
    BY <1>0, <1>1, <2>3, PutInTime DEF Challenge, InTime
<1>2. ASSUME NEW t \in Thread, HubCounts(t)
      PROVE  RequestsInTime'
  <2>1. PICK over : Put(t, Counted(reqs[t], HubKeys(t), over))
    BY <1>2, HubCountsCases
  <2>2. reqs[t] \in RequestRecord /\ reqs[t] # None /\ now' = now /\ reqs[t].at <= now /\ now <= reqs[t].at + Slack
    BY <1>2, HubCountsCases, InFlight DEF At, InTime, RequestsInTime
  <2>3. Counted(reqs[t], HubKeys(t), over).at = reqs[t].at /\ Counted(reqs[t], HubKeys(t), over).pc = "answer"
    BY <2>2 DEF Counted, RequestRecord
  <2>4. QED
    BY <2>1, <2>2, <2>3, PutInTime DEF OnTime, InTime
<1>3. ASSUME NEW t \in Thread, HubAnswers(t)
      PROVE  RequestsInTime'
  BY <1>3, ServedInTime DEF HubAnswers, InTime, At
<1>4. ASSUME NEW t \in Thread, HubFails(t)
      PROVE  RequestsInTime'
  <2> DEFINE q == Goes([reqs[t] EXCEPT !.done = 0, !.paid = {}], "d1")
  <2>1. reqs[t] \in RequestRecord
    BY <1>4, InFlight DEF HubFails, At
  <2>2. q.at = now /\ q.done = 0 /\ q.kind = reqs[t].kind /\ q.ip = reqs[t].ip /\ q.name = reqs[t].name
    BY <2>1 DEF Goes, RequestRecord
  <2>3. Len(Chain(q)) \in 1..3
    BY <2>1, <2>2, ChainSame, ChainType
  <2> HIDE DEF q
  <2>4. OnTime(q)
    <3>1. now <= now /\ now <= now + Slack
      BY <1>0
    <3>2. q.done < Len(Chain(q))
      <4>1. \A n \in 1..3 : 0 < n
        OBVIOUS
      <4>2. QED
        BY <2>2, <2>3, <4>1, Zenon
    <3>3. QED
      BY <2>2, <3>1, <3>2 DEF OnTime
  <2>5. QED
    BY <1>4, <2>4, PutInTime DEF HubFails, InTime, q
<1>5. CASE Collect \/ UNCHANGED vars
  BY <1>5 DEF Collect, vars, InTime, RequestsInTime
<1>6. CASE Tick
  <2>1. \A t \in Thread : reqs[t] # None => reqs[t].at \in Nat
    BY InFlight DEF RequestRecord
  <2>2. QED
    BY <1>0, <1>6, <2>1 DEF Tick, InTime, RequestsInTime
<1>7. QED
  BY <1>1, <1>2, <1>3, <1>4, <1>5, <1>6, ArriveInTime, HitInTime DEF Next, InTime

LEMMA InTimeStep ==
    ASSUME TypeOK, InTime, scene \in Scenes, [Next]_vars
    PROVE  InTime'
<1>0. now \in Nat /\ Slack \in Nat
  BY RuleAssumption DEF TypeOK
<1>1. RowsInTime' /\ HubInTime'
  <2>1. ASSUME NEW t \in Thread, Hit(t)
        PROVE  RowsInTime' /\ HubInTime'
    <3> DEFINE k == HitKey(t)
    <3>0. At(t, "d1")
      BY <2>1, HitCases
    <3>1. /\ k.window = reqs[t].at \div Window[k.rule]
          /\ reqs[t].at \in 0..now
      <4>1. k.window = reqs[t].at \div Window[k.rule] /\ reqs[t].at \in Nat
        BY <3>0, HitKeyType
      <4>2. reqs[t].at <= now
        BY <3>0 DEF InTime, RequestsInTime, At
      <4>3. QED
        BY <1>0, <4>1, <4>2
    <3>2. d1' = Upsert([x \in {k} |-> [n |-> HitCount(t), expires |-> reqs[t].at + Window[k.rule] + Slack]], d1)
          /\ hub' = hub /\ now' = now
      BY <2>1, HitCases
    <3> HIDE DEF k
    <3>3. QED
      BY <3>1, <3>2 DEF InTime, RowsInTime, HubInTime, Upsert
  <2>2. ASSUME NEW t \in Thread, HubCounts(t)
        PROVE  RowsInTime' /\ HubInTime'
    <3>1. PICK old : hub' = [k \in HubKeys(t) \cup (DOMAIN hub \ old) |->
                               IF k \in HubKeys(t) THEN Count(hub, k) + 1 ELSE hub[k]]
      BY <2>2, HubCountsCases
    <3>2. \A k \in HubKeys(t) : k.window = now \div Window[k.rule]
      BY <2>2, HubCountsCases, HubKeysType DEF At
    <3>3. d1' = d1 /\ now' = now
      BY <2>2, HubCountsCases
    <3>4. QED
      BY <1>0, <3>1, <3>2, <3>3 DEF InTime, RowsInTime, HubInTime
  <2>3. CASE Collect
    BY <2>3 DEF Collect, InTime, RowsInTime, HubInTime
  <2>4. CASE Tick
    BY <1>0, <2>4 DEF Tick, InTime, RowsInTime, HubInTime
  <2>5. CASE UNCHANGED <<d1, hub, now>>
    BY <2>5 DEF InTime, RowsInTime, HubInTime
  <2>6. QED
    BY <2>1, <2>2, <2>3, <2>4, <2>5 DEF Next, vars, Arrive, Challenge, HubAnswers, HubFails
<1>2. QED
  BY <1>1, RequestsStep DEF InTime

-----------------------------------------------------------------------------
(* What a step spends of a budget.                                         *)
LEMMA SpentType ==
    ASSUME TypeOK, NEW s, NEW k
    PROVE  /\ Count(served, <<s, k>>) \in Nat /\ Cardinality(Holders(s, k)) \in Nat
           /\ Spent(s, k) \in Nat
<1>1. Count(served, <<s, k>>) \in Nat
  BY DEF Count, TypeOK
<1>2. QED
  BY <1>1, HoldersFinite DEF Spent

LEMMA SpentTypeNext ==
    ASSUME TypeOK', NEW s, NEW k
    PROVE  Spent(s, k)' \in Nat
<1>1. Count(served, <<s, k>>)' \in Nat
  BY DEF Count, TypeOK
<1>2. Cardinality(Holders(s, k)') \in Nat
  BY ThreadAssumption, FS_Subset, FS_CardinalityType DEF Holders
<1>3. QED
  BY <1>1, <1>2 DEF Spent

LEMMA PutSpends ==
    ASSUME TypeOK, NEW t \in Thread, NEW q, Put(t, q), served' = served, NEW s, NEW k
    PROVE  /\ Spent(s, k)' <= Spent(s, k) + 1
           /\ t \in Holders(s, k) \/ t \notin Holders(s, k)' => Spent(s, k)' <= Spent(s, k)
<1>1. Spent(s, k) = Count(served, <<s, k>>) + Cardinality(Holders(s, k))
  BY DEF Spent
<1>2. Spent(s, k)' = Count(served, <<s, k>>) + Cardinality(Holders(s, k)')
  BY DEF Spent, Count
<1>3. reqs' = [reqs EXCEPT ![t] = q]
  BY DEF Put
<1>4. /\ Cardinality(Holders(s, k)') \in Nat
      /\ Cardinality(Holders(s, k)') <= Cardinality(Holders(s, k)) + 1
      /\ t \in Holders(s, k) \/ t \notin Holders(s, k)'
           => Cardinality(Holders(s, k)') <= Cardinality(Holders(s, k))
  BY <1>3, HoldersMove
<1>5. QED
  BY <1>1, <1>2, <1>4, SpentType

LEMMA ServeSpends ==
    ASSUME TypeOK, NEW t \in Thread, NEW store, NEW keys, Serve(t, store, keys), NEW s, NEW k
    PROVE  /\ Spent(s, k)' <= Spent(s, k) + 1
           /\ s # store \/ k \notin keys \/ t \in Holders(s, k) => Spent(s, k)' <= Spent(s, k)
<1>1. /\ Spent(s, k) = Count(served, <<s, k>>) + Cardinality(Holders(s, k))
      /\ Spent(s, k)' = Count(served', <<s, k>>) + Cardinality(Holders(s, k)')
  BY DEF Spent, Count
<1>2. Count(served', <<s, k>>) = IF s = store /\ k \in keys THEN Count(served, <<s, k>>) + 1
                                                            ELSE Count(served, <<s, k>>)
  BY DEF Serve, Upsert, Count
<1>3. reqs' = [reqs EXCEPT ![t] = None] /\ t \notin Holders(s, k)'
  BY DEF Serve, Put, Holders, TypeOK
<1>4. /\ Cardinality(Holders(s, k)') \in Nat
      /\ Cardinality(Holders(s, k)') <= Cardinality(Holders(s, k))
      /\ t \in Holders(s, k) => Cardinality(Holders(s, k)') + 1 = Cardinality(Holders(s, k))
  BY <1>3, HoldersMove
<1>5. QED
  BY <1>1, <1>2, <1>4, SpentType

LEMMA OnwardSpends ==
    ASSUME TypeOK, NEW t \in Thread, reqs[t] # None, NEW store, NEW keys, Onward(t, store, keys),
           NEW s, NEW k
    PROVE  /\ Spent(s, k)' <= Spent(s, k) + 1
           /\ s # store \/ k \notin keys \/ t \in Holders(s, k) => Spent(s, k)' <= Spent(s, k)
<1>1. CASE Serve(t, store, keys)
  BY <1>1, ServeSpends
<1>2. CASE Put(t, Enters(reqs[t])) /\ served' = served
  <2>1. reqs'[t].paid = {}
    BY <1>2, InFlight DEF Put, Enters, Goes, RequestRecord, TypeOK
  <2>2. t \notin Holders(s, k)'
    BY <2>1 DEF Holders
  <2>3. QED
    BY <1>2, <2>2, PutSpends
<1>3. QED
  BY <1>1, <1>2 DEF Onward

LEMMA RefuseSpends ==
    ASSUME TypeOK, NEW t \in Thread, NEW x, Refuse(t, x), NEW s, NEW k
    PROVE  Spent(s, k)' <= Spent(s, k)
<1>1. t \notin Holders(s, k)'
  BY DEF Refuse, Put, Holders, TypeOK
<1>2. QED
  BY <1>1, PutSpends DEF Refuse

-----------------------------------------------------------------------------
(* A key that a step does not charge keeps its counter, or is past.        *)
LEMMA StillPast ==
    ASSUME NEW s, NEW k, now \in Nat, now' \in Nat, now <= now', Past(s, k)
    PROVE  Past(s, k)'
<1>1. \A i \in Nat : Chargeable(s, i)' => Chargeable(s, i)
  BY RuleAssumption DEF Chargeable
<1>2. QED
  BY <1>1 DEF Past

LEMMA Kept ==
    ASSUME TypeOK, TypeOK', now <= now', NEW s \in Store, NEW k \in Keys, Holds(s, k),
           Spent(s, k)' <= Spent(s, k),
           \/ k \in Counters(s) /\ k \in Counters(s)' /\ Counter(s, k)' = Counter(s, k)
           \/ k \notin Counters(s) /\ k \notin Counters(s)'
           \/ k \notin Counters(s)' /\ Past(s, k)'
    PROVE  Holds(s, k)'
<1>0. /\ Spent(s, k) \in Nat /\ Spent(s, k)' \in Nat /\ Limit[k.rule] \in Nat
      /\ now \in Nat /\ now' \in Nat
      /\ k \in Counters(s) => Counter(s, k) \in Nat
  BY SpentType, SpentTypeNext, KeyRule DEF TypeOK, Counters, Counter
<1>1. Spent(s, k)' <= Limit[k.rule]
  BY <1>0 DEF Holds
<1>2. k \in Counters(s)' => Spent(s, k)' <= Counter(s, k)'
  BY <1>0 DEF Holds
<1>3. k \notin Counters(s)' => Spent(s, k)' = 0 \/ Past(s, k)'
  <2>1. CASE k \notin Counters(s) /\ Spent(s, k) = 0
    BY <1>0, <2>1
  <2>2. CASE k \notin Counters(s) /\ Past(s, k)
    BY <1>0, <2>2, StillPast
  <2>3. QED
    BY <2>1, <2>2 DEF Holds
<1>4. QED
  BY <1>1, <1>2, <1>3 DEF Holds

(* Nothing but a request moves.                                            *)
LEMMA PutHolds ==
    ASSUME TypeOK, TypeOK', CountersHold, NEW t \in Thread, NEW q, Put(t, q), UNCHANGED <<now, d1, hub, served>>,
           \A s \in Store, k \in Keys : t \in Holders(s, k)' => t \in Holders(s, k)
    PROVE  CountersHold'
<1> SUFFICES ASSUME NEW s \in Store, NEW k \in Keys
             PROVE  Holds(s, k)'
  BY DEF CountersHold
<1>1. Spent(s, k)' <= Spent(s, k) /\ now <= now'
  BY PutSpends DEF TypeOK
<1>2. Counters(s)' = Counters(s) /\ Counter(s, k)' = Counter(s, k)
  BY DEF Counters, Counter
<1>3. QED
  BY <1>1, <1>2, Kept DEF CountersHold

(* The counter a hit charges is not past: the request is counted by it now. *)
LEMMA HitNotPast ==
    ASSUME TypeOK, InTime, NEW t \in Thread, At(t, "d1")
    PROVE  ~Past("d1", HitKey(t))
<1>1. /\ HitKey(t) \in Keys /\ reqs[t].at \in Nat
      /\ HitKey(t).window = reqs[t].at \div Window[HitKey(t).rule]
  BY HitKeyType
<1>2. now <= reqs[t].at + Slack
  BY DEF InTime, RequestsInTime, At
<1>3. QED
  BY <1>1, <1>2 DEF Past, Chargeable

LEMMA HitHolds ==
    ASSUME TypeOK, TypeOK', InTime, CountersHold, NEW t \in Thread, Hit(t)
    PROVE  CountersHold'
<1> DEFINE r == reqs[t]
           c == HitKey(t)
<1>1. At(t, "d1") /\ r # None /\ r \in RequestRecord /\ now \in Nat /\ now' = now /\ hub' = hub
  BY HitCases, InFlight DEF At
<1>2. /\ c \in Keys /\ HitCount(t) \in Nat /\ r.at \in Nat /\ ~Past("d1", c)
      /\ Limit[c.rule] \in Nat
  BY <1>1, HitKeyType, HitNotPast, KeyRule
<1>3. PICK e : d1' = Upsert([x \in {c} |-> [n |-> HitCount(t), expires |-> e]], d1)
  BY HitCases
<1>4. \/ Refuse(t, c)
      \/ HitCount(t) <= Limit[c.rule] /\ Onward(t, "d1", r.paid \cup {c})
      \/ /\ HitCount(t) <= Limit[c.rule]
         /\ \E pc \in {"challenge", "d1"} : Put(t, Goes(PaidFor(r, c), pc))
         /\ served' = served
  BY HitCases
<1> SUFFICES ASSUME NEW s \in Store, NEW k \in Keys
             PROVE  Holds(s, k)'
  BY DEF CountersHold
<1>5. /\ Spent(s, k)' <= Spent(s, k) + 1
      /\ s = "hub" \/ k # c \/ Refuse(t, c) => Spent(s, k)' <= Spent(s, k)
  <2>0. /\ t \in Holders("d1", k) <=> k \in r.paid
        /\ t \notin Holders("hub", k)
        /\ s \in {"d1", "hub"}
    BY <1>1 DEF Holders, At, Store
  <2>1. CASE Refuse(t, c)
    <3>1. Spent(s, k)' <= Spent(s, k)
      BY <2>1, RefuseSpends
    <3>2. Spent(s, k) \in Nat /\ Spent(s, k)' \in Nat
      BY SpentType, SpentTypeNext
    <3>3. Spent(s, k)' <= Spent(s, k) + 1
      BY <3>1, <3>2
    <3>4. QED
      BY <3>1, <3>3
  <2>2. CASE Onward(t, "d1", r.paid \cup {c})
    <3>1. k # c => k \notin r.paid \cup {c} \/ t \in Holders("d1", k)
      BY <2>0
    <3>2. /\ Spent(s, k)' <= Spent(s, k) + 1
          /\ s # "d1" \/ k \notin r.paid \cup {c} \/ t \in Holders(s, k) => Spent(s, k)' <= Spent(s, k)
      BY <1>1, <2>2, OnwardSpends
    <3>3. Refuse(t, c) => Spent(s, k)' <= Spent(s, k)
      BY RefuseSpends
    <3>4. QED
      BY <2>0, <3>1, <3>2, <3>3
  <2>3. CASE /\ served' = served
             /\ \E pc \in {"challenge", "d1"} : Put(t, Goes(PaidFor(r, c), pc))
    <3>1. PICK pc \in {"challenge", "d1"} : Put(t, Goes(PaidFor(r, c), pc))
      BY <2>3
    <3>2. reqs'[t].pc = pc /\ reqs'[t].paid = r.paid \cup {c}
      BY <1>1, <3>1 DEF Put, Goes, PaidFor, RequestRecord, TypeOK
    <3>3. t \in Holders(s, k)' => t \in Holders(s, k) \/ (s = "d1" /\ k = c)
      BY <2>0, <3>2 DEF Holders
    <3>4. Refuse(t, c) => Spent(s, k)' <= Spent(s, k)
      BY RefuseSpends
    <3>5. QED
      BY <2>0, <2>3, <3>1, <3>3, <3>4, PutSpends
  <2>4. QED
    BY <1>4, <2>1, <2>2, <2>3
<1>6. CASE s = "hub"
  <2>1. Counters(s)' = Counters(s) /\ Counter(s, k)' = Counter(s, k)
    BY <1>1, <1>6 DEF Counters, Counter
  <2>2. QED
    BY <1>1, <1>5, <1>6, <2>1, Kept DEF CountersHold
<1>7. CASE s = "d1" /\ k # c
  <2>1. (k \in Counters(s)' <=> k \in Counters(s)) /\ (k \in Counters(s) => Counter(s, k)' = Counter(s, k))
    BY <1>3, <1>7 DEF Counters, Counter, Upsert
  <2>2. QED
    BY <1>1, <1>5, <1>7, <2>1, Kept DEF CountersHold
<1>8. CASE s = "d1" /\ k = c
  <2>1. k \in Counters(s)' /\ Counter(s, k)' = HitCount(t)
    BY <1>3, <1>8 DEF Counters, Counter, Upsert
  <2>2. Spent(s, k) \in Nat /\ Spent(s, k)' \in Nat
    BY SpentType, SpentTypeNext
  <2>3. Spent(s, k) <= Limit[k.rule] /\ Spent(s, k) + 1 <= HitCount(t)
    <3>1. CASE k \in DOMAIN d1
      BY <1>2, <1>8, <2>2, <3>1 DEF CountersHold, Holds, Counters, Counter, HitCount, TypeOK
    <3>2. CASE k \notin DOMAIN d1
      <4>1. Spent(s, k) = 0 /\ Spent(s, k) <= Limit[k.rule]
        BY <1>2, <1>8, <3>2 DEF CountersHold, Holds, Counters
      <4>2. HitCount(t) = 1
        BY <1>8, <3>2 DEF HitCount
      <4>3. QED
        BY <4>1, <4>2
    <3>3. QED
      BY <3>1, <3>2
  <2>4. Spent(s, k)' <= Limit[k.rule] /\ Spent(s, k)' <= HitCount(t)
    <3>1. CASE Refuse(t, c)
      BY <1>2, <1>5, <1>8, <2>2, <2>3, <3>1
    <3>2. CASE HitCount(t) <= Limit[c.rule]
      BY <1>2, <1>5, <1>8, <2>2, <2>3, <3>2
    <3>3. QED
      BY <1>4, <3>1, <3>2
  <2>5. QED
    BY <2>1, <2>4 DEF Holds
<1>9. QED
  BY <1>6, <1>7, <1>8 DEF Store

(* The hub drops the counters of windows that are over.                    *)
LEMMA HubCountsHolds ==
    ASSUME TypeOK, TypeOK', InTime, CountersHold, NEW t \in Thread, HubCounts(t)
    PROVE  CountersHold'
<1> DEFINE r == reqs[t]
           keys == HubKeys(t)
<1>1. r # None /\ r \in RequestRecord /\ r.pc = "hub" /\ now \in Nat /\ UNCHANGED <<now, d1, served>>
  BY HubCountsCases, InFlight DEF At
<1>2. keys \in SUBSET Keys /\ \A k \in keys : k.window = now \div Window[k.rule]
  BY <1>1, HubKeysType
<1>3. PICK over \in Keys \cup {None} :
         /\ Put(t, Counted(r, keys, over))
         /\ over = None => \A k \in keys : Count(hub, k) + 1 <= Limit[k.rule]
  BY HubCountsCases
<1>4. PICK old \in SUBSET DOMAIN hub :
         /\ hub' = [k \in keys \cup (DOMAIN hub \ old) |-> IF k \in keys THEN Count(hub, k) + 1 ELSE hub[k]]
         /\ \A k \in old : k \notin keys /\ \E c \in keys : k.rule = c.rule /\ k.subject = c.subject
  BY HubCountsCases
<1> HIDE DEF keys
<1>5. reqs'[t].pc = "answer" /\ reqs'[t].paid = keys /\ reqs'[t].over = over
  BY <1>1, <1>3 DEF Put, Counted, RequestRecord, TypeOK
<1> SUFFICES ASSUME NEW s \in Store, NEW k \in Keys
             PROVE  Holds(s, k)'
  BY DEF CountersHold
<1>6. /\ Spent(s, k)' <= Spent(s, k) + 1
      /\ s = "d1" \/ k \notin keys \/ over # None => Spent(s, k)' <= Spent(s, k)
  <2>1. t \in Holders(s, k)' => s # "d1" /\ k \in keys /\ over = None
    BY <1>5 DEF Holders
  <2>2. QED
    BY <1>1, <1>3, <2>1, PutSpends
<1>7. Spent(s, k) \in Nat /\ Spent(s, k)' \in Nat /\ Limit[k.rule] \in Nat /\ Window[k.rule] \in Nat \ {0}
  BY SpentType, SpentTypeNext, KeyRule
<1>8. CASE s = "d1"
  <2>1. Counters(s)' = Counters(s) /\ Counter(s, k)' = Counter(s, k)
    BY <1>1, <1>8 DEF Counters, Counter
  <2>2. QED
    BY <1>1, <1>6, <1>8, <2>1, Kept DEF CountersHold
<1>9. CASE s = "hub" /\ k \in keys
  <2>1. k \in Counters(s)' /\ Counter(s, k)' = Count(hub, k) + 1
    BY <1>4, <1>9 DEF Counters, Counter
  <2>2. ~Past(s, k)
    BY <1>1, <1>2, <1>9 DEF Past, Chargeable
  <2>3. Count(hub, k) \in Nat /\ Spent(s, k) <= Count(hub, k) /\ Spent(s, k) <= Limit[k.rule]
    <3>1. CASE k \in DOMAIN hub
      BY <1>9, <3>1 DEF CountersHold, Holds, Counters, Counter, Count, TypeOK
    <3>2. CASE k \notin DOMAIN hub
      BY <1>9, <2>2, <3>2 DEF CountersHold, Holds, Counters, Count
    <3>3. QED
      BY <3>1, <3>2
  <2>4. Spent(s, k)' <= Count(hub, k) + 1
    BY <1>6, <1>7, <2>3
  <2>5. Spent(s, k)' <= Limit[k.rule]
    <3>1. CASE over = None
      <4>1. Count(hub, k) + 1 <= Limit[k.rule]
        BY <1>3, <1>9, <3>1
      <4>2. QED
        BY <1>7, <2>3, <2>4, <4>1
    <3>2. CASE over # None
      BY <1>6, <1>7, <2>3, <3>2
    <3>3. QED
      BY <3>1, <3>2
  <2>6. QED
    BY <2>1, <2>4, <2>5 DEF Holds
<1>10. CASE s = "hub" /\ k \in old
  <2>1. k \notin Counters(s)'
    BY <1>4, <1>10 DEF Counters
  <2>2. k.window < now \div Window[k.rule]
    <3>1. PICK c \in keys : k.rule = c.rule /\ k.subject = c.subject
      BY <1>4, <1>10
    <3>2. c.window = now \div Window[k.rule] /\ c \in Keys
      BY <1>2, <3>1
    <3>3. k.window # c.window
      BY <1>4, <1>10, <3>1, <3>2 DEF Keys
    <3>4. PICK i \in 0..now : k.window = i \div Window[k.rule]
      BY <1>10 DEF InTime, HubInTime
    <3>5. k.window <= now \div Window[k.rule] /\ k.window \in Nat /\ now \div Window[k.rule] \in Nat
      BY <1>1, <1>7, <3>4, LaterWindow
    <3>6. QED
      BY <3>2, <3>3, <3>5
  <2>3. Past(s, k)'
    <3> SUFFICES ASSUME NEW i \in Nat, now <= i
                 PROVE  i \div Window[k.rule] # k.window
      BY <1>1, <1>10 DEF Past, Chargeable
    <3>1. now \div Window[k.rule] <= i \div Window[k.rule]
          /\ now \div Window[k.rule] \in Nat /\ i \div Window[k.rule] \in Nat
      <4>1. \A w \in Nat \ {0} : now \div w <= i \div w /\ now \div w \in Nat /\ i \div w \in Nat
        BY <1>1, LaterWindow
      <4>2. QED
        BY <1>7, <4>1, Zenon
    <3>2. k.window \in Nat
      BY KeyRule
    <3>3. QED
      BY <2>2, <3>1, <3>2
  <2>4. k \notin keys
    BY <1>4, <1>10
  <2>5. QED
    BY <1>1, <1>6, <2>1, <2>3, <2>4, Kept DEF CountersHold
<1>11. CASE s = "hub" /\ k \notin keys /\ k \notin old
  <2>1. (k \in Counters(s)' <=> k \in Counters(s)) /\ (k \in Counters(s) => Counter(s, k)' = Counter(s, k))
    BY <1>4, <1>11 DEF Counters, Counter
  <2>2. QED
    BY <1>1, <1>6, <1>11, <2>1, Kept DEF CountersHold
<1>12. QED
  BY <1>8, <1>9, <1>10, <1>11 DEF Store

LEMMA HubAnswersHolds ==
    ASSUME TypeOK, TypeOK', CountersHold, NEW t \in Thread, HubAnswers(t)
    PROVE  CountersHold'
<1> SUFFICES ASSUME NEW s \in Store, NEW k \in Keys
             PROVE  Holds(s, k)'
  BY DEF CountersHold
<1>1. Counters(s)' = Counters(s) /\ Counter(s, k)' = Counter(s, k) /\ now <= now'
  BY DEF HubAnswers, Counters, Counter, TypeOK
<1>2. Spent(s, k)' <= Spent(s, k)
  <2>1. CASE Refuse(t, reqs[t].over)
    BY <2>1, RefuseSpends
  <2>2. CASE reqs[t].over = None /\ Onward(t, "hub", reqs[t].paid)
    <3>1. reqs[t] # None /\ reqs[t].pc = "answer"
      BY DEF HubAnswers, At
    <3>2. s # "hub" \/ k \notin reqs[t].paid \/ t \in Holders(s, k)
      BY <2>2, <3>1 DEF Holders
    <3>3. QED
      BY <2>2, <3>1, <3>2, OnwardSpends
  <2>3. QED
    BY <2>1, <2>2 DEF HubAnswers
<1>3. QED
  BY <1>1, <1>2, Kept DEF CountersHold

(* A row is collected when its window has been over for longer than any    *)
(* request takes.                                                          *)
LEMMA CollectedIsPast ==
    ASSUME TypeOK, InTime, Collect, NEW k \in DOMAIN d1, ~(d1[k].expires >= now)
    PROVE  Past("d1", k)'
<1>1. now' = now /\ now \in Nat /\ Slack \in Nat /\ k \in Keys
  BY RuleAssumption DEF Collect, TypeOK
<1>2. PICK i \in 0..now : k.window = i \div Window[k.rule] /\ d1[k].expires = i + Window[k.rule] + Slack
  BY DEF InTime, RowsInTime
<1>3. Window[k.rule] \in Nat \ {0} /\ i + Window[k.rule] + Slack < now
  BY <1>1, <1>2, KeyRule
<1> SUFFICES ASSUME NEW j \in Nat, now <= j + Slack, j \div Window[k.rule] = k.window
             PROVE  FALSE
  BY <1>1 DEF Past, Chargeable
<1>4. j < i + Window[k.rule]
  <2>1. i \in Nat /\ i \div Window[k.rule] = j \div Window[k.rule]
    BY <1>1, <1>2
  <2>2. QED
    BY <1>3, <2>1, SameWindow, Zenon
<1>5. QED
  BY <1>1, <1>3, <1>4

LEMMA CollectHolds ==
    ASSUME TypeOK, TypeOK', InTime, CountersHold, Collect
    PROVE  CountersHold'
<1> SUFFICES ASSUME NEW s \in Store, NEW k \in Keys
             PROVE  Holds(s, k)'
  BY DEF CountersHold
<1>1. UNCHANGED <<now, hub, reqs, served>> /\ now \in Nat
  BY DEF Collect, TypeOK
<1>2. Spent(s, k)' = Spent(s, k) /\ Spent(s, k) \in Nat
  BY <1>1, SpentType DEF Spent, Holders
<1>3. CASE s = "hub" \/ k \notin DOMAIN d1 \/ d1[k].expires >= now
  <2>1. (k \in Counters(s)' <=> k \in Counters(s)) /\ (k \in Counters(s) => Counter(s, k)' = Counter(s, k))
    BY <1>1, <1>3 DEF Counters, Counter, Collect, Store
  <2>2. QED
    BY <1>1, <1>2, <2>1, Kept DEF CountersHold
<1>4. CASE s = "d1" /\ k \in DOMAIN d1 /\ ~(d1[k].expires >= now)
  <2>1. k \notin Counters(s)'
    BY <1>4 DEF Counters, Collect
  <2>2. QED
    BY <1>1, <1>2, <1>4, <2>1, CollectedIsPast, Kept DEF CountersHold
<1>5. QED
  BY <1>3, <1>4 DEF Store

LEMMA CountersStep ==
    ASSUME TypeOK, TypeOK', InTime, CountersHold, [Next]_vars
    PROVE  CountersHold'
<1>1. ASSUME NEW t \in Thread, Arrive(t)
      PROVE  CountersHold'
  <2>1. PICK kind \in scene.kinds, ip \in scene.ips, name \in Name :
          LET r == [kind |-> kind, ip |-> ip, name |-> name, at |-> now, pc |-> "d1",
                    throttles |-> Throttles(kind), counted |-> FALSE,
                    done |-> 0, keys |-> {}, paid |-> {}, over |-> None]
          IN  Put(t, IF kind \in ByHub THEN Enters(r) ELSE r)
    BY <1>1 DEF Arrive
  <2> DEFINE r == [kind |-> kind, ip |-> ip, name |-> name, at |-> now, pc |-> "d1",
                   throttles |-> Throttles(kind), counted |-> FALSE,
                   done |-> 0, keys |-> {}, paid |-> {}, over |-> None]
             q == IF kind \in ByHub THEN Enters(r) ELSE r
  <2>2. q.paid = {}
    BY DEF Enters, Goes
  <2>3. Put(t, q)
    BY <2>1
  <2> HIDE DEF r, q
  <2>4. \A s \in Store, k \in Keys : t \notin Holders(s, k)'
    BY <2>2, <2>3 DEF Put, Holders, TypeOK
  <2>5. QED
    BY <1>1, <2>3, <2>4, PutHolds DEF Arrive
<1>2. ASSUME NEW t \in Thread, Challenge(t)
      PROVE  CountersHold'
  <2>1. reqs[t] \in RequestRecord /\ At(t, "challenge")
    BY <1>2, InFlight DEF Challenge, At
  <2>2. PICK q \in {None, Goes(reqs[t], "d1")} : Put(t, q)
    BY <1>2 DEF Challenge
  <2>3. q = None \/ (q.pc = "d1" /\ q.paid = reqs[t].paid)
    BY <2>1, <2>2 DEF Goes, RequestRecord
  <2>4. reqs'[t] = q
    BY <2>2 DEF Put, TypeOK
  <2>5. \A s \in Store, k \in Keys : t \in Holders(s, k)' => t \in Holders(s, k)
    BY <2>1, <2>3, <2>4 DEF Holders, At, Store
  <2>6. QED
    BY <1>2, <2>2, <2>5, PutHolds DEF Challenge
<1>3. ASSUME NEW t \in Thread, HubFails(t)
      PROVE  CountersHold'
  <2> DEFINE q == Goes([reqs[t] EXCEPT !.done = 0, !.paid = {}], "d1")
  <2>1. reqs[t] \in RequestRecord
    BY <1>3, InFlight DEF HubFails, At
  <2>2. q.paid = {}
    BY <2>1 DEF Goes, RequestRecord
  <2>3. Put(t, q)
    BY <1>3 DEF HubFails
  <2> HIDE DEF q
  <2>4. \A s \in Store, k \in Keys : t \notin Holders(s, k)'
    BY <2>2, <2>3 DEF Put, Holders, TypeOK
  <2>5. QED
    BY <1>3, <2>3, <2>4, PutHolds DEF HubFails
<1>4. CASE Tick
  <2> SUFFICES ASSUME NEW s \in Store, NEW k \in Keys
               PROVE  Holds(s, k)'
    BY DEF CountersHold
  <2>1. Spent(s, k)' = Spent(s, k) /\ Spent(s, k) \in Nat /\ now <= now'
    BY <1>4, SpentType DEF Tick, Spent, Holders, TypeOK
  <2>2. Counters(s)' = Counters(s) /\ Counter(s, k)' = Counter(s, k)
    BY <1>4 DEF Tick, Counters, Counter
  <2>3. QED
    BY <2>1, <2>2, Kept DEF CountersHold
<1>5. CASE UNCHANGED vars
  <2> SUFFICES ASSUME NEW s \in Store, NEW k \in Keys
               PROVE  Holds(s, k)'
    BY DEF CountersHold
  <2>1. Spent(s, k)' = Spent(s, k) /\ Spent(s, k) \in Nat /\ now <= now'
    BY <1>5, SpentType DEF vars, Spent, Holders, TypeOK
  <2>2. Counters(s)' = Counters(s) /\ Counter(s, k)' = Counter(s, k)
    BY <1>5 DEF vars, Counters, Counter
  <2>3. QED
    BY <2>1, <2>2, Kept DEF CountersHold
<1>6. QED
  BY <1>1, <1>2, <1>3, <1>4, <1>5, HitHolds, HubCountsHolds, HubAnswersHolds, CollectHolds DEF Next

-----------------------------------------------------------------------------
(* The invariant of the counters, and with it the state itself, is kept.   *)
LEMMA BudgetInit ==
    ASSUME Init
    PROVE  scene \in Scenes /\ BudgetInv
<1>1. now \in Nat
  BY SceneAssumption DEF Init
<1>2. TypeOK
  BY <1>1 DEF Init, TypeOK
<1>3. InTime
  BY DEF Init, InTime, RowsInTime, HubInTime, RequestsInTime
<1>4. CountersHold
  <2> SUFFICES ASSUME NEW s \in Store, NEW k \in Keys
               PROVE  Holds(s, k)
    BY DEF CountersHold
  <2>1. Holders(s, k) = {} /\ Count(served, <<s, k>>) = 0
    BY DEF Init, Holders, Count
  <2>2. Spent(s, k) = 0
    BY <2>1, FS_EmptySet DEF Spent
  <2>3. k \notin Counters(s)
    BY DEF Init, Counters
  <2>4. QED
    BY <2>2, <2>3, KeyRule DEF Holds
<1>5. QED
  BY <1>2, <1>3, <1>4 DEF BudgetInv, Init

LEMMA BudgetStep ==
    ASSUME scene \in Scenes, BudgetInv, [Next]_vars
    PROVE  (scene \in Scenes)' /\ BudgetInv'
<1>1. TypeOK /\ InTime /\ CountersHold
  BY DEF BudgetInv
<1>2. TypeOK' /\ (scene \in Scenes)' /\ InTime'
  BY <1>1, TypeStep, InTimeStep
<1>3. QED
  BY <1>1, <1>2, CountersStep DEF BudgetInv

LEMMA BudgetImplied ==
    ASSUME BudgetInv
    PROVE  TypeOK /\ BudgetHolds
<1> SUFFICES ASSUME NEW p \in DOMAIN served
             PROVE  served[p] <= Limit[p[2].rule]
  BY DEF BudgetInv, BudgetHolds
<1>1. PICK s \in Store, k \in Keys : p = <<s, k>>
  BY DEF BudgetInv, TypeOK
<1>2. Spent(s, k) <= Limit[k.rule] /\ Limit[k.rule] \in Nat
  BY KeyRule DEF BudgetInv, CountersHold, Holds
<1>3. Count(served, <<s, k>>) = served[p]
  BY <1>1 DEF Count
<1>4. Count(served, <<s, k>>) \in Nat /\ Cardinality(Holders(s, k)) \in Nat
  BY SpentType DEF BudgetInv
<1>5. Spent(s, k) = Count(served, <<s, k>>) + Cardinality(Holders(s, k))
  BY DEF Spent
<1>6. served[p] <= Limit[k.rule]
  BY <1>2, <1>3, <1>4, <1>5
<1>7. QED
  BY <1>1, <1>6

(* A budget holds, for any limits and windows and any number of requests in *)
(* flight: no counter lets more requests of its window through than its    *)
(* limit, whether it counts in D1 or in a hub.                             *)
THEOREM BudgetsHold == Spec => [](TypeOK /\ BudgetHolds)
<1>1. Init => scene \in Scenes /\ BudgetInv
  BY BudgetInit
<1>2. (scene \in Scenes /\ BudgetInv) /\ [Next]_vars => (scene \in Scenes /\ BudgetInv)'
  BY BudgetStep
<1>3. scene \in Scenes /\ BudgetInv => TypeOK /\ BudgetHolds
  BY BudgetImplied
<1>4. QED
  BY <1>1, <1>2, <1>3, PTL DEF Spec

-----------------------------------------------------------------------------
(* Nobody is refused early.  First, what a chain charges for: every rule    *)
(* once, and the two counters of a name only by a login.                   *)
LEMMA ChainRules ==
    ASSUME NEW r \in RequestRecord
    PROVE  /\ \A n, m \in DOMAIN Chain(r) : n # m => Chain(r)[n].rule # Chain(r)[m].rule
           /\ r.kind = "login" =>
                 /\ Len(Chain(r)) = 3 /\ Chain(r)[1].rule = "login_ip"
                 /\ Chain(r)[2] = Charge("login_user_ip", <<r.name, r.ip>>)
                 /\ Chain(r)[3] = Charge("login_identity", r.name)
           /\ r.kind # "login" => \A n \in DOMAIN Chain(r) :
                 Chain(r)[n].rule \notin {"login_user_ip", "login_identity"}
<1>0. r.ip \in Ip /\ r.name \in Name /\ r.kind \in Kind
  BY DEF RequestRecord
<1>1. CASE r.kind = "login"
  <2>1. Chain(r) = <<Charge("login_ip", r.ip), Charge("login_user_ip", <<r.name, r.ip>>),
                     Charge("login_identity", r.name)>>
    BY <1>1 DEF Chain
  <2>2. QED
    BY <1>1, <2>1 DEF Charge
<1>2. CASE r.kind \in {"reset", "resend"}
  <2>1. Chain(r) = <<Charge("reset_ip", r.ip), Charge("reset_email", r.name)>>
    BY <1>2 DEF Chain
  <2>2. QED
    BY <1>2, <2>1 DEF Charge
<1>3. CASE r.kind \in {"token", "admin", "lookup", "heavy"}
  <2>1. Chain(r) \in {<<Charge("token_ip", r.ip)>>, <<Charge("admin_ip", r.ip)>>,
                      <<Charge("social_user", r.name)>>, <<Charge("api_user", r.name)>>}
    BY <1>3 DEF Chain
  <2>2. QED
    BY <1>3, <2>1 DEF Charge
<1>4. CASE r.kind \in {"write", "nested"}
  <2>1. Chain(r) = <<Charge("write_user", r.name), Charge("write_user_day", r.name)>>
    BY <1>4 DEF Chain
  <2>2. QED
    BY <1>4, <2>1 DEF Charge
<1>5. CASE r.kind \in {"group", "message"}
  <2>1. Chain(r) = <<Charge("social_write", r.name), Charge("write_user_day", r.name)>>
    BY <1>5 DEF Chain
  <2>2. QED
    BY <1>5, <2>1 DEF Charge
<1>6. QED
  BY <1>0, <1>1, <1>2, <1>3, <1>4, <1>5 DEF Kind

(* One more request of a source at a counter.                              *)
VisitsOf(f) == UNION {{i} \X (1..f[i]) : i \in Ip}

LEMMA OneVisitMore ==
    \A f, g \in [Ip -> Nat], ip \in Ip :
        g = [f EXCEPT ![ip] = f[ip] + 1] /\ IsFiniteSet(VisitsOf(f)) =>
           /\ IsFiniteSet(VisitsOf(g)) /\ Cardinality(VisitsOf(f)) \in Nat
           /\ Cardinality(VisitsOf(g)) = Cardinality(VisitsOf(f)) + 1
<1> SUFFICES ASSUME NEW f \in [Ip -> Nat], NEW ip \in Ip, NEW g \in [Ip -> Nat],
                    g = [f EXCEPT ![ip] = f[ip] + 1], IsFiniteSet(VisitsOf(f))
             PROVE  /\ IsFiniteSet(VisitsOf(g)) /\ Cardinality(VisitsOf(f)) \in Nat
                    /\ Cardinality(VisitsOf(g)) = Cardinality(VisitsOf(f)) + 1
  OBVIOUS
<1> DEFINE v == <<ip, f[ip] + 1>>
<1>1. v \notin VisitsOf(f)
  BY DEF VisitsOf
<1>2. VisitsOf(g) = VisitsOf(f) \cup {v}
  <2>1. ASSUME NEW x \in VisitsOf(g)
        PROVE  x \in VisitsOf(f) \cup {v}
    <3>1. PICK i \in Ip : \E m \in 1..g[i] : x = <<i, m>>
      BY DEF VisitsOf
    <3>0. PICK n \in 1..g[i] : x = <<i, n>>
      BY <3>1
    <3>2. CASE i = ip /\ n = f[ip] + 1
      BY <3>0, <3>2
    <3>3. CASE i # ip \/ n # f[ip] + 1
      <4>1. n \in 1..f[i]
        BY <3>1, <3>3
      <4>2. QED
        BY <3>1, <4>1 DEF VisitsOf
    <3>4. QED
      BY <3>2, <3>3
  <2>2. ASSUME NEW x \in VisitsOf(f)
        PROVE  x \in VisitsOf(g)
    <3>1. PICK i \in Ip : \E m \in 1..f[i] : x = <<i, m>>
      BY DEF VisitsOf
    <3>0. PICK n \in 1..f[i] : x = <<i, n>>
      BY <3>1
    <3>2. n \in 1..g[i]
      BY <3>1
    <3>3. QED
      BY <3>1, <3>2 DEF VisitsOf
  <2>3. v \in VisitsOf(g)
    <3>1. f[ip] + 1 \in 1..g[ip]
      OBVIOUS
    <3>2. QED
      BY <3>1 DEF VisitsOf
  <2>4. QED
    BY <2>1, <2>2, <2>3
<1> HIDE DEF v
<1>3. /\ IsFiniteSet(VisitsOf(f) \cup {v}) /\ Cardinality(VisitsOf(f)) \in Nat
      /\ Cardinality(VisitsOf(f) \cup {v}) = Cardinality(VisitsOf(f)) + 1
  BY <1>1, FS_AddElement, FS_CardinalityType
<1>4. QED
  BY <1>2, <1>3

LEMMA VisitsAre ==
    ASSUME ReachedTyped, NEW k
    PROVE  /\ [i \in Ip |-> ReachedBy(k, i)] \in [Ip -> Nat]
           /\ Visits(k) = VisitsOf([i \in Ip |-> ReachedBy(k, i)])
           /\ IsFiniteSet(Visits(k)) /\ Reached(k) \in Nat
           /\ k \notin Keys => \A i \in Ip : ReachedBy(k, i) = 0
<1>1. [i \in Ip |-> ReachedBy(k, i)] \in [Ip -> Nat]
  BY DEF ReachedBy, ReachedTyped
<1>2. Visits(k) = VisitsOf([i \in Ip |-> ReachedBy(k, i)])
  BY DEF Visits, VisitsOf
<1>3. IsFiniteSet(Visits(k))
  <2>1. CASE k \in DOMAIN reached
    BY <2>1 DEF ReachedTyped
  <2>2. CASE k \notin DOMAIN reached
    <3>1. Visits(k) = {}
      BY <2>2 DEF Visits, ReachedBy
    <3>2. QED
      BY <3>1, FS_EmptySet
  <2>3. QED
    BY <2>1, <2>2
<1>4. QED
  BY <1>1, <1>2, <1>3, FS_CardinalityType DEF Reached, ReachedBy, ReachedTyped

(* What a request does to the counts.                                      *)
Newly(t, keys) == keys \ reqs[t].keys

LEMMA ReachCounts ==
    ASSUME ReachedTyped, NEW t \in Thread, reqs[t] \in RequestRecord, NEW keys \in SUBSET Keys, Reach(t, keys)
    PROVE  /\ ReachedTyped'
           /\ \A k : \A i \in Ip :
                 /\ ReachedBy(k, i) \in Nat
                 /\ ReachedBy(k, i)' = IF k \in Newly(t, keys) /\ i = reqs[t].ip THEN ReachedBy(k, i) + 1
                                                                                ELSE ReachedBy(k, i)
           /\ \A k : /\ Reached(k) \in Nat /\ Reached(k)' \in Nat
                     /\ Reached(k)' = IF k \in Newly(t, keys) THEN Reached(k) + 1 ELSE Reached(k)
<1> DEFINE N == Newly(t, keys)
           ip == reqs[t].ip
           more(k) == [i \in Ip |-> ReachedBy(k, i) + (IF i = ip THEN 1 ELSE 0)]
<1>0. ip \in Ip /\ N \subseteq Keys
  BY DEF RequestRecord, Newly
<1>1. reached' = Upsert([k \in N |-> more(k)], reached)
  BY DEF Reach, Newly
<1> HIDE DEF N, ip
<1>2. DOMAIN reached' = N \cup DOMAIN reached
  BY <1>1 DEF Upsert
<1>3. /\ \A k \in N : reached'[k] = more(k)
      /\ \A k \in DOMAIN reached \ N : reached'[k] = reached[k]
  BY <1>1 DEF Upsert
<1>4. ASSUME NEW k, NEW i \in Ip
      PROVE  /\ ReachedBy(k, i) \in Nat
             /\ ReachedBy(k, i)' = IF k \in N /\ i = ip THEN ReachedBy(k, i) + 1 ELSE ReachedBy(k, i)
  <2>1. ReachedBy(k, i) \in Nat
    BY DEF ReachedBy, ReachedTyped
  <2>2. CASE k \in N
    <3>1. ReachedBy(k, i)' = more(k)[i]
      BY <1>2, <1>3, <2>2 DEF ReachedBy
    <3>2. QED
      BY <2>1, <2>2, <3>1
  <2>3. CASE k \notin N
    BY <1>2, <1>3, <2>1, <2>3 DEF ReachedBy
  <2>4. QED
    BY <2>1, <2>2, <2>3
<1>5. ASSUME NEW k
      PROVE  /\ Reached(k) \in Nat /\ Reached(k)' \in Nat /\ IsFiniteSet(Visits(k)')
             /\ Reached(k)' = IF k \in N THEN Reached(k) + 1 ELSE Reached(k)
  <2> DEFINE f == [i \in Ip |-> ReachedBy(k, i)]
             g == [f EXCEPT ![ip] = f[ip] + 1]
  <2>1. f \in [Ip -> Nat] /\ Visits(k) = VisitsOf(f) /\ IsFiniteSet(Visits(k)) /\ Reached(k) \in Nat
    BY VisitsAre
  <2>2. Visits(k)' = UNION {{i} \X (1..ReachedBy(k, i)') : i \in Ip}
    BY DEF Visits
  <2>3. CASE k \in N
    <3>1. \A i \in Ip : ReachedBy(k, i)' = g[i]
      BY <1>0, <1>4, <2>3
    <3>2. Visits(k)' = VisitsOf(g)
      BY <2>2, <3>1 DEF VisitsOf
    <3>3. g \in [Ip -> Nat]
      BY <1>0, <2>1
    <3>6. g = [f EXCEPT ![ip] = f[ip] + 1]
      OBVIOUS
    <3> HIDE DEF f, g
    <3>4. /\ IsFiniteSet(VisitsOf(g)) /\ Cardinality(VisitsOf(f)) \in Nat
          /\ Cardinality(VisitsOf(g)) = Cardinality(VisitsOf(f)) + 1
      <4>1. f \in [Ip -> Nat] /\ IsFiniteSet(VisitsOf(f))
        BY <2>1
      <4>2. ip \in Ip
        BY <1>0
      <4>3. QED
        BY <3>3, <3>6, <4>1, <4>2, OneVisitMore
    <3>5. QED
      BY <2>1, <2>3, <3>2, <3>4 DEF Reached
  <2>4. CASE k \notin N
    <3>1. \A i \in Ip : ReachedBy(k, i)' = ReachedBy(k, i)
      BY <1>4, <2>4
    <3>2. Visits(k)' = Visits(k)
      BY <2>2, <3>1 DEF Visits
    <3>3. QED
      BY <2>1, <2>4, <3>2 DEF Reached
  <2>5. QED
    BY <2>3, <2>4
<1>6. ReachedTyped'
  <2>1. DOMAIN reached' \subseteq Keys
    BY <1>0, <1>2 DEF ReachedTyped
  <2>2. ASSUME NEW k \in DOMAIN reached'
        PROVE  reached'[k] \in [Ip -> Nat]
    <3>1. CASE k \in N
      <4>1. more(k) \in [Ip -> Nat]
        BY <1>4
      <4>2. QED
        BY <1>3, <3>1, <4>1
    <3>2. CASE k \notin N
      BY <1>2, <1>3, <3>2 DEF ReachedTyped
    <3>3. QED
      BY <3>1, <3>2
  <2>3. QED
    BY <1>5, <2>1, <2>2 DEF ReachedTyped
<1>7. QED
  BY <1>4, <1>5, <1>6 DEF N, ip

-----------------------------------------------------------------------------
(* One element comes to a finite set, or leaves it.                        *)
LEMMA OneMoves ==
    ASSUME NEW A, NEW B, NEW t, IsFiniteSet(A), IsFiniteSet(B), A \ {t} = B \ {t}
    PROVE  /\ Cardinality(A) \in Nat /\ Cardinality(B) \in Nat
           /\ Cardinality(B) <= Cardinality(A) + 1
           /\ t \in A \/ t \notin B => Cardinality(B) <= Cardinality(A)
           /\ t \in A /\ t \notin B => Cardinality(B) + 1 = Cardinality(A)
<1>1. /\ Cardinality(A) \in Nat /\ Cardinality(B) \in Nat
      /\ Cardinality(A \ {t}) = IF t \in A THEN Cardinality(A) - 1 ELSE Cardinality(A)
      /\ Cardinality(B \ {t}) = IF t \in B THEN Cardinality(B) - 1 ELSE Cardinality(B)
  BY FS_CardinalityType, FS_RemoveElement
<1>2. Cardinality(A \ {t}) = Cardinality(B \ {t})
  OBVIOUS
<1>3. CASE t \in A
  BY <1>1, <1>2, <1>3
<1>4. CASE t \notin A
  BY <1>1, <1>2, <1>4
<1>5. QED
  BY <1>3, <1>4

LEMMA AwaitedMoves ==
    ASSUME TypeOK, NEW t \in Thread, NEW q, Put(t, q), NEW k
    PROVE  /\ Cardinality(Awaited(k)) \in Nat /\ Cardinality(Awaited(k)') \in Nat
           /\ Cardinality(Awaited(k)') <= Cardinality(Awaited(k)) + 1
           /\ t \in Awaited(k) \/ t \notin Awaited(k)' => Cardinality(Awaited(k)') <= Cardinality(Awaited(k))
           /\ t \in Awaited(k) /\ t \notin Awaited(k)' => Cardinality(Awaited(k)') + 1 = Cardinality(Awaited(k))
<1> DEFINE A == Awaited(k)
           B == Awaited(k)'
<1>1. B \ {t} = A \ {t}
  BY DEF Awaited, TypeOK, Put
<1>2. IsFiniteSet(A) /\ IsFiniteSet(B)
  BY ThreadAssumption, FS_Subset DEF Awaited
<1> HIDE DEF A, B
<1>3. /\ Cardinality(A) \in Nat /\ Cardinality(B) \in Nat
      /\ Cardinality(B) <= Cardinality(A) + 1
      /\ t \in A \/ t \notin B => Cardinality(B) <= Cardinality(A)
      /\ t \in A /\ t \notin B => Cardinality(B) + 1 = Cardinality(A)
  BY <1>1, <1>2, OneMoves
<1>4. QED
  BY <1>3 DEF A, B

(* A request behind its last throttle has been counted.                    *)
LEMMA OnwardServes ==
    ASSUME NEW t \in Thread, reqs[t] \in RequestRecord, Path(reqs[t]), NEW store, NEW keys, Onward(t, store, keys)
    PROVE  Serve(t, store, keys)
  BY DEF Onward, Path, RequestRecord

LEMMA HitDoes ==
    ASSUME TypeOK, InTime, Paths, NEW t \in Thread, Hit(t)
    PROVE  LET r == reqs[t]
               k == HitKey(t)
           IN  /\ Reach(t, {k})
               /\ \E q : /\ Put(t, q)
                         /\ \/ q = None
                            \/ /\ HitCount(t) <= Limit[k.rule] /\ r.done + 1 # Len(Chain(r))
                               /\ \E pc \in {"challenge", "d1"} :
                                     q = Goes(PaidFor(r, k), pc) /\ (pc = "challenge" => r.done = 0)
               /\ \/ refused' = refused /\ HitCount(t) <= Limit[k.rule]
                  \/ refused' = refused \cup {[key |-> k, ip |-> r.ip]} /\ HitCount(t) > Limit[k.rule]
<1> DEFINE r == reqs[t]
           k == HitKey(t)
           n == HitCount(t)
<1>1. k \in Keys /\ n \in Nat /\ r \in RequestRecord /\ Path(r)
  BY HitKeyType, InFlight DEF Hit, At, Paths
<1>2. Limit[k.rule] \in Nat /\ r.done \in Nat
  BY <1>1, KeyRule DEF RequestRecord
<1>3. /\ Reach(t, {k})
      /\ IF n > Limit[k.rule] THEN Refuse(t, k)
         ELSE IF r.done + 1 = Len(Chain(r)) THEN Onward(t, "d1", r.paid \cup {k})
         ELSE /\ Put(t, Goes(PaidFor(r, k), IF r.kind \in Challenged /\ r.done + 1 = 1 THEN "challenge" ELSE "d1"))
              /\ UNCHANGED <<served, refused>>
  BY DEF Hit, HitKey, HitCount, PaidFor
<1> HIDE DEF k, n, r
<1>4. CASE n > Limit[k.rule]
  <2>1. Put(t, None) /\ refused' = refused \cup {[key |-> k, ip |-> r.ip]}
    BY <1>3, <1>4 DEF Refuse, r
  <2>2. QED
    BY <1>3, <1>4, <2>1 DEF k, n, r
<1>5. CASE ~(n > Limit[k.rule]) /\ r.done + 1 = Len(Chain(r))
  <2>1. Serve(t, "d1", r.paid \cup {k})
    BY <1>1, <1>3, <1>5, OnwardServes DEF r
  <2>2. n <= Limit[k.rule]
    BY <1>1, <1>2, <1>5
  <2>3. Put(t, None) /\ refused' = refused
    BY <2>1 DEF Serve
  <2>4. QED
    BY <1>3, <2>2, <2>3 DEF k, n, r
<1>6. CASE ~(n > Limit[k.rule]) /\ r.done + 1 # Len(Chain(r))
  <2>1. n <= Limit[k.rule]
    BY <1>1, <1>2, <1>6
  <2>2. PICK pc \in {"challenge", "d1"} : Put(t, Goes(PaidFor(r, k), pc)) /\ (pc = "challenge" => r.done + 1 = 1)
    BY <1>3, <1>6
  <2>3. pc = "challenge" => r.done = 0
    BY <1>2, <2>2
  <2>4. QED
    BY <1>3, <1>6, <2>1, <2>2, <2>3 DEF k, n, r
<1>7. QED
  BY <1>4, <1>5, <1>6 DEF k, n, r

-----------------------------------------------------------------------------
(* What is known of a request on its way stays true of it.                 *)
LEMMA PaidPath ==
    ASSUME NEW r \in RequestRecord, Path(r), r.pc = "d1", NEW k \in Keys, now \in Nat,
           r.done + 1 \in DOMAIN Chain(r), k.rule = Chain(r)[r.done + 1].rule,
           NEW pc \in {"challenge", "d1"}, pc = "challenge" => r.done = 0
    PROVE  Path(Goes(PaidFor(r, k), pc))
<1> DEFINE q == Goes(PaidFor(r, k), pc)
<1>1. /\ q.pc = pc /\ q.done = r.done + 1 /\ q.keys = r.keys \cup {k} /\ q.paid = r.paid \cup {k}
      /\ q.kind = r.kind /\ q.ip = r.ip /\ q.name = r.name
      /\ q.throttles = r.throttles /\ q.counted = r.counted /\ r.done \in Nat
  BY DEF Goes, PaidFor, RequestRecord
<1> HIDE DEF q
<1>2. Chain(q) = Chain(r)
  BY <1>1, ChainSame
<1>3. \A c \in q.paid : \E n \in 1..q.done : c.rule = Chain(q)[n].rule
  <2>1. ASSUME NEW c \in r.paid
        PROVE  \E n \in 1..q.done : c.rule = Chain(q)[n].rule
    <3>1. PICK n \in 1..r.done : c.rule = Chain(r)[n].rule
      BY <2>1 DEF Path, InD1
    <3>2. n \in 1..q.done
      BY <1>1, <3>1
    <3>3. QED
      BY <1>2, <3>1, <3>2
  <2>2. r.done + 1 \in 1..q.done
    BY <1>1
  <2>3. QED
    BY <1>1, <1>2, <2>1, <2>2
<1>4. pc = "challenge" => q.done = 1
  BY <1>1
<1>5. Path(q)
  BY <1>1, <1>3, <1>4 DEF Path
<1>6. QED
  BY <1>5 DEF q

LEMMA ChallengePath ==
    ASSUME NEW r \in RequestRecord, Path(r), r.pc = "challenge", now \in Nat
    PROVE  Path(Goes(r, "d1"))
<1> DEFINE q == Goes(r, "d1")
<1>1. /\ q.pc = "d1" /\ q.done = r.done /\ q.keys = r.keys /\ q.paid = r.paid
      /\ q.kind = r.kind /\ q.ip = r.ip /\ q.name = r.name
      /\ q.throttles = r.throttles /\ q.counted = r.counted
  BY DEF Goes, RequestRecord
<1> HIDE DEF q
<1>2. Chain(q) = Chain(r)
  BY <1>1, ChainSame
<1>3. Path(q)
  BY <1>1, <1>2 DEF Path, InD1
<1>4. QED
  BY <1>3 DEF q

LEMMA CountedPath ==
    ASSUME NEW r \in RequestRecord, Path(r), r.pc = "hub", NEW keys, NEW over
    PROVE  /\ Path(Counted(r, keys, over))
           /\ Counted(r, keys, over).keys = keys /\ Counted(r, keys, over).pc = "answer"
           /\ Counted(r, keys, over).over = over
<1>1. LET q == Counted(r, keys, over) IN
      /\ q.pc = "answer" /\ q.keys = r.keys \cup keys /\ q.over = over
      /\ q.kind = r.kind /\ q.throttles = r.throttles /\ q.counted = r.counted
  BY DEF Counted, RequestRecord
<1>2. r.kind \in ByHub /\ r.keys = {}
  BY DEF Path
<1>3. QED
  BY <1>1, <1>2 DEF Path, InD1

LEMMA FailsPath ==
    ASSUME NEW r \in RequestRecord, Path(r), r.pc \in {"hub", "answer"}, now \in Nat
    PROVE  LET q == Goes([r EXCEPT !.done = 0, !.paid = {}], "d1")
           IN  Path(q) /\ q.pc = "d1" /\ q.keys = r.keys /\ q.paid = {} /\ q.over = r.over
<1> DEFINE q == Goes([r EXCEPT !.done = 0, !.paid = {}], "d1")
<1>1. /\ q.pc = "d1" /\ q.keys = r.keys /\ q.paid = {} /\ q.over = r.over
      /\ q.kind = r.kind /\ q.throttles = r.throttles /\ q.counted = r.counted
  BY DEF Goes, RequestRecord
<1> HIDE DEF q
<1>2. r.kind \in ByHub
  BY DEF Path
<1>3. Path(q)
  BY <1>1, <1>2 DEF Path
<1>4. QED
  BY <1>1, <1>3 DEF q

-----------------------------------------------------------------------------
(* The hub refuses a request by a counter that it has just taken beyond its *)
(* limit.                                                                  *)
LEMMA HubDoes ==
    ASSUME TypeOK, NEW t \in Thread, HubCounts(t)
    PROVE  /\ Reach(t, HubKeys(t))
           /\ \E over \in Keys \cup {None} :
                 /\ Put(t, Counted(reqs[t], HubKeys(t), over))
                 /\ over # None => over \in HubKeys(t) /\ Count(hub, over) + 1 > Limit[over.rule]
           /\ \E old : hub' = [k \in HubKeys(t) \cup (DOMAIN hub \ old) |->
                                 IF k \in HubKeys(t) THEN Count(hub, k) + 1 ELSE hub[k]]
           /\ d1' = d1 /\ refused' = refused
<1> DEFINE r == reqs[t]
           charges == Chain(r)
           keys == HubKeys(t)
           over == {i \in DOMAIN charges : Count(hub, Key(charges[i], now)) + 1 > Limit[charges[i].rule]}
           first == IF over = {} THEN None ELSE Key(charges[Min(over)], now)
<1>0. r \in RequestRecord /\ now \in Nat
  BY InFlight DEF HubCounts, At
<1>1. over # {} => Min(over) \in over
  <2>1. over \in SUBSET (1..3)
    BY <1>0, ChainType
  <2>2. QED
    BY <2>1, MinOfFew
<1>2. first # None => first \in Keys /\ first \in keys /\ Count(hub, first) + 1 > Limit[first.rule]
  <2> HIDE DEF over
  <2> SUFFICES ASSUME over # {}
               PROVE  LET k == Key(charges[Min(over)], now)
                      IN  k \in Keys /\ k \in keys /\ Count(hub, k) + 1 > Limit[k.rule]
    OBVIOUS
  <2>1. Min(over) \in DOMAIN charges
    BY <1>1 DEF over
  <2>2. Count(hub, Key(charges[Min(over)], now)) + 1 > Limit[charges[Min(over)].rule]
    BY <1>1 DEF over
  <2>3. /\ Key(charges[Min(over)], now) \in Keys
        /\ Key(charges[Min(over)], now).rule = charges[Min(over)].rule
    BY <1>0, <2>1, KeyType
  <2>4. Key(charges[Min(over)], now) \in keys
    BY <2>1 DEF HubKeys
  <2>5. QED
    BY <2>2, <2>3, <2>4
<1>3. Put(t, Counted(r, keys, first))
  BY DEF HubCounts, Counted, HubKeys
<1>4. \E old : hub' = [k \in keys \cup (DOMAIN hub \ old) |-> IF k \in keys THEN Count(hub, k) + 1 ELSE hub[k]]
  BY DEF HubCounts, HubKeys
<1>5. Reach(t, keys) /\ d1' = d1 /\ refused' = refused
  BY DEF HubCounts, HubKeys
<1> HIDE DEF over, first
<1>6. first \in Keys \cup {None}
  BY <1>2
<1>7. QED
  BY <1>2, <1>3, <1>4, <1>5, <1>6

-----------------------------------------------------------------------------
(* One request moves on.                                                   *)
LEMMA EarlyPut ==
    ASSUME TypeOK, EarlyInv, NEW t \in Thread, NEW q, Put(t, q), q # None => Path(q),
           ReachedTyped', CountedOnce',
           \A k : Reached(k) \in Nat /\ Reached(k)' \in Nat /\ Reached(k) <= Reached(k)',
           q # None /\ q.over # None => Overrun(q.over)' \/ Overrun(q.over),
           \A x \in refused' : x \in refused \/ Overrun(x.key) \/ Overrun(x.key)'
    PROVE  EarlyInv'
<1>1. ASSUME NEW k, Overrun(k)
      PROVE  Overrun(k)'
  <2>1. k \in Keys /\ Limit[k.rule] \in Nat /\ Reached(k) > Limit[k.rule]
    BY <1>1, KeyRule DEF Overrun
  <2>2. Reached(k)' > Limit[k.rule]
    BY <2>1
  <2>3. QED
    BY <2>1, <2>2 DEF Overrun
<1>2. reqs'[t] = q /\ \A u \in Thread : u # t => reqs'[u] = reqs[u]
  BY DEF Put, TypeOK
<1>3. Paths'
  BY <1>2 DEF EarlyInv, Paths
<1>4. (\A u \in Thread : reqs[u] # None /\ reqs[u].over # None => Overrun(reqs[u].over))'
  <2> SUFFICES ASSUME NEW u \in Thread, reqs'[u] # None, reqs'[u].over # None, NEW k, k = reqs'[u].over
               PROVE  Overrun(k)'
    BY DEF Overrun, Reached, Visits, ReachedBy
  <2>1. CASE u = t
    BY <1>1, <1>2, <2>1
  <2>2. CASE u # t
    <3>1. reqs'[u] = reqs[u]
      BY <1>2, <2>2
    <3>2. Overrun(k)
      BY <3>1 DEF EarlyInv
    <3>3. QED
      BY <1>1, <3>2
  <2>3. QED
    BY <2>1, <2>2
<1>5. ASSUME NEW x \in refused'
      PROVE  Overrun(x.key)'
  <2>1. CASE x \in refused
    BY <1>1, <2>1 DEF EarlyInv
  <2>2. QED
    BY <1>1, <1>5, <2>1
<1>6. QED
  BY <1>3, <1>4, <1>5 DEF EarlyInv

LEMMA EarlyQuiet ==
    ASSUME TypeOK, EarlyInv, NEW t \in Thread, NEW q, Put(t, q), q # None => Path(q),
           UNCHANGED <<d1, hub, reached>>,
           \A k \in Keys : t \in Awaited(k)' => t \in Awaited(k),
           q # None /\ q.over # None => Overrun(q.over),
           \A x \in refused' : x \in refused \/ Overrun(x.key)
    PROVE  EarlyInv'
<1>1. ReachedTyped'
  BY DEF EarlyInv, ReachedTyped, Visits, ReachedBy
<1>2. \A k : Reached(k)' = Reached(k) /\ Reached(k) \in Nat
  <2>1. \A k : Reached(k)' = Reached(k)
    BY DEF Reached, Visits, ReachedBy
  <2>2. QED
    BY <2>1, VisitsAre DEF EarlyInv
<1>3. CountedOnce'
  <2> SUFFICES ASSUME NEW k \in Keys
               PROVE  /\ RowCount(k)' + Cardinality(Awaited(k)') <= Reached(k)'
                      /\ Count(hub', k) <= Reached(k)'
    BY DEF CountedOnce, Count
  <2>1. RowCount(k)' = RowCount(k) /\ RowCount(k) \in Nat
    BY DEF RowCount, TypeOK
  <2>2. /\ Cardinality(Awaited(k)) \in Nat /\ Cardinality(Awaited(k)') \in Nat
        /\ Cardinality(Awaited(k)') <= Cardinality(Awaited(k))
    BY AwaitedMoves
  <2>3. RowCount(k) + Cardinality(Awaited(k)) <= Reached(k) /\ Count(hub, k) <= Reached(k)
    BY DEF EarlyInv, CountedOnce
  <2>4. QED
    BY <1>2, <2>1, <2>2, <2>3
<1>4. QED
  BY <1>1, <1>2, <1>3, EarlyPut

LEMMA EarlyHit ==
    ASSUME TypeOK, InTime, EarlyInv, NEW t \in Thread, Hit(t)
    PROVE  EarlyInv'
<1> DEFINE r == reqs[t]
           k == HitKey(t)
<1>1. At(t, "d1") /\ r # None /\ r \in RequestRecord /\ now \in Nat /\ hub' = hub
      /\ d1' = Upsert([x \in {k} |-> [n |-> HitCount(t), expires |-> r.at + Window[k.rule] + Slack]], d1)
  BY HitCases, InFlight DEF At
<1>2. /\ k \in Keys /\ HitCount(t) \in Nat /\ r.done + 1 \in DOMAIN Chain(r) /\ r.at \in Nat
      /\ k.rule = Chain(r)[r.done + 1].rule /\ Limit[k.rule] \in Nat /\ r.done \in Nat
  BY <1>1, HitKeyType, KeyType, KeyRule DEF HitKey, RequestRecord
<1>3. Path(r) /\ r.pc = "d1" /\ Paths
  BY <1>1 DEF EarlyInv, Paths, At
<1>4. k \notin r.paid
  <2>1. DOMAIN Chain(r) = 1..Len(Chain(r)) /\ Len(Chain(r)) \in Nat
    BY <1>1, ChainType
  <2>2. ASSUME NEW n \in 1..r.done
        PROVE  Chain(r)[n].rule # k.rule
    <3>1. n \in DOMAIN Chain(r) /\ n # r.done + 1
      BY <1>2, <2>1
    <3>2. QED
      BY <1>1, <1>2, <3>1, ChainRules
  <2>3. QED
    BY <1>3, <2>2 DEF Path, InD1
<1>5. Reach(t, {k})
  BY <1>3, HitDoes
<1>6. PICK q : /\ Put(t, q)
               /\ \/ q = None
                  \/ \E pc \in {"challenge", "d1"} : q = Goes(PaidFor(r, k), pc) /\ (pc = "challenge" => r.done = 0)
  BY <1>3, HitDoes
<1>7. \/ refused' = refused
      \/ refused' = refused \cup {[key |-> k, ip |-> r.ip]} /\ HitCount(t) > Limit[k.rule]
  BY <1>3, HitDoes
<1>8. HitCount(t) = RowCount(k) + 1 /\ RowCount(k) \in Nat
  BY DEF HitCount, RowCount, TypeOK
<1> HIDE DEF k, r
<1>9. q # None => /\ q.keys = r.keys \cup {k} /\ q.paid = r.paid \cup {k} /\ q.pc \in {"challenge", "d1"}
                  /\ q.over = r.over /\ Path(q)
  <2>1. ASSUME NEW pc \in {"challenge", "d1"}, pc = "challenge" => r.done = 0
        PROVE  LET p == Goes(PaidFor(r, k), pc)
               IN  p.keys = r.keys \cup {k} /\ p.paid = r.paid \cup {k} /\ p.pc = pc /\ p.over = r.over /\ Path(p)
    <3>1. LET p == Goes(PaidFor(r, k), pc)
          IN  p.keys = r.keys \cup {k} /\ p.paid = r.paid \cup {k} /\ p.pc = pc /\ p.over = r.over
      BY <1>1 DEF Goes, PaidFor, RequestRecord
    <3>2. Path(Goes(PaidFor(r, k), pc))
      BY <1>1, <1>2, <1>3, <2>1, PaidPath
    <3>3. QED
      BY <3>1, <3>2
  <2>2. QED
    BY <1>6, <2>1
<1>10. reqs'[t] = q
  BY <1>6 DEF Put, TypeOK
<1>11. \A c : /\ Reached(c) \in Nat /\ Reached(c)' \in Nat
              /\ Reached(c)' = IF c \in Newly(t, {k}) THEN Reached(c) + 1 ELSE Reached(c)
  <2>1. r \in RequestRecord /\ {k} \in SUBSET Keys /\ ReachedTyped
    BY <1>1, <1>2 DEF EarlyInv
  <2>2. QED
    BY <1>5, <2>1, ReachCounts DEF r
<1>12. ReachedTyped'
  <2>1. r \in RequestRecord /\ {k} \in SUBSET Keys /\ ReachedTyped
    BY <1>1, <1>2 DEF EarlyInv
  <2>2. QED
    BY <1>5, <2>1, ReachCounts DEF r
<1>13. ASSUME NEW c \in Keys
       PROVE  /\ RowCount(c)' + Cardinality(Awaited(c)') <= Reached(c)'
              /\ Count(hub', c) <= Reached(c)'
              /\ RowCount(c)' \in Nat /\ Cardinality(Awaited(c)') \in Nat
              /\ c = k => RowCount(c)' = HitCount(t)
  <2>0. /\ Cardinality(Awaited(c)) \in Nat /\ Cardinality(Awaited(c)') \in Nat
        /\ t \in Awaited(c) \/ t \notin Awaited(c)' => Cardinality(Awaited(c)') <= Cardinality(Awaited(c))
        /\ t \in Awaited(c) /\ t \notin Awaited(c)' => Cardinality(Awaited(c)') + 1 = Cardinality(Awaited(c))
    BY <1>6, AwaitedMoves
  <2>1. RowCount(c)' = IF c = k THEN HitCount(t) ELSE RowCount(c)
    BY <1>1 DEF RowCount, Upsert
  <2>2. RowCount(c) + Cardinality(Awaited(c)) <= Reached(c) /\ Count(hub, c) <= Reached(c) /\ RowCount(c) \in Nat
        /\ Count(hub, c) \in Nat
    BY DEF EarlyInv, CountedOnce, RowCount, Count, TypeOK
  <2>3. t \in Awaited(c)' => t \in Awaited(c) /\ c # k
    BY <1>3, <1>9, <1>10, <1>1 DEF Awaited, InD1, r
  <2>4. CASE c = k /\ k \in r.keys
    <3>1. t \in Awaited(c) /\ t \notin Awaited(c)'
      BY <1>1, <1>3, <1>4, <2>3, <2>4 DEF Awaited, r
    <3>2. Reached(c)' = Reached(c)
      BY <1>11, <2>4 DEF Newly, r
    <3>3. QED
      BY <1>1, <1>8, <1>11, <2>0, <2>1, <2>2, <2>4, <3>1, <3>2
  <2>5. CASE c = k /\ k \notin r.keys
    <3>1. Reached(c)' = Reached(c) + 1
      BY <1>11, <2>5 DEF Newly, r
    <3>2. QED
      BY <1>1, <1>8, <1>11, <2>0, <2>1, <2>2, <2>3, <2>5, <3>1
  <2>6. CASE c # k
    <3>1. Reached(c)' = Reached(c)
      BY <1>11, <2>6 DEF Newly
    <3>2. QED
      BY <1>1, <1>11, <2>0, <2>1, <2>2, <2>3, <2>6, <3>1
  <2>7. QED
    BY <2>4, <2>5, <2>6
<1>14. CountedOnce'
  BY <1>13 DEF CountedOnce, Count
<1>15. \A c : Reached(c) \in Nat /\ Reached(c)' \in Nat /\ Reached(c) <= Reached(c)'
  BY <1>11
<1>16. ASSUME NEW c, c = k, HitCount(t) > Limit[k.rule]
       PROVE  Overrun(c)'
  <2>1. /\ RowCount(c)' + Cardinality(Awaited(c)') <= Reached(c)'
        /\ RowCount(c)' \in Nat /\ Cardinality(Awaited(c)') \in Nat /\ RowCount(c)' = HitCount(t)
    BY <1>2, <1>13, <1>16
  <2>2. Reached(c)' > Limit[c.rule]
    BY <1>2, <1>11, <1>16, <2>1
  <2>3. QED
    BY <1>2, <1>16, <2>2 DEF Overrun
<1>17. ASSUME NEW x \in refused'
       PROVE  x \in refused \/ Overrun(x.key) \/ Overrun(x.key)'
  <2>1. CASE x \notin refused
    <3>1. x.key = k /\ HitCount(t) > Limit[k.rule]
      BY <1>7, <1>17, <2>1
    <3>2. QED
      BY <1>16, <3>1
  <2>2. QED
    BY <2>1
<1>18. q # None /\ q.over # None => Overrun(q.over)' \/ Overrun(q.over)
  BY <1>1, <1>9 DEF EarlyInv, r
<1>19. q # None => Path(q)
  BY <1>9
<1>20. QED
  BY <1>6, <1>12, <1>14, <1>15, <1>17, <1>18, <1>19, EarlyPut

LEMMA EarlyHubCounts ==
    ASSUME TypeOK, EarlyInv, NEW t \in Thread, HubCounts(t)
    PROVE  EarlyInv'
<1> DEFINE r == reqs[t]
           keys == HubKeys(t)
<1>1. r # None /\ r \in RequestRecord /\ r.pc = "hub" /\ now \in Nat /\ Path(r) /\ r.keys = {}
  BY HubCountsCases, InFlight DEF At, EarlyInv, Paths, Path
<1>2. keys \in SUBSET Keys
  BY <1>1, HubKeysType
<1>3. Reach(t, keys) /\ d1' = d1 /\ refused' = refused
  BY HubDoes
<1>4. PICK over \in Keys \cup {None} :
         /\ Put(t, Counted(r, keys, over))
         /\ over # None => over \in keys /\ Count(hub, over) + 1 > Limit[over.rule]
  BY HubDoes
<1>5. PICK old : hub' = [k \in keys \cup (DOMAIN hub \ old) |-> IF k \in keys THEN Count(hub, k) + 1 ELSE hub[k]]
  BY HubDoes
<1> HIDE DEF keys, r
<1>6. \E K : K = keys
  OBVIOUS
<1>7. PICK K : K = keys
  BY <1>6
<1> DEFINE q == Counted(r, K, over)
<1>8. Path(q) /\ q.keys = K /\ q.pc = "answer" /\ q.over = over
  BY <1>1, CountedPath
<1> HIDE DEF q
<1>9. Put(t, q) /\ \E p : p = q
  BY <1>4, <1>7 DEF q
<1>10. PICK p : p = q
  BY <1>9
<1>11. /\ ReachedTyped'
       /\ \A k : /\ Reached(k) \in Nat /\ Reached(k)' \in Nat
                 /\ Reached(k)' = IF k \in K THEN Reached(k) + 1 ELSE Reached(k)
  <2>1. Newly(t, keys) = K
    BY <1>1, <1>7 DEF Newly, r
  <2>2. ReachedTyped /\ reqs[t] \in RequestRecord
    BY <1>1 DEF EarlyInv, r
  <2>3. QED
    BY <1>2, <1>3, <2>1, <2>2, ReachCounts
<1>12. reqs'[t] = p
  BY <1>9, <1>10 DEF Put, TypeOK
<1>13. ASSUME NEW k \in Keys
       PROVE  /\ RowCount(k)' + Cardinality(Awaited(k)') <= Reached(k)'
              /\ Count(hub, k)' <= Reached(k)'
              /\ k \in K => Count(hub, k)' = Count(hub, k) + 1
  <2>0. /\ Cardinality(Awaited(k)) \in Nat /\ Cardinality(Awaited(k)') \in Nat
        /\ Cardinality(Awaited(k)') <= Cardinality(Awaited(k)) + 1
        /\ t \in Awaited(k) \/ t \notin Awaited(k)' => Cardinality(Awaited(k)') <= Cardinality(Awaited(k))
    BY <1>9, <1>10, AwaitedMoves
  <2>1. RowCount(k)' = RowCount(k) /\ RowCount(k) \in Nat
    BY <1>3 DEF RowCount, TypeOK
  <2>2. RowCount(k) + Cardinality(Awaited(k)) <= Reached(k) /\ Count(hub, k) <= Reached(k) /\ Count(hub, k) \in Nat
    BY DEF EarlyInv, CountedOnce, Count, TypeOK
  <2>3. k \notin K => t \notin Awaited(k)'
    BY <1>8, <1>10, <1>12 DEF Awaited
  <2>4. k \in K => Count(hub, k)' = Count(hub, k) + 1
    BY <1>5, <1>7 DEF Count
  <2>5. k \notin K => Count(hub, k)' = Count(hub, k) \/ Count(hub, k)' = 0
    BY <1>5, <1>7 DEF Count
  <2>6. CASE k \in K
    <3>1. Reached(k)' = Reached(k) + 1
      BY <1>11, <2>6
    <3>2. QED
      BY <1>11, <2>0, <2>1, <2>2, <2>4, <2>6, <3>1
  <2>7. CASE k \notin K
    <3>1. Reached(k)' = Reached(k)
      BY <1>11, <2>7
    <3>2. QED
      BY <1>11, <2>0, <2>1, <2>2, <2>3, <2>5, <2>7, <3>1
  <2>8. QED
    BY <2>6, <2>7
<1>14. CountedOnce'
  BY <1>13 DEF CountedOnce
<1>15. over # None => Overrun(over)'
  <2> SUFFICES ASSUME over # None
               PROVE  Overrun(over)'
    OBVIOUS
  <2>1. over \in Keys /\ over \in K /\ Count(hub, over) + 1 > Limit[over.rule] /\ Limit[over.rule] \in Nat
    BY <1>4, <1>7, KeyRule
  <2>2. Count(hub, over)' = Count(hub, over) + 1 /\ Count(hub, over)' <= Reached(over)' /\ Count(hub, over) \in Nat
    BY <1>13, <2>1 DEF Count, TypeOK
  <2>3. Reached(over)' > Limit[over.rule]
    BY <1>11, <2>1, <2>2
  <2>4. QED
    BY <2>1, <2>3 DEF Overrun
<1>16. p # None /\ p.over # None => Overrun(p.over)' \/ Overrun(p.over)
  <2>1. p.over = over
    BY <1>8, <1>10
  <2>2. QED
    BY <1>15, <2>1
<1>17. \A k : Reached(k) \in Nat /\ Reached(k)' \in Nat /\ Reached(k) <= Reached(k)'
  BY <1>11
<1>18. \A x \in refused' : x \in refused \/ Overrun(x.key) \/ Overrun(x.key)'
  BY <1>3
<1>19. Put(t, p) /\ (p # None => Path(p))
  BY <1>8, <1>9, <1>10
<1>20. QED
  BY <1>11, <1>14, <1>16, <1>17, <1>18, <1>19, EarlyPut

LEMMA EarlyStep ==
    ASSUME scene \in Scenes, TypeOK, InTime, EarlyInv, [Next]_vars
    PROVE  EarlyInv'
<1>1. ASSUME NEW t \in Thread, Arrive(t)
      PROVE  EarlyInv'
  <2>1. PICK kind \in scene.kinds, ip \in scene.ips, name \in Name :
          LET r == [kind |-> kind, ip |-> ip, name |-> name, at |-> now, pc |-> "d1",
                    throttles |-> Throttles(kind), counted |-> FALSE,
                    done |-> 0, keys |-> {}, paid |-> {}, over |-> None]
          IN  Put(t, IF kind \in ByHub THEN Enters(r) ELSE r)
    BY <1>1 DEF Arrive
  <2> DEFINE r == [kind |-> kind, ip |-> ip, name |-> name, at |-> now, pc |-> "d1",
                   throttles |-> Throttles(kind), counted |-> FALSE,
                   done |-> 0, keys |-> {}, paid |-> {}, over |-> None]
             q == IF kind \in ByHub THEN Enters(r) ELSE r
  <2>2. q.paid = {} /\ q.keys = {} /\ q.over = None /\ q.kind = kind
    BY DEF Enters, Goes
  <2>3. Put(t, q)
    BY <2>1
  <2>4. Path(q)
    <3>1. kind \in ByHub => q.counted = TRUE /\ q.pc = "hub"
      BY DEF Enters, Goes
    <3>2. kind \notin ByHub => q.throttles = 0 /\ q.pc = "d1"
      BY DEF Throttles, ByHub
    <3> HIDE DEF q
    <3>3. QED
      BY <2>2, <3>1, <3>2 DEF Path
  <2> HIDE DEF r, q
  <2>5. PICK p : p = q
    OBVIOUS
  <2>6. \A k \in Keys : t \notin Awaited(k)'
    BY <2>2, <2>3 DEF Put, Awaited, TypeOK
  <2>7. QED
    BY <1>1, <2>2, <2>3, <2>4, <2>5, <2>6, EarlyQuiet DEF Arrive
<1>2. ASSUME NEW t \in Thread, Challenge(t)
      PROVE  EarlyInv'
  <2>1. reqs[t] \in RequestRecord /\ At(t, "challenge") /\ reqs[t] # None /\ now \in Nat /\ Path(reqs[t])
    BY <1>2, InFlight DEF Challenge, At, EarlyInv, Paths
  <2>2. PICK q \in {None, Goes(reqs[t], "d1")} : Put(t, q)
    BY <1>2 DEF Challenge
  <2>3. q = None \/ (q.pc = "d1" /\ q.paid = reqs[t].paid /\ q.keys = reqs[t].keys /\ q.over = reqs[t].over)
    BY <2>1, <2>2 DEF Goes, RequestRecord
  <2>4. reqs'[t] = q
    BY <2>2 DEF Put, TypeOK
  <2>5. \A k \in Keys : t \in Awaited(k)' => t \in Awaited(k)
    BY <2>1, <2>3, <2>4 DEF Awaited, At, InD1
  <2>6. q # None => Path(q)
    BY <2>1, <2>2, ChallengePath DEF At
  <2>7. q # None /\ q.over # None => Overrun(q.over)
    BY <2>1, <2>3 DEF EarlyInv
  <2>8. QED
    BY <1>2, <2>2, <2>5, <2>6, <2>7, EarlyQuiet DEF Challenge
<1>3. ASSUME NEW t \in Thread, HubAnswers(t)
      PROVE  EarlyInv'
  <2>1. reqs[t] \in RequestRecord /\ reqs[t] # None /\ Path(reqs[t])
    BY <1>3, InFlight DEF HubAnswers, At, EarlyInv, Paths
  <2>2. Put(t, None) /\ \A x \in refused' : x \in refused \/ Overrun(x.key)
    <3>1. CASE reqs[t].over # None
      <4>1. Refuse(t, reqs[t].over) /\ Overrun(reqs[t].over)
        BY <1>3, <2>1, <3>1 DEF HubAnswers, EarlyInv
      <4>2. QED
        BY <4>1 DEF Refuse
    <3>2. CASE reqs[t].over = None
      <4>1. Serve(t, "hub", reqs[t].paid)
        BY <1>3, <2>1, <3>2, OnwardServes DEF HubAnswers
      <4>2. QED
        BY <4>1 DEF Serve
    <3>3. QED
      BY <3>1, <3>2
  <2>3. \A k \in Keys : t \notin Awaited(k)'
    BY <2>2 DEF Put, Awaited, TypeOK
  <2>4. QED
    BY <1>3, <2>2, <2>3, EarlyQuiet DEF HubAnswers
<1>4. ASSUME NEW t \in Thread, HubFails(t)
      PROVE  EarlyInv'
  <2>1. reqs[t] \in RequestRecord /\ reqs[t] # None /\ Path(reqs[t]) /\ reqs[t].pc \in {"hub", "answer"} /\ now \in Nat
    BY <1>4, InFlight DEF HubFails, At, EarlyInv, Paths
  <2>2. PICK q : q = Goes([reqs[t] EXCEPT !.done = 0, !.paid = {}], "d1")
    OBVIOUS
  <2>3. Put(t, q)
    BY <1>4, <2>2 DEF HubFails
  <2>4. Path(q) /\ q.pc = "d1" /\ q.keys = reqs[t].keys /\ q.paid = {} /\ q.over = reqs[t].over
    BY <2>1, <2>2, FailsPath
  <2>5. \A k \in Keys : t \in Awaited(k)' => t \in Awaited(k)
    BY <2>1, <2>3, <2>4 DEF Put, Awaited, TypeOK, InD1
  <2>6. q.over # None => Overrun(q.over)
    BY <2>1, <2>4 DEF EarlyInv
  <2>7. QED
    BY <1>4, <2>3, <2>4, <2>5, <2>6, EarlyQuiet DEF HubFails
<1>5. CASE Collect \/ Tick \/ UNCHANGED vars
  <2>1. UNCHANGED <<hub, reqs, reached, refused>>
    BY <1>5 DEF Collect, Tick, vars
  <2>2. \A k \in Keys : RowCount(k)' \in {0, RowCount(k)}
    BY <1>5 DEF Collect, Tick, vars, RowCount
  <2>3. CountedOnce'
    <3> SUFFICES ASSUME NEW k \in Keys
                 PROVE  /\ RowCount(k)' + Cardinality(Awaited(k)') <= Reached(k)'
                        /\ Count(hub, k)' <= Reached(k)'
      BY DEF CountedOnce
    <3>1. Awaited(k)' = Awaited(k) /\ Count(hub, k)' = Count(hub, k) /\ Reached(k)' = Reached(k)
      BY <2>1 DEF Awaited, Count, Reached, Visits, ReachedBy
    <3>2. Cardinality(Awaited(k)) \in Nat /\ RowCount(k) \in Nat /\ Reached(k) \in Nat
      <4>1. IsFiniteSet(Awaited(k))
        BY ThreadAssumption, FS_Subset DEF Awaited
      <4>2. QED
        BY <4>1, FS_CardinalityType, VisitsAre DEF EarlyInv, RowCount, TypeOK
    <3>3. RowCount(k) + Cardinality(Awaited(k)) <= Reached(k) /\ Count(hub, k) <= Reached(k)
      BY DEF EarlyInv, CountedOnce
    <3>4. Cardinality(Awaited(k)') = Cardinality(Awaited(k))
      BY <3>1
    <3>5. QED
      BY <2>2, <3>1, <3>2, <3>3, <3>4
  <2>4. QED
    BY <2>1, <2>3 DEF EarlyInv, ReachedTyped, Paths, Overrun, Reached, Visits, ReachedBy
<1>6. QED
  BY <1>1, <1>2, <1>3, <1>4, <1>5, EarlyHit, EarlyHubCounts DEF Next

LEMMA EarlyInit ==
    ASSUME Init
    PROVE  EarlyInv
<1>1. ReachedTyped /\ Paths
  BY DEF Init, ReachedTyped, Paths
<1>2. CountedOnce
  <2> SUFFICES ASSUME NEW k \in Keys
               PROVE  /\ RowCount(k) + Cardinality(Awaited(k)) <= Reached(k)
                      /\ Count(hub, k) <= Reached(k)
    BY DEF CountedOnce
  <2>1. RowCount(k) = 0 /\ Awaited(k) = {} /\ Count(hub, k) = 0
    BY DEF Init, RowCount, Awaited, Count
  <2>2. Reached(k) \in Nat
    BY <1>1, VisitsAre
  <2>3. QED
    BY <2>1, <2>2, FS_EmptySet
<1>3. QED
  BY <1>1, <1>2 DEF Init, EarlyInv

(* Nobody is refused early, for any limits and windows and any number of    *)
(* requests in flight: more requests than its limit have come to a budget  *)
(* that refuses one, however often a request was throttled, handed from    *)
(* the hub to D1, or found its counter collected.                          *)
THEOREM NobodyRefusedEarly == Spec => []NoneRefusedEarly
<1>1. Init => scene \in Scenes /\ BudgetInv /\ EarlyInv
  BY BudgetInit, EarlyInit
<1>2. (scene \in Scenes /\ BudgetInv /\ EarlyInv) /\ [Next]_vars => (scene \in Scenes /\ BudgetInv /\ EarlyInv)'
  BY BudgetStep, EarlyStep DEF BudgetInv
<1>3. scene \in Scenes /\ BudgetInv /\ EarlyInv => NoneRefusedEarly
  BY DEF EarlyInv, Overrun, NoneRefusedEarly
<1>4. QED
  BY <1>1, <1>2, <1>3, PTL DEF Spec

-----------------------------------------------------------------------------
(* Who uses a ceiling up.  First, the requests of a source that have passed *)
(* its own budget and have still to come to the ceiling.                   *)
LEMMA BetweenMoves ==
    ASSUME TypeOK, NEW t \in Thread, NEW q, Put(t, q), NEW n, NEW i, NEW w
    PROVE  /\ Cardinality(Between(n, i, w)) \in Nat /\ Cardinality(Between(n, i, w)') \in Nat
           /\ Cardinality(Between(n, i, w)') <= Cardinality(Between(n, i, w)) + 1
           /\ t \in Between(n, i, w) \/ t \notin Between(n, i, w)'
                => Cardinality(Between(n, i, w)') <= Cardinality(Between(n, i, w))
           /\ t \in Between(n, i, w) /\ t \notin Between(n, i, w)'
                => Cardinality(Between(n, i, w)') + 1 = Cardinality(Between(n, i, w))
<1> DEFINE A == Between(n, i, w)
           B == Between(n, i, w)'
<1>1. B \ {t} = A \ {t}
  BY DEF Between, TypeOK, Put
<1>2. IsFiniteSet(A) /\ IsFiniteSet(B)
  BY ThreadAssumption, FS_Subset DEF Between
<1> HIDE DEF A, B
<1>3. /\ Cardinality(A) \in Nat /\ Cardinality(B) \in Nat
      /\ Cardinality(B) <= Cardinality(A) + 1
      /\ t \in A \/ t \notin B => Cardinality(B) <= Cardinality(A)
      /\ t \in A /\ t \notin B => Cardinality(B) + 1 = Cardinality(A)
  BY <1>1, <1>2, OneMoves
<1>4. QED
  BY <1>3 DEF A, B

LEMMA BetweenType ==
    ASSUME NEW n, NEW i, NEW w
    PROVE  Cardinality(Between(n, i, w)) \in Nat
  BY ThreadAssumption, FS_Subset, FS_CardinalityType DEF Between

LEMMA PassedType ==
    ASSUME ReachedTyped, NEW n, NEW i \in Ip, NEW w
    PROVE  /\ Passed(n, i, w) \in Nat /\ Passed(n, i, w) <= Limit["login_user_ip"]
           /\ Limit["login_user_ip"] \in Nat
<1>1. Limit["login_user_ip"] \in Nat
  BY RuleAssumption DEF Rule
<1>2. ReachedBy(Source(n, i, w), i) \in Nat
  BY DEF ReachedBy, ReachedTyped
<1>3. QED
  BY <1>1, <1>2 DEF Passed

(* The two counters of a name.                                             *)
Pair == {"login_user_ip", "login_identity"}

LEMMA HitPair ==
    ASSUME TypeOK, InTime, NEW t \in Thread, At(t, "d1")
    PROVE  LET r == reqs[t]
               k == HitKey(t)
           IN  /\ k.rule = "login_user_ip" =>
                    /\ r.kind = "login" /\ r.done = 1 /\ Len(Chain(r)) = 3
                    /\ k = Source(r.name, r.ip, r.at \div Window["login_user_ip"])
               /\ k.rule = "login_identity" =>
                    /\ r.kind = "login" /\ r.done = 2 /\ Len(Chain(r)) = 3
                    /\ k = Identity(r.name, r.at \div Window["login_identity"])
               /\ r.kind = "login" /\ r.done = 1 => k.rule = "login_user_ip"
<1> DEFINE r == reqs[t]
           k == HitKey(t)
<1>1. r \in RequestRecord /\ r.done \in Nat /\ r.done + 1 \in DOMAIN Chain(r) /\ r.at \in Nat
  BY InFlight, HitKeyType DEF At, RequestRecord
<1>2. k = Key(Chain(r)[r.done + 1], r.at) /\ k.rule = Chain(r)[r.done + 1].rule
  BY DEF HitKey, Key
<1> HIDE DEF k, r
<1>3. CASE r.kind # "login"
  <2>1. k.rule \notin Pair
    BY <1>1, <1>2, <1>3, ChainRules DEF Pair
  <2>2. QED
    BY <1>3, <2>1 DEF Pair, k, r
<1>4. CASE r.kind = "login"
  <2>1. /\ Len(Chain(r)) = 3 /\ Chain(r)[1].rule = "login_ip"
        /\ Chain(r)[2] = Charge("login_user_ip", <<r.name, r.ip>>)
        /\ Chain(r)[3] = Charge("login_identity", r.name)
    BY <1>1, <1>4, ChainRules
  <2>2. r.done \in {0, 1, 2}
    <3>1. DOMAIN Chain(r) = 1..3
      BY <1>1, <2>1, ChainType
    <3>2. QED
      BY <1>1, <3>1
  <2>3. CASE r.done = 0
    <3>1. k.rule = "login_ip"
      BY <1>2, <2>1, <2>3
    <3>2. QED
      BY <2>3, <3>1 DEF k, r
  <2>4. CASE r.done = 1
    <3>1. k = Key(Charge("login_user_ip", <<r.name, r.ip>>), r.at)
      BY <1>2, <2>1, <2>4
    <3>2. k = Source(r.name, r.ip, r.at \div Window["login_user_ip"]) /\ k.rule = "login_user_ip"
      BY <3>1 DEF Key, Charge, Source
    <3>3. QED
      BY <1>4, <2>1, <2>4, <3>2 DEF k, r
  <2>5. CASE r.done = 2
    <3>1. k = Key(Charge("login_identity", r.name), r.at)
      BY <1>2, <2>1, <2>5
    <3>2. k = Identity(r.name, r.at \div Window["login_identity"]) /\ k.rule = "login_identity"
      BY <3>1 DEF Key, Charge, Identity
    <3>3. QED
      BY <1>4, <2>1, <2>5, <3>2 DEF k, r
  <2>6. QED
    BY <2>2, <2>3, <2>4, <2>5
<1>5. QED
  BY <1>3, <1>4

(* The hub has no counter of the pair.                                     *)
LEMMA HubPair ==
    ASSUME TypeOK, EarlyInv, NEW t \in Thread, At(t, "hub"), NEW k \in HubKeys(t)
    PROVE  k.rule \notin Pair
<1>1. reqs[t] \in RequestRecord /\ Path(reqs[t]) /\ reqs[t].pc = "hub"
  BY InFlight DEF At, EarlyInv, Paths
<1>2. reqs[t].kind # "login"
  BY <1>1 DEF Path, ByHub
<1>3. PICK n \in DOMAIN Chain(reqs[t]) : k = Key(Chain(reqs[t])[n], now)
  BY DEF HubKeys
<1>4. k.rule = Chain(reqs[t])[n].rule
  BY <1>3 DEF Key
<1>5. QED
  BY <1>1, <1>2, <1>4, ChainRules DEF Pair

-----------------------------------------------------------------------------
(* While a counter of a source may be charged, it has counted all that have *)
(* come to it from that source.                                            *)
LEMMA HitCountsSource ==
    ASSUME TypeOK, InTime, EarlyInv, SourcesCounted, NEW t \in Thread, Hit(t)
    PROVE  SourcesCounted'
<1> DEFINE r == reqs[t]
           h == HitKey(t)
<1>1. At(t, "d1") /\ r \in RequestRecord /\ now' = now /\ h \in Keys /\ HitCount(t) \in Nat /\ ReachedTyped
  BY HitCases, InFlight, HitKeyType DEF At, EarlyInv
<1>2. PICK e : d1' = Upsert([x \in {h} |-> [n |-> HitCount(t), expires |-> e]], d1)
  BY HitCases
<1>3. \A c : \A i \in Ip :
         /\ ReachedBy(c, i) \in Nat
         /\ ReachedBy(c, i)' \in {ReachedBy(c, i), ReachedBy(c, i) + 1}
         /\ c # h => ReachedBy(c, i)' = ReachedBy(c, i)
  <2>1. Reach(t, {h})
    BY HitDoes DEF EarlyInv
  <2>2. {h} \in SUBSET Keys
    BY <1>1
  <2> HIDE DEF h
  <2>3. \A c : \A i \in Ip :
           /\ ReachedBy(c, i) \in Nat
           /\ ReachedBy(c, i)' = IF c \in Newly(t, {h}) /\ i = reqs[t].ip THEN ReachedBy(c, i) + 1 ELSE ReachedBy(c, i)
    BY <1>1, <2>1, <2>2, ReachCounts
  <2>4. QED
    BY <2>3 DEF Newly
<1> SUFFICES ASSUME NEW k \in Keys, k.rule = "login_user_ip", NEW i \in Ip
             PROVE  /\ k \in DOMAIN d1' => ReachedBy(k, i)' <= d1'[k].n
                    /\ k \notin DOMAIN d1' => ReachedBy(k, i)' = 0 \/ Past("d1", k)'
  BY DEF SourcesCounted
<1>4. /\ k \in DOMAIN d1 => ReachedBy(k, i) <= d1[k].n
      /\ k \notin DOMAIN d1 => ReachedBy(k, i) = 0 \/ Past("d1", k)
  BY DEF SourcesCounted
<1>5. CASE k = h
  <2>1. k \in DOMAIN d1' /\ d1'[k].n = HitCount(t)
    BY <1>2, <1>5 DEF Upsert
  <2>2. ReachedBy(k, i) + 1 <= HitCount(t)
    <3>1. CASE k \in DOMAIN d1
      <4>1. HitCount(t) = d1[k].n + 1 /\ d1[k].n \in Nat
        BY <1>5, <3>1 DEF HitCount, TypeOK
      <4>2. QED
        BY <1>3, <1>4, <3>1, <4>1
    <3>2. CASE k \notin DOMAIN d1
      <4>1. HitCount(t) = 1
        BY <1>5, <3>2 DEF HitCount
      <4>2. ReachedBy(k, i) = 0
        BY <1>1, <1>4, <1>5, <3>2, HitNotPast
      <4>3. QED
        BY <4>1, <4>2
    <3>3. QED
      BY <3>1, <3>2
  <2>3. ReachedBy(k, i)' <= HitCount(t)
    BY <1>1, <1>3, <2>2
  <2>4. QED
    BY <2>1, <2>3
<1>6. CASE k # h
  <2>1. ReachedBy(k, i)' = ReachedBy(k, i)
    BY <1>3, <1>6
  <2>2. (k \in DOMAIN d1' <=> k \in DOMAIN d1) /\ (k \in DOMAIN d1 => d1'[k] = d1[k])
    BY <1>2, <1>6 DEF Upsert
  <2>3. Past("d1", k)' <=> Past("d1", k)
    BY <1>1 DEF Past, Chargeable
  <2>4. QED
    BY <1>4, <2>1, <2>2, <2>3
<1>7. QED
  BY <1>5, <1>6

LEMMA SourcesKept ==
    ASSUME TypeOK, TypeOK', EarlyInv, SourcesCounted, now <= now',
           \A k \in Keys, i \in Ip : k.rule = "login_user_ip" => ReachedBy(k, i)' = ReachedBy(k, i),
           \A k \in Keys : \/ k \in DOMAIN d1 /\ k \in DOMAIN d1' /\ d1'[k] = d1[k]
                           \/ k \notin DOMAIN d1 /\ k \notin DOMAIN d1'
                           \/ k \notin DOMAIN d1' /\ Past("d1", k)'
    PROVE  SourcesCounted'
<1> SUFFICES ASSUME NEW k \in Keys, k.rule = "login_user_ip", NEW i \in Ip
             PROVE  /\ k \in DOMAIN d1' => ReachedBy(k, i)' <= d1'[k].n
                    /\ k \notin DOMAIN d1' => ReachedBy(k, i)' = 0 \/ Past("d1", k)'
  BY DEF SourcesCounted
<1>1. /\ k \in DOMAIN d1 => ReachedBy(k, i) <= d1[k].n
      /\ k \notin DOMAIN d1 => ReachedBy(k, i) = 0 \/ Past("d1", k)
      /\ ReachedBy(k, i)' = ReachedBy(k, i)
  BY DEF SourcesCounted
<1>2. Past("d1", k) => Past("d1", k)'
  BY StillPast DEF TypeOK
<1>3. QED
  BY <1>1, <1>2

LEMMA SourcesStep ==
    ASSUME scene \in Scenes, TypeOK, TypeOK', InTime, EarlyInv, SourcesCounted, [Next]_vars
    PROVE  SourcesCounted'
<1>1. ASSUME NEW t \in Thread, HubCounts(t)
      PROVE  SourcesCounted'
  <2>1. At(t, "hub") /\ d1' = d1 /\ now' = now /\ now \in Nat /\ Reach(t, HubKeys(t))
        /\ reqs[t] \in RequestRecord /\ reqs[t] # None
    BY <1>1, HubCountsCases, HubDoes, InFlight DEF At
  <2>2. HubKeys(t) \in SUBSET Keys /\ \A k \in HubKeys(t) : k.rule \notin Pair
    BY <2>1, HubKeysType, HubPair
  <2>3. \A k : \A i \in Ip :
           ReachedBy(k, i)' = IF k \in Newly(t, HubKeys(t)) /\ i = reqs[t].ip THEN ReachedBy(k, i) + 1
                                                                          ELSE ReachedBy(k, i)
    BY <2>1, <2>2, ReachCounts DEF EarlyInv
  <2>4. \A k \in Keys, i \in Ip : k.rule = "login_user_ip" => ReachedBy(k, i)' = ReachedBy(k, i)
    BY <2>2, <2>3 DEF Newly, Pair
  <2>5. QED
    BY <2>1, <2>4, SourcesKept
<1>2. CASE Collect
  <2>1. reached' = reached /\ now' = now /\ now \in Nat
    BY <1>2 DEF Collect, TypeOK
  <2>2. \A k \in Keys : \/ k \in DOMAIN d1 /\ k \in DOMAIN d1' /\ d1'[k] = d1[k]
                        \/ k \notin DOMAIN d1 /\ k \notin DOMAIN d1'
                        \/ k \notin DOMAIN d1' /\ Past("d1", k)'
    <3> SUFFICES ASSUME NEW k \in DOMAIN d1, ~(d1[k].expires >= now)
                 PROVE  k \notin DOMAIN d1' /\ Past("d1", k)'
      BY <1>2 DEF Collect
    <3>1. QED
      BY <1>2, CollectedIsPast DEF Collect
  <2>3. QED
    BY <2>1, <2>2, SourcesKept DEF ReachedBy
<1>3. CASE UNCHANGED <<d1, reached>> /\ now <= now'
  BY <1>3, SourcesKept DEF ReachedBy
<1>4. now \in Nat /\ now <= now /\ now <= now + 1
  BY DEF TypeOK
<1>5. ASSUME NEW t \in Thread, Arrive(t) \/ Challenge(t) \/ HubAnswers(t) \/ HubFails(t)
      PROVE  SourcesCounted'
  <2>1. UNCHANGED <<d1, reached, now>>
    BY <1>5 DEF Arrive, Challenge, HubAnswers, HubFails
  <2>2. QED
    BY <1>3, <1>4, <2>1
<1>6. CASE Tick \/ UNCHANGED vars
  <2>1. UNCHANGED <<d1, reached>> /\ now' \in {now, now + 1}
    BY <1>6 DEF Tick, vars
  <2>2. QED
    BY <1>3, <1>4, <2>1
<1>7. QED
  BY <1>1, <1>2, <1>5, <1>6, HitCountsSource DEF Next

-----------------------------------------------------------------------------
(* No more come to a ceiling than have passed their own budget.            *)
Crosses(r) ==
    r.kind = "login" /\ r.pc \in InD1 /\ r.done = 2 =>
        \E j \in 0..r.at : /\ r.at <= j + Slack
                           /\ Source(r.name, r.ip, j \div Window["login_user_ip"]) \in r.paid

LEMMA PutCrosses ==
    ASSUME TypeOK, Crossing, NEW t \in Thread, NEW q, Put(t, q), q # None => Crosses(q)
    PROVE  Crossing'
<1>1. reqs'[t] = q /\ \A u \in Thread : u # t => reqs'[u] = reqs[u]
  BY DEF Put, TypeOK
<1>2. \A u \in Thread : reqs[u] # None => Crosses(reqs[u])
  BY DEF Crossing, Crosses
<1>3. \A u \in Thread : reqs'[u] # None => Crosses(reqs'[u])
  BY <1>1, <1>2
<1>4. QED
  BY <1>3 DEF Crossing, Crosses

LEMMA PassedKept ==
    ASSUME TypeOK, EarlyInv, PassedFirst, Crossing, NEW t \in Thread, NEW q, Put(t, q), q # None => Crosses(q),
           \A n, w : \A i \in Ip : /\ ReachedBy(Source(n, i, w), i)' = ReachedBy(Source(n, i, w), i)
                                   /\ ReachedBy(Identity(n, w), i)' = ReachedBy(Identity(n, w), i),
           q # None /\ q.pc \in InD1 =>
               q.paid = {} \/ (reqs[t] # None /\ reqs[t].pc \in InD1 /\ q.paid \subseteq reqs[t].paid)
    PROVE  PassedFirst' /\ Crossing'
<1>1. reqs'[t] = q
  BY DEF Put, TypeOK
<1> SUFFICES ASSUME NEW n \in Ip \cup Name \cup (Name \X Ip), NEW i \in Ip, NEW w \in Nat
             PROVE  ReachedBy(Identity(n, w), i)' + Cardinality(Between(n, i, w)') + Cardinality(Between(n, i, w - 1)')
                      <= Passed(n, i, w)' + Passed(n, i, w - 1)'
  BY PutCrosses DEF PassedFirst
<1>2. ASSUME NEW v
      PROVE  /\ Cardinality(Between(n, i, v)) \in Nat /\ Cardinality(Between(n, i, v)') \in Nat
             /\ Cardinality(Between(n, i, v)') <= Cardinality(Between(n, i, v))
             /\ Passed(n, i, v)' = Passed(n, i, v) /\ Passed(n, i, v) \in Nat
  <2>1. t \in Between(n, i, v)' => t \in Between(n, i, v)
    BY <1>1 DEF Between
  <2>2. Passed(n, i, v)' = Passed(n, i, v)
    BY DEF Passed
  <2>3. QED
    BY <2>1, <2>2, BetweenMoves, PassedType DEF EarlyInv
<1>3. ReachedBy(Identity(n, w), i) + Cardinality(Between(n, i, w)) + Cardinality(Between(n, i, w - 1))
        <= Passed(n, i, w) + Passed(n, i, w - 1)
  BY DEF PassedFirst
<1>4. ReachedBy(Identity(n, w), i)' = ReachedBy(Identity(n, w), i) /\ ReachedBy(Identity(n, w), i) \in Nat
  BY DEF ReachedBy, EarlyInv, ReachedTyped
<1>5. QED
  BY <1>2, <1>3, <1>4

(* A charge has not been paid before.                                      *)
LEMMA HitUnpaid ==
    ASSUME TypeOK, InTime, Paths, NEW t \in Thread, At(t, "d1")
    PROVE  HitKey(t) \notin reqs[t].paid
<1> DEFINE r == reqs[t]
           k == HitKey(t)
<1>1. r \in RequestRecord /\ r.done \in Nat /\ r.done + 1 \in DOMAIN Chain(r) /\ Path(r) /\ r.pc = "d1"
  BY InFlight, HitKeyType DEF At, RequestRecord, Paths
<1>2. k.rule = Chain(r)[r.done + 1].rule
  BY DEF HitKey, Key
<1>3. DOMAIN Chain(r) = 1..Len(Chain(r)) /\ Len(Chain(r)) \in Nat
  BY <1>1, ChainType
<1>4. ASSUME NEW n \in 1..r.done
      PROVE  Chain(r)[n].rule # k.rule
  <2>1. n \in DOMAIN Chain(r) /\ n # r.done + 1
    BY <1>1, <1>3
  <2>2. QED
    BY <1>1, <1>2, <2>1, ChainRules
<1>5. QED
  BY <1>1, <1>4 DEF Path, InD1

(* One window of a source, when a request is charged.                      *)
LEMMA HitPasses ==
    ASSUME TypeOK, InTime, EarlyInv, SourcesCounted', NEW t \in Thread, Hit(t), NEW n, NEW i \in Ip, NEW w
    PROVE  /\ Cardinality(Between(n, i, w)) \in Nat /\ Cardinality(Between(n, i, w)') \in Nat
           /\ Passed(n, i, w) \in Nat /\ Passed(n, i, w)' \in Nat
           /\ Cardinality(Between(n, i, w)') + Passed(n, i, w) <= Cardinality(Between(n, i, w)) + Passed(n, i, w)'
           /\ HitKey(t).rule = "login_identity" =>
                /\ Passed(n, i, w)' = Passed(n, i, w)
                /\ Cardinality(Between(n, i, w)') <= Cardinality(Between(n, i, w))
                /\ t \in Between(n, i, w)
                     => Cardinality(Between(n, i, w)') + 1 = Cardinality(Between(n, i, w))
<1> DEFINE r == reqs[t]
           L == Limit["login_user_ip"]
<1>0. PICK h : h = HitKey(t)
  OBVIOUS
<1>s. PICK s : s = Source(n, i, w)
  OBVIOUS
<1>1. At(t, "d1") /\ r # None /\ r \in RequestRecord /\ r.pc = "d1" /\ Path(r) /\ Paths /\ h \in Keys
      /\ HitCount(t) \in Nat
  BY <1>0, HitCases, InFlight, HitKeyType DEF At, EarlyInv, Paths
<1>2. PICK q : /\ Put(t, q)
               /\ \/ q = None
                  \/ /\ HitCount(t) <= Limit[h.rule] /\ r.done + 1 # Len(Chain(r))
                     /\ \E pc \in {"challenge", "d1"} : q = Goes(PaidFor(r, h), pc)
  BY <1>0, <1>1, HitDoes
<1>3. reqs'[t] = q
  BY <1>2 DEF Put, TypeOK
<1>4. q # None => q.paid = r.paid \cup {h} /\ q.pc \in InD1
  BY <1>1, <1>2 DEF Goes, PaidFor, RequestRecord, InD1
<1>5. /\ ReachedTyped'
      /\ ReachedBy(s, i) \in Nat
      /\ ReachedBy(s, i)' = IF s \in Newly(t, {h}) /\ i = r.ip THEN ReachedBy(s, i) + 1 ELSE ReachedBy(s, i)
  <2>1. Reach(t, {h}) /\ {h} \in SUBSET Keys /\ ReachedTyped
    BY <1>0, <1>1, HitDoes DEF EarlyInv
  <2>2. QED
    BY <1>1, <2>1, ReachCounts
<1>6. L \in Nat
  BY RuleAssumption DEF Rule
<1>7. /\ Passed(n, i, w) = IF ReachedBy(s, i) <= L THEN ReachedBy(s, i) ELSE L
      /\ Passed(n, i, w)' = IF ReachedBy(s, i)' <= L THEN ReachedBy(s, i)' ELSE L
  BY <1>s DEF Passed
<1>8. /\ Cardinality(Between(n, i, w)) \in Nat /\ Cardinality(Between(n, i, w)') \in Nat
      /\ Cardinality(Between(n, i, w)') <= Cardinality(Between(n, i, w)) + 1
      /\ t \in Between(n, i, w) \/ t \notin Between(n, i, w)'
           => Cardinality(Between(n, i, w)') <= Cardinality(Between(n, i, w))
      /\ t \in Between(n, i, w) /\ t \notin Between(n, i, w)'
           => Cardinality(Between(n, i, w)') + 1 = Cardinality(Between(n, i, w))
  BY <1>2, BetweenMoves
<1>9. Passed(n, i, w) \in Nat /\ Passed(n, i, w)' \in Nat
  <2> HIDE DEF L
  <2>1. QED
    BY <1>5, <1>6, <1>7
<1>13. /\ HitKey(t).rule = "login_user_ip" =>
              /\ reqs[t].kind = "login"
              /\ HitKey(t) = Source(reqs[t].name, reqs[t].ip, reqs[t].at \div Window["login_user_ip"])
       /\ HitKey(t).rule = "login_identity" => reqs[t].done = 2 /\ Len(Chain(reqs[t])) = 3
  BY <1>1, HitPair
<1>10. CASE h # s
  <2>1. Passed(n, i, w)' = Passed(n, i, w)
    BY <1>5, <1>7, <1>10 DEF Newly
  <2>2. t \in Between(n, i, w)' => t \in Between(n, i, w)
    BY <1>1, <1>3, <1>4, <1>s, <1>10 DEF Between, InD1
  <2>3. h.rule = "login_identity" => t \notin Between(n, i, w)'
    <3>1. h.rule = "login_identity" => q = None
      <4>1. h.rule = "login_identity" => r.done = 2 /\ Len(Chain(r)) = 3
        BY <1>0, <1>13, Zenon
      <4>2. r.done = 2 /\ Len(Chain(r)) = 3 => r.done + 1 = Len(Chain(r))
        OBVIOUS
      <4>3. QED
        BY <1>2, <4>1, <4>2
    <3>2. QED
      BY <1>3, <3>1 DEF Between
  <2>4. QED
    BY <1>0, <1>8, <1>9, <2>1, <2>2, <2>3
<1>11. CASE h = s
  <2>1. h.rule = "login_user_ip" /\ h.rule # "login_identity"
    BY <1>11, <1>s DEF Source
  <2>2. r.kind = "login" /\ i = r.ip
    <3>1. r.kind = "login" /\ s = Source(r.name, r.ip, r.at \div Window["login_user_ip"])
      BY <1>0, <1>11, <1>13, <2>1
    <3>2. QED
      BY <1>s, <3>1 DEF Source
  <2>3. h \notin r.keys
    <3>1. r.keys \subseteq r.paid
      BY <1>1, <2>2 DEF Path, ByHub
    <3>2. QED
      BY <1>0, <1>1, <3>1, HitUnpaid
  <2>4. ReachedBy(s, i)' = ReachedBy(s, i) + 1
    BY <1>5, <1>11, <2>2, <2>3 DEF Newly
  <2>5. ReachedBy(s, i)' <= HitCount(t)
    <3>1. h \in DOMAIN d1' /\ d1'[h].n = HitCount(t)
      <4>1. PICK e : d1' = Upsert([x \in {h} |-> [n |-> HitCount(t), expires |-> e]], d1)
        BY <1>0, HitCases
      <4>2. QED
        BY <4>1 DEF Upsert
    <3>2. h \in DOMAIN d1' => ReachedBy(h, i)' <= d1'[h].n
      BY <1>1, <2>1 DEF SourcesCounted
    <3>3. QED
      BY <1>11, <3>1, <3>2
  <2>6. CASE q = None
    <3>1. t \notin Between(n, i, w)'
      BY <1>3, <2>6 DEF Between
    <3>2. Passed(n, i, w) <= Passed(n, i, w)'
      BY <1>5, <1>6, <1>7, <2>4
    <3>3. QED
      BY <1>0, <1>8, <1>9, <2>1, <3>1, <3>2
  <2>7. CASE q # None
    <3>1. HitCount(t) <= L
      BY <1>2, <2>1, <2>7
    <3>2. Passed(n, i, w)' = Passed(n, i, w) + 1
      BY <1>1, <1>5, <1>6, <1>7, <2>4, <2>5, <3>1
    <3>3. QED
      BY <1>0, <1>8, <1>9, <2>1, <3>2
  <2>8. QED
    BY <2>6, <2>7
<1>12. QED
  BY <1>10, <1>11

LEMMA NextWindow ==
    ASSUME NEW a \in Nat, NEW b \in Nat, NEW w \in Nat \ {0}, a <= b, b <= a + w
    PROVE  b \div w \in {a \div w, (a \div w) + 1}
  OBVIOUS

LEMMA HitCrosses ==
    ASSUME TypeOK, InTime, EarlyInv, Crossing, NEW t \in Thread, Hit(t)
    PROVE  Crossing'
<1> DEFINE r == reqs[t]
<1>0. PICK h : h = HitKey(t)
  OBVIOUS
<1>1. /\ At(t, "d1") /\ r \in RequestRecord /\ r # None /\ r.at \in Nat /\ r.done \in Nat /\ Paths
      /\ now \in Nat /\ r.at <= now /\ now <= r.at + Slack
  <2>1. At(t, "d1") /\ r \in RequestRecord /\ r # None /\ now \in Nat /\ Paths
    BY HitCases, InFlight DEF At, EarlyInv
  <2>2. r.at \in Nat /\ r.done \in Nat
    BY <2>1 DEF RequestRecord
  <2>3. r.at <= now /\ now <= r.at + Slack
    BY <2>1 DEF InTime, RequestsInTime
  <2>4. QED
    BY <2>1, <2>2, <2>3
<1>2. PICK q : /\ Put(t, q)
               /\ q = None \/ \E pc \in {"challenge", "d1"} : q = Goes(PaidFor(r, h), pc)
  BY <1>0, <1>1, HitDoes
<1>3. q # None => /\ q.paid = r.paid \cup {h} /\ q.done = r.done + 1 /\ q.at = now
                  /\ q.kind = r.kind /\ q.name = r.name /\ q.ip = r.ip
  <2>1. DOMAIN r = {"kind", "ip", "name", "at", "pc", "throttles", "counted", "done", "keys", "paid", "over"}
    BY <1>1 DEF RequestRecord
  <2>2. ASSUME NEW pc
        PROVE  LET g == Goes(PaidFor(r, h), pc) IN
               /\ g.paid = r.paid \cup {h} /\ g.done = r.done + 1 /\ g.at = now
               /\ g.kind = r.kind /\ g.name = r.name /\ g.ip = r.ip
    BY <2>1 DEF Goes, PaidFor
  <2>3. QED
    BY <1>2, <2>2, Zenon
<1>4. ASSUME q # None, q.kind = "login", q.done = 2
      PROVE  \E j \in 0..q.at : /\ q.at <= j + Slack
                                /\ Source(q.name, q.ip, j \div Window["login_user_ip"]) \in q.paid
  <2>1. r.kind = "login" /\ r.done = 1
    BY <1>1, <1>3, <1>4
  <2>2. h = Source(r.name, r.ip, r.at \div Window["login_user_ip"])
    BY <1>0, <1>1, <2>1, HitPair
  <2>3. r.at \in 0..q.at
    BY <1>1, <1>3, <1>4
  <2>4. QED
    BY <1>1, <1>3, <1>4, <2>2, <2>3
<1>5. q # None => Crosses(q)
  BY <1>4 DEF Crosses
<1>6. QED
  BY <1>2, <1>5, PutCrosses

LEMMA HitPassed ==
    ASSUME Ceiling, TypeOK, InTime, EarlyInv, PassedFirst, Crossing, SourcesCounted', NEW t \in Thread, Hit(t)
    PROVE  PassedFirst'
<1> DEFINE r == reqs[t]
<1>0. PICK h : h = HitKey(t)
  OBVIOUS
<1>1. /\ At(t, "d1") /\ r \in RequestRecord /\ r # None /\ r.at \in Nat /\ Paths /\ h \in Keys
  BY <1>0, HitCases, InFlight, HitKeyType DEF At, EarlyInv, RequestRecord
<1> SUFFICES ASSUME NEW n \in Ip \cup Name \cup (Name \X Ip), NEW i \in Ip, NEW w \in Nat
             PROVE  ReachedBy(Identity(n, w), i)' + Cardinality(Between(n, i, w)') + Cardinality(Between(n, i, w - 1)')
                      <= Passed(n, i, w)' + Passed(n, i, w - 1)'
  BY DEF PassedFirst
<1> DEFINE c == Identity(n, w)
<1>2. ReachedBy(c, i) + Cardinality(Between(n, i, w)) + Cardinality(Between(n, i, w - 1))
        <= Passed(n, i, w) + Passed(n, i, w - 1)
  BY DEF PassedFirst
<1>3. /\ ReachedBy(c, i) \in Nat
      /\ ReachedBy(c, i)' \in {ReachedBy(c, i), ReachedBy(c, i) + 1}
      /\ ReachedBy(c, i)' # ReachedBy(c, i) => c = h /\ i = r.ip
  <2>1. Reach(t, {h}) /\ {h} \in SUBSET Keys /\ ReachedTyped
    BY <1>0, <1>1, HitDoes DEF EarlyInv
  <2> HIDE DEF c
  <2>2. /\ ReachedBy(c, i) \in Nat
        /\ ReachedBy(c, i)' = IF c \in Newly(t, {h}) /\ i = r.ip THEN ReachedBy(c, i) + 1 ELSE ReachedBy(c, i)
    <3>1. \A k : \A x \in Ip :
             /\ ReachedBy(k, x) \in Nat
             /\ ReachedBy(k, x)' = IF k \in Newly(t, {h}) /\ x = reqs[t].ip THEN ReachedBy(k, x) + 1 ELSE ReachedBy(k, x)
      BY <1>1, <2>1, ReachCounts
    <3>2. QED
      BY <3>1
  <2>3. QED
    BY <2>2 DEF Newly
<1>4. ASSUME NEW v
      PROVE  /\ Cardinality(Between(n, i, v)) \in Nat /\ Cardinality(Between(n, i, v)') \in Nat
             /\ Passed(n, i, v) \in Nat /\ Passed(n, i, v)' \in Nat
             /\ Cardinality(Between(n, i, v)') + Passed(n, i, v) <= Cardinality(Between(n, i, v)) + Passed(n, i, v)'
             /\ h.rule = "login_identity" =>
                  /\ Passed(n, i, v)' = Passed(n, i, v)
                  /\ Cardinality(Between(n, i, v)') <= Cardinality(Between(n, i, v))
                  /\ t \in Between(n, i, v)
                       => Cardinality(Between(n, i, v)') + 1 = Cardinality(Between(n, i, v))
  BY <1>0, HitPasses
<1> HIDE DEF c
<1>5. CASE ReachedBy(c, i)' = ReachedBy(c, i)
  BY <1>2, <1>3, <1>4, <1>5 DEF c
<1>6. CASE c = h /\ i = r.ip
  <2>1. h.rule = "login_identity"
    BY <1>6 DEF c, Identity
  <2>2. /\ r.kind = "login" /\ r.done = 2 /\ c = Identity(r.name, r.at \div Window["login_identity"])
    BY <1>0, <1>1, <1>6, <2>1, HitPair
  <2>3. n = r.name /\ w = r.at \div Window["login_identity"]
    BY <2>2 DEF c, Identity
  <2>4. PICK j \in 0..r.at : /\ r.at <= j + Slack
                             /\ Source(r.name, r.ip, j \div Window["login_user_ip"]) \in r.paid
    BY <1>1, <2>2 DEF Crossing, At, InD1
  <2>5. w \in {j \div Window["login_identity"], (j \div Window["login_identity"]) + 1}
    <3>1. Window["login_identity"] \in Nat \ {0} /\ Slack \in Nat /\ Slack <= Window["login_identity"]
      BY RuleAssumption DEF Ceiling, Rule
    <3>2. j \in Nat /\ j <= r.at /\ r.at <= j + Window["login_identity"]
      BY <1>1, <2>4, <3>1
    <3>3. r.at \div Window["login_identity"] \in {j \div Window["login_identity"], (j \div Window["login_identity"]) + 1}
      <4>1. \A v \in Nat \ {0} : r.at <= j + v => r.at \div v \in {j \div v, (j \div v) + 1}
        BY <1>1, <3>2, NextWindow
      <4>2. QED
        BY <3>1, <3>2, <4>1, Zenon
    <3>4. QED
      BY <2>3, <3>3
  <2>6. j \div Window["login_identity"] \in {w, w - 1}
    <3>1. \A v \in Nat \ {0} : j \div v \in Int
      BY <1>1, <2>4
    <3>2. Window["login_identity"] \in Nat \ {0}
      BY RuleAssumption DEF Rule
    <3>3. j \div Window["login_identity"] \in Int
      BY <3>1, <3>2, Zenon
    <3>4. QED
      BY <2>5, <3>3
  <2>7. t \in Between(n, i, w) \/ t \in Between(n, i, w - 1)
    <3>1. Source(n, i, j \div Window["login_identity"]) \in r.paid
      BY <1>6, <2>3, <2>4 DEF Ceiling
    <3>2. Source(n, i, w) \in r.paid \/ Source(n, i, w - 1) \in r.paid
      BY <2>6, <3>1
    <3>3. QED
      BY <1>1, <3>2 DEF Between, At, InD1
  <2>8. QED
    BY <1>2, <1>3, <1>4, <2>1, <2>7 DEF c
<1>7. QED
  BY <1>3, <1>5, <1>6

LEMMA LockoutStep ==
    ASSUME Ceiling, scene \in Scenes, TypeOK, TypeOK', InTime, EarlyInv, LockoutInv, [Next]_vars
    PROVE  LockoutInv'
<1>0. PassedFirst /\ SourcesCounted /\ Crossing
  BY DEF LockoutInv
<1>1. SourcesCounted'
  BY <1>0, SourcesStep
<1>2. ASSUME NEW t \in Thread, Hit(t)
      PROVE  PassedFirst' /\ Crossing'
  BY <1>0, <1>1, <1>2, HitCrosses, HitPassed
<1>3. ASSUME NEW t \in Thread, Arrive(t)
      PROVE  PassedFirst' /\ Crossing'
  <2>1. PICK kind \in scene.kinds, ip \in scene.ips, name \in Name :
          LET r == [kind |-> kind, ip |-> ip, name |-> name, at |-> now, pc |-> "d1",
                    throttles |-> Throttles(kind), counted |-> FALSE,
                    done |-> 0, keys |-> {}, paid |-> {}, over |-> None]
          IN  Put(t, IF kind \in ByHub THEN Enters(r) ELSE r)
    BY <1>3 DEF Arrive
  <2> DEFINE r == [kind |-> kind, ip |-> ip, name |-> name, at |-> now, pc |-> "d1",
                   throttles |-> Throttles(kind), counted |-> FALSE,
                   done |-> 0, keys |-> {}, paid |-> {}, over |-> None]
             p == IF kind \in ByHub THEN Enters(r) ELSE r
  <2>2. p.paid = {} /\ p.done = 0
    BY DEF Enters, Goes
  <2>3. Put(t, p)
    BY <2>1
  <2> HIDE DEF r, p
  <2>4. PICK q : q = p
    OBVIOUS
  <2>5. reached' = reached
    BY <1>3 DEF Arrive
  <2>6. Crosses(q)
    BY <2>2, <2>4 DEF Crosses
  <2>7. QED
    BY <1>0, <2>2, <2>3, <2>4, <2>5, <2>6, PassedKept DEF ReachedBy
<1>4. ASSUME NEW t \in Thread, Challenge(t)
      PROVE  PassedFirst' /\ Crossing'
  <2>1. reqs[t] \in RequestRecord /\ reqs[t].pc = "challenge" /\ reqs[t] # None /\ Path(reqs[t]) /\ reached' = reached
    BY <1>4, InFlight DEF Challenge, At, EarlyInv, Paths
  <2>2. PICK q \in {None, Goes(reqs[t], "d1")} : Put(t, q)
    BY <1>4 DEF Challenge
  <2>3. q # None => q.pc = "d1" /\ q.paid = reqs[t].paid /\ q.done = reqs[t].done
    BY <2>1, <2>2 DEF Goes, RequestRecord
  <2>4. reqs[t].done = 1
    BY <2>1 DEF Path
  <2>5. q # None => Crosses(q)
    BY <2>3, <2>4 DEF Crosses
  <2>6. QED
    BY <1>0, <2>1, <2>2, <2>3, <2>5, PassedKept DEF ReachedBy, InD1
<1>5. ASSUME NEW t \in Thread, HubCounts(t)
      PROVE  PassedFirst' /\ Crossing'
  <2>1. At(t, "hub") /\ reqs[t] \in RequestRecord /\ reqs[t] # None /\ Reach(t, HubKeys(t)) /\ ReachedTyped
        /\ HubKeys(t) \in SUBSET Keys
    BY <1>5, HubCountsCases, HubDoes, InFlight, HubKeysType DEF At, EarlyInv
  <2>2. \A k \in HubKeys(t) : k.rule \notin Pair
    BY <2>1, HubPair
  <2>3. \A k : \A i \in Ip :
           ReachedBy(k, i)' = IF k \in Newly(t, HubKeys(t)) /\ i = reqs[t].ip THEN ReachedBy(k, i) + 1
                                                                          ELSE ReachedBy(k, i)
    BY <2>1, ReachCounts
  <2>4. \A k : k.rule \in Pair => k \notin Newly(t, HubKeys(t))
    BY <2>2 DEF Newly
  <2>5. \A n, w : \A i \in Ip : /\ ReachedBy(Source(n, i, w), i)' = ReachedBy(Source(n, i, w), i)
                                /\ ReachedBy(Identity(n, w), i)' = ReachedBy(Identity(n, w), i)
    <3> SUFFICES ASSUME NEW n, NEW w, NEW i \in Ip
                 PROVE  /\ ReachedBy(Source(n, i, w), i)' = ReachedBy(Source(n, i, w), i)
                        /\ ReachedBy(Identity(n, w), i)' = ReachedBy(Identity(n, w), i)
      OBVIOUS
    <3>1. Source(n, i, w).rule \in Pair /\ Identity(n, w).rule \in Pair
      BY DEF Source, Identity, Pair
    <3>2. ASSUME NEW k, k.rule \in Pair
          PROVE  ReachedBy(k, i)' = ReachedBy(k, i)
      BY <2>3, <2>4, <3>2
    <3>3. QED
      BY <3>1, <3>2
  <2>6. PICK over \in Keys \cup {None} : Put(t, Counted(reqs[t], HubKeys(t), over))
    BY <1>5, HubDoes
  <2>7. PICK q : q = Counted(reqs[t], HubKeys(t), over)
    OBVIOUS
  <2>8. q.pc = "answer"
    BY <2>1, <2>7 DEF Counted, RequestRecord
  <2>9. Crosses(q)
    BY <2>8 DEF Crosses, InD1
  <2>10. Put(t, q)
    BY <2>6, <2>7
  <2>11. QED
    BY <1>0, <2>5, <2>8, <2>9, <2>10, PassedKept DEF InD1
<1>6. ASSUME NEW t \in Thread, HubAnswers(t)
      PROVE  PassedFirst' /\ Crossing'
  <2>1. reqs[t] \in RequestRecord /\ Path(reqs[t]) /\ reached' = reached
    BY <1>6, InFlight DEF HubAnswers, At, EarlyInv, Paths
  <2>2. Put(t, None)
    BY <1>6, <2>1, OnwardServes DEF HubAnswers, Refuse, Serve
  <2>3. QED
    BY <1>0, <2>1, <2>2, PassedKept DEF ReachedBy
<1>7. ASSUME NEW t \in Thread, HubFails(t)
      PROVE  PassedFirst' /\ Crossing'
  <2>1. reqs[t] \in RequestRecord /\ reached' = reached
    BY <1>7, InFlight DEF HubFails, At
  <2>2. PICK q : q = Goes([reqs[t] EXCEPT !.done = 0, !.paid = {}], "d1")
    OBVIOUS
  <2>3. Put(t, q)
    BY <1>7, <2>2 DEF HubFails
  <2>4. q.paid = {} /\ q.done = 0
    BY <2>1, <2>2 DEF Goes, RequestRecord
  <2>5. Crosses(q)
    BY <2>4 DEF Crosses
  <2>6. QED
    BY <1>0, <2>1, <2>3, <2>4, <2>5, PassedKept DEF ReachedBy
<1>8. CASE Collect \/ Tick \/ UNCHANGED vars
  <2>1. UNCHANGED <<reqs, reached>>
    BY <1>8 DEF Collect, Tick, vars
  <2>2. Crossing'
    BY <1>0, <2>1 DEF Crossing
  <2>3. \A k, i : ReachedBy(k, i)' = ReachedBy(k, i)
    BY <2>1 DEF ReachedBy
  <2>4. \A n, i, v : Between(n, i, v)' = Between(n, i, v) /\ Passed(n, i, v)' = Passed(n, i, v)
    BY <2>1, <2>3 DEF Between, Passed
  <2>5. PassedFirst'
    <3> SUFFICES ASSUME NEW n \in Ip \cup Name \cup (Name \X Ip), NEW i \in Ip, NEW w \in Nat
                 PROVE  ReachedBy(Identity(n, w), i)' + Cardinality(Between(n, i, w)') + Cardinality(Between(n, i, w - 1)')
                          <= Passed(n, i, w)' + Passed(n, i, w - 1)'
      BY DEF PassedFirst
    <3>1. ReachedBy(Identity(n, w), i)' = ReachedBy(Identity(n, w), i)
      BY <2>3
    <3>2. ASSUME NEW v
          PROVE  Cardinality(Between(n, i, v)') = Cardinality(Between(n, i, v)) /\ Passed(n, i, v)' = Passed(n, i, v)
      BY <2>4
    <3>3. ReachedBy(Identity(n, w), i) + Cardinality(Between(n, i, w)) + Cardinality(Between(n, i, w - 1))
            <= Passed(n, i, w) + Passed(n, i, w - 1)
      BY <1>0 DEF PassedFirst
    <3>4. /\ Cardinality(Between(n, i, w)') = Cardinality(Between(n, i, w))
          /\ Cardinality(Between(n, i, w - 1)') = Cardinality(Between(n, i, w - 1))
          /\ Passed(n, i, w)' = Passed(n, i, w) /\ Passed(n, i, w - 1)' = Passed(n, i, w - 1)
      BY <3>2
    <3>5. QED
      BY <3>1, <3>3, <3>4
  <2>6. QED
    BY <1>1, <2>2, <2>5 DEF LockoutInv
<1>9. QED
  BY <1>1, <1>2, <1>3, <1>4, <1>5, <1>6, <1>7, <1>8 DEF Next, LockoutInv

LEMMA LockoutInit ==
    ASSUME Init
    PROVE  LockoutInv
<1>1. PassedFirst
  <2> SUFFICES ASSUME NEW n \in Ip \cup Name \cup (Name \X Ip), NEW i \in Ip, NEW w \in Nat
               PROVE  ReachedBy(Identity(n, w), i) + Cardinality(Between(n, i, w)) + Cardinality(Between(n, i, w - 1))
                        <= Passed(n, i, w) + Passed(n, i, w - 1)
    BY DEF PassedFirst
  <2>1. ReachedBy(Identity(n, w), i) = 0
    BY DEF Init, ReachedBy
  <2>2. ASSUME NEW v
        PROVE  Cardinality(Between(n, i, v)) = 0 /\ Passed(n, i, v) \in Nat
    <3>1. Between(n, i, v) = {}
      BY DEF Init, Between
    <3>2. ReachedTyped
      BY DEF Init, ReachedTyped
    <3>3. QED
      BY <3>1, <3>2, FS_EmptySet, PassedType
  <2>3. QED
    BY <2>1, <2>2
<1>2. SourcesCounted /\ Crossing
  BY DEF Init, SourcesCounted, Crossing, ReachedBy
<1>3. QED
  BY <1>1, <1>2 DEF LockoutInv

(* What one source has had of a ceiling is at most twice its own budget, so *)
(* two more must have come before it overruns.                             *)
LEMMA LockoutImplied ==
    ASSUME Ceiling, EarlyInv, PassedFirst
    PROVE  LockoutTakesMany
<1> DEFINE L == Limit["login_user_ip"]
<1> SUFFICES ASSUME NEW x \in refused, x.key.rule = "login_identity",
                    NEW S, S = {i \in Ip \ {x.ip} : ReachedBy(x.key, i) > 0}
             PROVE  Cardinality(S) >= 2
  BY DEF LockoutTakesMany
<1> DEFINE k == x.key
<1>1. /\ k \in Keys /\ Reached(k) > Limit["login_identity"] /\ ReachedTyped
      /\ L \in Nat /\ Limit["login_identity"] \in Nat /\ 4 * L <= Limit["login_identity"]
  BY RuleAssumption DEF EarlyInv, Overrun, Ceiling, Rule
<1>2. k = Identity(k.subject, k.window) /\ k.window \in Nat /\ k.subject \in Ip \cup Name \cup (Name \X Ip)
  BY <1>1 DEF Keys, Identity
<1> HIDE DEF L
<1>3. ASSUME NEW i \in Ip
      PROVE  ReachedBy(k, i) \in Nat /\ ReachedBy(k, i) <= 2 * L
  <2>1. ReachedBy(k, i) + Cardinality(Between(k.subject, i, k.window)) + Cardinality(Between(k.subject, i, k.window - 1))
          <= Passed(k.subject, i, k.window) + Passed(k.subject, i, k.window - 1)
    BY <1>2 DEF PassedFirst
  <2>2. \A v : /\ Passed(k.subject, i, v) \in Nat /\ Passed(k.subject, i, v) <= L
               /\ Cardinality(Between(k.subject, i, v)) \in Nat
    BY <1>1, PassedType, BetweenType DEF L
  <2>3. ReachedBy(k, i) \in Nat
    BY <1>1 DEF ReachedBy, ReachedTyped
  <2>4. QED
    BY <1>1, <2>1, <2>2, <2>3
<1>4. IsFiniteSet(Visits(k)) /\ Reached(k) = Cardinality(Visits(k)) /\ Reached(k) \in Nat
  BY <1>1, VisitsAre DEF Reached
<1>5. IsFiniteSet(S) /\ Cardinality(S) \in Nat
  <2> DEFINE f == [i \in S |-> <<i, 1>>]
  <2>1. \A i \in S : <<i, 1>> \in Visits(k)
    <3> SUFFICES ASSUME NEW i \in S
                 PROVE  <<i, 1>> \in Visits(k)
      OBVIOUS
    <3>1. i \in Ip /\ ReachedBy(k, i) \in Nat /\ ReachedBy(k, i) > 0
      BY <1>3
    <3>2. 1 \in 1..ReachedBy(k, i)
      BY <3>1
    <3>3. QED
      BY <3>1, <3>2 DEF Visits
  <2>2. f \in Injection(S, Visits(k))
    BY <2>1 DEF Injection, IsInjective
  <2> HIDE DEF f
  <2>3. QED
    BY <1>4, <2>2, FS_Injection, FS_CardinalityType
<1>6. SUFFICES ASSUME Cardinality(S) < 2
               PROVE  FALSE
  BY <1>5
<1>7. PICK j : S \subseteq {j}
  <2>1. CASE Cardinality(S) = 0
    BY <1>5, <2>1, FS_EmptySet
  <2>2. CASE Cardinality(S) = 1
    BY <1>5, <2>2, FS_Singleton
  <2>3. QED
    BY <1>5, <1>6, <2>1, <2>2
<1>8. IsFiniteSet({x.ip, j}) /\ Cardinality({x.ip, j}) \in Nat /\ Cardinality({x.ip, j}) <= 2
  <2>1. {x.ip, j} = {x.ip} \cup {j}
    OBVIOUS
  <2>2. IsFiniteSet({x.ip}) /\ Cardinality({x.ip}) = 1
    BY FS_Singleton
  <2>3. IsFiniteSet({x.ip} \cup {j}) /\ Cardinality({x.ip} \cup {j}) \in {1, 2}
    BY <2>2, FS_AddElement
  <2>4. QED
    BY <2>1, <2>3
<1>9. IsFiniteSet(1..(2 * L)) /\ Cardinality(1..(2 * L)) = 2 * L
  <2>1. 2 * L \in Nat /\ 1 \in Int /\ 2 * L \in Int
    BY <1>1
  <2>2. IsFiniteSet(1..(2 * L)) /\ Cardinality(1..(2 * L)) = IF 1 > 2 * L THEN 0 ELSE 2 * L - 1 + 1
    BY <2>1, FS_Interval
  <2>3. QED
    BY <2>1, <2>2
<1>10. Visits(k) \subseteq {x.ip, j} \X (1..(2 * L))
  <2> SUFFICES ASSUME NEW i \in Ip, NEW m \in 1..ReachedBy(k, i)
               PROVE  <<i, m>> \in {x.ip, j} \X (1..(2 * L))
    BY DEF Visits
  <2>1. ReachedBy(k, i) > 0 /\ m \in 1..(2 * L)
    BY <1>1, <1>3
  <2>2. i \in {x.ip, j}
    BY <1>7, <2>1
  <2>3. QED
    BY <2>1, <2>2
<1>11. /\ IsFiniteSet({x.ip, j} \X (1..(2 * L)))
       /\ Cardinality({x.ip, j} \X (1..(2 * L))) = Cardinality({x.ip, j}) * Cardinality(1..(2 * L))
  BY <1>8, <1>9, FS_Product
<1>12. Cardinality({x.ip, j} \X (1..(2 * L))) <= 4 * L
  <2>1. \A a \in {0, 1, 2} : a * (2 * L) <= 4 * L
    BY <1>1
  <2>2. Cardinality({x.ip, j}) \in {0, 1, 2}
    BY <1>8
  <2>3. QED
    BY <1>9, <1>11, <2>1, <2>2
<1>13. Cardinality(Visits(k)) <= Cardinality({x.ip, j} \X (1..(2 * L)))
  BY <1>10, <1>11, FS_Subset
<1>14. Cardinality({x.ip, j} \X (1..(2 * L))) \in Nat
  BY <1>11, FS_CardinalityType
<1>15. QED
  BY <1>1, <1>4, <1>12, <1>13, <1>14

(* One source cannot lock a name out: for any limits whose ceiling is four  *)
(* times the budget of a source, in windows of one length, and any number  *)
(* of sources and requests in flight, a name is refused only after at      *)
(* least two other sources have tried it.                                  *)
THEOREM LockoutAlwaysTakesMany ==
    ASSUME Ceiling
    PROVE  Spec => []LockoutTakesMany
<1> DEFINE I == scene \in Scenes /\ BudgetInv /\ EarlyInv /\ LockoutInv
<1>1. Init => I
  BY BudgetInit, EarlyInit, LockoutInit
<1>2. I /\ [Next]_vars => I'
  <2> SUFFICES ASSUME I, [Next]_vars
               PROVE  I'
    OBVIOUS
  <2>1. (scene \in Scenes)' /\ BudgetInv' /\ EarlyInv'
    BY BudgetStep, EarlyStep DEF BudgetInv
  <2>2. LockoutInv'
    BY <2>1, LockoutStep DEF BudgetInv
  <2>3. QED
    BY <2>1, <2>2
<1>3. I => LockoutTakesMany
  BY LockoutImplied DEF LockoutInv
<1>4. QED
  <2> HIDE DEF I
  <2>1. QED
    BY <1>1, <1>2, <1>3, PTL DEF Spec
=============================================================================
