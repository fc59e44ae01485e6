---------------------------- MODULE GoalsProofs ----------------------------
(***************************************************************************)
(* What is proved of Goals for every set of goals, tasks and sessions, for *)
(* any number of requests and of answers under way, and for every scene.   *)
(***************************************************************************)
EXTENDS GoalsChecks, Functions, FiniteSetTheorems, WellFoundedInduction, TLAPS

Opt(S) == S \cup {None}

Calendar == [zone : Zone, weekStart : Int]

TaskRow == [project : Project, done : BOOLEAN, deleted : BOOLEAN]

-----------------------------------------------------------------------------
(* Types.  What a request carries depends on how far it is.                *)
Carries(r, saved) ==
    /\ r.kind = "import" => saved # None /\ \A g \in r.on : saved[g] # None
    /\ r.kind # "import" => \E g \in Goal : r.on = {g}
    /\ r.kind = "patch" /\ r.pc = "write" => r.row \in [to : GoalRow, was : GoalRow]
    /\ r.kind \in {"post", "delete"} \/ (r.kind = "patch" /\ r.pc = "tell") => r.row \in GoalRow
    /\ r.kind = "delete" => r.pc = "write"

GoalsTyped ==
    /\ goal \in [Goal -> Opt(GoalRow)] /\ toast \in Opt(GoalRow)
    /\ file = None \/ file \in [Goal -> Opt(GoalRow)]
    /\ reqs \in [Thread -> Opt(RequestRecord)]
    /\ told = [g \in Goal |-> told[g]]
    /\ \A t \in Thread : reqs[t] # None => Carries(reqs[t], file)

DataTyped ==
    /\ session \in [Session -> Opt(SessionRow)] /\ IsFiniteSet(Tracked)
    /\ task \in [Task -> TaskRow]
    /\ cal \in Calendar /\ scene \in Scenes /\ now \in 0..Horizon

Typed == GoalsTyped /\ DataTyped

-----------------------------------------------------------------------------
(* Devices.  What a device does not show yet is owed to it by a request    *)
(* that has written, unless one has died of it, and what such a request is *)
(* about is there, and is what it read, unless another request changed it  *)
(* meanwhile.                                                              *)
Owes(r, g) ==
    /\ g \in r.on
    /\ \/ r.kind = "import" /\ r.pc = "tell"
       \/ r.kind \in {"post", "patch"} /\ r.pc \in {"readback", "tell"}

Owed ==
    \A g \in Goal \ (raced \cup untold) : told[g] = goal[g] \/ \E t \in Thread : reqs[t] # None /\ Owes(reqs[t], g)

Stays(r, rows, but) ==
    \A g \in r.on \ but :
        /\ r.kind = "patch" \/ (r.kind = "post" /\ r.pc # "write") => rows[g] # None
        /\ r.kind \in {"post", "patch"} /\ r.pc = "tell" => r.row = rows[g]

FollowInv == Owed /\ \A t \in Thread : reqs[t] # None => Stays(reqs[t], goal, raced)

-----------------------------------------------------------------------------
(* Reports.  Nothing has been reported to a device that has not seen a     *)
(* period end, and nothing that is later than the last it has seen.        *)
EndsTyped(ws) ==
    Len(ws) \in Nat /\ DOMAIN ws = 1..Len(ws) /\ \A n \in DOMAIN ws : ws[n].end \in Int

AnswersTyped ==
    /\ answers = [k \in Check |-> answers[k]]
    /\ \A k \in Check : answers[k] # None =>
          \A g \in Goal : answers[k][g] # None => EndsTyped(answers[k][g].windows)

ReportInv ==
    /\ AnswersTyped
    /\ seen \in [Goal -> Opt(Int)] /\ reported \in [Goal -> Seq(Int)]
    /\ ReportedOnce
    /\ \A g \in Goal :
          /\ seen[g] = None => reported[g] = << >>
          /\ \A i \in DOMAIN reported[g] : reported[g][i] <= seen[g]

-----------------------------------------------------------------------------
(* Folds over finite sets: there is a function on the subsets of a set     *)
(* that takes one element after another, and its values are of one type.   *)

LEMMA SmallestSubset ==
    ASSUME NEW S, IsFiniteSet(S), NEW T, T \subseteq SUBSET S, T # {}
    PROVE  \E t \in T : \A u \in T : u \subseteq t => u = t
<1> DEFINE R == StrictSubsetOrdering(S)
<1>1. IsWellFoundedOn(R, SUBSET S)
  BY FS_FiniteSubsetsOfFinite, FS_StrictSubsetOrderingWellFounded
<1>2. PICK t \in T : \A u \in T : ~(<<u, t>> \in R)
  <2> HIDE DEF R
  <2>1. QED
    BY <1>1, WFMin
<1>3. QED
  BY <1>2 DEF StrictSubsetOrdering

FoldsTo(S, pick, base, step, n, it) ==
    \A s \in SUBSET S : Cardinality(s) <= n =>
        it[s] = IF s = {} THEN base ELSE step[pick[s]][it[s \ {pick[s]}]]

LEMMA FoldUpTo ==
    ASSUME NEW S, IsFiniteSet(S), NEW pick, \A s \in SUBSET S : s # {} => pick[s] \in s,
           NEW R, NEW base \in R, NEW step \in [S -> [R -> R]], NEW n \in Nat
    PROVE  \E it \in [SUBSET S -> R] : FoldsTo(S, pick, base, step, n, it)
<1> DEFINE Good(k) == \E it \in [SUBSET S -> R] : FoldsTo(S, pick, base, step, k, it)
           Bad == {k \in 0..n : ~Good(k)}
<1>a. \A s \in SUBSET S : IsFiniteSet(s) /\ Cardinality(s) \in Nat
  BY FS_Subset, FS_CardinalityType
<1>b. \A s \in SUBSET S : s # {} => pick[s] \in s
  OBVIOUS
<1>1. Good(0)
  <2>1. \A s \in SUBSET S : Cardinality(s) <= 0 => s = {}
    BY <1>a, FS_EmptySet
  <2>2. FoldsTo(S, pick, base, step, 0, [s \in SUBSET S |-> base])
    BY <2>1 DEF FoldsTo
  <2>3. [s \in SUBSET S |-> base] \in [SUBSET S -> R]
    OBVIOUS
  <2>4. QED
    BY ONLY <2>2, <2>3
<1>2. ASSUME NEW k \in 1..n, Good(k - 1)
      PROVE  Good(k)
  <2>1. PICK it \in [SUBSET S -> R] : FoldsTo(S, pick, base, step, k - 1, it)
    BY <1>2
  <2> DEFINE new == [s \in SUBSET S |-> IF Cardinality(s) = k THEN step[pick[s]][it[s \ {pick[s]}]] ELSE it[s]]
  <2>2. \A s \in SUBSET S : s # {} => /\ s \ {pick[s]} \in SUBSET S /\ Cardinality(s \ {pick[s]}) = Cardinality(s) - 1
                                     /\ pick[s] \in S
    BY <1>a, <1>b, FS_RemoveElement
  <2>3. \A s \in SUBSET S : Cardinality(s) = k => s # {}
    BY FS_EmptySet, <1>a
  <2>4. new \in [SUBSET S -> R]
    BY <2>2, <2>3
  <2>5. ASSUME NEW s \in SUBSET S, Cardinality(s) <= k
        PROVE  new[s] = IF s = {} THEN base ELSE step[pick[s]][new[s \ {pick[s]}]]
    <3>1. s # {} => new[s \ {pick[s]}] = it[s \ {pick[s]}]
      BY <1>a, <2>2, <2>5
    <3>2. CASE Cardinality(s) = k
      BY <2>3, <3>1, <3>2
    <3>3. CASE Cardinality(s) # k
      <4>1. Cardinality(s) <= k - 1 /\ new[s] = it[s]
        BY <1>a, <2>5, <3>3
      <4>2. it[s] = IF s = {} THEN base ELSE step[pick[s]][it[s \ {pick[s]}]]
        BY <2>1, <4>1 DEF FoldsTo
      <4>3. QED
        BY <3>1, <4>1, <4>2
    <3>4. QED
      BY <3>2, <3>3
  <2>6. FoldsTo(S, pick, base, step, k, new)
    <3> HIDE DEF new
    <3>1. QED
      BY <2>5 DEF FoldsTo
  <2>7. QED
    BY <2>4, <2>6
<1>3. ASSUME Bad # {}
      PROVE  FALSE
  <2> HIDE DEF Good
  <2>1. PICK k \in Bad : \A j \in Bad : ~(<<j, k>> \in OpToRel(<, Nat))
    <3>1. Bad \subseteq Nat
      OBVIOUS
    <3>2. QED
      BY <1>3, <3>1, NatLessThanWellFounded, WFMin
  <2>2. k # 0 /\ k \in 0..n
    BY <1>1
  <2>3. Good(k - 1)
    <3>1. k - 1 \in 0..n /\ <<k - 1, k>> \in OpToRel(<, Nat)
      BY <2>2 DEF OpToRel
    <3>2. ~Good(k - 1) => k - 1 \in Bad
      BY <3>1, Zenon
    <3>3. QED
      BY <2>1, <3>1, <3>2
  <2>4. QED
    BY <1>2, <2>2, <2>3
<1>4. QED
  <2> HIDE DEF Good
  <2>1. Good(n)
    BY <1>3
  <2>2. QED
    BY <2>1 DEF Good

Folds(S, pick, base, step, it) ==
    it = [s \in SUBSET S |-> IF s = {} THEN base ELSE step[pick[s]][it[s \ {pick[s]}]]]

LEMMA FoldExists ==
    ASSUME NEW S, IsFiniteSet(S), NEW pick, \A s \in SUBSET S : s # {} => pick[s] \in s,
           NEW R, NEW base \in R, NEW step \in [S -> [R -> R]]
    PROVE  \E it \in [SUBSET S -> R] : Folds(S, pick, base, step, it)
<1>1. Cardinality(S) \in Nat /\ \A s \in SUBSET S : Cardinality(s) <= Cardinality(S)
  BY FS_Subset, FS_CardinalityType
<1>2. \A n \in Nat : \E it \in [SUBSET S -> R] : FoldsTo(S, pick, base, step, n, it)
  BY FoldUpTo
<1>3. PICK it \in [SUBSET S -> R] : FoldsTo(S, pick, base, step, Cardinality(S), it)
  BY <1>1, <1>2
<1>4. Folds(S, pick, base, step, it)
  BY <1>1, <1>3 DEF FoldsTo, Folds
<1>5. QED
  BY <1>4

-----------------------------------------------------------------------------
(* Sums *)

Pick(s) == CHOOSE x \in s : TRUE

Sums(f, S, it) ==
    it = [s \in SUBSET S |-> IF s = {} THEN 0 ELSE f[Pick(s)] + it[s \ {Pick(s)}]]

LEMMA SumIs == \A f : SumFunction(f) = (CHOOSE it : Sums(f, DOMAIN f, it))[DOMAIN f]
  BY DEF SumFunction, SumFunctionOnSet, FoldFunctionOnSet, MapThenFoldSet, Sums, Pick

LEMMA SumsExist ==
    ASSUME NEW S, IsFiniteSet(S), NEW f \in [S -> Int]
    PROVE  \E it : Sums(f, S, it)
<1> DEFINE step == [x \in S |-> [v \in Int |-> f[x] + v]]
<1>1. step \in [S -> [Int -> Int]]
  OBVIOUS
<1>2. \A x \in S, v \in Int : step[x][v] = f[x] + v
  OBVIOUS
<1> HIDE DEF step
<1> DEFINE pick == [s \in SUBSET S |-> Pick(s)]
<1>a. \A s \in SUBSET S : pick[s] = Pick(s) /\ (s # {} => pick[s] \in s)
  BY DEF Pick
<1> HIDE DEF pick
<1>3. PICK it \in [SUBSET S -> Int] : Folds(S, pick, 0, step, it)
  <2>1. 0 \in Int
    OBVIOUS
  <2>2. QED
    BY <1>1, <1>a, <2>1, FoldExists
<1>4. \A s \in SUBSET S : s # {} => Pick(s) \in S /\ it[s \ {Pick(s)}] \in Int
  BY DEF Pick
<1>5. \A s \in SUBSET S : it[s] = IF s = {} THEN 0 ELSE f[Pick(s)] + it[s \ {Pick(s)}]
  <2> SUFFICES ASSUME NEW s \in SUBSET S
               PROVE  it[s] = IF s = {} THEN 0 ELSE f[Pick(s)] + it[s \ {Pick(s)}]
    OBVIOUS
  <2>1. it[s] = IF s = {} THEN 0 ELSE step[pick[s]][it[s \ {pick[s]}]]
    BY <1>3 DEF Folds
  <2>2. pick[s] = Pick(s)
    BY <1>a
  <2>3. QED
    BY <1>2, <1>4, <2>1, <2>2
<1>6. Sums(f, S, it)
  BY <1>5 DEF Sums
<1>7. QED
  BY <1>6

(* What the sum of a function is: read along the picks.                    *)
LEMMA SumOf ==
    ASSUME NEW S, IsFiniteSet(S), NEW f \in [S -> Int]
    PROVE  \E it : Sums(f, S, it) /\ it \in [SUBSET S -> Int] /\ SumFunction(f) = it[S]
<1> DEFINE it == CHOOSE x : Sums(f, S, x)
<1>1. Sums(f, S, it) /\ SumFunction(f) = it[S]
  <2>1. \E x : Sums(f, S, x)
    BY SumsExist
  <2>2. DOMAIN f = S
    OBVIOUS
  <2>3. SumFunction(f) = it[S]
    BY <2>2, SumIs
  <2>4. Sums(f, S, it)
    BY <2>1
  <2>5. QED
    BY <2>3, <2>4
<1>2. \A s : s # {} => Pick(s) \in s
  BY DEF Pick
<1>3. ASSUME {s \in SUBSET S : it[s] \notin Int} # {}
      PROVE  FALSE
  <2> DEFINE T == {s \in SUBSET S : it[s] \notin Int}
  <2> HIDE DEF it
  <2>1. PICK t \in T : \A u \in T : u \subseteq t => u = t
    <3> HIDE DEF T
    <3>1. T \subseteq SUBSET S /\ T # {}
      BY <1>3 DEF T
    <3>2. QED
      BY <3>1, SmallestSubset
  <2>2. it[t] = IF t = {} THEN 0 ELSE f[Pick(t)] + it[t \ {Pick(t)}]
    BY <1>1 DEF Sums
  <2>3. t # {} => f[Pick(t)] \in Int /\ it[t \ {Pick(t)}] \in Int
    BY <1>2, <2>1
  <2>4. QED
    BY <1>1, <2>1, <2>2, <2>3
<1>4. it \in [SUBSET S -> Int]
  <2> HIDE DEF it
  <2>1. it = [s \in SUBSET S |-> it[s]]
    BY <1>1 DEF Sums
  <2>2. QED
    BY <1>3, <2>1
<1>5. QED
  <2> HIDE DEF it
  <2>1. QED
    BY <1>1, <1>4

(* Any element of a set can be taken last.                                 *)
AnyLast(f, S, a) == \A t \in SUBSET S : \A i \in t : a[t] = f[i] + a[t \ {i}]

LEMMA SumsCommute ==
    ASSUME NEW S, IsFiniteSet(S), NEW f \in [S -> Int], NEW a \in [SUBSET S -> Int], Sums(f, S, a)
    PROVE  AnyLast(f, S, a)
<1> DEFINE T == {t \in SUBSET S : \E i \in t : a[t] # f[i] + a[t \ {i}]}
<1>1. \A s : s # {} => Pick(s) \in s
  BY DEF Pick
<1>2. \A s \in SUBSET S : a[s] = IF s = {} THEN 0 ELSE f[Pick(s)] + a[s \ {Pick(s)}]
  BY DEF Sums
<1>3. ASSUME T # {}
      PROVE  FALSE
  <2>1. PICK t \in T : \A u \in T : u \subseteq t => u = t
    <3>1. T \subseteq SUBSET S
      OBVIOUS
    <3> HIDE DEF T
    <3>2. QED
      BY <1>3, <3>1, SmallestSubset
  <2>2. PICK i \in t : a[t] # f[i] + a[t \ {i}]
    BY <2>1
  <2>3. PICK x : x = Pick(t)
    OBVIOUS
  <2> DEFINE u == t \ {x}
             v == t \ {i}
             w == u \ {i}
  <2>4. /\ x \in t /\ x \in S /\ i \in S /\ a[t] = f[x] + a[u] /\ x # i
        /\ u \in SUBSET S /\ v \in SUBSET S /\ w \in SUBSET S /\ w = v \ {x}
    BY <1>1, <1>2, <2>1, <2>2, <2>3
  <2>5. u \notin T /\ v \notin T
    BY <2>1, <2>2, <2>4
  <2>6. a[u] = f[i] + a[w] /\ a[v] = f[x] + a[v \ {x}]
    BY <2>2, <2>4, <2>5
  <2>7. a[u] \in Int /\ a[v] \in Int /\ a[w] \in Int /\ f[x] \in Int /\ f[i] \in Int /\ a[v] = f[x] + a[w]
    BY <2>4, <2>6
  <2> HIDE DEF u, v, w
  <2>8. a[t] = f[i] + a[v]
    BY <2>4, <2>6, <2>7
  <2>9. QED
    BY <2>2, <2>8 DEF v
<1>4. QED
  BY <1>3 DEF AnyLast

(* A summand can be left out, and added.                                   *)
LEMMA SumWithout ==
    ASSUME NEW S, IsFiniteSet(S), NEW f \in [S -> Int], NEW i \in S
    PROVE  SumFunction(f) = f[i] + SumFunction([j \in S \ {i} |-> f[j]])
<1> DEFINE R == S \ {i}
           g == [j \in R |-> f[j]]
<1>0. IsFiniteSet(R) /\ g \in [R -> Int]
  BY FS_Subset
<1>1. PICK a : Sums(f, S, a) /\ a \in [SUBSET S -> Int] /\ SumFunction(f) = a[S]
  BY SumOf
<1>2. PICK b : Sums(g, R, b) /\ b \in [SUBSET R -> Int] /\ SumFunction(g) = b[R]
  <2> HIDE DEF R, g
  <2>1. QED
    BY <1>0, SumOf
<1>3. \A s : s # {} => Pick(s) \in s
  BY DEF Pick
<1> DEFINE T == {t \in SUBSET R : a[t] # b[t]}
<1>4. ASSUME T # {}
      PROVE  FALSE
  <2>1. PICK t \in T : \A u \in T : u \subseteq t => u = t
    <3>1. T \subseteq SUBSET R
      OBVIOUS
    <3> HIDE DEF T, R
    <3>2. QED
      BY <1>0, <1>4, <3>1, SmallestSubset
  <2>2. t \in SUBSET S /\ t \in SUBSET R
    BY <2>1
  <2>3. a[t] = IF t = {} THEN 0 ELSE f[Pick(t)] + a[t \ {Pick(t)}]
    BY <1>1, <2>2 DEF Sums
  <2>4. b[t] = IF t = {} THEN 0 ELSE g[Pick(t)] + b[t \ {Pick(t)}]
    BY <1>2, <2>2 DEF Sums
  <2>5. t # {} => g[Pick(t)] = f[Pick(t)] /\ a[t \ {Pick(t)}] = b[t \ {Pick(t)}]
    BY <1>3, <2>1, <2>2
  <2>6. QED
    BY <2>1, <2>3, <2>4, <2>5
<1>5. a[R] = b[R]
  BY <1>4
<1>6. a[S] = f[i] + a[R]
  <2>1. AnyLast(f, S, a)
    BY <1>1, SumsCommute
  <2>2. S \in SUBSET S /\ R = S \ {i}
    OBVIOUS
  <2> HIDE DEF R
  <2>3. QED
    BY <2>1, <2>2 DEF AnyLast
<1>7. QED
  BY <1>1, <1>2, <1>5, <1>6

LEMMA SumTyped ==
    ASSUME NEW S, IsFiniteSet(S), NEW f \in [S -> Int]
    PROVE  SumFunction(f) \in Int
<1>1. PICK a : a \in [SUBSET S -> Int] /\ SumFunction(f) = a[S]
  BY SumOf
<1>2. QED
  BY <1>1

-----------------------------------------------------------------------------
(* The first instant of a day, of every day.                               *)

EveryDay == Day = Int

Instant(zone, day, i) == DayLength * day - ZoneOffset(zone, i)

LEMMA InstantTyped ==
    ASSUME NEW zone \in Zone, NEW day \in Int, NEW i \in Int
    PROVE  Instant(zone, day, i) \in Int /\ ZoneOffset(zone, i) \in Int
<1>1. ZoneOffset(zone, i) \in Int /\ DayLength \in Int
  BY CalendarAssumption DEF ZoneOffset
<1>2. \A d \in Int : d * day \in Int
  OBVIOUS
<1>3. DayLength * day \in Int
  BY <1>1, <1>2, Zenon
<1>4. QED
  BY <1>1, <1>3 DEF Instant

LEMMA CivilDateTyped ==
    ASSUME NEW zone \in Zone, NEW i \in Int
    PROVE  CivilDate(zone, i) \in Int
<1>1. ZoneOffset(zone, i) \in Int /\ DayLength \in Nat \ {0}
  BY CalendarAssumption DEF ZoneOffset
<1>2. \A d \in Nat \ {0} : (i + ZoneOffset(zone, i)) \div d \in Int
  BY <1>1
<1>3. QED
  BY <1>1, <1>2, Zenon DEF CivilDate

Tries(zone, day, try) ==
    try = [n \in 0..4 |-> IF n = 0 THEN Instant(zone, day, DayLength * day) ELSE Instant(zone, day, try[n - 1])]

LEMMA GuessesAre ==
    \A zone, day : Guesses(zone, day) =
        LET try == CHOOSE f : Tries(zone, day, f) IN {try[n] : n \in {m \in 0..3 : try[m] = try[m + 1]}}
  BY DEF Guesses, Tries, Instant

LEMMA TriesExist ==
    ASSUME NEW zone \in Zone, NEW day \in Int
    PROVE  Tries(zone, day, CHOOSE x : Tries(zone, day, x))
<1>0. DayLength * day \in Int
  <2>1. \A d \in Int : d * day \in Int
    OBVIOUS
  <2>2. QED
    BY <2>1, CalendarAssumption
<1>1. PICK a, b, c, d, e \in Int :
         /\ a = Instant(zone, day, DayLength * day) /\ b = Instant(zone, day, a) /\ c = Instant(zone, day, b)
         /\ d = Instant(zone, day, c) /\ e = Instant(zone, day, d)
  BY <1>0, InstantTyped
<1> DEFINE f == [n \in 0..4 |-> IF n = 0 THEN a ELSE IF n = 1 THEN b ELSE IF n = 2 THEN c ELSE IF n = 3 THEN d ELSE e]
<1>2. Tries(zone, day, f)
  <2>1. f[0] = a /\ f[1] = b /\ f[2] = c /\ f[3] = d /\ f[4] = e
    OBVIOUS
  <2>2. ASSUME NEW n \in 0..4
        PROVE  f[n] = IF n = 0 THEN Instant(zone, day, DayLength * day) ELSE Instant(zone, day, f[n - 1])
    <3> HIDE DEF f
    <3>1. n = 0 \/ n = 1 \/ n = 2 \/ n = 3 \/ n = 4
      OBVIOUS
    <3>2. QED
      BY <1>1, <2>1, <3>1
  <2>3. QED
    BY <2>2 DEF Tries
<1>3. QED
  <2> HIDE DEF f
  <2>1. QED
    BY <1>2

LEMMA GuessesTyped ==
    ASSUME NEW zone \in Zone, NEW day \in Int
    PROVE  Guesses(zone, day) \subseteq Int
<1>0. DayLength * day \in Int
  <2>1. \A d \in Int : d * day \in Int
    OBVIOUS
  <2>2. QED
    BY <2>1, CalendarAssumption
<1> DEFINE try == CHOOSE x : Tries(zone, day, x)
<1>3. Tries(zone, day, try)
  BY TriesExist
<1>4. \A n \in 0..3 : try[n] \in Int
  <2> HIDE DEF try
  <2>1. \A n \in 0..4 : try[n] = IF n = 0 THEN Instant(zone, day, DayLength * day) ELSE Instant(zone, day, try[n - 1])
    BY <1>3 DEF Tries
  <2>2. try[0] \in Int
    BY <1>0, <2>1, InstantTyped
  <2>3. try[1] \in Int
    BY <2>1, <2>2, InstantTyped
  <2>4. try[2] \in Int
    BY <2>1, <2>3, InstantTyped
  <2>5. try[3] \in Int
    BY <2>1, <2>4, InstantTyped
  <2>6. \A n \in 0..3 : n = 0 \/ n = 1 \/ n = 2 \/ n = 3
    OBVIOUS
  <2>7. QED
    BY <2>2, <2>3, <2>4, <2>5, <2>6
<1>5. Guesses(zone, day) = {try[n] : n \in {m \in 0..3 : try[m] = try[m + 1]}}
  BY GuessesAre
<1>6. QED
  <2> HIDE DEF try
  <2>1. QED
    BY <1>4, <1>5

Bracket == [lo : Int, hi : Int]

Halve(zone, day, r) ==
    LET mid == (r.lo + r.hi) \div 2
    IN  IF r.lo >= r.hi THEN r
        ELSE IF CivilDate(zone, mid) >= day THEN [r EXCEPT !.hi = mid]
        ELSE [r EXCEPT !.lo = mid + 1]

Halvings(zone, day, base, it) ==
    it = [s \in SUBSET (1..(2 * Slack)) |-> IF s = {} THEN base ELSE Halve(zone, day, it[s \ {Pick(s)}])]

LEMMA BisectIs ==
    \A zone, day : Bisect(zone, day) =
        (CHOOSE it : Halvings(zone, day, [lo |-> DayLength * day - Slack, hi |-> DayLength * day + Slack], it))[1..(2 * Slack)].lo
  BY DEF Bisect, FoldSet, MapThenFoldSet, Halvings, Halve, Pick

LEMMA HalveTyped ==
    ASSUME NEW zone \in Zone, NEW day \in Int, NEW r \in Bracket
    PROVE  Halve(zone, day, r) \in Bracket
  BY DEF Halve, Bracket

Search(zone, day, it) ==
    /\ \A s \in SUBSET (1..(2 * Slack)) : it[s] =
          IF s = {} THEN [lo |-> DayLength * day - Slack, hi |-> DayLength * day + Slack]
          ELSE Halve(zone, day, it[s \ {Pick(s)}])
    /\ \A s \in SUBSET (1..(2 * Slack)) : it[s] \in Bracket
    /\ Bisect(zone, day) = it[1..(2 * Slack)].lo

LEMMA BisectSearches ==
    ASSUME NEW zone \in Zone, NEW day \in Int
    PROVE  \E it : Search(zone, day, it)
<1> DEFINE S == 1..(2 * Slack)
           base == [lo |-> DayLength * day - Slack, hi |-> DayLength * day + Slack]
           step == [x \in S |-> [r \in Bracket |-> Halve(zone, day, r)]]
<1>0. IsFiniteSet(S)
  BY CalendarAssumption, FS_Interval
<1>1. base \in Bracket
  <2>1. \A d \in Int : d * day \in Int
    OBVIOUS
  <2>2. DayLength * day \in Int /\ Slack \in Int
    BY <2>1, CalendarAssumption
  <2>3. QED
    BY <2>2 DEF Bracket
<1>2. step \in [S -> [Bracket -> Bracket]] /\ \A x \in S, r \in Bracket : step[x][r] = Halve(zone, day, r)
  BY HalveTyped
<1>a. PICK pick : \A s \in SUBSET S : pick[s] = Pick(s)
  <2> WITNESS [s \in SUBSET S |-> Pick(s)]
  <2>1. QED
    OBVIOUS
<1> HIDE DEF base, step, S
<1>3. PICK f \in [SUBSET S -> Bracket] : Folds(S, pick, base, step, f)
  <2>1. \A s \in SUBSET S : s # {} => pick[s] \in s
    BY <1>a DEF Pick
  <2>2. QED
    BY <1>0, <1>1, <1>2, <2>1, FoldExists
<1>4. Halvings(zone, day, base, f)
  <2>1. \A s \in SUBSET S : s # {} => Pick(s) \in S /\ f[s \ {Pick(s)}] \in Bracket
    BY DEF Pick
  <2>2. \A s \in SUBSET S : f[s] = IF s = {} THEN base ELSE Halve(zone, day, f[s \ {Pick(s)}])
    <3> SUFFICES ASSUME NEW s \in SUBSET S
                 PROVE  f[s] = IF s = {} THEN base ELSE Halve(zone, day, f[s \ {Pick(s)}])
      OBVIOUS
    <3>1. f[s] = IF s = {} THEN base ELSE step[pick[s]][f[s \ {pick[s]}]]
      BY <1>3 DEF Folds
    <3>2. pick[s] = Pick(s)
      BY <1>a
    <3>3. QED
      BY <1>2, <2>1, <3>1, <3>2
  <2>3. QED
    BY <2>2 DEF Halvings, S
<1> DEFINE it == CHOOSE x : Halvings(zone, day, base, x)
<1>5. Halvings(zone, day, base, it)
  BY <1>4
<1>6. Bisect(zone, day) = it[S].lo
  BY BisectIs DEF S, base
<1> HIDE DEF it
<1>7. \A s \in SUBSET S : it[s] = IF s = {} THEN base ELSE Halve(zone, day, it[s \ {Pick(s)}])
  BY <1>5 DEF Halvings, S
<1> DEFINE T == {s \in SUBSET S : it[s] \notin Bracket}
<1>8. ASSUME T # {}
      PROVE  FALSE
  <2>1. PICK t \in T : \A u \in T : u \subseteq t => u = t
    <3>1. T \subseteq SUBSET S
      OBVIOUS
    <3> HIDE DEF T
    <3>2. QED
      BY <1>0, <1>8, <3>1, SmallestSubset
  <2>2. t # {} => it[t \ {Pick(t)}] \in Bracket
    BY <2>1 DEF Pick
  <2>3. it[t] = IF t = {} THEN base ELSE Halve(zone, day, it[t \ {Pick(t)}])
    BY <1>7, <2>1
  <2>4. it[t] \in Bracket
    BY <1>1, <2>2, <2>3, HalveTyped
  <2>5. QED
    BY <2>1, <2>4
<1>9. \A s \in SUBSET S : it[s] \in Bracket
  BY <1>8
<1>10. Search(zone, day, it)
  BY <1>6, <1>7, <1>9 DEF Search, S, base
<1>11. QED
  BY <1>10

LEMMA BisectTyped ==
    ASSUME NEW zone \in Zone, NEW day \in Int
    PROVE  Bisect(zone, day) \in Int
<1>1. PICK it : Search(zone, day, it)
  BY BisectSearches
<1>2. QED
  BY <1>1 DEF Search, Bracket

LEMMA DayStartTyped ==
    ASSUME EveryDay, NEW zone \in Zone, NEW i \in Int
    PROVE  DayStartInstant(zone, i) \in Int /\ CivilDate(zone, i) \in Int
<1>1. FirstInstant(zone, i) \in Int
  <2> DEFINE good == {x \in Guesses(zone, i) : CivilDate(zone, x) = i}
  <2>1. good # {} => (CHOOSE x \in good : TRUE) \in Int
    BY GuessesTyped
  <2>2. FirstInstant(zone, i) = IF good # {} THEN CHOOSE x \in good : TRUE ELSE Bisect(zone, i)
    BY DEF FirstInstant
  <2> HIDE DEF good
  <2>3. QED
    BY <2>1, <2>2, BisectTyped
<1>2. DayStarts[zone][i] = FirstInstant(zone, i)
  BY DayStartsAssumption DEF EveryDay
<1>3. QED
  BY <1>1, <1>2, CivilDateTyped DEF DayStartInstant, DayStartOf

-----------------------------------------------------------------------------
(* Periods *)

Period == {"day", "week", "month"}
Direction == {"at_least", "at_most"}
Bound == [start : Int, end : Int]

LEMMA DaysFromTyped ==
    ASSUME EveryDay, NEW zone \in Zone, NEW day \in Int, NEW n \in Int
    PROVE  DaysFrom(zone, day, n) \in Bound
  BY DayStartTyped DEF DaysFrom, Bound

LEMMA WeekTyped ==
    ASSUME EveryDay, NEW zone \in Zone, NEW start \in Int
    PROVE  [start |-> start, end |-> DayStartInstant(zone, CivilDate(zone, start) + DaysInWeek)] \in Bound
<1>1. CivilDate(zone, start) + DaysInWeek \in Int
  BY DayStartTyped, CalendarAssumption
<1>2. DayStartInstant(zone, CivilDate(zone, start) + DaysInWeek) \in Int
  BY <1>1, DayStartTyped
<1>3. QED
  BY <1>2 DEF Bound

LEMMA FirstBoundTyped ==
    ASSUME EveryDay, NEW period \in Period, NEW i \in Int, NEW c \in Calendar
    PROVE  GoalPeriodBounds(period, i, c) \in Bound
<1>1. c.zone \in Zone /\ c.weekStart \in Int
  BY DEF Calendar
<1>2. CivilDate(c.zone, i) \in Int
  BY <1>1, DayStartTyped
<1>3. CASE period = "day"
  BY <1>1, <1>2, <1>3, DaysFromTyped DEF GoalPeriodBounds
<1>4. CASE period = "week"
  <2>1. \A d \in Nat \ {0} : CivilDate(c.zone, i) - ((CivilDate(c.zone, i) - c.weekStart) % d) \in Int
    BY <1>1, <1>2
  <2>2. CivilDate(c.zone, i) - ((CivilDate(c.zone, i) - c.weekStart) % DaysInWeek) \in Int
    BY <2>1, CalendarAssumption
  <2>3. WeekStartInstant(c.zone, i, c.weekStart) \in Int
    BY <1>1, <2>2, DayStartTyped DEF WeekStartInstant
  <2>4. QED
    BY <1>1, <1>4, <2>3, WeekTyped DEF GoalPeriodBounds
<1>5. CASE period = "month"
  <2>1. \A d \in Nat \ {0} : CivilDate(c.zone, i) - (CivilDate(c.zone, i) % d) \in Int
    BY <1>2
  <2>2. CivilDate(c.zone, i) - (CivilDate(c.zone, i) % DaysInMonth) \in Int /\ DaysInMonth \in Int
    BY <2>1, CalendarAssumption
  <2>3. QED
    BY <1>1, <1>5, <2>2, DaysFromTyped DEF GoalPeriodBounds
<1>6. QED
  BY <1>3, <1>4, <1>5 DEF Period

LEMMA NextBoundTyped ==
    ASSUME EveryDay, NEW period \in Period, NEW w \in Bound, NEW c \in Calendar
    PROVE  NextBounds(period, w, c) \in Bound
<1>1. c.zone \in Zone /\ w.start \in Int /\ w.end \in Int
  BY DEF Calendar, Bound
<1>2. CivilDate(c.zone, w.start) + 1 \in Int /\ CivilDate(c.zone, w.start) + DaysInWeek \in Int
  BY <1>1, DayStartTyped, CalendarAssumption
<1>3. CASE period = "day"
  BY <1>1, <1>2, <1>3, DaysFromTyped DEF NextBounds
<1>4. CASE period = "week"
  <2>1. DayStartInstant(c.zone, CivilDate(c.zone, w.start) + DaysInWeek) \in Int
    BY <1>1, <1>2, DayStartTyped
  <2>2. QED
    BY <1>1, <1>4, <2>1, WeekTyped DEF NextBounds
<1>5. CASE period = "month"
  BY <1>1, <1>5, FirstBoundTyped DEF NextBounds
<1>6. QED
  BY <1>3, <1>4, <1>5 DEF Period

(* The periods of a goal from the one it was made in.                      *)
Ladder(period, i, c, b) ==
    b = [n \in 1..MaxWindows |-> IF n = 1 THEN GoalPeriodBounds(period, i, c) ELSE NextBounds(period, b[n - 1], c)]

Bounds(period, i, c) == CHOOSE b : Ladder(period, i, c, b)

LEMMA LadderUpTo ==
    ASSUME EveryDay, NEW period \in Period, NEW i \in Int, NEW c \in Calendar, NEW max \in Nat
    PROVE  \E b \in [Nat -> Bound] : \A n \in 1..max :
              b[n] = IF n = 1 THEN GoalPeriodBounds(period, i, c) ELSE NextBounds(period, b[n - 1], c)
<1> DEFINE Good(k) == \E b \in [Nat -> Bound] : \A n \in 1..k :
              b[n] = IF n = 1 THEN GoalPeriodBounds(period, i, c) ELSE NextBounds(period, b[n - 1], c)
           Bad == {k \in 0..max : ~Good(k)}
<1>1. Good(0)
  <2>1. [n \in Nat |-> GoalPeriodBounds(period, i, c)] \in [Nat -> Bound]
    BY FirstBoundTyped
  <2>2. 1..0 = {}
    OBVIOUS
  <2>3. QED
    BY <2>1, <2>2
<1>2. ASSUME NEW k \in 1..max, Good(k - 1)
      PROVE  Good(k)
  <2>1. PICK b \in [Nat -> Bound] : \A n \in 1..(k - 1) :
            b[n] = IF n = 1 THEN GoalPeriodBounds(period, i, c) ELSE NextBounds(period, b[n - 1], c)
    BY <1>2
  <2> DEFINE top == IF k = 1 THEN GoalPeriodBounds(period, i, c) ELSE NextBounds(period, b[k - 1], c)
             new == [b EXCEPT ![k] = top]
  <2>2. top \in Bound
    BY FirstBoundTyped, NextBoundTyped
  <2> HIDE DEF top
  <2>3. new \in [Nat -> Bound] /\ new[k] = top /\ \A n \in Nat : n # k => new[n] = b[n]
    BY <2>2
  <2> HIDE DEF new
  <2>4. ASSUME NEW n \in 1..k
        PROVE  new[n] = IF n = 1 THEN GoalPeriodBounds(period, i, c) ELSE NextBounds(period, new[n - 1], c)
    <3>1. n # 1 => n - 1 \in Nat /\ n - 1 # k /\ new[n - 1] = b[n - 1]
      BY <2>3
    <3>2. CASE n = k
      BY <2>3, <3>1, <3>2 DEF top
    <3>3. CASE n # k
      <4>1. n \in 1..(k - 1) /\ new[n] = b[n]
        BY <2>3, <3>3
      <4>2. QED
        BY <2>1, <3>1, <4>1
    <3>4. QED
      BY <3>2, <3>3
  <2>5. QED
    BY <2>3, <2>4
<1>3. ASSUME Bad # {}
      PROVE  FALSE
  <2> HIDE DEF Good
  <2>1. PICK k \in Bad : \A j \in Bad : ~(<<j, k>> \in OpToRel(<, Nat))
    <3>1. Bad \subseteq Nat
      OBVIOUS
    <3>2. QED
      BY <1>3, <3>1, NatLessThanWellFounded, WFMin
  <2>2. k # 0 /\ k \in 0..max
    BY <1>1
  <2>3. Good(k - 1)
    <3>1. k - 1 \in 0..max /\ <<k - 1, k>> \in OpToRel(<, Nat)
      BY <2>2 DEF OpToRel
    <3>2. ~Good(k - 1) => k - 1 \in Bad
      BY <3>1, Zenon
    <3>3. QED
      BY <2>1, <3>1, <3>2
  <2>4. QED
    BY <1>2, <2>2, <2>3
<1>4. Good(max)
  <2> HIDE DEF Good
  <2>1. QED
    BY <1>3
<1>5. QED
  BY <1>4

LEMMA BoundsTyped ==
    ASSUME EveryDay, NEW period \in Period, NEW i \in Int, NEW c \in Calendar
    PROVE  Ladder(period, i, c, Bounds(period, i, c)) /\ \A n \in 1..MaxWindows : Bounds(period, i, c)[n] \in Bound
<1>0. MaxWindows \in Nat \ {0}
  BY WindowsAssumption
<1>1. \E b : Ladder(period, i, c, b)
  <2>1. PICK b \in [Nat -> Bound] : \A n \in 1..MaxWindows :
            b[n] = IF n = 1 THEN GoalPeriodBounds(period, i, c) ELSE NextBounds(period, b[n - 1], c)
    BY <1>0, LadderUpTo, ZenonT(40)
  <2> DEFINE cut == [n \in 1..MaxWindows |-> b[n]]
  <2>2. \A n \in 1..MaxWindows : n # 1 => n - 1 \in 1..MaxWindows /\ cut[n - 1] = b[n - 1]
    BY <1>0
  <2>3. \A n \in 1..MaxWindows :
            b[n] = IF n = 1 THEN GoalPeriodBounds(period, i, c) ELSE NextBounds(period, cut[n - 1], c)
    BY <2>1, <2>2
  <2>4. Ladder(period, i, c, cut)
    BY <2>3 DEF Ladder
  <2>5. QED
    BY <2>4
<1> DEFINE b == Bounds(period, i, c)
<1>2. Ladder(period, i, c, b)
  BY <1>1 DEF Bounds
<1> HIDE DEF b
<1>3. \A n \in 1..MaxWindows :
          b[n] = IF n = 1 THEN GoalPeriodBounds(period, i, c) ELSE NextBounds(period, b[n - 1], c)
  BY <1>2 DEF Ladder
<1> DEFINE Bad == {n \in 1..MaxWindows : b[n] \notin Bound}
<1>4. ASSUME Bad # {}
      PROVE  FALSE
  <2>1. PICK k \in Bad : \A j \in Bad : ~(<<j, k>> \in OpToRel(<, Nat))
    <3>1. Bad \subseteq Nat
      BY <1>0
    <3> HIDE DEF Bad
    <3>2. QED
      BY <1>4, <3>1, NatLessThanWellFounded, WFMin
  <2>2. CASE k = 1
    BY <1>3, <2>1, <2>2, FirstBoundTyped
  <2>3. CASE k # 1
    <3>1. k - 1 \in 1..MaxWindows /\ <<k - 1, k>> \in OpToRel(<, Nat)
      BY <1>0, <2>3 DEF OpToRel
    <3>2. b[k - 1] \in Bound
      BY <2>1, <3>1
    <3>3. b[k] = NextBounds(period, b[k - 1], c)
      BY <1>3, <2>3
    <3>4. QED
      BY <3>2, <3>3, NextBoundTyped
  <2>4. QED
    BY <2>2, <2>3
<1>5. QED
  <2>1. \A n \in 1..MaxWindows : b[n] \in Bound
    BY <1>4
  <2>2. QED
    BY <1>2, <2>1 DEF b

(* The windows of a goal are as many as have begun, or the first of them.  *)
Open(g, b, at) == {n \in 1..MaxWindows : b[n].start < GoalHorizon(g, at)}

LEMMA WindowsAre ==
    \A g, c, at : GoalWindows(g, c, at) =
        IF GoalHorizon(g, at) <= g.created THEN << >>
        ELSE [n \in 1..Cardinality(Open(g, Bounds(g.period, g.created, c), at))
                |-> Window(g, Bounds(g.period, g.created, c)[n], at)]
  BY DEF GoalWindows, Open, Bounds, Ladder

LEMMA OpenIsFinite ==
    \A g, b, at : Cardinality(Open(g, b, at)) \in 0..MaxWindows
<1> SUFFICES ASSUME NEW g, NEW b, NEW at
             PROVE  Cardinality(Open(g, b, at)) \in 0..MaxWindows
  OBVIOUS
<1>1. MaxWindows \in Nat
  BY WindowsAssumption
<1>2. IsFiniteSet(1..MaxWindows) /\ Cardinality(1..MaxWindows) = MaxWindows
  BY <1>1, FS_Interval
<1>3. Open(g, b, at) \subseteq 1..MaxWindows
  BY DEF Open
<1>4. IsFiniteSet(Open(g, b, at)) /\ Cardinality(Open(g, b, at)) <= MaxWindows
  BY <1>2, <1>3, FS_Subset
<1>5. Cardinality(Open(g, b, at)) \in Nat
  BY <1>4, FS_CardinalityType
<1>6. QED
  BY <1>1, <1>4, <1>5

LEMMA FunctionIsSequence ==
    ASSUME NEW n \in Nat, NEW ws, ws = [m \in 1..n |-> ws[m]]
    PROVE  Len(ws) = n /\ DOMAIN ws = 1..n
<1>1. ws \in [1..n -> {ws[m] : m \in 1..n}]
  OBVIOUS
<1>2. ws \in Seq({ws[m] : m \in 1..n})
  BY <1>1
<1>3. QED
  BY <1>1, <1>2

(* The windows in an answer end at instants.                               *)
LEMMA ProgressEnds ==
    ASSUME EveryDay, NEW g \in GoalRow, NEW data, data.cal \in Calendar, NEW at
    PROVE  EndsTyped(Progress(g, data, at))
<1> DEFINE ws == GoalWindows(g, data.cal, at)
           p == Progress(g, data, at)
           b == Bounds(g.period, g.created, data.cal)
<1>1. g.period \in Period /\ g.created \in Int
  BY DEF GoalRow, Period
<1>2. \A n \in 1..MaxWindows : b[n] \in Bound
  BY <1>1, BoundsTyped
<1>3. PICK k \in 0..MaxWindows : DOMAIN ws = 1..k /\ \A n \in 1..k : ws[n] = Window(g, b[n], at)
  <2>1. Cardinality(Open(g, b, at)) \in 0..MaxWindows
    BY OpenIsFinite
  <2>2. CASE GoalHorizon(g, at) <= g.created
    <3>1. ws = << >> /\ 0 \in 0..MaxWindows
      BY <2>2, WindowsAre, WindowsAssumption
    <3>2. QED
      BY <3>1
  <2>3. CASE ~(GoalHorizon(g, at) <= g.created)
    <3>1. ws = [n \in 1..Cardinality(Open(g, b, at)) |-> Window(g, b[n], at)]
      BY <2>3, WindowsAre
    <3> HIDE DEF ws
    <3>2. QED
      BY <2>1, <3>1
  <2>4. QED
    BY <2>2, <2>3
<1>4. k \in Nat /\ k <= MaxWindows
  BY <1>3, WindowsAssumption
<1>5. /\ p = [n \in 1..k |-> p[n]]
      /\ \A n \in 1..k : p[n].end = ws[n].end
  <2>1. DOMAIN p = 1..k /\ p = [n \in DOMAIN p |-> p[n]]
    BY <1>3 DEF Progress
  <2>2. \A n \in 1..k : p[n].end = ws[n].end
    BY <1>3 DEF Progress
  <2>3. QED
    BY <2>1, <2>2
<1>6. Len(p) = k /\ DOMAIN p = 1..k
  <2> HIDE DEF p
  <2>1. QED
    BY <1>4, <1>5, FunctionIsSequence
<1>7. \A n \in 1..k : ws[n].end \in Int
  <2> HIDE DEF b, ws
  <2>1. ASSUME NEW n \in 1..k
        PROVE  ws[n].end \in Int
    <3>1. n \in 1..MaxWindows /\ b[n].end \in Int
      BY <1>2, <1>4, WindowsAssumption DEF Bound
    <3>2. Window(g, b[n], at).end = b[n].end
      BY DEF Window
    <3>3. QED
      BY <1>3, <3>1, <3>2
  <2>2. QED
    BY <2>1
<1>8. QED
  <2> HIDE DEF p, ws
  <2>1. EndsTyped(p)
    BY <1>4, <1>5, <1>6, <1>7 DEF EndsTyped
  <2>2. QED
    BY <2>1 DEF p

-----------------------------------------------------------------------------
(* Reports *)

LEMMA NewestIsOne ==
    ASSUME NEW ws, EndsTyped(ws), NEW some \in SUBSET LastTwo(ws), some # {}
    PROVE  Newest(some) \in some /\ Newest(some).end \in Int
<1> DEFINE last == Len(ws)
<1>1. last \in Nat /\ DOMAIN ws = 1..last /\ \A n \in 1..last : ws[n].end \in Int
  BY DEF EndsTyped
<1> HIDE DEF last
<1>2. \A w \in some : last >= 1 /\ \E n \in {last - 1, last} \cap 1..last : w = ws[n]
  <2>1. \A n \in 1..last : n + 1 >= last => n \in {last - 1, last} /\ last >= 1
    BY <1>1
  <2>2. \A w \in some : \E n \in 1..last : n + 1 >= last /\ w = ws[n]
    BY <1>1 DEF LastTwo, last
  <2>3. QED
    BY <2>1, <2>2
<1>3. \A w \in some : w.end \in Int
  BY <1>1, <1>2
<1>4. PICK w \in some : TRUE
  OBVIOUS
<1>5. \E v \in some : \A x \in some : x.end <= v.end
  <2>1. CASE \A x \in some : x.end <= w.end
    BY <2>1
  <2>2. CASE \E x \in some : ~(x.end <= w.end)
    <3>1. PICK v \in some : ~(v.end <= w.end)
      BY <2>2
    <3>2. some \subseteq {v, w}
      <4>1. PICK i \in {last - 1, last} : w = ws[i]
        BY <1>2
      <4>2. PICK j \in {last - 1, last} : v = ws[j]
        BY <1>2
      <4>3. i # j
        BY <1>3, <3>1, <4>1, <4>2
      <4>4. QED
        BY <1>1, <1>2, <4>1, <4>2, <4>3
    <3>3. QED
      BY <1>3, <3>1, <3>2
  <2>3. QED
    BY <2>1, <2>2
<1>6. Newest(some) \in some
  BY <1>5 DEF Newest
<1>7. QED
  BY <1>3, <1>6

(* An answer adds to the reports of a goal at most the end of one period,  *)
(* later than all that had been seen.                                      *)
LEMMA ReceiveDoes ==
    ASSUME ReportInv, NEW k \in Check, Receive(k), NEW g \in Goal
    PROVE  \/ seen'[g] = seen[g] /\ reported'[g] = reported[g]
           \/ \E e \in Int :
                 /\ seen'[g] = e
                 /\ \/ seen[g] = None /\ reported'[g] = reported[g]
                    \/ seen[g] # None /\ e > seen[g] /\ reported'[g] = Append(reported[g], e)
<1> DEFINE fresh == FreshlyEnded(answers[k][g], seen[g])
           e == Newest(fresh).end
<1>1. \/ seen'[g] = seen[g] /\ reported'[g] = reported[g]
      \/ /\ answers[k][g] # None /\ fresh # {}
         /\ seen'[g] = e
         /\ reported'[g] = IF seen[g] # None THEN Append(reported[g], e) ELSE reported[g]
  <2> HIDE DEF fresh
  <2>1. \/ seen'[g] = seen[g] /\ reported'[g] = reported[g]
        \/ /\ answers[k][g] # None /\ FreshlyEnded(answers[k][g], seen[g]) # {}
           /\ seen'[g] = Newest(FreshlyEnded(answers[k][g], seen[g])).end
           /\ reported'[g] = IF seen[g] # None THEN Append(reported[g], Newest(FreshlyEnded(answers[k][g], seen[g])).end)
                             ELSE reported[g]
    BY DEF Receive, ReportInv
  <2>2. QED
    BY <2>1 DEF fresh
<1>2. ASSUME answers[k][g] # None, fresh # {}
      PROVE  e \in Int /\ (seen[g] # None => e > seen[g])
  <2>1. EndsTyped(answers[k][g].windows)
    BY <1>2 DEF ReportInv, AnswersTyped, Receive
  <2>2. fresh \in SUBSET LastTwo(answers[k][g].windows)
    BY DEF FreshlyEnded
  <2>3. \A w \in fresh : seen[g] # None => w.end > seen[g]
    BY DEF FreshlyEnded
  <2> HIDE DEF fresh
  <2>4. Newest(fresh) \in fresh /\ e \in Int
    BY <1>2, <2>1, <2>2, NewestIsOne
  <2>5. QED
    BY <2>3, <2>4
<1> HIDE DEF e, fresh
<1>3. QED
  BY <1>1, <1>2

LEMMA Appended ==
    ASSUME NEW s \in Seq(Int), NEW e \in Int, \A i \in DOMAIN s : s[i] < e,
           \A i, j \in DOMAIN s : i < j => s[i] < s[j]
    PROVE  /\ Append(s, e) \in Seq(Int)
           /\ \A i \in DOMAIN Append(s, e) : Append(s, e)[i] <= e
           /\ \A i, j \in DOMAIN Append(s, e) : i < j => Append(s, e)[i] < Append(s, e)[j]
<1>1. /\ DOMAIN s = 1..Len(s) /\ Len(s) \in Nat /\ Append(s, e) \in Seq(Int)
      /\ DOMAIN Append(s, e) = 1..(Len(s) + 1)
      /\ \A i \in 1..Len(s) : Append(s, e)[i] = s[i] /\ s[i] \in Int
      /\ Append(s, e)[Len(s) + 1] = e
  OBVIOUS
<1>2. \A i \in 1..(Len(s) + 1) : i \in 1..Len(s) \/ i = Len(s) + 1
  BY <1>1
<1>3. QED
  BY <1>1, <1>2

LEMMA ReceiveReports ==
    ASSUME ReportInv, NEW k \in Check, Receive(k)
    PROVE  ReportInv'
<1>1. AnswersTyped'
  <2>1. answers' = [answers EXCEPT ![k] = None]
    BY DEF Receive
  <2>2. QED
    BY <2>1 DEF AnswersTyped, ReportInv
<1>2. ASSUME NEW g \in Goal
      PROVE  /\ seen'[g] \in Opt(Int) /\ reported'[g] \in Seq(Int)
             /\ \A i, j \in DOMAIN reported'[g] : i < j => reported'[g][i] < reported'[g][j]
             /\ seen'[g] = None => reported'[g] = << >>
             /\ \A i \in DOMAIN reported'[g] : reported'[g][i] <= seen'[g]
  <2>1. /\ seen[g] \in Opt(Int) /\ reported[g] \in Seq(Int)
        /\ \A i, j \in DOMAIN reported[g] : i < j => reported[g][i] < reported[g][j]
        /\ seen[g] = None => reported[g] = << >>
        /\ \A i \in DOMAIN reported[g] : reported[g][i] <= seen[g]
    BY DEF ReportInv, ReportedOnce
  <2>2. CASE seen'[g] = seen[g] /\ reported'[g] = reported[g]
    BY <2>1, <2>2, Zenon
  <2>3. ASSUME NEW e \in Int, seen'[g] = e, seen[g] = None, reported'[g] = reported[g]
        PROVE  <1>2!2
    <3>1. reported'[g] = << >>
      BY <2>1, <2>3
    <3>2. e # None
      BY NoneAssumption
    <3>3. QED
      BY <2>3, <3>1, <3>2 DEF Opt
  <2>4. ASSUME NEW e \in Int, seen'[g] = e, seen[g] # None, e > seen[g], reported'[g] = Append(reported[g], e)
        PROVE  <1>2!2
    <3>1. seen[g] \in Int /\ e # None
      BY <2>1, <2>4, NoneAssumption DEF Opt
    <3>2. \A i \in DOMAIN reported[g] : reported[g][i] < e
      <4>1. \A i \in DOMAIN reported[g] : reported[g][i] \in Int
        BY <2>1
      <4>2. QED
        BY <2>1, <2>4, <3>1, <4>1
    <3>3. /\ Append(reported[g], e) \in Seq(Int)
          /\ \A i \in DOMAIN Append(reported[g], e) : Append(reported[g], e)[i] <= e
          /\ \A i, j \in DOMAIN Append(reported[g], e) : i < j => Append(reported[g], e)[i] < Append(reported[g], e)[j]
      BY <2>1, <3>2, Appended
    <3>4. QED
      BY <2>4, <3>1, <3>3, Zenon DEF Opt
  <2>5. QED
    BY <2>2, <2>3, <2>4, ReceiveDoes
<1>3. seen' = [g \in Goal |-> seen'[g]] /\ reported' = [g \in Goal |-> reported'[g]]
  BY DEF Receive
<1>4. seen' \in [Goal -> Opt(Int)] /\ reported' \in [Goal -> Seq(Int)]
  BY <1>2, <1>3
<1>5. QED
  BY <1>1, <1>2, <1>4 DEF ReportInv, ReportedOnce

LEMMA AsksReports ==
    ASSUME EveryDay, Typed, ReportInv, Asks
    PROVE  ReportInv'
<1>1. seen' = seen /\ reported' = reported
  BY DEF Asks
<1>2. CASE answers' = answers
  BY <1>1, <1>2 DEF ReportInv, AnswersTyped, ReportedOnce
<1>3. ASSUME NEW k \in Check, AsksFor(k)
      PROVE  AnswersTyped'
  <2>1. answers' = [answers EXCEPT ![k] = [g \in Goal |-> IF goal[g] = None THEN None ELSE Entry(g)]]
    BY <1>3 DEF AsksFor
  <2>2. Data.cal \in Calendar /\ \A g \in Goal : goal[g] # None => goal[g] \in GoalRow
    BY DEF Typed, GoalsTyped, DataTyped, Data, Opt
  <2>3. \A g \in Goal : goal[g] # None => EndsTyped(Progress(goal[g], Data, now))
    <3> HIDE DEF Data
    <3>1. QED
      BY <2>2, ProgressEnds
  <2>4. \A g \in Goal : Entry(g).windows = Progress(goal[g], Data, now)
    BY DEF Entry
  <2>5. ASSUME NEW j \in Check, answers'[j] # None, NEW g \in Goal, answers'[j][g] # None
        PROVE  EndsTyped(answers'[j][g].windows)
    <3>1. CASE j = k
      <4>1. answers'[j] = [x \in Goal |-> IF goal[x] = None THEN None ELSE Entry(x)]
        BY <2>1, <3>1 DEF ReportInv, AnswersTyped
      <4>2. goal[g] # None /\ answers'[j][g] = Entry(g)
        BY <2>5, <4>1
      <4>3. QED
        BY <2>3, <2>4, <4>2
    <3>2. CASE j # k
      <4>1. answers'[j] = answers[j]
        BY <2>1, <3>2 DEF ReportInv, AnswersTyped
      <4>2. QED
        BY <2>5, <4>1 DEF ReportInv, AnswersTyped
    <3>3. QED
      BY <3>1, <3>2
  <2>6. answers' = [j \in Check |-> answers'[j]]
    BY <2>1 DEF ReportInv, AnswersTyped
  <2>7. QED
    <3>1. \A ws : EndsTyped(ws)' <=> EndsTyped(ws)
      BY DEF EndsTyped
    <3>2. QED
      BY <2>5, <2>6 DEF AnswersTyped, EndsTyped
<1>4. QED
  BY <1>1, <1>2, <1>3 DEF Asks, ReportInv, ReportedOnce

(* The rest says nothing to the user and asks nothing.                     *)
LEMMA OthersReport ==
    ASSUME ReportInv, [Next]_vars, ~Asks, \A k \in Check : ~Receive(k)
    PROVE  ReportInv'
<1>a. ASSUME NEW t \in Thread, Request(t) \/ Die(t)
      PROVE  UNCHANGED device
  BY <1>a DEF Request, PostGoal, UndoDelete, InsertGoal, PatchGoal, UpdateGoal, ReadGoalBack, TellGoal,
         DeleteGoal, CommitDelete, Import, ImportGoals, TellAll, Die, Starts, Writes, Tell
<1>b. ASSUME Export \/ StartTimer \/ StopTimer \/ EnterSession \/ RemoveSession \/ EditTask \/ SetCalendar \/ Tick
             \/ UNCHANGED vars
      PROVE  UNCHANGED device
  BY <1>b DEF Export, StartTimer, StopTimer, EnterSession, RemoveSession, EditTask, SetCalendar, Tick, Quiet, vars
<1>c. (\E k \in Check : LoseAnswer(k)) \/ UNCHANGED device
  BY <1>a, <1>b DEF Next
<1>1. seen' = seen /\ reported' = reported
  BY <1>c DEF LoseAnswer, device
<1>2. answers' = answers \/ \E k \in Check : answers' = [answers EXCEPT ![k] = None]
  BY <1>c DEF LoseAnswer, device
<1>3. AnswersTyped'
  BY <1>2 DEF ReportInv, AnswersTyped
<1>4. QED
  BY <1>1, <1>3 DEF ReportInv, ReportedOnce

-----------------------------------------------------------------------------
(* Requests *)

(* What a request's step has to show: of itself, and of the goals.         *)
Slot(t) == reqs' = [reqs EXCEPT ![t] = reqs'[t]]

LEMMA RequestTypes ==
    ASSUME GoalsTyped, DataTyped, NEW t \in Thread, Slot(t), UNCHANGED <<file, session, task, cal, now, scene>>,
           goal' \in [Goal -> Opt(GoalRow)], toast' \in Opt(GoalRow), told' = [g \in Goal |-> told'[g]],
           reqs'[t] # None => reqs'[t] \in RequestRecord /\ Carries(reqs'[t], file)
    PROVE  GoalsTyped' /\ DataTyped'
<1>1. reqs' \in [Thread -> Opt(RequestRecord)]
  BY DEF GoalsTyped, Slot, Opt
<1>2. ASSUME NEW o \in Thread, reqs'[o] # None
      PROVE  Carries(reqs'[o], file)
  <2>1. CASE o = t
    BY <1>2, <2>1
  <2>2. CASE o # t
    <3>1. reqs'[o] = reqs[o]
      BY <2>2 DEF GoalsTyped, Slot
    <3>2. QED
      BY <1>2, <3>1 DEF GoalsTyped
  <2>3. QED
    BY <2>1, <2>2
<1>3. GoalsTyped'
  BY <1>1, <1>2 DEF GoalsTyped
<1>4. DataTyped'
  BY DEF DataTyped, Tracked
<1>5. QED
  BY <1>3, <1>4

LEMMA RequestFollows ==
    ASSUME GoalsTyped, FollowInv, NEW t \in Thread, Slot(t), Overlaps(t),
           \A g \in Goal \ raced' :
              \/ told'[g] = goal'[g]
              \/ told'[g] = told[g] /\ goal'[g] = goal[g] /\ (reqs[t] # None => ~Owes(reqs[t], g))
              \/ reqs'[t] # None /\ Owes(reqs'[t], g),
           reqs'[t] # None => Stays(reqs'[t], goal', raced')
    PROVE  FollowInv'
<1>1. raced \subseteq raced'
  BY DEF Overlaps
<1>2. \A o \in Thread \ {t} : reqs'[o] = reqs[o]
  BY DEF GoalsTyped, Slot
<1>3. ASSUME NEW g \in Goal \ (raced' \cup untold')
      PROVE  told'[g] = goal'[g] \/ \E o \in Thread : reqs'[o] # None /\ Owes(reqs'[o], g)
  <2>1. CASE told'[g] = told[g] /\ goal'[g] = goal[g] /\ (reqs[t] # None => ~Owes(reqs[t], g))
    <3>0. g \in untold => told'[g] = goal'[g]
      BY DEF Overlaps
    <3>1. told[g] = goal[g] \/ \E o \in Thread : reqs[o] # None /\ Owes(reqs[o], g)
      BY <1>1, <2>1, <3>0 DEF FollowInv, Owed
    <3>2. ASSUME NEW o \in Thread, reqs[o] # None, Owes(reqs[o], g)
          PROVE  reqs'[o] # None /\ Owes(reqs'[o], g)
      BY <1>2, <2>1, <3>2
    <3>3. QED
      BY <2>1, <3>1, <3>2
  <2>2. QED
    BY <2>1
<1>4. ASSUME NEW o \in Thread, o # t, reqs'[o] # None
      PROVE  Stays(reqs'[o], goal', raced')
  <2>1. reqs'[o] = reqs[o] /\ Stays(reqs[o], goal, raced) /\ reqs[o].on \subseteq Goal
    BY <1>2, <1>4 DEF FollowInv, GoalsTyped, Opt, RequestRecord
  <2>2. ASSUME NEW g \in reqs[o].on \ raced'
        PROVE  goal'[g] = goal[g]
    <3>1. g \in Goal /\ g \notin Changed \cap reqs[o].on
      BY <1>4, <2>1 DEF Overlaps
    <3>2. QED
      BY <3>1 DEF Changed
  <2>3. QED
    BY <1>1, <2>1, <2>2 DEF Stays
<1>5. QED
  BY <1>3, <1>4 DEF FollowInv, Owed

LEMMA InFlight ==
    ASSUME GoalsTyped, NEW t \in Thread, reqs[t] # None
    PROVE  reqs[t] \in RequestRecord /\ Carries(reqs[t], file)
  BY DEF GoalsTyped, Opt

LEMMA StartsFollow ==
    ASSUME Typed, FollowInv, NEW t \in Thread, Overlaps(t), NEW kind \in {"post", "patch", "delete", "import"},
           NEW on \in SUBSET Goal, NEW row \in GoalRow \cup {None} \cup [to : GoalRow, was : GoalRow],
           Starts(t, kind, on, row, "write"), toast' \in Opt(GoalRow),
           Carries([kind |-> kind, on |-> on, row |-> row, pc |-> "write"], file),
           kind = "patch" => \A g \in on : goal[g] # None
    PROVE  GoalsTyped' /\ DataTyped' /\ FollowInv'
<1> DEFINE r == [kind |-> kind, on |-> on, row |-> row, pc |-> "write"]
<1>1. Slot(t) /\ reqs'[t] = r /\ reqs[t] = None
  BY DEF Starts, Slot, Typed, GoalsTyped
<1>2. r \in RequestRecord
  BY DEF RequestRecord
<1>3. UNCHANGED <<file, session, task, cal, now, scene, goal, told>>
  BY DEF Starts, db
<1>4. goal' \in [Goal -> Opt(GoalRow)] /\ told' = [g \in Goal |-> told'[g]]
  BY <1>3 DEF Typed, GoalsTyped
<1>5. GoalsTyped' /\ DataTyped'
  BY <1>1, <1>2, <1>3, <1>4, RequestTypes DEF Typed
<1>6. Stays(r, goal', raced')
  BY <1>3 DEF Stays
<1>7. FollowInv'
  BY <1>1, <1>3, <1>6, RequestFollows DEF Typed
<1>8. QED
  BY <1>5, <1>7

LEMMA PostGoalFollows ==
    ASSUME Typed, FollowInv, NEW t \in Thread, PostGoal(t), Overlaps(t)
    PROVE  GoalsTyped' /\ DataTyped' /\ FollowInv'
<1>1. PICK g \in Goal, o \in scene.offers : Starts(t, "post", {g}, NewGoal(o), "write") /\ UNCHANGED toast
  BY DEF PostGoal
<1>2. NewGoal(o) \in GoalRow
  BY GoalsAssumption DEF NewGoal, GoalRow, Typed, DataTyped
<1>3. Carries([kind |-> "post", on |-> {g}, row |-> NewGoal(o), pc |-> "write"], file)
  BY <1>2 DEF Carries
<1>4. toast' \in Opt(GoalRow)
  BY <1>1 DEF Typed, GoalsTyped
<1>5. QED
  BY <1>1, <1>2, <1>3, <1>4, StartsFollow

LEMMA UndoDeleteFollows ==
    ASSUME Typed, FollowInv, NEW t \in Thread, UndoDelete(t), Overlaps(t)
    PROVE  GoalsTyped' /\ DataTyped' /\ FollowInv'
<1> DEFINE row == [toast EXCEPT !.created = now, !.archived = None]
<1>1. PICK g \in Goal : Starts(t, "post", {g}, row, "write") /\ toast # None /\ toast' = None
  BY DEF UndoDelete
<1>2. row \in GoalRow
  <2>1. now \in Nat
    BY BoundsAssumption DEF Typed, DataTyped
  <2>2. QED
    BY <1>1, <2>1 DEF GoalRow, Typed, GoalsTyped, Opt
<1> HIDE DEF row
<1>3. Carries([kind |-> "post", on |-> {g}, row |-> row, pc |-> "write"], file)
  BY <1>2 DEF Carries
<1>4. toast' \in Opt(GoalRow)
  BY <1>1 DEF Opt
<1>5. QED
  BY <1>1, <1>2, <1>3, <1>4, StartsFollow

LEMMA PatchGoalFollows ==
    ASSUME Typed, FollowInv, NEW t \in Thread, PatchGoal(t), Overlaps(t)
    PROVE  GoalsTyped' /\ DataTyped' /\ FollowInv'
<1>1. PICK g \in Stored : \E row \in Patches(goal[g]) :
          Starts(t, "patch", {g}, [to |-> row, was |-> goal[g]], "write") /\ UNCHANGED toast
  BY DEF PatchGoal
<1>2. PICK row \in Patches(goal[g]) :
          Starts(t, "patch", {g}, [to |-> row, was |-> goal[g]], "write") /\ UNCHANGED toast
  BY <1>1
<1>3. g \in Goal /\ goal[g] # None /\ goal[g] \in GoalRow
  BY DEF Stored, Typed, GoalsTyped, Opt
<1>4. row \in GoalRow
  <2>1. now \in Nat /\ \A o \in scene.offers : o.target \in Nat /\ o.period \in Period /\ o.direction \in Direction /\ o.scope \in SUBSET (Task \cup Project) /\ o.ends \in Nat \cup {None}
    BY GoalsAssumption DEF Typed, DataTyped, Period, Direction
  <2>2. PICK was \in GoalRow : was = goal[g]
    BY <1>3
  <2>3. \/ \E target \in Nat : row = [was EXCEPT !.target = target]
        \/ \E period \in Period : row = [was EXCEPT !.period = period]
        \/ \E direction \in Direction : row = [was EXCEPT !.direction = direction]
        \/ \E scope \in SUBSET (Task \cup Project) : row = [was EXCEPT !.scope = scope]
        \/ \E ends \in Nat \cup {None} : row = [was EXCEPT !.ends = ends]
        \/ \E archived \in Nat \cup {None} : row = [was EXCEPT !.archived = archived]
    BY <2>1, <2>2 DEF Patches
  <2>4. QED
    BY <2>3 DEF GoalRow, Period, Direction
<1>5. [to |-> row, was |-> goal[g]] \in [to : GoalRow, was : GoalRow]
  BY <1>3, <1>4
<1>6. Carries([kind |-> "patch", on |-> {g}, row |-> [to |-> row, was |-> goal[g]], pc |-> "write"], file)
  BY <1>3, <1>5 DEF Carries
<1>7. toast' \in Opt(GoalRow)
  BY <1>2 DEF Typed, GoalsTyped
<1>8. QED
  BY <1>2, <1>3, <1>5, <1>6, <1>7, StartsFollow

LEMMA DeleteGoalFollows ==
    ASSUME Typed, FollowInv, NEW t \in Thread, DeleteGoal(t), Overlaps(t)
    PROVE  GoalsTyped' /\ DataTyped' /\ FollowInv'
<1>1. PICK g \in Stored : Starts(t, "delete", {g}, goal[g], "write") /\ UNCHANGED toast
  BY DEF DeleteGoal
<1>2. g \in Goal /\ goal[g] \in GoalRow
  BY DEF Stored, Typed, GoalsTyped, Opt
<1>3. Carries([kind |-> "delete", on |-> {g}, row |-> goal[g], pc |-> "write"], file)
  BY <1>2 DEF Carries
<1>4. toast' \in Opt(GoalRow)
  BY <1>1 DEF Typed, GoalsTyped
<1>5. QED
  BY <1>1, <1>2, <1>3, <1>4, StartsFollow

LEMMA ImportFollows ==
    ASSUME Typed, FollowInv, NEW t \in Thread, Import(t), Overlaps(t)
    PROVE  GoalsTyped' /\ DataTyped' /\ FollowInv'
<1> DEFINE fits == {g \in Goal : file[g] # None /\ ScopeAccessible(file[g].scope)}
<1>1. Starts(t, "import", fits, None, "write") /\ file # None /\ UNCHANGED toast
  BY DEF Import
<1>2. fits \in SUBSET Goal /\ \A g \in fits : file[g] # None
  OBVIOUS
<1> HIDE DEF fits
<1>3. Carries([kind |-> "import", on |-> fits, row |-> None, pc |-> "write"], file)
  BY <1>1, <1>2 DEF Carries
<1>4. toast' \in Opt(GoalRow)
  BY <1>1 DEF Typed, GoalsTyped
<1>5. QED
  BY <1>1, <1>2, <1>3, <1>4, StartsFollow

LEMMA RequestWritten ==
    ASSUME NEW r \in RequestRecord
    PROVE  \E q \in RequestRecord : /\ q = [r EXCEPT !.pc = "readback"]
                                    /\ q.kind = r.kind /\ q.on = r.on /\ q.row = r.row /\ q.pc = "readback"
<1>1. [r EXCEPT !.pc = "readback"] \in RequestRecord /\ DOMAIN r = {"kind", "on", "row", "pc"}
  BY DEF RequestRecord
<1>2. QED
  BY <1>1

LEMMA ImportWritten ==
    ASSUME NEW r \in RequestRecord
    PROVE  \E q \in RequestRecord : /\ q = [r EXCEPT !.pc = "tell"]
                                    /\ q.kind = r.kind /\ q.on = r.on /\ q.row = r.row /\ q.pc = "tell"
<1>1. [r EXCEPT !.pc = "tell"] \in RequestRecord /\ DOMAIN r = {"kind", "on", "row", "pc"}
  BY DEF RequestRecord
<1>2. QED
  BY <1>1

LEMMA MovedWithRow ==
    ASSUME NEW r \in RequestRecord, NEW row \in GoalRow
    PROVE  \E q \in RequestRecord : /\ q = [r EXCEPT !.pc = "tell", !.row = row]
                                    /\ q.kind = r.kind /\ q.on = r.on /\ q.row = row /\ q.pc = "tell"
<1>1. [r EXCEPT !.pc = "tell", !.row = row] \in RequestRecord /\ DOMAIN r = {"kind", "on", "row", "pc"}
  BY DEF RequestRecord
<1>2. QED
  BY <1>1

LEMMA InsertGoalFollows ==
    ASSUME Typed, FollowInv, NEW t \in Thread, InsertGoal(t), Overlaps(t)
    PROVE  GoalsTyped' /\ DataTyped' /\ FollowInv'
<1> DEFINE r == reqs[t]
<1>0. r # None /\ r.kind = "post" /\ r.pc = "write"
  BY DEF InsertGoal, At
<1>1. r \in RequestRecord /\ r.row \in GoalRow /\ r.row # None
  BY <1>0, InFlight, NoneAssumption DEF Carries, Typed
<1>2. UNCHANGED <<file, session, task, cal, now, scene, told, toast>>
  BY DEF InsertGoal, Writes
<1>3. toast' \in Opt(GoalRow) /\ told' = [g \in Goal |-> told'[g]]
  BY <1>2 DEF Typed, GoalsTyped
<1>4. CASE Cardinality(Stored) < scene.cap
  <2>1. reqs' = [reqs EXCEPT ![t].pc = "readback"] /\ goal' = [g \in Goal |-> IF g \in r.on THEN r.row ELSE goal[g]]
    BY <1>4 DEF InsertGoal, Writes
  <2>2. Slot(t) /\ reqs'[t] = [r EXCEPT !.pc = "readback"]
    BY <2>1 DEF Slot, Typed, GoalsTyped
  <2>3. PICK q \in RequestRecord : /\ q = [r EXCEPT !.pc = "readback"]
                                   /\ q.kind = "post" /\ q.on = r.on /\ q.row = r.row /\ q.pc = "readback"
    BY <1>0, <1>1, RequestWritten
  <2>4. Carries(q, file)
    BY <1>0, <1>1, <2>3, InFlight DEF Carries, Typed
  <2>5. goal' \in [Goal -> Opt(GoalRow)]
    BY <1>1, <2>1 DEF Typed, GoalsTyped, Opt
  <2>6. GoalsTyped' /\ DataTyped'
    BY <1>2, <1>3, <2>2, <2>3, <2>4, <2>5, RequestTypes DEF Typed
  <2>7. ASSUME NEW g \in Goal
        PROVE  (told'[g] = told[g] /\ goal'[g] = goal[g] /\ ~Owes(r, g)) \/ Owes(q, g)
    BY <1>0, <1>2, <2>1, <2>3 DEF Owes, Typed, GoalsTyped
  <2>8. Stays(q, goal', raced')
    <3>1. r.on \subseteq Goal
      BY <1>1 DEF RequestRecord
    <3>2. \A g \in r.on : goal'[g] # None
      BY <1>1, <2>1, <3>1
    <3>3. QED
      BY <2>3, <3>2 DEF Stays
  <2>9. q # None
    BY <2>3, NoneAssumption
  <2>10. FollowInv'
    BY <2>2, <2>3, <2>7, <2>8, <2>9, RequestFollows DEF Typed
  <2>11. QED
    BY <2>6, <2>10
<1>5. CASE ~(Cardinality(Stored) < scene.cap)
  <2>1. reqs' = [reqs EXCEPT ![t] = None] /\ goal' = goal
    BY <1>5 DEF InsertGoal, Writes, Ends
  <2>2. Slot(t) /\ reqs'[t] = None
    BY <2>1 DEF Slot, Typed, GoalsTyped
  <2>3. GoalsTyped' /\ DataTyped'
    BY <1>2, <1>3, <2>1, <2>2, RequestTypes DEF Typed, GoalsTyped
  <2>4. FollowInv'
    BY <1>0, <1>2, <2>1, <2>2, RequestFollows DEF Typed, Owes
  <2>5. QED
    BY <2>3, <2>4
<1>6. QED
  BY <1>4, <1>5

LEMMA MergedRow ==
    ASSUME NEW row \in GoalRow, NEW to \in GoalRow, NEW was
    PROVE  [f \in DOMAIN row |-> IF to[f] # was[f] THEN to[f] ELSE row[f]] \in GoalRow
<1> DEFINE m == [f \in DOMAIN row |-> IF to[f] # was[f] THEN to[f] ELSE row[f]]
<1>1. DOMAIN row = {"period", "direction", "target", "scope", "ends", "created", "archived"}
  BY DEF GoalRow
<1>2. m = [period |-> m["period"], direction |-> m["direction"], target |-> m["target"], scope |-> m["scope"],
           ends |-> m["ends"], created |-> m["created"], archived |-> m["archived"]]
  BY <1>1
<1>3. \A f \in DOMAIN row : m[f] \in {to[f], row[f]}
  OBVIOUS
<1> HIDE DEF m
<1>4. /\ m["period"] \in {"day", "week", "month"} /\ m["direction"] \in {"at_least", "at_most"}
      /\ m["target"] \in Nat /\ m["scope"] \in SUBSET (Task \cup Project) /\ m["ends"] \in Nat \cup {None}
      /\ m["created"] \in Nat /\ m["archived"] \in Nat \cup {None}
  <2>1. \A f \in {"period", "direction", "target", "scope", "ends", "created", "archived"} : m[f] = to[f] \/ m[f] = row[f]
    BY <1>1, <1>3
  <2>2. QED
    BY <2>1 DEF GoalRow
<1>5. m \in GoalRow
  BY <1>2, <1>4 DEF GoalRow
<1>6. QED
  BY <1>5 DEF m

LEMMA UpdateGoalFollows ==
    ASSUME Typed, FollowInv, NEW t \in Thread, UpdateGoal(t), Overlaps(t)
    PROVE  GoalsTyped' /\ DataTyped' /\ FollowInv'
<1> DEFINE r == reqs[t]
           set(row) == [f \in DOMAIN row |-> IF r.row.to[f] # r.row.was[f] THEN r.row.to[f] ELSE row[f]]
<1>0. r # None /\ r.kind = "patch" /\ r.pc = "write"
  BY DEF UpdateGoal, At
<1>1. r \in RequestRecord /\ r.row \in [to : GoalRow, was : GoalRow]
  BY <1>0, InFlight DEF Carries, Typed
<1>2. UNCHANGED <<file, session, task, cal, now, scene, told, toast>>
  BY DEF UpdateGoal, Writes
<1>3. toast' \in Opt(GoalRow) /\ told' = [g \in Goal |-> told'[g]]
  BY <1>2 DEF Typed, GoalsTyped
<1>4. goal' = [g \in Goal |-> IF g \in r.on \cap Stored THEN set(goal[g]) ELSE goal[g]]
  BY DEF UpdateGoal, Writes
<1>5. \A row \in GoalRow : set(row) \in GoalRow
  BY <1>1, MergedRow
<1> HIDE DEF set
<1>6. /\ goal' \in [Goal -> Opt(GoalRow)]
      /\ \A g \in Goal : goal[g] # None => goal'[g] # None
      /\ \A g \in Goal : g \notin r.on => goal'[g] = goal[g]
  <2>1. ASSUME NEW g \in Goal
        PROVE  goal'[g] \in Opt(GoalRow) /\ (goal[g] # None => goal'[g] # None) /\ (g \notin r.on => goal'[g] = goal[g])
    <3>1. goal[g] \in Opt(GoalRow) /\ None \notin GoalRow
      BY NoneAssumption DEF Typed, GoalsTyped
    <3>2. CASE g \in r.on \cap Stored
      BY <1>4, <1>5, <3>1, <3>2 DEF Stored, Opt
    <3>3. CASE g \notin r.on \cap Stored
      BY <1>4, <3>1, <3>3
    <3>4. QED
      BY <3>2, <3>3
  <2>2. QED
    BY <1>4, <2>1
<1>7. reqs' = [reqs EXCEPT ![t].pc = "readback"]
  BY DEF UpdateGoal
<1>8. Slot(t) /\ reqs'[t] = [r EXCEPT !.pc = "readback"]
  BY <1>7 DEF Slot, Typed, GoalsTyped
<1>9. PICK q \in RequestRecord : /\ q = [r EXCEPT !.pc = "readback"]
                                 /\ q.kind = "patch" /\ q.on = r.on /\ q.row = r.row /\ q.pc = "readback"
  <2> HIDE DEF r
  <2>1. QED
    BY <1>0, <1>1, RequestWritten
<1>10. Carries(q, file)
  BY <1>0, <1>1, <1>9, InFlight DEF Carries, Typed
<1>11. GoalsTyped' /\ DataTyped'
  BY <1>2, <1>3, <1>6, <1>8, <1>9, <1>10, RequestTypes DEF Typed
<1>12. ASSUME NEW g \in Goal
       PROVE  (told'[g] = told[g] /\ goal'[g] = goal[g] /\ ~Owes(r, g)) \/ Owes(q, g)
  BY <1>0, <1>2, <1>6, <1>9 DEF Owes
<1>13. Stays(q, goal', raced')
  <2>1. r.on \subseteq Goal /\ raced \subseteq raced'
    BY <1>1 DEF RequestRecord, Overlaps
  <2>2. Stays(r, goal, raced)
    BY <1>0 DEF FollowInv
  <2>3. \A g \in r.on \ raced' : goal'[g] # None
    BY <1>0, <1>6, <2>1, <2>2 DEF Stays
  <2>4. QED
    BY <1>9, <2>3 DEF Stays
<1>14. q # None
  BY <1>9, NoneAssumption
<1>15. FollowInv'
  BY <1>8, <1>9, <1>12, <1>13, <1>14, RequestFollows DEF Typed
<1>16. QED
  BY <1>11, <1>15

LEMMA ReadGoalBackFollows ==
    ASSUME Typed, FollowInv, NEW t \in Thread, ReadGoalBack(t), Overlaps(t)
    PROVE  GoalsTyped' /\ DataTyped' /\ FollowInv'
<1> DEFINE r == reqs[t]
<1>0. r # None /\ r.kind \in {"post", "patch"} /\ r.pc = "readback"
  BY DEF ReadGoalBack, At
<1>1. r \in RequestRecord /\ Carries(r, file) /\ Stays(r, goal, raced)
  BY <1>0, InFlight DEF Typed, FollowInv
<1>2. UNCHANGED <<file, session, task, cal, now, scene, told, toast, goal>> /\ raced \subseteq raced'
  BY DEF ReadGoalBack, db, Overlaps
<1>3. toast' \in Opt(GoalRow) /\ told' = [g \in Goal |-> told'[g]] /\ goal' \in [Goal -> Opt(GoalRow)]
  BY <1>2 DEF Typed, GoalsTyped
<1>4. PICK g \in Goal : r.on = {g} /\ g = CHOOSE x \in Goal : x \in r.on
  <2>1. PICK g \in Goal : r.on = {g}
    BY <1>0, <1>1 DEF Carries
  <2>2. g = CHOOSE x \in Goal : x \in r.on
    BY <2>1
  <2>3. QED
    BY <2>1, <2>2
<1>5. CASE goal[g] = None
  <2>1. reqs' = [reqs EXCEPT ![t] = None]
    BY <1>4, <1>5 DEF ReadGoalBack, Ends
  <2>2. Slot(t) /\ reqs'[t] = None
    BY <2>1 DEF Slot, Typed, GoalsTyped
  <2>3. GoalsTyped' /\ DataTyped'
    BY <1>2, <1>3, <2>2, RequestTypes DEF Typed
  <2>4. g \in raced'
    BY <1>0, <1>1, <1>2, <1>4, <1>5 DEF Stays
  <2>5. \A x \in Goal \ raced' : ~Owes(r, x)
    BY <1>0, <1>4, <2>4 DEF Owes
  <2>6. FollowInv'
    BY <1>2, <2>2, <2>5, RequestFollows DEF Typed
  <2>7. QED
    BY <2>3, <2>6
<1>6. CASE goal[g] # None
  <2>1. reqs' = [reqs EXCEPT ![t].pc = "tell", ![t].row = goal[g]]
    BY <1>4, <1>6 DEF ReadGoalBack
  <2>2. Slot(t) /\ reqs'[t] = [r EXCEPT !.pc = "tell", !.row = goal[g]]
    BY <2>1 DEF Slot, Typed, GoalsTyped
  <2>3. goal[g] \in GoalRow
    BY <1>6 DEF Typed, GoalsTyped, Opt
  <2>4. PICK q \in RequestRecord : /\ q = [r EXCEPT !.pc = "tell", !.row = goal[g]]
                                   /\ q.kind = r.kind /\ q.on = r.on /\ q.row = goal[g] /\ q.pc = "tell"
    BY <1>1, <2>3, MovedWithRow
  <2>5. Carries(q, file)
    BY <1>0, <1>1, <2>3, <2>4 DEF Carries
  <2>6. GoalsTyped' /\ DataTyped'
    BY <1>2, <1>3, <2>2, <2>4, <2>5, RequestTypes DEF Typed
  <2>7. \A x \in Goal : ~Owes(r, x) \/ Owes(q, x)
    BY <1>0, <2>4 DEF Owes
  <2>8. Stays(q, goal', raced')
    BY <1>2, <1>4, <1>6, <2>4 DEF Stays
  <2>9. q # None
    BY <2>4, NoneAssumption
  <2>10. FollowInv'
    BY <1>2, <2>2, <2>4, <2>7, <2>8, <2>9, RequestFollows DEF Typed
  <2>11. QED
    BY <2>6, <2>10
<1>7. QED
  BY <1>5, <1>6

LEMMA EndsFollow ==
    ASSUME Typed, FollowInv, NEW t \in Thread, Ends(t), Overlaps(t), reqs[t] # None,
           UNCHANGED <<file, session, task, cal, now, scene>>, toast' \in Opt(GoalRow),
           goal' \in [Goal -> Opt(GoalRow)], told' = [g \in Goal |-> told'[g]],
           \A g \in Goal \ raced' :
              told'[g] = goal'[g] \/ (told'[g] = told[g] /\ goal'[g] = goal[g] /\ ~Owes(reqs[t], g))
    PROVE  GoalsTyped' /\ DataTyped' /\ FollowInv'
<1>1. Slot(t) /\ reqs'[t] = None
  BY DEF Ends, Slot, Typed, GoalsTyped
<1>2. GoalsTyped' /\ DataTyped'
  BY <1>1, RequestTypes DEF Typed
<1>3. FollowInv'
  BY <1>1, RequestFollows DEF Typed
<1>4. QED
  BY <1>2, <1>3

LEMMA TellGoalFollows ==
    ASSUME Typed, FollowInv, NEW t \in Thread, TellGoal(t), Overlaps(t)
    PROVE  GoalsTyped' /\ DataTyped' /\ FollowInv'
<1> DEFINE r == reqs[t]
<1>0. r # None /\ r.kind \in {"post", "patch"} /\ r.pc = "tell"
  BY DEF TellGoal, At
<1>1. r.on \subseteq Goal /\ Stays(r, goal, raced) /\ raced \subseteq raced'
  BY <1>0, InFlight DEF Typed, FollowInv, RequestRecord, Overlaps
<1>2. /\ told' = [g \in Goal |-> IF g \in r.on THEN r.row ELSE told[g]]
      /\ Ends(t) /\ UNCHANGED <<goal, file, session, task, cal, now, scene, toast>>
  BY DEF TellGoal, Tell, db
<1>3. \A g \in Goal \ raced' :
         told'[g] = goal'[g] \/ (told'[g] = told[g] /\ goal'[g] = goal[g] /\ ~Owes(r, g))
  BY <1>0, <1>1, <1>2 DEF Stays, Owes
<1>4. toast' \in Opt(GoalRow) /\ goal' \in [Goal -> Opt(GoalRow)] /\ told' = [g \in Goal |-> told'[g]]
  BY <1>2 DEF Typed, GoalsTyped
<1>5. QED
  BY <1>0, <1>2, <1>3, <1>4, EndsFollow

LEMMA CommitDeleteFollows ==
    ASSUME Typed, FollowInv, NEW t \in Thread, CommitDelete(t), Overlaps(t)
    PROVE  GoalsTyped' /\ DataTyped' /\ FollowInv'
<1> DEFINE r == reqs[t]
<1>0. r # None /\ r.kind = "delete" /\ r.pc = "write"
  BY DEF CommitDelete, At
<1>1. r.row \in GoalRow
  BY <1>0, InFlight DEF Typed, Carries
<1>2. /\ goal' = [g \in Goal |-> IF g \in r.on THEN None ELSE goal[g]]
      /\ told' = [g \in Goal |-> IF g \in r.on THEN None ELSE told[g]]
      /\ Ends(t) /\ toast' = r.row /\ UNCHANGED <<file, session, task, cal, now, scene>>
  BY DEF CommitDelete
<1>3. \A g \in Goal : told'[g] = goal'[g] \/ (told'[g] = told[g] /\ goal'[g] = goal[g] /\ ~Owes(r, g))
  BY <1>0, <1>2 DEF Owes
<1>4. goal' \in [Goal -> Opt(GoalRow)]
  BY <1>2 DEF Typed, GoalsTyped, Opt
<1>5. told' = [g \in Goal |-> told'[g]]
  BY <1>2
<1>6. toast' \in Opt(GoalRow)
  BY <1>1, <1>2 DEF Opt
<1>7. QED
  BY <1>0, <1>2, <1>3, <1>4, <1>5, <1>6, EndsFollow

LEMMA ImportGoalsFollows ==
    ASSUME Typed, FollowInv, NEW t \in Thread, ImportGoals(t), Overlaps(t)
    PROVE  GoalsTyped' /\ DataTyped' /\ FollowInv'
<1> DEFINE r == reqs[t]
           new == r.on \ Stored
           row(g) == IF g \in new THEN file[g] ELSE [file[g] EXCEPT !.created = goal[g].created]
<1>0. r # None /\ r.kind = "import" /\ r.pc = "write"
  BY DEF ImportGoals, At
<1>1. r \in RequestRecord /\ Carries(r, file)
  BY <1>0, InFlight DEF Typed
<1>2. UNCHANGED <<file, session, task, cal, now, scene, told, toast>>
  BY DEF ImportGoals, Writes
<1>3. PICK left \in SUBSET new : goal' = [g \in Goal |-> IF g \in r.on \ left THEN row(g) ELSE goal[g]]
  BY DEF ImportGoals, Writes
<1>4. \A g \in r.on : row(g) \in GoalRow
  <2>1. ASSUME NEW g \in r.on
        PROVE  file[g] \in GoalRow /\ g \in Goal
    BY <1>0, <1>1 DEF Carries, Typed, GoalsTyped, Opt, RequestRecord
  <2>2. ASSUME NEW g \in r.on, g \notin new
        PROVE  goal[g].created \in Nat
    BY <2>1, <2>2 DEF Stored, Typed, GoalsTyped, Opt, GoalRow
  <2>3. \A f \in GoalRow, at \in Nat : [f EXCEPT !.created = at] \in GoalRow
    BY DEF GoalRow
  <2> HIDE DEF new
  <2>4. QED
    BY <2>1, <2>2, <2>3
<1> HIDE DEF row
<1>5. goal' \in [Goal -> Opt(GoalRow)]
  BY <1>3, <1>4 DEF Typed, GoalsTyped, Opt
<1>6. toast' \in Opt(GoalRow) /\ told' = [g \in Goal |-> told'[g]]
  BY <1>2 DEF Typed, GoalsTyped
<1>7. reqs' = [reqs EXCEPT ![t].pc = "tell"]
  BY DEF ImportGoals
<1>8. Slot(t) /\ reqs'[t] = [r EXCEPT !.pc = "tell"]
  BY <1>7 DEF Slot, Typed, GoalsTyped
<1>9. PICK q \in RequestRecord : q = [r EXCEPT !.pc = "tell"] /\ q.kind = "import" /\ q.on = r.on /\ q.pc = "tell"
  BY <1>0, <1>1, ImportWritten
<1>10. Carries(q, file)
  BY <1>0, <1>1, <1>9 DEF Carries
<1>11. GoalsTyped' /\ DataTyped'
  BY <1>2, <1>5, <1>6, <1>8, <1>9, <1>10, RequestTypes DEF Typed
<1>12. \A g \in Goal : Owes(q, g) \/ (goal'[g] = goal[g] /\ ~Owes(r, g))
  BY <1>0, <1>3, <1>9 DEF Owes
<1>13. Stays(q, goal', raced')
  BY <1>9 DEF Stays
<1>14. q # None
  BY <1>9, NoneAssumption
<1>15. FollowInv'
  BY <1>2, <1>8, <1>9, <1>12, <1>13, <1>14, RequestFollows DEF Typed
<1>16. QED
  BY <1>11, <1>15

LEMMA TellAllFollows ==
    ASSUME Typed, FollowInv, NEW t \in Thread, TellAll(t), Overlaps(t)
    PROVE  GoalsTyped' /\ DataTyped' /\ FollowInv'
<1>1. reqs[t] # None /\ told' = goal /\ Ends(t) /\ UNCHANGED <<goal, file, session, task, cal, now, scene, toast>>
  BY DEF TellAll, Tell, db, At
<1>2. /\ toast' \in Opt(GoalRow) /\ goal' \in [Goal -> Opt(GoalRow)] /\ told' = [g \in Goal |-> told'[g]]
      /\ \A g \in Goal : told'[g] = goal'[g]
  BY <1>1 DEF Typed, GoalsTyped
<1>3. QED
  BY <1>1, <1>2, EndsFollow

LEMMA RequestStep ==
    ASSUME Typed, FollowInv, NEW t \in Thread, Request(t), Overlaps(t)
    PROVE  Typed' /\ FollowInv'
<1>1. GoalsTyped' /\ DataTyped' /\ FollowInv'
  BY PostGoalFollows, UndoDeleteFollows, InsertGoalFollows, PatchGoalFollows, UpdateGoalFollows, ReadGoalBackFollows,
     TellGoalFollows, DeleteGoalFollows, CommitDeleteFollows, ImportFollows, ImportGoalsFollows, TellAllFollows
     DEF Request
<1>2. QED
  BY <1>1 DEF Typed

(* A request that dies takes what it owes with it.                         *)
LEMMA DieFollows ==
    ASSUME Typed, FollowInv, NEW t \in Thread, Die(t)
    PROVE  Typed' /\ FollowInv'
<1>1. /\ reqs[t] # None /\ Ends(t) /\ untold' = untold \cup (IF reqs[t].pc = "write" THEN {} ELSE reqs[t].on)
      /\ UNCHANGED <<goal, told, toast, file, raced, session, task, cal, now, scene>>
  BY DEF Die, db
<1>2. Slot(t) /\ reqs'[t] = None /\ \A o \in Thread \ {t} : reqs'[o] = reqs[o]
  BY <1>1 DEF Ends, Slot, Typed, GoalsTyped
<1>3. GoalsTyped' /\ DataTyped'
  <2>1. toast' \in Opt(GoalRow) /\ told' = [g \in Goal |-> told'[g]] /\ goal' \in [Goal -> Opt(GoalRow)]
    BY <1>1 DEF Typed, GoalsTyped
  <2>2. QED
    BY <1>1, <1>2, <2>1, RequestTypes DEF Typed
<1>4. ASSUME NEW g \in Goal \ (raced' \cup untold')
      PROVE  told'[g] = goal'[g] \/ \E o \in Thread : reqs'[o] # None /\ Owes(reqs'[o], g)
  <2>1. ~Owes(reqs[t], g)
    BY <1>1 DEF Owes
  <2>2. told[g] = goal[g] \/ \E o \in Thread : reqs[o] # None /\ Owes(reqs[o], g)
    BY <1>1 DEF FollowInv, Owed
  <2>3. QED
    BY <1>1, <1>2, <2>1, <2>2
<1>5. ASSUME NEW o \in Thread, reqs'[o] # None
      PROVE  Stays(reqs'[o], goal', raced')
  <2>1. o # t /\ reqs'[o] = reqs[o]
    BY <1>2, <1>5
  <2>2. Stays(reqs[o], goal, raced)
    BY <1>5, <2>1 DEF FollowInv
  <2>3. QED
    BY <1>1, <2>1, <2>2
<1>6. FollowInv'
  BY <1>4, <1>5 DEF FollowInv, Owed
<1>7. QED
  BY <1>3, <1>6 DEF Typed

-----------------------------------------------------------------------------
(* The other steps *)

LEMMA QuietFollows ==
    ASSUME Typed, FollowInv, UNCHANGED <<goal, told, reqs, toast, file, raced, untold>>
    PROVE  GoalsTyped' /\ FollowInv'
<1>1. GoalsTyped'
  BY DEF Typed, GoalsTyped
<1>2. FollowInv'
  BY DEF FollowInv, Owed
<1>3. QED
  BY <1>1, <1>2

LEMMA ExportFollows ==
    ASSUME Typed, FollowInv, Export
    PROVE  Typed' /\ FollowInv'
<1>1. file = None /\ file' = goal /\ UNCHANGED <<goal, told, reqs, toast, raced, untold, session, task, cal, now, scene>>
  BY DEF Export, db
<1>2. GoalsTyped'
  <2>1. \A t \in Thread : reqs[t] # None => Carries(reqs[t], file')
    BY <1>1 DEF Typed, GoalsTyped, Carries
  <2>2. file' \in [Goal -> Opt(GoalRow)]
    BY <1>1 DEF Typed, GoalsTyped
  <2>3. QED
    BY <1>1, <2>1, <2>2 DEF Typed, GoalsTyped
<1>3. FollowInv'
  BY <1>1 DEF FollowInv, Owed
<1>4. DataTyped'
  BY <1>1 DEF Typed, DataTyped, Tracked
<1>5. QED
  BY <1>2, <1>3, <1>4 DEF Typed

LEMMA SessionAdded ==
    ASSUME DataTyped, NEW u \in User, NEW c \in Task, NEW from \in Nat, NEW to \in Opt(Nat), NewSession(u, c, from, to)
    PROVE  session' \in [Session -> Opt(SessionRow)] /\ IsFiniteSet(Tracked)'
<1> DEFINE row == [by |-> u, task |-> c, from |-> from, to |-> to]
<1>1. PICK s \in Session : session[s] = None /\ session' = [session EXCEPT ![s] = row]
  BY DEF NewSession
<1>2. row \in SessionRow
  BY DEF SessionRow, Opt
<1>3. session' \in [Session -> Opt(SessionRow)]
  BY <1>1, <1>2 DEF DataTyped, Opt
<1>4. Tracked' \subseteq Tracked \cup {s}
  BY <1>1 DEF Tracked, DataTyped
<1>5. IsFiniteSet(Tracked \cup {s})
  BY FS_AddElement DEF DataTyped
<1>6. IsFiniteSet(Tracked')
  BY <1>4, <1>5, FS_Subset
<1>7. QED
  BY <1>3, <1>6

LEMMA DataStep ==
    ASSUME DataTyped,
           StartTimer \/ StopTimer \/ EnterSession \/ RemoveSession \/ EditTask \/ SetCalendar \/ Tick
    PROVE  DataTyped'
<1>0. now \in Nat /\ now \in 0..Horizon /\ scene \in Scenes
  BY BoundsAssumption DEF DataTyped
<1>1. CASE StartTimer
  <2>1. PICK c \in Task : NewSession(Me, c, now, None)
    BY <1>1 DEF StartTimer
  <2>2. session' \in [Session -> Opt(SessionRow)] /\ IsFiniteSet(Tracked)'
    BY <1>0, <2>1, GoalsAssumption, SessionAdded DEF Opt
  <2>3. QED
    BY <1>1, <2>2 DEF StartTimer, DataTyped
<1>2. CASE StopTimer
  <2>1. PICK s \in Tracked : session' = [session EXCEPT ![s].to = now]
    BY <1>2 DEF StopTimer
  <2>2. s \in Session /\ session[s] \in SessionRow /\ session[s] # None
    BY DEF DataTyped, Tracked, Opt
  <2>3. [session[s] EXCEPT !.to = now] \in SessionRow
    BY <1>0, <2>2 DEF SessionRow, Opt
  <2>4. session' = [session EXCEPT ![s] = [session[s] EXCEPT !.to = now]]
    BY <2>1
  <2>5. session' \in [Session -> Opt(SessionRow)]
    BY <2>2, <2>3, <2>4 DEF DataTyped, Opt
  <2>6. Tracked' \subseteq Tracked
    BY <2>2, <2>4 DEF DataTyped, Tracked
  <2>7. IsFiniteSet(Tracked')
    BY <2>6, FS_Subset DEF DataTyped
  <2>8. QED
    BY <1>2, <2>5, <2>7 DEF StopTimer, DataTyped
<1>3. CASE EnterSession
  <2>1. PICK u \in User, c \in Task, from \in Time, to \in Time : NewSession(u, c, from, to)
    BY <1>3 DEF EnterSession
  <2>2. from \in Nat /\ to \in Opt(Nat)
    BY BoundsAssumption DEF Time, Opt
  <2>3. session' \in [Session -> Opt(SessionRow)] /\ IsFiniteSet(Tracked)'
    BY <2>1, <2>2, SessionAdded
  <2>4. QED
    BY <1>3, <2>3 DEF EnterSession, DataTyped
<1>4. CASE RemoveSession
  <2>1. PICK s \in Mine : session' = [session EXCEPT ![s] = None]
    BY <1>4 DEF RemoveSession
  <2>2. session' \in [Session -> Opt(SessionRow)] /\ Tracked' \subseteq Tracked
    BY <2>1 DEF DataTyped, Tracked, Mine, Opt
  <2>3. IsFiniteSet(Tracked')
    BY <2>2, FS_Subset DEF DataTyped
  <2>4. QED
    BY <1>4, <2>2, <2>3 DEF RemoveSession, DataTyped
<1>5. CASE EditTask
  <2>1. task' \in [Task -> TaskRow]
    BY <1>5 DEF EditTask, DataTyped, TaskRow
  <2>2. QED
    BY <1>5, <2>1 DEF EditTask, DataTyped, Tracked
<1>6. CASE SetCalendar
  <2>1. cal' \in Calendar
    BY <1>0, <1>6, GoalsAssumption DEF SetCalendar, Calendar
  <2>2. QED
    BY <1>6, <2>1 DEF SetCalendar, DataTyped, Tracked
<1>7. CASE Tick
  <2>1. scene.until \in 0..Horizon /\ now < scene.until /\ now' = now + 1
    BY <1>0, <1>7, GoalsAssumption DEF Tick
  <2>2. now' \in 0..Horizon
    BY <1>0, <2>1, BoundsAssumption
  <2>3. QED
    BY <1>7, <2>2 DEF Tick, DataTyped, Tracked
<1>8. QED
  BY <1>1, <1>2, <1>3, <1>4, <1>5, <1>6, <1>7

LEMMA FollowStep ==
    ASSUME Typed, FollowInv, [Next]_vars
    PROVE  Typed' /\ FollowInv'
<1>1. ASSUME NEW t \in Thread, Request(t) /\ Overlaps(t)
      PROVE  Typed' /\ FollowInv'
  BY <1>1, RequestStep
<1>d. ASSUME NEW t \in Thread, Die(t)
      PROVE  Typed' /\ FollowInv'
  BY <1>d, DieFollows
<1>2. CASE Export
  BY <1>2, ExportFollows
<1>3. CASE StartTimer \/ StopTimer \/ EnterSession \/ RemoveSession \/ EditTask \/ SetCalendar \/ Tick
  <2>1. UNCHANGED <<goal, told, reqs, toast, file, raced, untold>>
    BY <1>3 DEF StartTimer, StopTimer, EnterSession, RemoveSession, EditTask, SetCalendar, Tick, Quiet
  <2>2. QED
    BY <1>3, <2>1, DataStep, QuietFollows DEF Typed
<1>4. CASE Asks \/ (\E k \in Check : Receive(k) \/ LoseAnswer(k)) \/ UNCHANGED vars
  <2>1. UNCHANGED <<goal, told, reqs, toast, file, raced, untold, session, task, cal, now, scene>>
    BY <1>4 DEF Asks, Receive, LoseAnswer, db, vars
  <2>2. DataTyped'
    BY <2>1 DEF Typed, DataTyped, Tracked
  <2>3. QED
    BY <2>1, <2>2, QuietFollows DEF Typed
<1>5. QED
  BY <1>1, <1>d, <1>2, <1>3, <1>4 DEF Next

LEMMA FollowInit ==
    ASSUME Init
    PROVE  Typed /\ FollowInv
<1>1. GoalsTyped
  BY DEF Init, GoalsTyped, Opt
<1>2. DataTyped
  <2>1. Tracked = {}
    BY DEF Init, Tracked
  <2>2. IsFiniteSet(Tracked)
    BY <2>1, FS_EmptySet
  <2>3. task \in [Task -> TaskRow]
    BY GoalsAssumption DEF Init, TaskRow
  <2>4. QED
    <3>1. now \in 0..Horizon
      BY BoundsAssumption DEF Init
    <3>2. cal \in Calendar /\ scene \in Scenes
      BY GoalsAssumption DEF Init, Calendar
    <3>3. session \in [Session -> Opt(SessionRow)]
      BY DEF Init, Opt
    <3>4. QED
      BY <2>2, <2>3, <3>1, <3>2, <3>3 DEF DataTyped
<1>3. FollowInv
  BY DEF Init, FollowInv, Owed
<1>4. QED
  BY <1>1, <1>2, <1>3 DEF Typed

LEMMA AlwaysFollows == Spec => [](Typed /\ FollowInv)
<1>1. Init => Typed /\ FollowInv
  BY FollowInit
<1>2. Typed /\ FollowInv /\ [Next]_vars => Typed' /\ FollowInv'
  BY FollowStep
<1>3. QED
  BY <1>1, <1>2, PTL DEF Spec

(* Whatever requests overlap, once none is in flight every device shows    *)
(* the goals there are, but for those that two requests were about at      *)
(* once, and those whose last request died before its event                *)
(* (DevicesFollow).                                                        *)
THEOREM DevicesAlwaysFollow == Spec => []DevicesFollow
<1>1. Typed /\ FollowInv => DevicesFollow
  BY DEF FollowInv, Owed, DevicesFollow
<1>2. QED
  BY <1>1, AlwaysFollows, PTL

(* In a calendar that has every day, however many checks of the device *)
(* overlap and in whatever order they are answered, the periods of a goal  *)
(* are reported in order and each at most once (ReportedOnce).             *)
THEOREM ReportsComeOnce == ASSUME EveryDay PROVE Spec => []ReportedOnce
<1>1. Init => ReportInv
  BY DEF Init, ReportInv, AnswersTyped, ReportedOnce, Opt
<1>2. Typed /\ ReportInv /\ [Next]_vars => ReportInv'
  BY AsksReports, ReceiveReports, OthersReport
<1>3. ReportInv => ReportedOnce
  BY DEF ReportInv
<1>4. QED
  BY <1>1, <1>2, <1>3, AlwaysFollows, PTL DEF Spec

-----------------------------------------------------------------------------
(* Elapsed periods.  A goal that is left as it was or archived ends no     *)
(* earlier than now, or where it ended; up to there nothing changes.       *)

LEMMA EarlierTyped ==
    ASSUME NEW a \in Int, NEW b \in Int
    PROVE  /\ Earlier(a, b) \in Int /\ Earlier(a, b) <= a /\ Earlier(a, b) <= b
           /\ Earlier(a, b) = a \/ Earlier(a, b) = b
           /\ Later(a, b) \in Int
  BY DEF Earlier, Later

LEMMA MinIs ==
    ASSUME NEW S \in SUBSET Int, NEW m \in S, \A x \in S : m <= x
    PROVE  Min(S) = m
<1>1. \A y \in S : (\A x \in S : y <= x) => y = m
  BY S \subseteq Int
<1>2. Min(S) \in S /\ \A x \in S : Min(S) <= x
  BY DEF Min
<1>3. QED
  BY <1>1, <1>2, Zenon

LEMMA GoalEndIs ==
    ASSUME NEW g \in GoalRow
    PROVE  /\ GoalEnd(g) \in Int
           /\ g.archived = None =>
                 \A at \in Nat : at < Forever => GoalEnd([g EXCEPT !.archived = at]) = Earlier(GoalEnd(g), at)
<1>0. /\ g.ends \in Nat \cup {None} /\ g.archived \in Nat \cup {None} /\ None \notin Int /\ Forever \in Nat
      /\ DOMAIN g = {"period", "direction", "target", "scope", "ends", "created", "archived"}
  BY NoneAssumption, WindowsAssumption DEF GoalRow
<1> DEFINE Limits(e, a) == ({e, a} \ {None}) \cup {Forever}
<1>1. \A e, a \in Nat \cup {None} : Min(Limits(e, a)) \in Nat /\ \A x \in Limits(e, a) : Min(Limits(e, a)) <= x
  <2> SUFFICES ASSUME NEW e \in Nat \cup {None}, NEW a \in Nat \cup {None}
               PROVE  Min(Limits(e, a)) \in Nat /\ \A x \in Limits(e, a) : Min(Limits(e, a)) <= x
    OBVIOUS
  <2>1. Limits(e, a) \subseteq Nat
    BY <1>0
  <2>2. \E m \in Limits(e, a) : \A x \in Limits(e, a) : m <= x
    <3> DEFINE u == IF e = None THEN Forever ELSE Earlier(e, Forever)
               m == IF a = None THEN u ELSE Earlier(a, u)
    <3>1. m \in Limits(e, a) /\ \A x \in Limits(e, a) : m <= x
      BY <1>0 DEF Earlier
    <3> HIDE DEF m, Limits
    <3>2. QED
      BY <3>1
  <2> HIDE DEF Limits
  <2>3. QED
    BY <2>1, <2>2 DEF Min
<1>2. GoalEnd(g) = Min(Limits(g.ends, g.archived))
  BY DEF GoalEnd
<1>3. GoalEnd(g) \in Int
  <2> HIDE DEF Limits
  <2>1. PICK m \in Nat : m = Min(Limits(g.ends, g.archived))
    BY <1>0, <1>1
  <2>2. QED
    BY <1>2, <2>1
<1>4. ASSUME g.archived = None, NEW at \in Nat, at < Forever
      PROVE  GoalEnd([g EXCEPT !.archived = at]) = Earlier(GoalEnd(g), at)
  <2>1. GoalEnd([g EXCEPT !.archived = at]) = Min(Limits(g.ends, at))
    BY <1>0 DEF GoalEnd
  <2>2. Limits(g.ends, at) = Limits(g.ends, None) \cup {at}
    BY <1>0
  <2> HIDE DEF Limits
  <2>3. PICK m \in Nat : m = Min(Limits(g.ends, None)) /\ \A x \in Limits(g.ends, None) : m <= x
    BY <1>0, <1>1
  <2>4. m \in Limits(g.ends, None)
    <3>1. Limits(g.ends, None) \subseteq Nat /\ Forever \in Limits(g.ends, None)
      BY <1>0 DEF Limits
    <3>2. \E x \in Limits(g.ends, None) : \A y \in Limits(g.ends, None) : x <= y
      <4>1. g.ends = None => Limits(g.ends, None) = {Forever}
        BY DEF Limits
      <4>2. g.ends # None => Limits(g.ends, None) = {g.ends, Forever}
        BY DEF Limits
      <4>3. QED
        BY <1>0, <4>1, <4>2
    <3>3. QED
      BY <2>3, <3>2 DEF Min
  <2>5. Min(Limits(g.ends, at)) = Earlier(m, at)
    <3>1. Limits(g.ends, at) \in SUBSET Int
      BY <1>0 DEF Limits
    <3>2. Earlier(m, at) \in Limits(g.ends, at) /\ \A x \in Limits(g.ends, at) : Earlier(m, at) <= x
      <4>1. Limits(g.ends, None) \subseteq Int
        BY <1>0 DEF Limits
      <4>2. QED
        BY <2>2, <2>3, <2>4, <4>1 DEF Earlier
    <3>3. QED
      BY <3>1, <3>2, MinIs
  <2>6. QED
    BY <1>2, <1>4, <2>1, <2>3, <2>5
<1>5. QED
  BY <1>3, <1>4

(* The same goal later, or archived since.                                 *)
Goes(g, h, at) == h = g \/ (g.archived = None /\ h = [g EXCEPT !.archived = at])

LEMMA EndStays ==
    ASSUME NEW g \in GoalRow, NEW h, NEW at \in Nat, at < Forever, Goes(g, h, at)
    PROVE  /\ h \in GoalRow /\ h.period = g.period /\ h.created = g.created /\ h.target = g.target /\ h.scope = g.scope
           /\ GoalEnd(g) \in Int /\ GoalEnd(h) \in Int
           /\ GoalEnd(h) = GoalEnd(g) \/ GoalEnd(h) = Earlier(GoalEnd(g), at)
<1>1. CASE h = g
  BY <1>1, GoalEndIs
<1>2. CASE g.archived = None /\ h = [g EXCEPT !.archived = at]
  <2>1. h \in GoalRow /\ h.period = g.period /\ h.created = g.created /\ h.target = g.target /\ h.scope = g.scope
    BY <1>2 DEF GoalRow
  <2>2. GoalEnd(h) = Earlier(GoalEnd(g), at)
    BY <1>2, GoalEndIs
  <2>3. QED
    BY <2>1, <2>2, GoalEndIs
<1>3. QED
  BY <1>1, <1>2 DEF Goes

LEMMA ClipsStay ==
    ASSUME NEW g \in GoalRow, NEW h, NEW at \in Nat, NEW then \in Nat, at <= then, at < Forever, Goes(g, h, at),
           NEW w \in Bound, Elapsed(g, w, at)
    PROVE  /\ Earlier(w.end, GoalHorizon(h, then)) = Earlier(w.end, GoalHorizon(g, at))
           /\ Earlier(w.end, GoalHorizon(g, at)) \in Int /\ Earlier(w.end, GoalHorizon(g, at)) <= at
           /\ Window(h, w, then) = Window(g, w, at)
<1>1. w.start \in Int /\ w.end \in Int
  BY DEF Bound
<1>2. /\ h.created = g.created /\ h.target = g.target /\ GoalEnd(g) \in Int /\ GoalEnd(h) \in Int
      /\ GoalEnd(h) = GoalEnd(g) \/ GoalEnd(h) = Earlier(GoalEnd(g), at)
  BY EndStays
<1>3. Earlier(w.end, GoalEnd(g)) <= at
  BY DEF Elapsed
<1>4. /\ Earlier(w.end, GoalHorizon(h, then)) = Earlier(w.end, GoalHorizon(g, at))
      /\ Earlier(w.end, GoalHorizon(g, at)) \in Int /\ Earlier(w.end, GoalHorizon(g, at)) <= at
  BY <1>1, <1>2, <1>3 DEF Earlier, GoalHorizon
<1>5. Elapsed(h, w, then) = Elapsed(g, w, at)
  BY <1>1, <1>2, <1>3 DEF Earlier, Elapsed
<1>6. Earlier(GoalEnd(h), w.end) = Earlier(GoalEnd(g), w.end)
  BY <1>1, <1>2, <1>3 DEF Earlier
<1>7. ProRated(h, w) = ProRated(g, w)
  BY <1>2, <1>6 DEF ProRated
<1>8. Elapsed(g, w, at) = TRUE /\ Elapsed(h, w, then) = TRUE
  BY <1>5 DEF Elapsed
<1>9. QED
  BY <1>4, <1>7, <1>8 DEF Window

(* No period of the first is missing later.                                *)
LEMMA WindowsStay ==
    ASSUME EveryDay, NEW g \in GoalRow, NEW h, NEW at \in Nat, NEW then \in Nat, at <= then, at < Forever,
           Goes(g, h, at), NEW c \in Calendar,
           NEW n \in DOMAIN GoalWindows(g, c, at), GoalWindows(g, c, at)[n].elapsed
    PROVE  /\ n \in DOMAIN GoalWindows(h, c, then)
           /\ GoalWindows(h, c, then)[n] = GoalWindows(g, c, at)[n]
           /\ \E w \in Bound : GoalWindows(g, c, at)[n] = Window(g, w, at) /\ Elapsed(g, w, at)
<1>0. PICK b : b = Bounds(g.period, g.created, c)
  OBVIOUS
<1>1. /\ h \in GoalRow /\ h.period = g.period /\ h.created = g.created /\ GoalEnd(g) \in Int /\ GoalEnd(h) \in Int
      /\ GoalEnd(h) = GoalEnd(g) \/ GoalEnd(h) = Earlier(GoalEnd(g), at)
  BY EndStays
<1>2. GoalHorizon(g, at) \in Int /\ GoalHorizon(h, then) \in Int /\ GoalHorizon(g, at) <= GoalHorizon(h, then)
  BY <1>1 DEF GoalHorizon, Earlier
<1>3. \A k \in 1..MaxWindows : b[k] \in Bound /\ b[k].start \in Int
  <2>1. g.period \in Period /\ g.created \in Int
    BY DEF GoalRow, Period
  <2>2. \A k \in 1..MaxWindows : b[k] \in Bound
    BY <1>0, <2>1, BoundsTyped
  <2>3. QED
    BY <2>2 DEF Bound
<1>4. ~(GoalHorizon(g, at) <= g.created)
  <2>1. GoalHorizon(g, at) <= g.created => DOMAIN GoalWindows(g, c, at) = {}
    BY WindowsAre
  <2>2. QED
    BY <2>1
<1>5. GoalWindows(g, c, at) = [k \in 1..Cardinality(Open(g, b, at)) |-> Window(g, b[k], at)]
  BY <1>0, <1>4, WindowsAre
<1>6. GoalWindows(h, c, then) = [k \in 1..Cardinality(Open(h, b, then)) |-> Window(h, b[k], then)]
  <2>1. g.created \in Int
    BY DEF GoalRow
  <2>2. ~(GoalHorizon(h, then) <= h.created)
    BY <1>1, <1>2, <1>4, <2>1
  <2>3. QED
    BY <1>0, <1>1, <2>2, WindowsAre
<1>7. /\ Cardinality(Open(g, b, at)) \in 0..MaxWindows /\ Cardinality(Open(h, b, then)) \in 0..MaxWindows
      /\ Cardinality(Open(g, b, at)) <= Cardinality(Open(h, b, then))
  <2>1. Open(g, b, at) \subseteq Open(h, b, then)
    BY <1>2, <1>3 DEF Open
  <2>2. IsFiniteSet(Open(h, b, then))
    <3>1. IsFiniteSet(1..MaxWindows)
      BY WindowsAssumption, FS_Interval
    <3>2. Open(h, b, then) \subseteq 1..MaxWindows
      BY DEF Open
    <3>3. QED
      BY <3>1, <3>2, FS_Subset
  <2>3. Cardinality(Open(g, b, at)) <= Cardinality(Open(h, b, then))
    BY <2>1, <2>2, FS_Subset
  <2>4. QED
    BY <2>3, OpenIsFinite
<1>8. n \in 1..Cardinality(Open(g, b, at)) /\ n \in 1..Cardinality(Open(h, b, then)) /\ n \in 1..MaxWindows
  BY <1>5, <1>7, WindowsAssumption
<1>9. GoalWindows(g, c, at)[n] = Window(g, b[n], at) /\ GoalWindows(h, c, then)[n] = Window(h, b[n], then)
  BY <1>5, <1>6, <1>8
<1>10. Elapsed(g, b[n], at)
  <2>1. Window(g, b[n], at).elapsed = Elapsed(g, b[n], at)
    BY DEF Window
  <2>2. QED
    BY <1>9, <2>1
<1>11. Window(h, b[n], then) = Window(g, b[n], at)
  BY <1>3, <1>8, <1>10, ClipsStay
<1>12. QED
  BY <1>3, <1>6, <1>8, <1>9, <1>10, <1>11

(* The tracked time in a scope between two instants.                       *)
SpanRow == [task : Task, project : Project, from : Nat, to : Opt(Nat)]

SpansTyped(spans) ==
    /\ IsFiniteSet(DOMAIN spans)
    /\ \A s \in DOMAIN spans : spans[s] \in SpanRow

InScopeOf(spans, scope) == {s \in DOMAIN spans : InScope(spans[s], scope)}

TimeOf(spans, scope, from, to, at) ==
    SumFunction([s \in InScopeOf(spans, scope) |-> Overlap(spans[s].from, EndOf(spans[s], at), from, to)])

(* What may happen to spans at `at`: one begins, or an open one ends.      *)
Moves(spans, later, at) ==
    /\ \A s \in DOMAIN spans :
          /\ s \in DOMAIN later
          /\ later[s].task = spans[s].task /\ later[s].project = spans[s].project /\ later[s].from = spans[s].from
          /\ later[s].to = spans[s].to \/ (spans[s].to = None /\ later[s].to \in Nat /\ later[s].to >= at)
    /\ \/ DOMAIN later = DOMAIN spans
       \/ \E s \in DOMAIN later \ DOMAIN spans :
             DOMAIN later = DOMAIN spans \cup {s} /\ later[s].from >= at

LEMMA OverlapStays ==
    ASSUME NEW r \in SpanRow, NEW q \in SpanRow, NEW at \in Nat, NEW then \in Nat, at <= then,
           NEW from \in Int, NEW to \in Int, to <= at, q.from = r.from,
           q.to = r.to \/ (r.to = None /\ q.to \in Nat /\ q.to >= at)
    PROVE  /\ Overlap(q.from, EndOf(q, then), from, to) = Overlap(r.from, EndOf(r, at), from, to)
           /\ Overlap(r.from, EndOf(r, at), from, to) \in Int
<1>1. r.from \in Int /\ EndOf(r, at) \in Int /\ EndOf(q, then) \in Int
  BY NoneAssumption DEF SpanRow, EndOf, Opt
<1>2. EndOf(q, then) = EndOf(r, at) \/ (EndOf(q, then) >= at /\ EndOf(r, at) >= at)
  BY NoneAssumption DEF SpanRow, EndOf, Opt
<1>3. Earlier(EndOf(q, then), to) = Earlier(EndOf(r, at), to)
  BY <1>1, <1>2 DEF Earlier
<1>4. Earlier(EndOf(r, at), to) \in Int /\ Later(r.from, from) \in Int
  BY <1>1, EarlierTyped
<1>5. QED
  BY <1>3, <1>4 DEF Overlap, Later

LEMMA OverlapAhead ==
    ASSUME NEW q \in SpanRow, NEW then \in Nat, NEW from \in Int, NEW to \in Int, to <= q.from
    PROVE  Overlap(q.from, EndOf(q, then), from, to) = 0
<1>1. q.from \in Int /\ EndOf(q, then) \in Int
  BY NoneAssumption DEF SpanRow, EndOf, Opt
<1>2. QED
  BY <1>1 DEF Overlap, Later, Earlier

LEMMA TimeStays ==
    ASSUME NEW spans, NEW later, NEW scope, NEW at \in Nat, NEW then \in Nat, at <= then,
           SpansTyped(spans), SpansTyped(later), Moves(spans, later, at),
           NEW from \in Int, NEW to \in Int, to <= at
    PROVE  TimeOf(later, scope, from, to, then) = TimeOf(spans, scope, from, to, at)
<1> DEFINE M == InScopeOf(spans, scope)
           L == InScopeOf(later, scope)
           f == [s \in M |-> Overlap(spans[s].from, EndOf(spans[s], at), from, to)]
           h == [s \in L |-> Overlap(later[s].from, EndOf(later[s], then), from, to)]
<1>1. \A s \in DOMAIN spans : s \in M <=> s \in L
  BY DEF Moves, InScope, InScopeOf
<1>2. M \subseteq DOMAIN spans /\ L \subseteq DOMAIN later /\ M \subseteq L
  BY <1>1 DEF InScopeOf
<1>3. \A s \in M : f[s] = Overlap(spans[s].from, EndOf(spans[s], at), from, to)
  OBVIOUS
<1>4. \A s \in L : h[s] = Overlap(later[s].from, EndOf(later[s], then), from, to)
  OBVIOUS
<1>5. f = [s \in M |-> f[s]] /\ h = [s \in L |-> h[s]]
  OBVIOUS
<1>6. TimeOf(spans, scope, from, to, at) = SumFunction(f) /\ TimeOf(later, scope, from, to, then) = SumFunction(h)
  BY DEF TimeOf
<1> HIDE DEF M, L, f, h
<1>7. \A s \in M : h[s] = f[s] /\ f[s] \in Int
  <2>1. ASSUME NEW s \in M
        PROVE  h[s] = f[s] /\ f[s] \in Int
    <3>1. /\ spans[s] \in SpanRow /\ later[s] \in SpanRow /\ later[s].from = spans[s].from /\ s \in L
          /\ later[s].to = spans[s].to \/ (spans[s].to = None /\ later[s].to \in Nat /\ later[s].to >= at)
      BY <1>2 DEF SpansTyped, Moves
    <3>2. /\ Overlap(later[s].from, EndOf(later[s], then), from, to) = Overlap(spans[s].from, EndOf(spans[s], at), from, to)
          /\ Overlap(spans[s].from, EndOf(spans[s], at), from, to) \in Int
      <4>1. PICK r \in SpanRow, q \in SpanRow : r = spans[s] /\ q = later[s]
        BY <3>1
      <4>2. q.from = r.from /\ (q.to = r.to \/ (r.to = None /\ q.to \in Nat /\ q.to >= at))
        BY <3>1, <4>1
      <4>3. /\ Overlap(q.from, EndOf(q, then), from, to) = Overlap(r.from, EndOf(r, at), from, to)
            /\ Overlap(r.from, EndOf(r, at), from, to) \in Int
        BY <4>2, OverlapStays
      <4>4. QED
        BY <4>1, <4>3
    <3>3. QED
      BY <1>3, <1>4, <3>1, <3>2
  <2>2. QED
    BY <2>1
<1>8. CASE L = M
  <2>1. h = f
    BY <1>5, <1>7, <1>8
  <2>2. QED
    BY <1>6, <2>1
<1>9. CASE L # M
  <2>1. PICK i \in DOMAIN later \ DOMAIN spans : DOMAIN later = DOMAIN spans \cup {i} /\ later[i].from >= at
    BY <1>1, <1>2, <1>9 DEF Moves
  <2>2. i \in L /\ L \ {i} = M
    BY <1>1, <1>2, <1>9, <2>1
  <2>3. later[i] \in SpanRow /\ later[i].from \in Int
    BY <2>1 DEF SpansTyped, SpanRow
  <2>4. h[i] = 0
    <3>1. to <= later[i].from
      BY <2>1, <2>3
    <3>2. QED
      BY <1>4, <2>2, <2>3, <3>1, OverlapAhead
  <2>5. IsFiniteSet(L)
    BY <1>2, FS_Subset DEF SpansTyped
  <2>6. h \in [L -> Int]
    <3>1. ASSUME NEW s \in L
          PROVE  h[s] \in Int
      <4>1. s = i \/ s \in M
        BY <2>2
      <4>2. QED
        BY <1>7, <2>4, <4>1
    <3>2. QED
      BY <1>5, <3>1
  <2>7. SumFunction(h) = h[i] + SumFunction([j \in L \ {i} |-> h[j]])
    BY <2>2, <2>5, <2>6, SumWithout, ZenonT(40)
  <2>8. [j \in L \ {i} |-> h[j]] = f
    BY <1>5, <1>7, <2>2
  <2>9. SumFunction(f) \in Int
    <3>1. IsFiniteSet(M) /\ f \in [M -> Int]
      BY <1>2, <1>5, <1>7, <2>5, FS_Subset
    <3>2. QED
      BY <3>1, SumTyped
  <2>10. QED
    BY <1>6, <2>4, <2>7, <2>8, <2>9
<1>10. QED
  BY <1>8, <1>9

Figures(w, actual) ==
    [start |-> w.start, end |-> w.end, target |-> w.target, elapsed |-> w.elapsed, current |-> w.current,
     actual |-> actual]

LEMMA WindowTimeIs ==
    \A g, data, w, at :
        WindowTime(g, data, w, at) =
            TimeOf(data.spans, g.scope, Later(w.start, g.created), Earlier(w.end, GoalHorizon(g, at)), at)
  BY DEF WindowTime, TimeOf, InScopeOf, Sum

LEMMA ProgressIs ==
    \A g, data, at, v : v = GoalWindows(g, data.cal, at) =>
        /\ DOMAIN Progress(g, data, at) = DOMAIN v
        /\ \A n \in DOMAIN v :
              Progress(g, data, at)[n] =
                 Figures(v[n], Minutes(TimeOf(data.spans, g.scope, Later(v[n].start, g.created),
                                              Earlier(v[n].end, GoalHorizon(g, at)), at)))
  BY WindowTimeIs DEF Progress, Figures

LEMMA ProgressStays ==
    ASSUME EveryDay, NEW g \in GoalRow, NEW h, NEW at \in Nat, NEW then \in Nat, at <= then, at < Forever,
           Goes(g, h, at), NEW data, NEW new, data.cal \in Calendar, new.cal = data.cal,
           SpansTyped(data.spans), SpansTyped(new.spans), Moves(data.spans, new.spans, at),
           NEW n \in DOMAIN Progress(g, data, at), Progress(g, data, at)[n].elapsed
    PROVE  n \in DOMAIN Progress(h, new, then) /\ Progress(h, new, then)[n] = Progress(g, data, at)[n]
<1>1. PICK v, x, c : v = GoalWindows(g, data.cal, at) /\ x = GoalWindows(h, data.cal, then) /\ c = data.cal
  OBVIOUS
<1>2. n \in DOMAIN v /\ v[n].elapsed
  <2>1. \A y, actual : Figures(y, actual).elapsed = y.elapsed
    BY DEF Figures
  <2>2. n \in DOMAIN v
    BY <1>1, ProgressIs
  <2>3. \E actual : Progress(g, data, at)[n] = Figures(v[n], actual)
    BY <1>1, <2>2, ProgressIs
  <2>4. QED
    BY <2>1, <2>2, <2>3
<1>3. n \in DOMAIN x /\ x[n] = v[n] /\ \E w \in Bound : v[n] = Window(g, w, at) /\ Elapsed(g, w, at)
  <2>1. GoalWindows(g, c, at)[n].elapsed /\ n \in DOMAIN GoalWindows(g, c, at) /\ c \in Calendar
    BY <1>1, <1>2
  <2>2. /\ n \in DOMAIN GoalWindows(h, c, then)
        /\ GoalWindows(h, c, then)[n] = GoalWindows(g, c, at)[n]
        /\ \E w \in Bound : GoalWindows(g, c, at)[n] = Window(g, w, at) /\ Elapsed(g, w, at)
    BY <2>1, WindowsStay
  <2>3. QED
    BY <1>1, <2>2
<1>4. PICK w \in Bound : v[n] = Window(g, w, at) /\ Elapsed(g, w, at)
  BY <1>3
<1>5. v[n].start = w.start /\ v[n].end = w.end
  BY <1>4 DEF Window
<1>6. h.created = g.created /\ h.scope = g.scope /\ g.created \in Int
  BY EndStays DEF GoalRow
<1>7. PICK from, to : from = Later(w.start, g.created) /\ to = Earlier(w.end, GoalHorizon(g, at))
  OBVIOUS
<1>8. to = Earlier(w.end, GoalHorizon(h, then)) /\ from \in Int /\ to \in Int /\ to <= at
  <2>1. w.start \in Int
    BY DEF Bound
  <2>2. from \in Int
    BY <1>6, <1>7, <2>1, EarlierTyped
  <2>3. to = Earlier(w.end, GoalHorizon(h, then)) /\ to \in Int /\ to <= at
    BY <1>4, <1>7, ClipsStay
  <2>4. QED
    BY <2>2, <2>3
<1>9. TimeOf(new.spans, g.scope, from, to, then) = TimeOf(data.spans, g.scope, from, to, at)
  BY <1>8, TimeStays
<1>10. Progress(g, data, at)[n] = Figures(v[n], Minutes(TimeOf(data.spans, g.scope, from, to, at)))
  BY <1>1, <1>2, <1>5, <1>7, ProgressIs
<1>11. Progress(h, new, then)[n] = Figures(v[n], Minutes(TimeOf(new.spans, g.scope, from, to, then)))
  <2>1. x = GoalWindows(h, new.cal, then)
    BY <1>1
  <2>2. Progress(h, new, then)[n] =
           Figures(x[n], Minutes(TimeOf(new.spans, h.scope, Later(x[n].start, h.created),
                                        Earlier(x[n].end, GoalHorizon(h, then)), then)))
    BY <1>3, <2>1, ProgressIs
  <2>3. QED
    BY <1>3, <1>5, <1>6, <1>7, <1>8, <2>2
<1>12. n \in DOMAIN Progress(h, new, then)
  BY <1>1, <1>3, ProgressIs
<1>13. QED
  BY <1>9, <1>10, <1>11, <1>12

-----------------------------------------------------------------------------
(* What a step does to the user's sessions.                                *)

LEMMA SpanOf ==
    ASSUME Typed, NEW s \in Mine
    PROVE  /\ session[s] \in SessionRow /\ task[session[s].task].project \in Project
           /\ Data.spans[s] = [task |-> session[s].task, project |-> task[session[s].task].project,
                               from |-> session[s].from, to |-> session[s].to]
           /\ Data.spans[s] \in SpanRow
<1>1. session[s] \in SessionRow /\ s \in Mine
  BY DEF Mine, Tracked, Typed, DataTyped, Opt
<1>2. session[s].task \in Task /\ session[s].from \in Nat /\ session[s].to \in Opt(Nat)
  BY <1>1 DEF SessionRow, Opt
<1>3. task[session[s].task].project \in Project
  BY <1>2 DEF Typed, DataTyped, TaskRow
<1>4. Data.spans[s] = [task |-> session[s].task, project |-> task[session[s].task].project,
                       from |-> session[s].from, to |-> session[s].to]
  BY <1>1 DEF Data
<1>5. QED
  BY <1>1, <1>2, <1>3, <1>4 DEF SpanRow

LEMMA DataIs == DOMAIN Data.spans = Mine /\ Data.cal = cal
  BY DEF Data

LEMMA DataSpans ==
    ASSUME Typed
    PROVE  SpansTyped(Data.spans) /\ Data.cal \in Calendar
<1>1. IsFiniteSet(Mine)
  <2>1. Mine \subseteq Tracked
    BY DEF Mine
  <2>2. QED
    BY <2>1, FS_Subset DEF Typed, DataTyped
<1>2. QED
  BY <1>1, DataIs, SpanOf DEF SpansTyped, Typed, DataTyped

(* One session begins now, or an open one ends now, or none changes.       *)
SessionMoves ==
    \/ session' = session
    \/ \E s \in Session, c \in Task :
          session[s] = None /\ session' = [session EXCEPT ![s] = [by |-> Me, task |-> c, from |-> now, to |-> None]]
    \/ \E s \in Tracked : session[s].to = None /\ session' = [session EXCEPT ![s].to = now]

LEMMA SessionsMove ==
    ASSUME Typed, [Next]_vars, NEW g \in Goal, LeavesAlone(g)
    PROVE  SessionMoves /\ now' \in Nat /\ now <= now'
<1>0. /\ now \in Nat /\ session = [s \in Session |-> session[s]]
      /\ \A s \in Session : session'[s] # session[s] =>
            \/ session[s] = None /\ session'[s].to = None
            \/ session[s] # None /\ session[s].to = None
  BY BoundsAssumption DEF LeavesAlone, Typed, DataTyped
<1>1. ASSUME NEW t \in Thread, Request(t) \/ Die(t)
      PROVE  session' = session /\ now' = now
  BY <1>1 DEF Request, PostGoal, UndoDelete, InsertGoal, PatchGoal, UpdateGoal, ReadGoalBack, TellGoal,
         DeleteGoal, CommitDelete, Import, ImportGoals, TellAll, Die, Starts, Writes, Tell, db
<1>2. CASE Export \/ EditTask \/ SetCalendar \/ Asks \/ (\E k \in Check : Receive(k) \/ LoseAnswer(k)) \/ UNCHANGED vars
  <2>1. session' = session /\ now' = now
    BY <1>2 DEF Export, EditTask, SetCalendar, Asks, Receive, LoseAnswer, db, vars
  <2>2. QED
    BY <1>0, <2>1 DEF SessionMoves
<1>3. CASE Tick
  <2>1. session' = session /\ now' = now + 1
    BY <1>3 DEF Tick
  <2>2. QED
    BY <1>0, <2>1 DEF SessionMoves
<1>4. CASE StartTimer
  <2>1. now' = now
    BY <1>4 DEF StartTimer
  <2>2. PICK c \in Task : NewSession(Me, c, now, None)
    BY <1>4 DEF StartTimer
  <2>3. SessionMoves
    BY <2>2 DEF NewSession, SessionMoves
  <2>4. QED
    BY <1>0, <2>1, <2>3
<1>5. CASE StopTimer
  <2>1. now' = now
    BY <1>5 DEF StopTimer
  <2>2. SessionMoves
    BY <1>5 DEF StopTimer, SessionMoves
  <2>3. QED
    BY <1>0, <2>1, <2>2
<1>6. CASE EnterSession
  <2>1. now' = now
    BY <1>6 DEF EnterSession
  <2>2. PICK u \in User, c \in Task, from \in Time, to \in Time : NewSession(u, c, from, to)
    BY <1>6 DEF EnterSession
  <2>3. PICK s \in Session : session[s] = None /\ session' = [session EXCEPT ![s] = [by |-> u, task |-> c, from |-> from, to |-> to]]
    BY <2>2 DEF NewSession
  <2>4. to # None
    BY NoneAssumption DEF Time
  <2>5. session'[s] = [by |-> u, task |-> c, from |-> from, to |-> to]
    BY <1>0, <2>3
  <2>6. session'[s] = session[s]
    BY <1>0, <2>3, <2>4, <2>5
  <2>7. session' = session
    BY <1>0, <2>3, <2>6
  <2>8. QED
    BY <1>0, <2>1, <2>7 DEF SessionMoves
<1>7. CASE RemoveSession
  <2>1. now' = now
    BY <1>7 DEF RemoveSession
  <2>2. PICK s \in Mine : session[s].to # None /\ session' = [session EXCEPT ![s] = None]
    BY <1>7 DEF RemoveSession
  <2>3. s \in Session /\ session[s] # None /\ session'[s] = None
    BY <1>0, <2>2 DEF Mine, Tracked
  <2>4. QED
    BY <1>0, <2>2, <2>3
<1>8. CASE \E t \in Thread : (Request(t) /\ Overlaps(t)) \/ Die(t)
  <2>1. session' = session /\ now' = now
    BY <1>1, <1>8
  <2>2. QED
    BY <1>0, <2>1 DEF SessionMoves
<1>9. QED
  BY <1>2, <1>3, <1>4, <1>5, <1>6, <1>7, <1>8 DEF Next

LEMMA SpansMove ==
    ASSUME Typed, Typed', [Next]_vars, NEW g \in Goal, LeavesAlone(g)
    PROVE  Moves(Data.spans, Data'.spans, now)
<1>0. /\ now \in Nat /\ session = [s \in Session |-> session[s]] /\ SessionMoves
      /\ \A c \in Task : task'[c].project = task[c].project
  BY BoundsAssumption, SessionsMove DEF LeavesAlone, Typed, DataTyped
<1>1. PICK S, T, d, e : S = Mine /\ T = Mine' /\ d = Data.spans /\ e = Data'.spans
  OBVIOUS
<1>2. \A s \in S : /\ s \in Session /\ session[s] \in SessionRow
                   /\ d[s] = [task |-> session[s].task, project |-> task[session[s].task].project,
                              from |-> session[s].from, to |-> session[s].to]
  BY <1>1, SpanOf DEF Mine, Tracked
<1>3. \A s \in T : e[s] = [task |-> session'[s].task, project |-> task'[session'[s].task].project,
                           from |-> session'[s].from, to |-> session'[s].to]
  BY <1>1 DEF Data
<1>4. DOMAIN d = S /\ DOMAIN e = T
  BY <1>1 DEF Data
<1>5. S = {s \in Session : session[s] # None /\ session[s].by = Me}
  BY <1>1 DEF Mine, Tracked
<1>6. T = {s \in Session : session'[s] # None /\ session'[s].by = Me}
  BY <1>1 DEF Mine, Tracked
<1>7. SUFFICES Moves(d, e, now)
  BY <1>1
<1>8. \A s \in S : s \in T /\ session'[s] = session[s] =>
          /\ e[s].task = d[s].task /\ e[s].project = d[s].project /\ e[s].from = d[s].from /\ e[s].to = d[s].to
  <2>1. ASSUME NEW s \in S, s \in T, session'[s] = session[s]
        PROVE  e[s].task = d[s].task /\ e[s].project = d[s].project /\ e[s].from = d[s].from /\ e[s].to = d[s].to
    <3>1. PICK row, c : row = session[s] /\ c = row.task /\ row \in SessionRow /\ c \in Task
      BY <1>2 DEF SessionRow
    <3>2. d[s] = [task |-> row.task, project |-> task[c].project, from |-> row.from, to |-> row.to]
      BY <1>2, <3>1
    <3>3. e[s] = [task |-> row.task, project |-> task'[c].project, from |-> row.from, to |-> row.to]
      BY <1>3, <2>1, <3>1
    <3>4. task'[c].project = task[c].project
      BY <1>0, <3>1
    <3>5. QED
      BY <3>2, <3>3, <3>4
  <2>2. QED
    BY <2>1
<1>9. CASE session' = session
  <2>1. S = T
    BY <1>5, <1>6, <1>9
  <2>2. QED
    BY <1>4, <1>8, <1>9, <2>1 DEF Moves
<1>10. ASSUME NEW i \in Session, NEW c \in Task, session[i] = None,
              session' = [session EXCEPT ![i] = [by |-> Me, task |-> c, from |-> now, to |-> None]]
       PROVE  Moves(d, e, now)
  <2>1. session'[i] = [by |-> Me, task |-> c, from |-> now, to |-> None] /\ \A s \in Session : s # i => session'[s] = session[s]
    BY <1>0, <1>10
  <2>2. CASE session'[i] = None
    <3>1. session' = session
      BY <1>0, <1>10, <2>1, <2>2
    <3>2. QED
      BY <1>9, <3>1
  <2>3. CASE session'[i] # None
    <3>5. session'[i].by = Me
      BY <2>1
    <3>6. i \in T /\ i \notin S
      BY <1>5, <1>6, <1>10, <2>3, <3>5
    <3>7. \A s \in Session : s # i => (s \in T <=> s \in S)
      BY <1>5, <1>6, <2>1
    <3>8. S \subseteq Session /\ T \subseteq Session
      BY <1>5, <1>6
    <3>1. T = S \cup {i} /\ i \notin S
      BY <3>6, <3>7, <3>8
    <3>2. e[i].from = now
      <4>1. PICK row, p : row = session'[i] /\ p = task'[row.task].project
        OBVIOUS
      <4>2. e[i] = [task |-> row.task, project |-> p, from |-> row.from, to |-> row.to]
        BY <1>3, <3>6, <4>1
      <4>3. row.from = now
        BY <2>1, <4>1
      <4>4. QED
        BY <4>2, <4>3
    <3>3. \A s \in S : s \in T /\ session'[s] = session[s]
      BY <1>2, <2>1, <3>1
    <3>4. QED
      BY <1>0, <1>4, <1>8, <3>1, <3>2, <3>3 DEF Moves
  <2>4. QED
    BY <2>2, <2>3
<1>11. ASSUME NEW i \in Tracked, session[i].to = None, session' = [session EXCEPT ![i].to = now]
       PROVE  Moves(d, e, now)
  <2>1. i \in Session /\ session[i] # None /\ session[i] \in SessionRow
    BY DEF Tracked, Typed, DataTyped, Opt
  <2>2. session'[i] = [session[i] EXCEPT !.to = now] /\ \A s \in Session : s # i => session'[s] = session[s]
    BY <1>0, <1>11, <2>1
  <2>3. /\ session'[i] \in SessionRow /\ session'[i].by = session[i].by /\ session'[i].task = session[i].task
        /\ session'[i].from = session[i].from /\ session'[i].to = now
    BY <1>0, <2>1, <2>2 DEF SessionRow
  <2>4. session'[i] # None
    BY <2>3, NoneAssumption
  <2>5. S = T
    <3>1. i \in S <=> i \in T
      BY <1>5, <1>6, <2>1, <2>3, <2>4
    <3>2. \A s \in Session : s # i => (s \in S <=> s \in T)
      BY <1>5, <1>6, <2>2
    <3>3. S \subseteq Session /\ T \subseteq Session
      BY <1>5, <1>6
    <3>4. QED
      BY <3>1, <3>2, <3>3
  <2>6. i \in S => /\ e[i].task = d[i].task /\ e[i].project = d[i].project /\ e[i].from = d[i].from
                   /\ d[i].to = None /\ e[i].to = now
    <3> HAVE i \in S
    <3>1. PICK row, next, c : row = session[i] /\ next = session'[i] /\ c = row.task /\ c \in Task
      BY <2>1 DEF SessionRow
    <3>2. d[i] = [task |-> row.task, project |-> task[c].project, from |-> row.from, to |-> row.to] /\ row.to = None
      BY <1>2, <1>11, <3>1
    <3>3. next.task = c /\ next.from = row.from /\ next.to = now
      BY <2>3, <3>1
    <3>4. e[i] = [task |-> next.task, project |-> task'[next.task].project, from |-> next.from, to |-> next.to]
      BY <1>3, <2>5, <3>1
    <3>5. task'[c].project = task[c].project
      BY <1>0, <3>1
    <3>6. QED
      BY <3>1, <3>2, <3>3, <3>4, <3>5
  <2>7. \A s \in S : s # i => s \in T /\ session'[s] = session[s]
    BY <1>2, <2>2, <2>5
  <2>8. now >= now
    BY <1>0
  <2>9. QED
    BY <1>0, <1>4, <1>8, <2>5, <2>6, <2>7, <2>8 DEF Moves
<1>12. QED
  BY <1>0, <1>9, <1>10, <1>11 DEF SessionMoves

(* In a calendar that has every day, a period of a goal that is over keeps *)
(* its target and its minutes whatever only starts, stops or deletes       *)
(* something else (ElapsedIsSettled).                                      *)
THEOREM ElapsedPeriodsAreSettled == ASSUME EveryDay PROVE Spec => ElapsedIsSettled
<1> DEFINE Settled ==
        \A g \in Goal : LeavesAlone(g) =>
            \A was \in {Progress(goal[g], Data, now)}, is \in {Progress(goal'[g], Data', now')} :
                \A n \in DOMAIN was : was[n].elapsed => n \in DOMAIN is /\ is[n] = was[n]
<1>1. Typed /\ FollowInv /\ [Next]_vars => Settled
  <2> SUFFICES ASSUME Typed, FollowInv, [Next]_vars, NEW g \in Goal, LeavesAlone(g),
                      NEW n \in DOMAIN Progress(goal[g], Data, now), Progress(goal[g], Data, now)[n].elapsed
               PROVE  /\ n \in DOMAIN Progress(goal'[g], Data', now')
                      /\ Progress(goal'[g], Data', now')[n] = Progress(goal[g], Data, now)[n]
    BY Zenon
  <2>1. Typed'
    BY FollowStep
  <2>2. PICK row, next, data, new, at, then :
            /\ row = goal[g] /\ next = goal'[g] /\ data = Data /\ new = Data' /\ at = now /\ then = now'
    OBVIOUS
  <2>3. row \in GoalRow /\ Goes(row, next, at) /\ at \in Nat /\ at < Forever
    BY <2>2, BoundsAssumption, WindowsAssumption DEF LeavesAlone, Goes, Typed, GoalsTyped, DataTyped, Opt
  <2>4. then \in Nat /\ at <= then
    BY <2>2, SessionsMove
  <2>5. SpansTyped(data.spans) /\ data.cal \in Calendar
    BY <2>2, DataSpans
  <2>6. SpansTyped(new.spans) /\ new.cal = data.cal
    <3>1. SpansTyped(Data'.spans)
      <4>1. DOMAIN Data'.spans = Mine'
        BY DEF Data
      <4>2. Mine' \subseteq Tracked' /\ IsFiniteSet(Tracked')
        BY <2>1 DEF Mine, Typed, DataTyped
      <4>3. IsFiniteSet(Mine')
        BY <4>2, FS_Subset
      <4>4. ASSUME NEW s \in Mine'
            PROVE  Data'.spans[s] \in SpanRow
        <5>1. session'[s] \in SessionRow
          BY <2>1 DEF Mine, Tracked, Typed, DataTyped, Opt
        <5>2. session'[s].task \in Task /\ session'[s].from \in Nat /\ session'[s].to \in Opt(Nat)
          BY <5>1 DEF SessionRow, Opt
        <5>3. task'[session'[s].task].project \in Project
          BY <2>1, <5>2 DEF Typed, DataTyped, TaskRow
        <5>4. Data'.spans[s] = [task |-> session'[s].task, project |-> task'[session'[s].task].project,
                                from |-> session'[s].from, to |-> session'[s].to]
          BY DEF Data
        <5>5. QED
          BY <5>2, <5>3, <5>4 DEF SpanRow
      <4>5. QED
        BY <4>1, <4>3, <4>4 DEF SpansTyped
    <3>2. Data'.cal = Data.cal
      BY DEF Data, LeavesAlone
    <3>3. QED
      BY <2>2, <3>1, <3>2
  <2>7. Moves(data.spans, new.spans, at)
    BY <2>1, <2>2, SpansMove
  <2>8. n \in DOMAIN Progress(row, data, at) /\ Progress(row, data, at)[n].elapsed
    BY <2>2
  <2>9. n \in DOMAIN Progress(next, new, then) /\ Progress(next, new, then)[n] = Progress(row, data, at)[n]
    BY <2>3, <2>4, <2>5, <2>6, <2>7, <2>8, ProgressStays
  <2>10. QED
    BY <2>2, <2>9
<1>2. QED
  <2>1. Spec => [][Settled]_vars
    BY <1>1, AlwaysFollows, PTL DEF Spec
  <2>2. QED
    BY <2>1 DEF ElapsedIsSettled

-----------------------------------------------------------------------------
(* Civil days *)

LEMMA Quotient ==
    \A d \in Nat \ {0} : \A i \in Int :
        /\ i \div d \in Int /\ d * (i \div d) <= i /\ i < d * (i \div d) + d
        /\ \A k \in Int : d * k \in Int /\ (d * k <= i /\ i < d * k + d => i \div d = k)
  OBVIOUS

LEMMA Multiples ==
    \A d \in Nat \ {0} : \A i, j \in Int : d * i \in Int /\ d * j \in Int /\ (i < j => d * i + d <= d * j)
  OBVIOUS

LEMMA Remainder ==
    \A d \in Nat \ {0} : \A i \in Int : i % d \in 0..(d - 1) /\ (i - (i % d)) % d = 0
<1> SUFFICES ASSUME NEW d \in Nat \ {0}, NEW i \in Int
             PROVE  i % d \in 0..(d - 1) /\ (i - (i % d)) % d = 0
  OBVIOUS
<1>1. i % d \in 0..(d - 1)
  OBVIOUS
<1>2. (i - (i % d)) % d = 0
  OBVIOUS
<1>3. QED
  BY <1>1, <1>2

LEMMA NextMultiple ==
    \A d \in Nat \ {0} : \A k \in Int : k % d = 0 => (k + d) - ((k + d) % d) = k + d
<1> SUFFICES ASSUME NEW d \in Nat \ {0}, NEW k \in Int, k % d = 0
             PROVE  (k + d) - ((k + d) % d) = k + d
  OBVIOUS
<1>1. PICK q \in Int : q = k \div d
  OBVIOUS
<1>2. k = d * q
  BY <1>1
<1>3. k + d = d * (q + 1)
  BY <1>2
<1>4. (k + d) \div d = q + 1
  BY <1>2, <1>3, Quotient
<1>5. (k + d) % d = (k + d) - d * ((k + d) \div d)
  OBVIOUS
<1>6. (k + d) % d = 0
  BY <1>3, <1>4, <1>5
<1>7. \A x \in Int : x - 0 = x
  OBVIOUS
<1>8. QED
  BY <1>6, <1>7

LEMMA DateIs ==
    ASSUME NEW zone \in Zone, NEW i \in Int, NEW day \in Int
    PROVE  /\ zone.before \in Int /\ zone.after \in Int /\ zone.at \in Int /\ DayLength * day \in Int
           /\ ZoneOffset(zone, i) = (IF i < zone.at THEN zone.before ELSE zone.after)
           /\ CivilDate(zone, i) \in Int
           /\ DayLength * CivilDate(zone, i) \in Int
           /\ DayLength * CivilDate(zone, i) <= i + ZoneOffset(zone, i)
           /\ i + ZoneOffset(zone, i) < DayLength * CivilDate(zone, i) + DayLength
           /\ (DayLength * day <= i + ZoneOffset(zone, i) /\ i + ZoneOffset(zone, i) < DayLength * day + DayLength =>
                  CivilDate(zone, i) = day)
           /\ (CivilDate(zone, i) >= day <=> i + ZoneOffset(zone, i) >= DayLength * day)
<1>1. /\ zone.before \in Int /\ zone.after \in Int /\ zone.at \in Int /\ DayLength \in Nat \ {0}
      /\ ZoneOffset(zone, i) = (IF i < zone.at THEN zone.before ELSE zone.after)
  BY CalendarAssumption DEF ZoneOffset
<1>2. PICK local \in Int : local = i + ZoneOffset(zone, i)
  BY <1>1
<1>3. CivilDate(zone, i) = local \div DayLength
  BY <1>2 DEF CivilDate
<1>4. PICK c \in Int : c = local \div DayLength
  BY <1>1, Quotient
<1>5. DayLength * day \in Int /\ DayLength * c \in Int /\ DayLength * c <= local /\ local < DayLength * c + DayLength
  BY <1>1, <1>4, Quotient
<1>6. DayLength * day <= local /\ local < DayLength * day + DayLength => c = day
  BY <1>1, <1>4, Quotient
<1>7. c >= day <=> local >= DayLength * day
  <2>1. c < day => DayLength * c + DayLength <= DayLength * day
    BY <1>1, Multiples
  <2>2. day < c => DayLength * day + DayLength <= DayLength * c
    BY <1>1, Multiples
  <2>3. QED
    BY <1>1, <1>5, <2>1, <2>2
<1>8. QED
  BY <1>1, <1>2, <1>3, <1>4, <1>5, <1>6, <1>7

(* Where midnight is skipped, the search ends at the change.               *)
Skips(zone, day) ==
    DayLength * day - zone.after < zone.at /\ zone.at <= DayLength * day - zone.before

LEMMA HalveKeeps ==
    ASSUME NEW zone \in Zone, NEW day \in Int, Skips(zone, day), NEW r \in Bracket, NEW left \in Nat,
           r.lo <= zone.at, zone.at <= r.hi, r.hi - r.lo <= left + 1
    PROVE  /\ Halve(zone, day, r).lo <= zone.at /\ zone.at <= Halve(zone, day, r).hi
           /\ Halve(zone, day, r).hi - Halve(zone, day, r).lo <= left
<1>0. zone.before \in Int /\ zone.after \in Int /\ zone.at \in Int /\ DayLength * day \in Int /\ r.lo \in Int /\ r.hi \in Int
  BY DateIs DEF Bracket
<1>1. PICK mid \in Int : mid = (r.lo + r.hi) \div 2
  BY <1>0
<1>2. CivilDate(zone, mid) >= day <=> mid >= zone.at
  <2>1. CivilDate(zone, mid) >= day <=> mid + ZoneOffset(zone, mid) >= DayLength * day
    BY DateIs
  <2>2. ZoneOffset(zone, mid) = (IF mid < zone.at THEN zone.before ELSE zone.after)
    BY DateIs
  <2>3. QED
    BY <1>0, <2>1, <2>2 DEF Skips
<1>3. CASE r.lo >= r.hi
  BY <1>0, <1>3 DEF Halve
<1>4. CASE r.lo < r.hi
  <2>1. r.lo <= mid /\ mid < r.hi
    BY <1>0, <1>1, <1>4
  <2>2. CASE mid >= zone.at
    <3>1. Halve(zone, day, r) = [r EXCEPT !.hi = mid]
      BY <1>0, <1>1, <1>2, <1>4, <2>2 DEF Halve
    <3>2. Halve(zone, day, r).lo = r.lo /\ Halve(zone, day, r).hi = mid
      BY <3>1 DEF Bracket
    <3>3. QED
      BY <1>0, <2>1, <2>2, <3>2
  <2>3. CASE mid < zone.at
    <3>1. Halve(zone, day, r) = [r EXCEPT !.lo = mid + 1]
      BY <1>0, <1>1, <1>2, <1>4, <2>3 DEF Halve
    <3>2. Halve(zone, day, r).lo = mid + 1 /\ Halve(zone, day, r).hi = r.hi
      BY <3>1 DEF Bracket
    <3>3. QED
      BY <1>0, <2>1, <2>3, <3>2
  <2>4. QED
    BY <1>0, <2>2, <2>3
<1>5. QED
  BY <1>0, <1>3, <1>4

LEMMA BisectFinds ==
    ASSUME ZonesFit, NEW zone \in Zone, NEW day \in Int, Skips(zone, day)
    PROVE  Bisect(zone, day) = zone.at
<1>1. PICK it : Search(zone, day, it)
  BY BisectSearches
<1>2. PICK S, all : S = 1..(2 * Slack) /\ all = 2 * Slack
  OBVIOUS
<1>3. IsFiniteSet(S) /\ all \in Nat /\ Cardinality(S) = all /\ Slack \in Nat
  BY <1>2, CalendarAssumption, FS_Interval
<1>4. /\ zone.before \in (-Slack)..Slack /\ zone.after \in (-Slack)..Slack /\ zone.at \in Int
      /\ zone.before \in Int /\ zone.after \in Int /\ DayLength * day \in Int
  BY DateIs DEF ZonesFit
<1> DEFINE Near(s) == /\ it[s].lo <= zone.at /\ zone.at <= it[s].hi
                      /\ it[s].hi - it[s].lo <= all - Cardinality(s)
           T == {s \in SUBSET S : ~Near(s)}
<1>5. ASSUME T # {}
      PROVE  FALSE
  <2>1. PICK t \in T : \A u \in T : u \subseteq t => u = t
    <3>1. T \subseteq SUBSET S
      OBVIOUS
    <3> HIDE DEF T
    <3>2. QED
      BY <1>3, <1>5, <3>1, SmallestSubset
  <2>2. CASE t = {}
    <3>1. it[t] = [lo |-> DayLength * day - Slack, hi |-> DayLength * day + Slack]
      BY <1>1, <1>2, <2>1, <2>2 DEF Search
    <3>2. Cardinality(t) = 0
      BY <2>2, FS_EmptySet
    <3>3. PICK at, start, slack, before, after \in Int :
             /\ at = zone.at /\ start = DayLength * day /\ slack = Slack
             /\ before = zone.before /\ after = zone.after
      BY <1>3, <1>4
    <3>4. /\ -slack <= before /\ before <= slack /\ -slack <= after /\ after <= slack
          /\ start - after < at /\ at <= start - before
      BY <1>3, <1>4, <3>3 DEF Skips
    <3>5. it[t].lo = start - slack /\ it[t].hi = start + slack /\ all = 2 * slack /\ Cardinality(t) = 0
      BY <1>2, <3>1, <3>2, <3>3
    <3>6. /\ start - slack <= at /\ at <= start + slack
          /\ (start + slack) - (start - slack) <= 2 * slack - 0
      BY <3>3, <3>4
    <3>7. Near(t)
      BY <3>3, <3>5, <3>6
    <3>8. QED
      BY <2>1, <3>7
  <2>3. CASE t # {}
    <3>1. PICK u : u = t \ {Pick(t)}
      OBVIOUS
    <3>2. Pick(t) \in t
      BY <2>3 DEF Pick
    <3>3. u \in SUBSET S /\ u # t /\ u \subseteq t
      BY <2>1, <3>1, <3>2
    <3>4. Near(u)
      BY <2>1, <3>3
    <3>5. it[t] = Halve(zone, day, it[u]) /\ it[u] \in Bracket
      BY <1>1, <1>2, <2>1, <2>3, <3>1, <3>3 DEF Search
    <3>6. IsFiniteSet(t) /\ Cardinality(t) \in Nat /\ Cardinality(t) <= all /\ Cardinality(u) = Cardinality(t) - 1
      BY <1>3, <2>1, <3>1, <3>2, FS_Subset, FS_CardinalityType, FS_RemoveElement
    <3>7. PICK left \in Nat : left = all - Cardinality(t)
      BY <1>3, <3>6
    <3>8. all - Cardinality(u) = left + 1
      BY <1>3, <3>6, <3>7
    <3>9. Near(t)
      BY <3>4, <3>5, <3>7, <3>8, HalveKeeps
    <3>10. QED
      BY <2>1, <3>9
  <2>4. QED
    BY <2>2, <2>3
<1>6. Near(S)
  BY <1>5
<1>7. it[S] \in Bracket
  BY <1>1, <1>2 DEF Search
<1>8. it[S].lo = zone.at
  BY <1>3, <1>4, <1>6, <1>7 DEF Bracket
<1>9. QED
  BY <1>1, <1>2, <1>8 DEF Search

(* Otherwise two guesses in a row are the same, and each such is midnight. *)
LEMMA GuessesSettle ==
    ASSUME NEW zone \in Zone, NEW day \in Int
    PROVE  /\ \A i \in Guesses(zone, day) : i \in Int /\ i = Instant(zone, day, i)
           /\ Guesses(zone, day) = {} => zone.before < zone.after /\ Skips(zone, day)
<1>0. /\ zone.before \in Int /\ zone.after \in Int /\ zone.at \in Int /\ DayLength * day \in Int
      /\ \A i \in Int : Instant(zone, day, i) =
            DayLength * day - (IF i < zone.at THEN zone.before ELSE zone.after)
  BY DateIs DEF Instant
<1> DEFINE try == CHOOSE x : Tries(zone, day, x)
<1>1. Tries(zone, day, try)
  BY TriesExist
<1>2. Guesses(zone, day) = {try[n] : n \in {m \in 0..3 : try[m] = try[m + 1]}}
  BY GuessesAre
<1> HIDE DEF try
<1>3. /\ try[0] = Instant(zone, day, DayLength * day)
      /\ try[1] = Instant(zone, day, try[0]) /\ try[2] = Instant(zone, day, try[1])
      /\ try[3] = Instant(zone, day, try[2]) /\ try[4] = Instant(zone, day, try[3])
  <2>1. \A n \in 0..4 : try[n] = IF n = 0 THEN Instant(zone, day, DayLength * day) ELSE Instant(zone, day, try[n - 1])
    BY <1>1 DEF Tries
  <2>2. try[0] = Instant(zone, day, DayLength * day)
    BY <2>1
  <2>3. try[1] = Instant(zone, day, try[0]) /\ try[2] = Instant(zone, day, try[1])
    BY <2>1
  <2>4. try[3] = Instant(zone, day, try[2]) /\ try[4] = Instant(zone, day, try[3])
    BY <2>1
  <2>5. QED
    BY <2>2, <2>3, <2>4
<1>4. try[0] \in Int /\ try[1] \in Int /\ try[2] \in Int /\ try[3] \in Int
  BY <1>0, <1>3
<1>5. \A m \in 0..3 : try[m] \in Int /\ try[m + 1] = Instant(zone, day, try[m])
  <2> SUFFICES ASSUME NEW m \in 0..3
               PROVE  try[m] \in Int /\ try[m + 1] = Instant(zone, day, try[m])
    OBVIOUS
  <2>1. m = 0 \/ m = 1 \/ m = 2 \/ m = 3
    OBVIOUS
  <2>2. QED
    BY <1>3, <1>4, <2>1
<1>6. ASSUME try[0] # try[1], try[1] # try[2]
      PROVE  zone.before < zone.after /\ Skips(zone, day)
  BY <1>0, <1>3, <1>4, <1>6 DEF Skips
<1>7. try[0] = try[1] \/ try[1] = try[2] => Guesses(zone, day) # {}
  BY <1>2
<1>8. QED
  BY <1>2, <1>5, <1>6, <1>7

(* Every day begins at an instant of its date: at midnight, or, where      *)
(* midnight is skipped, when the clocks change.                            *)
LEMMA DayBegins ==
    ASSUME EveryDay, ZonesFit, NEW zone \in Zone, NEW day \in Int
    PROVE  /\ DayStartInstant(zone, day) \in Int
           /\ \/ DayStartInstant(zone, day) = Instant(zone, day, DayStartInstant(zone, day))
              \/ DayStartInstant(zone, day) = zone.at /\ zone.before < zone.after /\ Skips(zone, day)
<1> DEFINE good == {x \in Guesses(zone, day) : CivilDate(zone, x) = day}
<1>1. DayStartInstant(zone, day) = FirstInstant(zone, day) /\ DayStartInstant(zone, day) \in Int
  BY DayStartTyped, DayStartsAssumption DEF EveryDay, DayStartInstant, DayStartOf
<1>2. FirstInstant(zone, day) = IF good # {} THEN CHOOSE x \in good : TRUE ELSE Bisect(zone, day)
  BY DEF FirstInstant
<1>3. good # {} => (CHOOSE x \in good : TRUE) \in good
  OBVIOUS
<1>4. CASE good # {}
  BY <1>1, <1>2, <1>3, <1>4, GuessesSettle
<1>5. CASE good = {}
  <2>1. Guesses(zone, day) = {}
    <3>1. ASSUME NEW i \in Guesses(zone, day)
          PROVE  CivilDate(zone, i) = day
      <4>1. i \in Int /\ i = DayLength * day - ZoneOffset(zone, i)
        BY GuessesSettle DEF Instant
      <4>2. DayLength * day \in Int /\ ZoneOffset(zone, i) \in Int /\ DayLength \in Nat \ {0}
        BY <4>1, DateIs, CalendarAssumption
      <4>3. QED
        BY <4>1, <4>2, DateIs
    <3>2. QED
      BY <1>5, <3>1
  <2>2. QED
    BY <1>1, <1>2, <1>5, <2>1, GuessesSettle, BisectFinds
<1>6. QED
  BY <1>4, <1>5

LEMMA DaysInOrder ==
    ASSUME EveryDay, ZonesFit, NEW zone \in Zone, NEW day \in Int
    PROVE  /\ DayStartInstant(zone, day) \in Int /\ CivilDate(zone, DayStartInstant(zone, day)) = day
           /\ \A next \in Int : day < next => DayStartInstant(zone, day) < DayStartInstant(zone, next)
<1>0. PICK start \in Int : start = DayStartInstant(zone, day)
  BY DayBegins
<1>1. /\ zone.before \in Int /\ zone.after \in Int /\ zone.at \in Int /\ DayLength * day \in Int /\ DayLength \in Nat \ {0}
      /\ zone.after - zone.before < DayLength /\ zone.before - zone.after < DayLength
      /\ \A i \in Int : ZoneOffset(zone, i) = (IF i < zone.at THEN zone.before ELSE zone.after)
  BY DateIs, CalendarAssumption DEF ZonesFit
<1>2. \/ start = DayLength * day - ZoneOffset(zone, start)
      \/ start = zone.at /\ zone.before < zone.after /\ Skips(zone, day)
  BY <1>0, DayBegins DEF Instant
<1>3. CivilDate(zone, start) = day
  <2>1. DayLength * day <= start + ZoneOffset(zone, start) /\ start + ZoneOffset(zone, start) < DayLength * day + DayLength
    BY <1>1, <1>2 DEF Skips
  <2>2. QED
    BY <2>1, DateIs
<1>4. ASSUME NEW next \in Int, day < next
      PROVE  start < DayStartInstant(zone, next)
  <2>1. PICK then \in Int : then = DayStartInstant(zone, next)
    BY DayBegins
  <2>2. \/ then = DayLength * next - ZoneOffset(zone, then)
        \/ then = zone.at /\ zone.before < zone.after /\ Skips(zone, next)
    BY <2>1, DayBegins DEF Instant
  <2>3. DayLength * next \in Int /\ DayLength * day + DayLength <= DayLength * next
    BY <1>1, <1>4, Multiples
  <2>4. start < then
    BY <1>1, <1>2, <2>2, <2>3 DEF Skips
  <2>5. QED
    BY <2>1, <2>4
<1>5. QED
  BY <1>0, <1>3, <1>4

-----------------------------------------------------------------------------
(* Sums of sums, and the time within neighbouring intervals.               *)

LEMMA BySubsets ==
    ASSUME NEW S, IsFiniteSet(S), NEW Good, {} \in Good,
           \A t \in SUBSET S : \A i \in t : t \ {i} \in Good => t \in Good
    PROVE  S \in Good
<1> DEFINE Bad == {t \in SUBSET S : t \notin Good}
<1>1. ASSUME Bad # {}
      PROVE  FALSE
  <2>1. PICK t \in Bad : \A u \in Bad : u \subseteq t => u = t
    <3>1. Bad \subseteq SUBSET S
      OBVIOUS
    <3> HIDE DEF Bad
    <3>2. QED
      BY <1>1, <3>1, SmallestSubset
  <2>2. PICK i \in t : TRUE
    BY <2>1
  <2>3. t \ {i} \in SUBSET S /\ t \ {i} \subseteq t /\ t \ {i} # t
    BY <2>1, <2>2
  <2>4. t \ {i} \in Good
    BY <2>1, <2>3
  <2>5. QED
    BY <2>1, <2>2, <2>4
<1>2. QED
  BY <1>1

LEMMA WithoutLast == \A i, j \in Int : (i..j) \ {j} = i..(j - 1)
  OBVIOUS

LEMMA ByNumbers ==
    ASSUME NEW m \in Nat, NEW Good, 0 \in Good, \A k \in 1..m : k - 1 \in Good => k \in Good
    PROVE  m \in Good
<1> DEFINE Bad == {k \in 0..m : k \notin Good}
<1>1. ASSUME Bad # {}
      PROVE  FALSE
  <2>1. PICK k \in Bad : \A j \in Bad : ~(<<j, k>> \in OpToRel(<, Nat))
    <3>1. Bad \subseteq Nat
      OBVIOUS
    <3> HIDE DEF Bad
    <3>2. QED
      BY <1>1, <3>1, NatLessThanWellFounded, WFMin
  <2>2. k \in 1..m
    <3>1. k \in 0..m /\ k \notin Good
      BY <2>1
    <3>2. QED
      BY <3>1
  <2>3. k - 1 \in 0..m /\ <<k - 1, k>> \in OpToRel(<, Nat)
    BY <2>2 DEF OpToRel
  <2>4. QED
    BY <2>1, <2>2, <2>3
<1>2. QED
  BY <1>1

Cut(f, t) == [s \in t |-> f[s]]

LEMMA SumOfCut ==
    ASSUME NEW S, IsFiniteSet(S), NEW f \in [S -> Int]
    PROVE  /\ Cut(f, S) = f /\ SumFunction(Cut(f, {})) = 0
           /\ \A t \in SUBSET S : /\ SumFunction(Cut(f, t)) \in Int
                                  /\ \A i \in t : SumFunction(Cut(f, t)) = f[i] + SumFunction(Cut(f, t \ {i}))
<1>1. Cut(f, S) = f
  BY DEF Cut
<1>2. SumFunction(Cut(f, {})) = 0
  <2>1. IsFiniteSet({}) /\ Cut(f, {}) \in [{} -> Int]
    BY FS_EmptySet DEF Cut
  <2>2. PICK a : Sums(Cut(f, {}), {}, a) /\ SumFunction(Cut(f, {})) = a[{}]
    BY <2>1, SumOf
  <2>3. QED
    BY <2>2 DEF Sums
<1>3. ASSUME NEW t \in SUBSET S
      PROVE  /\ SumFunction(Cut(f, t)) \in Int
             /\ \A i \in t : SumFunction(Cut(f, t)) = f[i] + SumFunction(Cut(f, t \ {i}))
  <2>1. PICK g : g = Cut(f, t)
    OBVIOUS
  <2>2. IsFiniteSet(t) /\ g \in [t -> Int]
    BY <2>1, FS_Subset DEF Cut
  <2>3. ASSUME NEW i \in t
        PROVE  SumFunction(g) = f[i] + SumFunction(Cut(f, t \ {i}))
    <3>1. SumFunction(g) = g[i] + SumFunction([j \in t \ {i} |-> g[j]])
      BY <2>2, SumWithout
    <3>2. g[i] = f[i] /\ [j \in t \ {i} |-> g[j]] = Cut(f, t \ {i})
      BY <2>1 DEF Cut
    <3>3. QED
      BY <3>1, <3>2
  <2>4. SumFunction(g) \in Int
    BY <2>2, SumTyped
  <2>5. QED
    BY <2>1, <2>3, <2>4
<1>4. QED
  BY <1>1, <1>2, <1>3

LEMMA SumAdds ==
    ASSUME NEW S, IsFiniteSet(S), NEW f \in [S -> Int], NEW g \in [S -> Int]
    PROVE  SumFunction([s \in S |-> f[s] + g[s]]) = SumFunction(f) + SumFunction(g)
<1>1. PICK h : h \in [S -> Int] /\ h = [s \in S |-> f[s] + g[s]]
  <2>1. \A s \in S : f[s] + g[s] \in Int
    OBVIOUS
  <2>2. QED
    BY <2>1
<1> DEFINE Good == {t \in SUBSET S : SumFunction(Cut(h, t)) = SumFunction(Cut(f, t)) + SumFunction(Cut(g, t))}
<1>a. ASSUME NEW k \in [S -> Int]
      PROVE  /\ SumFunction(Cut(k, {})) = 0
             /\ \A t \in SUBSET S : /\ SumFunction(Cut(k, t)) \in Int
                                    /\ \A i \in t : SumFunction(Cut(k, t)) = k[i] + SumFunction(Cut(k, t \ {i}))
  BY SumOfCut
<1>2. {} \in Good
  BY <1>1, <1>a
<1>3. ASSUME NEW t \in SUBSET S, NEW i \in t, t \ {i} \in Good
      PROVE  t \in Good
  <2>a. ASSUME NEW k \in [S -> Int]
        PROVE  SumFunction(Cut(k, t)) = k[i] + SumFunction(Cut(k, t \ {i})) /\ SumFunction(Cut(k, t \ {i})) \in Int
    <3>1. t \ {i} \in SUBSET S
      OBVIOUS
    <3>2. QED
      BY <1>a, <3>1
  <2>1. /\ SumFunction(Cut(h, t)) = h[i] + SumFunction(Cut(h, t \ {i}))
        /\ SumFunction(Cut(f, t)) = f[i] + SumFunction(Cut(f, t \ {i}))
        /\ SumFunction(Cut(g, t)) = g[i] + SumFunction(Cut(g, t \ {i}))
    BY <1>1, <2>a
  <2>2. SumFunction(Cut(f, t \ {i})) \in Int /\ SumFunction(Cut(g, t \ {i})) \in Int
    BY <2>a
  <2>3. h[i] = f[i] + g[i] /\ f[i] \in Int /\ g[i] \in Int
    BY <1>1
  <2>4. QED
    BY <1>3, <2>1, <2>2, <2>3
<1>4. S \in Good
  <2> HIDE DEF Good
  <2>1. QED
    BY <1>2, <1>3, BySubsets
<1>5. QED
  BY <1>1, <1>4, SumOfCut

-----------------------------------------------------------------------------
(* Minutes.  n figures that make m minutes tell the time t when they are   *)
(* off by no more than half a minute each.                                 *)
Near(m, t, n) == /\ PerMinute * (2 * m) <= 2 * t + PerMinute * n
                 /\ 2 * t <= PerMinute * (2 * m) + PerMinute * n

LEMMA Scaled ==
    ASSUME NEW p \in Nat \ {0}, NEW i \in Int, NEW j \in Int
    PROVE  /\ p * i \in Int /\ p * j \in Int /\ p * (i + j) = p * i + p * j
           /\ p * i <= p * j => i <= j
<1>1. p * i \in Int /\ p * j \in Int /\ p * (i + j) = p * i + p * j
  OBVIOUS
<1>2. j < i => p * j + p <= p * i
  BY Multiples
<1>3. QED
  BY <1>1, <1>2

LEMMA MinutesNear ==
    ASSUME NEW t \in Int
    PROVE  Minutes(t) \in Int /\ Near(Minutes(t), t, 1)
<1>1. PICK p \in Nat \ {0} : p = PerMinute
  BY CalendarAssumption
<1>2. PICK d \in Nat \ {0} : d = 2 * p
  <2>1. 2 * p \in Nat \ {0}
    OBVIOUS
  <2>2. QED
    BY <2>1
<1>3. PICK i \in Int : i = 2 * t + p
  OBVIOUS
<1>4. PICK q \in Int : q = i \div d /\ d * q <= i /\ i < d * q + d
  BY Quotient
<1>5. Minutes(t) = q
  BY <1>1, <1>2, <1>3, <1>4 DEF Minutes
<1>6. d * q = p * (2 * q) /\ p * (2 * q) \in Int /\ p * 1 = p
  BY <1>2
<1>7. p * (2 * q) <= 2 * t + p /\ 2 * t + p < p * (2 * q) + 2 * p
  BY <1>2, <1>3, <1>4, <1>6
<1>8. 2 * t <= p * (2 * q) + p
  BY <1>6, <1>7
<1>9. QED
  BY <1>1, <1>5, <1>6, <1>7, <1>8 DEF Near

LEMMA NearAdds ==
    ASSUME NEW m \in Int, NEW n \in Int, NEW t \in Int, NEW u \in Int, NEW k \in Nat, NEW l \in Nat,
           Near(m, t, k), Near(n, u, l)
    PROVE  Near(m + n, t + u, k + l)
<1>1. PICK p \in Nat \ {0} : p = PerMinute
  BY CalendarAssumption
<1>2. PICK x, y, z, w \in Int : x = p * (2 * m) /\ y = p * (2 * n) /\ z = p * k /\ w = p * l
  BY Scaled
<1>3. p * (k + l) = z + w
  BY <1>2, Scaled
<1>4. p * (2 * (m + n)) = x + y
  <2>1. 2 * (m + n) = 2 * m + 2 * n /\ 2 * m \in Int /\ 2 * n \in Int
    OBVIOUS
  <2>2. QED
    BY <1>2, <2>1, Scaled
<1>5. x <= 2 * t + z /\ y <= 2 * u + w /\ 2 * t <= x + z /\ 2 * u <= y + w
  BY <1>1, <1>2 DEF Near
<1>6. x + y <= 2 * (t + u) + (z + w) /\ 2 * (t + u) <= (x + y) + (z + w)
  BY <1>5
<1>7. QED
  BY <1>1, <1>3, <1>4, <1>6 DEF Near

(* Two sums of figures that tell the same time agree.                      *)
LEMMA NearAgree ==
    ASSUME NEW a \in Int, NEW b \in Int, NEW t \in Int, NEW m \in Nat, NEW n \in Nat, Near(a, t, m), Near(b, t, n)
    PROVE  Agree(a, m, b, n)
<1>1. PICK p \in Nat \ {0} : p = PerMinute
  BY CalendarAssumption
<1>2. PICK x, y, z, w \in Int : x = p * (2 * a) /\ y = p * (2 * b) /\ z = p * m /\ w = p * n
  BY Scaled
<1>3. PICK k \in Int : k = m + n /\ p * k = z + w
  BY <1>2, Scaled
<1>4. x <= 2 * t + z /\ y <= 2 * t + w /\ 2 * t <= x + z /\ 2 * t <= y + w
  BY <1>1, <1>2 DEF Near
<1>5. p * (2 * b + k) = y + (z + w) /\ p * (2 * a + k) = x + (z + w)
  BY <1>2, <1>3, Scaled
<1>6. x <= y + (z + w) /\ y <= x + (z + w)
  BY <1>4
<1>7. 2 * a <= 2 * b + k /\ 2 * b <= 2 * a + k
  <2>1. p * (2 * a) <= p * (2 * b + k) /\ p * (2 * b) <= p * (2 * a + k)
    BY <1>2, <1>5, <1>6
  <2>2. 2 * a \in Int /\ 2 * b \in Int /\ 2 * b + k \in Int /\ 2 * a + k \in Int
    OBVIOUS
  <2>3. QED
    BY <2>1, <2>2, Scaled
<1>8. QED
  BY <1>3, <1>7 DEF Agree

Rounded(f) == [s \in DOMAIN f |-> Minutes(f[s])]

(* A sum of figures, each rounded apart, tells the sum of their times.     *)
LEMMA RoundedSum ==
    ASSUME NEW S, IsFiniteSet(S), NEW f \in [S -> Int]
    PROVE  /\ SumFunction(f) \in Int /\ SumFunction(Rounded(f)) \in Int /\ Cardinality(S) \in Nat
           /\ Near(SumFunction(Rounded(f)), SumFunction(f), Cardinality(S))
<1>1. PICK h : h \in [S -> Int] /\ h = Rounded(f) /\ \A s \in S : h[s] = Minutes(f[s])
  <2>1. Rounded(f) = [s \in S |-> Minutes(f[s])]
    BY DEF Rounded
  <2>2. \A s \in S : Minutes(f[s]) \in Int
    BY MinutesNear
  <2>3. QED
    BY <2>1, <2>2
<1> DEFINE Good == {t \in SUBSET S : Near(SumFunction(Cut(h, t)), SumFunction(Cut(f, t)), Cardinality(t))}
<1>2. {} \in Good
  <2>1. SumFunction(Cut(h, {})) = 0 /\ SumFunction(Cut(f, {})) = 0 /\ Cardinality({}) = 0
    BY <1>1, SumOfCut, FS_EmptySet
  <2>2. Near(0, 0, 0)
    BY CalendarAssumption DEF Near
  <2>3. QED
    BY <2>1, <2>2
<1>3. ASSUME NEW t \in SUBSET S, NEW i \in t, t \ {i} \in Good
      PROVE  t \in Good
  <2>1. PICK u : u = t \ {i} /\ u \in SUBSET S /\ u \in Good
    BY <1>3
  <2>2. IsFiniteSet(t) /\ IsFiniteSet(u)
    BY <2>1, FS_Subset
  <2>3. PICK c \in Nat : c = Cardinality(u) /\ Cardinality(t) = c + 1
    BY <2>1, <2>2, FS_RemoveElement, FS_CardinalityType
  <2>4. PICK a, b \in Int : a = SumFunction(Cut(h, u)) /\ b = SumFunction(Cut(f, u))
    BY <1>1, <2>1, SumOfCut
  <2>5. PICK x, y \in Int : x = h[i] /\ y = f[i] /\ x = Minutes(y)
    BY <1>1
  <2>6. SumFunction(Cut(h, t)) = x + a /\ SumFunction(Cut(f, t)) = y + b
    <3>1. SumFunction(Cut(h, t)) = h[i] + SumFunction(Cut(h, u))
      BY <1>1, <2>1, SumOfCut
    <3>2. SumFunction(Cut(f, t)) = f[i] + SumFunction(Cut(f, u))
      BY <2>1, SumOfCut
    <3>3. QED
      BY <2>4, <2>5, <3>1, <3>2
  <2>7. Near(x, y, 1) /\ Near(a, b, c)
    BY <2>1, <2>3, <2>4, <2>5, MinutesNear
  <2>8. Near(x + a, y + b, 1 + c)
    BY <2>7, NearAdds
  <2>9. QED
    BY <2>3, <2>6, <2>8
<1>4. S \in Good
  <2> HIDE DEF Good
  <2>1. QED
    BY <1>2, <1>3, BySubsets
<1>5. Cut(h, S) = h /\ Cut(f, S) = f
  BY <1>1, SumOfCut
<1>6. QED
  BY <1>1, <1>4, <1>5, SumTyped, FS_CardinalityType

-----------------------------------------------------------------------------
(* Sums of what is in a set and of what is not, and neighbouring intervals *)

LEMMA SumSplits ==
    ASSUME NEW S, IsFiniteSet(S), NEW f \in [S -> Int], NEW T
    PROVE  SumFunction(f) = SumFunction(Cut(f, S \cap T)) + SumFunction(Cut(f, S \ T))
<1> DEFINE Good == {t \in SUBSET S : SumFunction(Cut(f, t)) = SumFunction(Cut(f, t \cap T)) + SumFunction(Cut(f, t \ T))}
<1>1. {} \in Good
  <2>1. {} \cap T = {} /\ {} \ T = {}
    OBVIOUS
  <2>2. QED
    BY <2>1, SumOfCut
<1>2. ASSUME NEW t \in SUBSET S, NEW i \in t, t \ {i} \in Good
      PROVE  t \in Good
  <2>1. PICK u, in, out : u = t \ {i} /\ in = t \cap T /\ out = t \ T
    OBVIOUS
  <2>2. u \in SUBSET S /\ in \in SUBSET S /\ out \in SUBSET S
    BY <2>1
  <2>3. /\ SumFunction(Cut(f, t)) = f[i] + SumFunction(Cut(f, u)) /\ f[i] \in Int
        /\ SumFunction(Cut(f, in)) \in Int /\ SumFunction(Cut(f, out)) \in Int
        /\ SumFunction(Cut(f, u)) = SumFunction(Cut(f, u \cap T)) + SumFunction(Cut(f, u \ T))
    BY <1>2, <2>1, <2>2, SumOfCut
  <2>4. CASE i \in T
    <3>1. u \cap T = in \ {i} /\ u \ T = out /\ i \in in
      BY <2>1, <2>4
    <3>2. SumFunction(Cut(f, in)) = f[i] + SumFunction(Cut(f, in \ {i})) /\ SumFunction(Cut(f, in \ {i})) \in Int
      BY <2>2, <3>1, SumOfCut
    <3>3. SumFunction(Cut(f, t)) = SumFunction(Cut(f, in)) + SumFunction(Cut(f, out))
      <4>1. SumFunction(Cut(f, u)) = SumFunction(Cut(f, in \ {i})) + SumFunction(Cut(f, out))
        BY <2>3, <3>1
      <4>2. SumFunction(Cut(f, t)) = f[i] + (SumFunction(Cut(f, in \ {i})) + SumFunction(Cut(f, out)))
        BY <2>3, <4>1
      <4>3. QED
        BY <2>3, <3>2, <4>2
    <3>4. QED
      BY <2>1, <3>3
  <2>5. CASE i \notin T
    <3>1. u \cap T = in /\ u \ T = out \ {i} /\ i \in out
      BY <2>1, <2>5
    <3>2. SumFunction(Cut(f, out)) = f[i] + SumFunction(Cut(f, out \ {i})) /\ SumFunction(Cut(f, out \ {i})) \in Int
      BY <2>2, <3>1, SumOfCut
    <3>3. SumFunction(Cut(f, t)) = SumFunction(Cut(f, in)) + SumFunction(Cut(f, out))
      <4>1. SumFunction(Cut(f, u)) = SumFunction(Cut(f, in)) + SumFunction(Cut(f, out \ {i}))
        BY <2>3, <3>1
      <4>2. SumFunction(Cut(f, t)) = f[i] + (SumFunction(Cut(f, in)) + SumFunction(Cut(f, out \ {i})))
        BY <2>3, <4>1
      <4>3. QED
        BY <2>3, <3>2, <4>2
    <3>4. QED
      BY <2>1, <3>3
  <2>6. QED
    BY <2>4, <2>5
<1>3. S \in Good
  <2> HIDE DEF Good
  <2>1. QED
    BY <1>1, <1>2, BySubsets
<1>4. QED
  BY <1>3, SumOfCut

LEMMA OverlapsAdd ==
    ASSUME NEW a \in Int, NEW b \in Int, NEW x \in Int, NEW y \in Int, NEW z \in Int, x <= y, y <= z
    PROVE  /\ Overlap(a, b, x, y) \in Int /\ Overlap(a, b, y, z) \in Int
           /\ Overlap(a, b, x, y) + Overlap(a, b, y, z) = Overlap(a, b, x, z)
  BY DEF Overlap, Later, Earlier

(* The time of spans [a[s], b[s]) in [x, y).                               *)
TimeWithin(a, b, x, y) == SumFunction([s \in DOMAIN a |-> Overlap(a[s], b[s], x, y)])

Adds(a, b) ==
    \A x, y, z \in Int : x <= y /\ y <= z =>
        /\ TimeWithin(a, b, x, y) \in Int
        /\ TimeWithin(a, b, x, y) + TimeWithin(a, b, y, z) = TimeWithin(a, b, x, z)
        /\ TimeWithin(a, b, x, x) = 0

LEMMA TimesAdd ==
    ASSUME NEW S, IsFiniteSet(S), NEW a \in [S -> Int], NEW b \in [S -> Int]
    PROVE  Adds(a, b)
<1>1. ASSUME NEW p \in Int, NEW q \in Int, NEW r \in Int, p <= q, q <= r
      PROVE  /\ TimeWithin(a, b, p, q) \in Int
             /\ TimeWithin(a, b, p, q) + TimeWithin(a, b, q, r) = TimeWithin(a, b, p, r)
  <2>1. PICK f, g : f = [s \in S |-> Overlap(a[s], b[s], p, q)] /\ g = [s \in S |-> Overlap(a[s], b[s], q, r)]
    OBVIOUS
  <2>2. \A s \in S : Overlap(a[s], b[s], p, q) \in Int /\ Overlap(a[s], b[s], q, r) \in Int
                     /\ Overlap(a[s], b[s], p, q) + Overlap(a[s], b[s], q, r) = Overlap(a[s], b[s], p, r)
    <3> SUFFICES ASSUME NEW s \in S
                 PROVE  /\ Overlap(a[s], b[s], p, q) \in Int /\ Overlap(a[s], b[s], q, r) \in Int
                        /\ Overlap(a[s], b[s], p, q) + Overlap(a[s], b[s], q, r) = Overlap(a[s], b[s], p, r)
      OBVIOUS
    <3>1. PICK i, j : i = a[s] /\ j = b[s] /\ i \in Int /\ j \in Int
      OBVIOUS
    <3>2. /\ Overlap(i, j, p, q) \in Int /\ Overlap(i, j, q, r) \in Int
          /\ Overlap(i, j, p, q) + Overlap(i, j, q, r) = Overlap(i, j, p, r)
      BY <1>1, <3>1 DEF Overlap, Later, Earlier
    <3>3. QED
      BY <3>1, <3>2
  <2>3. f \in [S -> Int] /\ g \in [S -> Int]
    BY <2>1, <2>2
  <2>4. [s \in S |-> f[s] + g[s]] = [s \in S |-> Overlap(a[s], b[s], p, r)]
    BY <2>1, <2>2
  <2>5. SumFunction([s \in S |-> f[s] + g[s]]) = SumFunction(f) + SumFunction(g) /\ SumFunction(f) \in Int
    BY <2>3, SumAdds, SumTyped
  <2>6. QED
    BY <2>1, <2>4, <2>5 DEF TimeWithin
<1>2. ASSUME NEW x \in Int
      PROVE  TimeWithin(a, b, x, x) = 0
  <2>1. x <= x
    OBVIOUS
  <2>2. TimeWithin(a, b, x, x) + TimeWithin(a, b, x, x) = TimeWithin(a, b, x, x) /\ TimeWithin(a, b, x, x) \in Int
    BY <1>1, <2>1
  <2>3. \A t \in Int : t + t = t => t = 0
    OBVIOUS
  <2>4. QED
    BY <2>2, <2>3, Zenon
<1>3. QED
  BY <1>1, <1>2 DEF Adds

(* The times within the steps of a ladder add up to the time within it.    *)
LEMMA TimesTelescope ==
    ASSUME NEW S, IsFiniteSet(S), NEW a \in [S -> Int], NEW b \in [S -> Int],
           NEW first \in Int, NEW m \in Nat, NEW e \in [first..(first + m) -> Int],
           \A k \in first..(first + m - 1) : e[k] <= e[k + 1]
    PROVE  /\ SumFunction([k \in first..(first + m - 1) |-> TimeWithin(a, b, e[k], e[k + 1])])
                = TimeWithin(a, b, e[first], e[first + m])
           /\ e[first] <= e[first + m]
<1>0. \A x, y, z \in Int : x <= y /\ y <= z =>
         /\ TimeWithin(a, b, x, y) \in Int
         /\ TimeWithin(a, b, x, y) + TimeWithin(a, b, y, z) = TimeWithin(a, b, x, z)
         /\ TimeWithin(a, b, x, x) = 0
  <2>1. Adds(a, b)
    BY TimesAdd
  <2>2. QED
    BY <2>1 DEF Adds
<1>1. PICK f : f = [k \in first..(first + m - 1) |-> TimeWithin(a, b, e[k], e[k + 1])]
  OBVIOUS
<1>2. IsFiniteSet(first..(first + m - 1)) /\ f \in [first..(first + m - 1) -> Int]
  <2>1. \A k \in first..(first + m - 1) : TimeWithin(a, b, e[k], e[k + 1]) \in Int
    <3> SUFFICES ASSUME NEW k \in first..(first + m - 1)
                 PROVE  TimeWithin(a, b, e[k], e[k + 1]) \in Int
      OBVIOUS
    <3>1. PICK x, y \in Int : x = e[k] /\ y = e[k + 1] /\ x <= y /\ y <= y
      OBVIOUS
    <3>2. QED
      BY <1>0, <3>1
  <2>2. QED
    BY <1>1, <2>1, FS_Interval
<1> DEFINE Good == {n \in 0..m : /\ e[first] <= e[first + n]
                                 /\ SumFunction(Cut(f, first..(first + n - 1))) = TimeWithin(a, b, e[first], e[first + n])}
<1>3. 0 \in Good
  <2>1. first..(first + 0 - 1) = {} /\ first + 0 = first /\ e[first] \in Int
    OBVIOUS
  <2>2. SumFunction(Cut(f, {})) = 0
    BY <1>2, SumOfCut
  <2>3. TimeWithin(a, b, e[first], e[first]) = 0
    BY <1>0, <2>1
  <2>4. QED
    BY <2>1, <2>2, <2>3
<1>4. ASSUME NEW n \in 1..m, n - 1 \in Good
      PROVE  n \in Good
  <2>1. PICK k : k = first + n - 1
    OBVIOUS
  <2>2. /\ k \in first..(first + m - 1) /\ first + n = k + 1 /\ first + (n - 1) = k
        /\ first..(first + n - 1) \in SUBSET (first..(first + m - 1))
        /\ k \in first..(first + n - 1)
        /\ (first..(first + n - 1)) \ {k} = first..(first + (n - 1) - 1)
    <3>1. k \in Int /\ k >= first /\ k <= first + m - 1 /\ first + n = k + 1 /\ first + (n - 1) = k
      BY <2>1
    <3>2. k \in first..(first + m - 1) /\ k \in first..(first + n - 1)
      BY <3>1
    <3>3. (first..(first + n - 1)) \ {k} = first..(first + (n - 1) - 1)
      <4>1. first + n - 1 = k /\ first + (n - 1) - 1 = k - 1
        BY <3>1
      <4>2. (first..k) \ {k} = first..(k - 1)
        BY <3>1, WithoutLast
      <4>3. QED
        BY <4>1, <4>2
    <3>4. first..(first + n - 1) \in SUBSET (first..(first + m - 1))
      OBVIOUS
    <3>5. QED
      BY <3>1, <3>2, <3>3, <3>4
  <2>3. SumFunction(Cut(f, first..(first + n - 1))) = f[k] + SumFunction(Cut(f, first..(first + (n - 1) - 1)))
    <3>1. PICK S1, t, u : S1 = first..(first + m - 1) /\ t = first..(first + n - 1) /\ u = first..(first + (n - 1) - 1)
      OBVIOUS
    <3>2. t \in SUBSET S1 /\ k \in t /\ t \ {k} = u /\ IsFiniteSet(S1) /\ f \in [S1 -> Int]
      BY <1>2, <2>2, <3>1
    <3>a. \A v \in SUBSET S1 : /\ SumFunction(Cut(f, v)) \in Int
                              /\ \A i \in v : SumFunction(Cut(f, v)) = f[i] + SumFunction(Cut(f, v \ {i}))
      BY <3>2, SumOfCut, Zenon
    <3>3. \A i \in t : SumFunction(Cut(f, t)) = f[i] + SumFunction(Cut(f, t \ {i}))
      BY <3>2, <3>a
    <3>4. SumFunction(Cut(f, t)) = f[k] + SumFunction(Cut(f, u))
      BY <3>2, <3>3
    <3>5. QED
      BY <3>1, <3>4
  <2>4. e[first] \in Int /\ e[k] \in Int /\ e[k + 1] \in Int /\ e[first] <= e[k] /\ e[k] <= e[k + 1]
    BY <1>4, <2>2
  <2>5. f[k] = TimeWithin(a, b, e[k], e[k + 1])
    BY <1>1, <2>2
  <2>6. /\ TimeWithin(a, b, e[first], e[k]) \in Int /\ TimeWithin(a, b, e[k], e[k + 1]) \in Int
        /\ TimeWithin(a, b, e[first], e[k]) + TimeWithin(a, b, e[k], e[k + 1]) = TimeWithin(a, b, e[first], e[k + 1])
    <3>1. PICK x, y, z \in Int : x = e[first] /\ y = e[k] /\ z = e[k + 1] /\ x <= y /\ y <= z /\ z <= z
      BY <2>4
    <3>2. TimeWithin(a, b, x, y) \in Int
      BY <1>0, <3>1
    <3>b. TimeWithin(a, b, x, y) + TimeWithin(a, b, y, z) = TimeWithin(a, b, x, z)
      <4>1. x \in Int /\ y \in Int /\ z \in Int /\ x <= y /\ y <= z
        BY <3>1
      <4>2. \A r \in Int : x <= y /\ y <= r => TimeWithin(a, b, x, y) + TimeWithin(a, b, y, r) = TimeWithin(a, b, x, r)
        BY <1>0, <4>1
      <4>3. QED
        BY <4>1, <4>2
    <3>a. TimeWithin(a, b, y, z) \in Int
      BY <1>0, <3>1
    <3>3. QED
      BY <3>1, <3>2, <3>a, <3>b
  <2>7. SumFunction(Cut(f, first..(first + (n - 1) - 1))) = TimeWithin(a, b, e[first], e[k])
    <3>1. SumFunction(Cut(f, first..(first + (n - 1) - 1))) = TimeWithin(a, b, e[first], e[first + (n - 1)])
      BY <1>4
    <3>2. QED
      BY <2>2, <3>1
  <2>8. SumFunction(Cut(f, first..(first + n - 1))) = TimeWithin(a, b, e[first], e[first + n])
    <3>1. PICK x, y \in Int : x = TimeWithin(a, b, e[first], e[k]) /\ y = TimeWithin(a, b, e[k], e[k + 1])
      BY <2>6
    <3>2. SumFunction(Cut(f, first..(first + n - 1))) = y + x
      BY <2>3, <2>5, <2>7, <3>1
    <3>3. TimeWithin(a, b, e[first], e[first + n]) = x + y
      BY <2>2, <2>6, <3>1
    <3>4. x + y = y + x
      OBVIOUS
    <3>5. QED
      BY <3>1, <3>2, <3>3, <3>4, Zenon
  <2>9. e[first] <= e[first + n]
    <3>1. \A x, y, z \in Int : x <= y /\ y <= z => x <= z
      OBVIOUS
    <3>2. e[first] <= e[k + 1]
      BY <2>4, <3>1, Zenon
    <3>3. QED
      BY <2>2, <3>2, Zenon
  <2>10. QED
    BY <2>8, <2>9
<1>5. m \in Good
  <2> HIDE DEF Good
  <2>1. QED
    BY <1>3, <1>4, ByNumbers
<1>6. QED
  BY <1>1, <1>2, <1>5, SumOfCut

-----------------------------------------------------------------------------
(* The periods of a goal follow one another without a gap.                 *)

Step(period) == CASE period = "day" -> 1 [] period = "week" -> DaysInWeek [] OTHER -> DaysInMonth

Tile(period, zone, w, k) ==
    /\ w.start = DayStartInstant(zone, k) /\ w.end = DayStartInstant(zone, k + Step(period))
    /\ period = "month" => k % DaysInMonth = 0

LEMMA StepIs ==
    ASSUME NEW period \in Period
    PROVE  Step(period) \in Nat \ {0}
  BY CalendarAssumption DEF Step, Period

LEMMA FirstTile ==
    ASSUME EveryDay, ZonesFit, NEW period \in Period, NEW i \in Int, NEW c \in Calendar
    PROVE  \E k \in Int : k <= CivilDate(c.zone, i) /\ Tile(period, c.zone, GoalPeriodBounds(period, i, c), k)
<1>0. PICK zone \in Zone, day \in Int : zone = c.zone /\ day = CivilDate(c.zone, i)
  BY DayStartTyped DEF Calendar
<1>1. CASE period = "day"
  <2>1. GoalPeriodBounds(period, i, c) = DaysFrom(zone, day, 1)
    BY <1>0, <1>1 DEF GoalPeriodBounds
  <2>2. Tile(period, zone, DaysFrom(zone, day, 1), day)
    BY <1>1 DEF Tile, Step, DaysFrom
  <2>3. QED
    BY <1>0, <2>1, <2>2
<1>2. CASE period = "week"
  <2>1. PICK x : x = (day - c.weekStart) % DaysInWeek
    OBVIOUS
  <2>2. x \in Nat
    <3>1. day - c.weekStart \in Int
      BY <1>0 DEF Calendar
    <3>2. PICK d \in Nat \ {0}, x1 \in Int : d = DaysInWeek /\ x1 = day - c.weekStart
      BY <3>1, CalendarAssumption
    <3>3. x1 % d \in Nat
      BY Remainder
    <3>4. QED
      BY <2>1, <3>2, <3>3
  <2>3. PICK k \in Int : k = day - x /\ k <= day
    BY <2>2
  <2>4. WeekStartInstant(zone, i, c.weekStart) = DayStartInstant(zone, k)
    BY <1>0, <2>1, <2>3 DEF WeekStartInstant
  <2>5. CivilDate(zone, DayStartInstant(zone, k)) = k
    BY DaysInOrder
  <2>6. GoalPeriodBounds(period, i, c) =
            [start |-> DayStartInstant(zone, k), end |-> DayStartInstant(zone, k + DaysInWeek)]
    BY <1>0, <1>2, <2>4, <2>5 DEF GoalPeriodBounds
  <2>7. Tile(period, zone, GoalPeriodBounds(period, i, c), k)
    BY <1>2, <2>6 DEF Tile, Step
  <2>8. QED
    BY <1>0, <2>3, <2>7
<1>3. CASE period = "month"
  <2>1. PICK k : k = day - (day % DaysInMonth)
    OBVIOUS
  <2>2. k \in Int /\ k <= day /\ k % DaysInMonth = 0
    <3>1. PICK d \in Nat \ {0} : d = DaysInMonth
      BY CalendarAssumption
    <3>2. day % d \in Nat /\ (day - (day % d)) % d = 0
      BY Remainder
    <3>3. QED
      BY <2>1, <3>1, <3>2
  <2>3. GoalPeriodBounds(period, i, c) = DaysFrom(zone, k, DaysInMonth)
    BY <1>0, <1>3, <2>1 DEF GoalPeriodBounds
  <2>4. Tile(period, zone, DaysFrom(zone, k, DaysInMonth), k)
    BY <1>3, <2>2 DEF Tile, Step, DaysFrom
  <2>5. QED
    BY <1>0, <2>2, <2>3, <2>4
<1>4. QED
  BY <1>1, <1>2, <1>3 DEF Period

LEMMA NextTile ==
    ASSUME EveryDay, ZonesFit, NEW period \in Period, NEW c \in Calendar, NEW w, NEW k \in Int,
           Tile(period, c.zone, w, k)
    PROVE  Tile(period, c.zone, NextBounds(period, w, c), k + Step(period))
<1>0. PICK zone \in Zone, n \in Nat \ {0} : zone = c.zone /\ n = Step(period)
  BY StepIs DEF Calendar
<1>1. /\ w.start = DayStartInstant(zone, k) /\ w.end = DayStartInstant(zone, k + n)
      /\ CivilDate(zone, w.start) = k /\ CivilDate(zone, w.end) = k + n /\ k + n \in Int
  BY <1>0, DaysInOrder DEF Tile
<1>2. CASE period = "day"
  <2>1. NextBounds(period, w, c) = DaysFrom(zone, k + 1, 1) /\ n = 1
    BY <1>0, <1>1, <1>2 DEF NextBounds, Step
  <2>2. QED
    BY <1>0, <1>2, <2>1 DEF Tile, DaysFrom
<1>3. CASE period = "week"
  <2>1. n = DaysInWeek
    BY <1>0, <1>3 DEF Step
  <2>2. NextBounds(period, w, c) = [start |-> w.end, end |-> DayStartInstant(zone, (k + n) + n)]
    BY <1>0, <1>1, <1>3, <2>1 DEF NextBounds
  <2>3. QED
    BY <1>0, <1>1, <1>3, <2>2 DEF Tile
<1>4. CASE period = "month"
  <2>1. n = DaysInMonth /\ k % DaysInMonth = 0
    BY <1>0, <1>4 DEF Step, Tile
  <2>2. (k + n) - ((k + n) % n) = k + n
    BY <2>1, NextMultiple
  <2>3. (k + n) % n = 0
    <3>1. (k + n) % n \in Int
      BY <1>1, Remainder
    <3>2. QED
      BY <1>1, <2>2, <3>1
  <2>4. NextBounds(period, w, c) = DaysFrom(zone, k + n, n)
    BY <1>0, <1>1, <1>4, <2>1, <2>2 DEF NextBounds, GoalPeriodBounds
  <2>5. QED
    BY <1>0, <1>4, <2>1, <2>3, <2>4 DEF Tile, DaysFrom
<1>5. QED
  BY <1>2, <1>3, <1>4 DEF Period

Tiles(b) ==
    /\ \A n \in 1..MaxWindows : b[n].start \in Int /\ b[n].end \in Int /\ b[n].start < b[n].end
    /\ \A n \in 1..MaxWindows : n # 1 => b[n].start = b[n - 1].end

LEMMA PeriodsTile ==
    ASSUME EveryDay, ZonesFit, NEW period \in Period, NEW i \in Int, NEW c \in Calendar
    PROVE  \E b : /\ b = Bounds(period, i, c) /\ Tiles(b)
                  /\ DayStartInstant(c.zone, CivilDate(c.zone, i)) <= i => b[1].start <= i
<1>0. MaxWindows \in Nat \ {0} /\ c.zone \in Zone
  BY WindowsAssumption DEF Calendar
<1>1. PICK b : b = Bounds(period, i, c)
  OBVIOUS
<1>2. \A n \in 1..MaxWindows : b[n] = IF n = 1 THEN GoalPeriodBounds(period, i, c) ELSE NextBounds(period, b[n - 1], c)
  <2>1. Ladder(period, i, c, b)
    BY <1>1, BoundsTyped
  <2>2. QED
    BY <2>1 DEF Ladder
<1> DEFINE Tiled(n) == \E k \in Int : Tile(period, c.zone, b[n], k)
           Good == {n \in 0..MaxWindows : n # 0 => Tiled(n)}
<1>3. \A n \in 1..MaxWindows : n # 1 /\ Tiled(n - 1) => Tiled(n) /\ b[n].start = b[n - 1].end
  <2> SUFFICES ASSUME NEW n \in 1..MaxWindows, n # 1, Tiled(n - 1)
               PROVE  Tiled(n) /\ b[n].start = b[n - 1].end
    OBVIOUS
  <2>1. PICK k \in Int : Tile(period, c.zone, b[n - 1], k)
    OBVIOUS
  <2>2. b[n] = NextBounds(period, b[n - 1], c)
    BY <1>2
  <2>3. Tile(period, c.zone, b[n], k + Step(period))
    BY <2>1, <2>2, NextTile
  <2>4. k + Step(period) \in Int
    BY StepIs
  <2>5. b[n].start = b[n - 1].end
    BY <2>1, <2>3 DEF Tile
  <2>6. QED
    BY <2>3, <2>4, <2>5
<1>4. Tiled(1) /\ (DayStartInstant(c.zone, CivilDate(c.zone, i)) <= i => b[1].start <= i)
  <2>1. b[1] = GoalPeriodBounds(period, i, c)
    BY <1>0, <1>2
  <2>2. PICK k \in Int : k <= CivilDate(c.zone, i) /\ Tile(period, c.zone, b[1], k)
    BY <2>1, FirstTile
  <2>3. PICK x, y, day \in Int : x = DayStartInstant(c.zone, k) /\ day = CivilDate(c.zone, i) /\ y = DayStartInstant(c.zone, day)
    BY <1>0, DayStartTyped
  <2>4. x <= y
    <3>1. k < day => x < y
      BY <1>0, <2>3, DaysInOrder
    <3>2. k = day => x = y
      BY <2>3
    <3>3. QED
      BY <2>2, <2>3, <3>1, <3>2
  <2>5. b[1].start = x
    BY <2>2, <2>3 DEF Tile
  <2>6. QED
    BY <2>2, <2>3, <2>4, <2>5
<1>5. MaxWindows \in Good /\ \A n \in 1..MaxWindows : Tiled(n)
  <2> HIDE DEF Tiled
  <2>1. \A n \in 0..MaxWindows : n # 0 => Tiled(n)
    <3> SUFFICES ASSUME NEW m \in 0..MaxWindows
                 PROVE  m # 0 => Tiled(m)
      OBVIOUS
    <3> DEFINE Upto == {n \in 0..m : n # 0 => Tiled(n)}
    <3>1. 0 \in Upto
      BY <1>0
    <3>2. ASSUME NEW k \in 1..m, k - 1 \in Upto
          PROVE  k \in Upto
      <4>1. k \in 1..MaxWindows /\ k \in 0..m
        BY <1>0
      <4>2. CASE k = 1
        BY <1>4, <4>1, <4>2
      <4>3. CASE k # 1
        BY <1>3, <3>2, <4>1, <4>3
      <4>4. QED
        BY <4>2, <4>3
    <3>3. m \in Upto
      <4> HIDE DEF Upto
      <4>0. m \in Nat
        BY <1>0
      <4>1. QED
        BY <3>1, <3>2, <4>0, ByNumbers
    <3>4. QED
      BY <3>3
  <2>2. QED
    BY <1>0, <2>1
<1>6. \A n \in 1..MaxWindows : b[n].start \in Int /\ b[n].end \in Int /\ b[n].start < b[n].end
  <2> SUFFICES ASSUME NEW n \in 1..MaxWindows
               PROVE  b[n].start \in Int /\ b[n].end \in Int /\ b[n].start < b[n].end
    OBVIOUS
  <2>1. PICK k \in Int : Tile(period, c.zone, b[n], k)
    BY <1>5
  <2>2. PICK next \in Int : next = k + Step(period) /\ k < next
    BY StepIs
  <2>3. QED
    BY <1>0, <2>1, <2>2, DaysInOrder DEF Tile
<1>7. \A n \in 1..MaxWindows : n # 1 => b[n].start = b[n - 1].end
  <2> SUFFICES ASSUME NEW n \in 1..MaxWindows, n # 1
               PROVE  b[n].start = b[n - 1].end
    OBVIOUS
  <2>1. n - 1 \in 1..MaxWindows
    BY <1>0
  <2> HIDE DEF Tiled
  <2>2. QED
    BY <1>3, <1>5, <2>1
<1>8. QED
  BY <1>1, <1>4, <1>6, <1>7 DEF Tiles

LEMMA InitialSegment ==
    ASSUME NEW m \in Nat, NEW T \in SUBSET (1..m), \A j, k \in 1..m : j < k /\ k \in T => j \in T
    PROVE  T = 1..Cardinality(T) /\ Cardinality(T) \in 0..m
<1> DEFINE Gaps == {k \in 0..m : k + 1 \notin T}
<1>1. PICK k \in Gaps : \A j \in Gaps : ~(<<j, k>> \in OpToRel(<, Nat))
  <2>1. m \in Gaps /\ Gaps \subseteq Nat
    OBVIOUS
  <2> HIDE DEF Gaps
  <2>2. QED
    BY <2>1, NatLessThanWellFounded, WFMin
<1>2. k \in 0..m /\ k + 1 \notin T
  BY <1>1
<1>3. 1..k \subseteq T
  <2> SUFFICES ASSUME NEW j \in 1..k, j \notin T
               PROVE  FALSE
    OBVIOUS
  <2>1. j - 1 \in Gaps /\ <<j - 1, k>> \in OpToRel(<, Nat)
    BY <1>2 DEF OpToRel
  <2>2. QED
    BY <1>1, <2>1
<1>4. T \subseteq 1..k
  <2> SUFFICES ASSUME NEW j \in T, j \notin 1..k
               PROVE  FALSE
    OBVIOUS
  <2>1. j \in 1..m /\ k + 1 \in 1..m /\ (k + 1 < j \/ k + 1 = j)
    BY <1>2
  <2>2. QED
    BY <1>2, <2>1
<1>5. T = 1..k
  BY <1>3, <1>4
<1>6. Cardinality(1..k) = k
  BY <1>2, FS_Interval
<1>7. QED
  BY <1>2, <1>5, <1>6

(* Moved into [low, high].                                                 *)
Clip(x, low, high) == Earlier(Later(x, low), high)

SameOverlap(from, to, start, end) ==
    \A a, b \in Int : Overlap(a, b, from, to) = Overlap(a, b, start, end)

LEMMA OpenPeriods ==
    ASSUME NEW g, NEW w, Tiles(w), NEW at \in Int, GoalHorizon(g, at) \in Int
    PROVE  Open(g, w, at) = 1..Cardinality(Open(g, w, at)) /\ Cardinality(Open(g, w, at)) \in 0..MaxWindows
<1>0. /\ \A n \in 1..MaxWindows : w[n].start \in Int /\ w[n].end \in Int /\ w[n].start < w[n].end
      /\ \A n \in 1..MaxWindows : n # 1 => w[n].start = w[n - 1].end
  BY DEF Tiles
<1>1. Open(g, w, at) \in SUBSET (1..MaxWindows) /\ MaxWindows \in Nat
  BY WindowsAssumption DEF Open
<1>2. \A j, k \in 1..MaxWindows : j < k => w[j].start <= w[k].start
  <2> SUFFICES ASSUME NEW j \in 1..MaxWindows, NEW m \in 1..MaxWindows, j < m
               PROVE  w[j].start <= w[m].start
    OBVIOUS
  <2> DEFINE Upto == {d \in 0..(m - j) : w[j].start <= w[j + d].start}
  <2>1. 0 \in Upto
    BY <1>0, <1>1
  <2>2. ASSUME NEW d \in 1..(m - j), d - 1 \in Upto
        PROVE  d \in Upto
    <3>1. PICK k \in 1..MaxWindows : k = j + d /\ k # 1 /\ k - 1 \in 1..MaxWindows /\ k - 1 = j + (d - 1)
      BY <1>1
    <3>2. w[k].start = w[k - 1].end /\ w[k - 1].start < w[k - 1].end
      BY <1>0, <3>1
    <3>3. w[j].start <= w[k - 1].start
      BY <2>2, <3>1
    <3>4. w[j].start \in Int /\ w[k].start \in Int /\ w[k - 1].start \in Int
      BY <1>0, <3>1
    <3>5. w[j].start <= w[k].start
      BY <3>2, <3>3, <3>4
    <3>6. QED
      BY <3>1, <3>5
  <2>3. m - j \in Upto
    <3>1. m - j \in Nat
      BY <1>1
    <3> HIDE DEF Upto
    <3>2. QED
      BY <2>1, <2>2, <3>1, ByNumbers
  <2>4. j + (m - j) = m
    BY <1>1
  <2>5. QED
    BY <2>3, <2>4
<1>3. \A j, k \in 1..MaxWindows : j < k /\ k \in Open(g, w, at) => j \in Open(g, w, at)
  BY <1>0, <1>2 DEF Open
<1>4. QED
  BY <1>1, <1>3, InitialSegment

LEMMA OverlapOfClips ==
    ASSUME NEW x \in Int, NEW y \in Int, NEW low \in Int, NEW high \in Int, x <= y, low <= high
    PROVE  /\ Clip(x, low, high) \in Int /\ Clip(y, low, high) \in Int
           /\ SameOverlap(Later(x, low), Earlier(y, high), Clip(x, low, high), Clip(y, low, high))
<1>1. /\ Clip(x, low, high) \in Int /\ Clip(y, low, high) \in Int
      /\ Clip(x, low, high) <= Clip(y, low, high)
  BY DEF Clip, Earlier, Later
<1>2. CASE x >= high
  BY <1>1, <1>2 DEF Clip, Earlier, Later, Overlap, SameOverlap
<1>3. CASE x < high /\ y <= low
  BY <1>1, <1>3 DEF Clip, Earlier, Later, Overlap, SameOverlap
<1>4. CASE x < high /\ y > low
  <2>1. Later(x, low) = Clip(x, low, high)
    BY <1>4 DEF Clip, Earlier, Later
  <2>2. Earlier(y, high) = Clip(y, low, high)
    BY <1>4 DEF Clip, Earlier, Later
  <2>3. QED
    BY <1>1, <2>1, <2>2 DEF SameOverlap
<1>5. QED
  BY <1>1, <1>2, <1>3, <1>4

(* The spans in a scope, as where they begin and where they end.           *)
IsWithin(spans, scope, at, a, b) ==
    /\ \A x, y : TimeOf(spans, scope, x, y, at) = TimeWithin(a, b, x, y)
    /\ \A x, y, low, high \in Int : x <= y /\ low <= high =>
          TimeOf(spans, scope, Later(x, low), Earlier(y, high), at)
            = TimeWithin(a, b, Clip(x, low, high), Clip(y, low, high))

LEMMA TimeIsWithin ==
    ASSUME NEW spans, SpansTyped(spans), NEW scope, NEW at \in Nat
    PROVE  \E S, a, b : /\ IsFiniteSet(S) /\ a \in [S -> Int] /\ b \in [S -> Int]
                        /\ IsWithin(spans, scope, at, a, b)
<1>1. PICK S : S = InScopeOf(spans, scope)
  OBVIOUS
<1>2. IsFiniteSet(S) /\ \A s \in S : spans[s] \in SpanRow
  BY <1>1, FS_Subset DEF InScopeOf, SpansTyped
<1>3. PICK a, b : a = [s \in S |-> spans[s].from] /\ b = [s \in S |-> EndOf(spans[s], at)]
  OBVIOUS
<1>4. a \in [S -> Int] /\ b \in [S -> Int]
  BY <1>2, <1>3, NoneAssumption DEF SpanRow, EndOf, Opt
<1>5. ASSUME NEW x, NEW y
      PROVE  TimeOf(spans, scope, x, y, at) = TimeWithin(a, b, x, y)
  BY <1>1, <1>3 DEF TimeOf, TimeWithin
<1>6. ASSUME NEW x \in Int, NEW y \in Int, NEW low \in Int, NEW high \in Int, x <= y, low <= high
      PROVE  TimeOf(spans, scope, Later(x, low), Earlier(y, high), at)
               = TimeWithin(a, b, Clip(x, low, high), Clip(y, low, high))
  <2>0. SameOverlap(Later(x, low), Earlier(y, high), Clip(x, low, high), Clip(y, low, high))
    BY <1>6, OverlapOfClips
  <2>1. \A s \in S : Overlap(a[s], b[s], Later(x, low), Earlier(y, high))
                       = Overlap(a[s], b[s], Clip(x, low, high), Clip(y, low, high))
    <3> SUFFICES ASSUME NEW s \in S
                 PROVE  Overlap(a[s], b[s], Later(x, low), Earlier(y, high))
                          = Overlap(a[s], b[s], Clip(x, low, high), Clip(y, low, high))
      OBVIOUS
    <3>1. a[s] \in Int /\ b[s] \in Int
      BY <1>4
    <3>2. QED
      BY <2>0, <3>1 DEF SameOverlap
  <2>2. TimeWithin(a, b, Later(x, low), Earlier(y, high)) = TimeWithin(a, b, Clip(x, low, high), Clip(y, low, high))
    BY <1>4, <2>1 DEF TimeWithin
  <2>3. QED
    BY <1>5, <2>2
<1>7. IsWithin(spans, scope, at, a, b)
  BY <1>5, <1>6 DEF IsWithin
<1>8. QED
  BY <1>2, <1>4, <1>7

(* The times in the periods of a goal.                                     *)
TimesOf(g, data, at) ==
    [n \in DOMAIN Progress(g, data, at) |-> WindowTime(g, data, Progress(g, data, at)[n], at)]

(* N periods have all the time there is in a goal's life, and show it      *)
(* rounded one by one.                                                     *)
CountsAll(g, data, at, N) ==
    /\ DOMAIN Progress(g, data, at) = 1..N /\ Len(Progress(g, data, at)) = N
    /\ TimesOf(g, data, at) \in [1..N -> Int]
    /\ \A n \in 1..N : Progress(g, data, at)[n].actual = Minutes(TimesOf(g, data, at)[n])
    /\ SumFunction(TimesOf(g, data, at))
         = TimeOf(data.spans, g.scope, g.created, Later(g.created, GoalHorizon(g, at)), at)

LEMMA PeriodsCount ==
    ASSUME EveryDay, ZonesFit, NEW g \in GoalRow, NEW data, data.cal \in Calendar, SpansTyped(data.spans),
           NEW at \in Nat, DayStartInstant(data.cal.zone, CivilDate(data.cal.zone, g.created)) <= g.created,
           Len(Progress(g, data, at)) < MaxWindows
    PROVE  \E N \in Nat : CountsAll(g, data, at, N)
<1>0. PICK created, high \in Int : created = g.created /\ high = GoalHorizon(g, at)
  <2>1. g.created \in Int /\ GoalEnd(g) \in Int /\ at \in Int
    BY GoalEndIs DEF GoalRow
  <2>2. GoalHorizon(g, at) \in Int
    BY <2>1, EarlierTyped DEF GoalHorizon
  <2>3. QED
    BY <2>1, <2>2
<1>a. PICK S, a, b : /\ IsFiniteSet(S) /\ a \in [S -> Int] /\ b \in [S -> Int]
                     /\ IsWithin(data.spans, g.scope, at, a, b)
  BY TimeIsWithin
<1>1. /\ IsFiniteSet(S) /\ a \in [S -> Int] /\ b \in [S -> Int]
      /\ \A x, y : TimeOf(data.spans, g.scope, x, y, at) = TimeWithin(a, b, x, y)
  BY <1>a DEF IsWithin
<1>b. \A x, y, low, top \in Int : x <= y /\ low <= top =>
          TimeOf(data.spans, g.scope, Later(x, low), Earlier(y, top), at)
            = TimeWithin(a, b, Clip(x, low, top), Clip(y, low, top))
  BY <1>a DEF IsWithin
<1>2. PICK v, p, q : v = GoalWindows(g, data.cal, at) /\ p = Progress(g, data, at) /\ q = TimesOf(g, data, at)
  OBVIOUS
<1>3. /\ DOMAIN p = DOMAIN v /\ DOMAIN q = DOMAIN v /\ q = [n \in DOMAIN v |-> q[n]]
      /\ \A n \in DOMAIN v :
            /\ q[n] = TimeOf(data.spans, g.scope, Later(v[n].start, created), Earlier(v[n].end, high), at)
            /\ p[n].actual = Minutes(q[n])
  <2>1. DOMAIN p = DOMAIN v /\ DOMAIN q = DOMAIN v /\ q = [n \in DOMAIN v |-> q[n]]
    BY <1>2, ProgressIs DEF TimesOf
  <2>2. \A w, actual : /\ Figures(w, actual).actual = actual
                       /\ Figures(w, actual).start = w.start /\ Figures(w, actual).end = w.end
    BY DEF Figures
  <2>3. ASSUME NEW n \in DOMAIN v
        PROVE  /\ q[n] = TimeOf(data.spans, g.scope, Later(v[n].start, created), Earlier(v[n].end, high), at)
               /\ p[n].actual = Minutes(q[n])
    <3>1. PICK m : m = TimeOf(data.spans, g.scope, Later(v[n].start, created), Earlier(v[n].end, high), at)
      OBVIOUS
    <3>2. p[n] = Figures(v[n], Minutes(m))
      BY <1>0, <1>2, <3>1, ProgressIs
    <3>3. p[n].actual = Minutes(m) /\ p[n].start = v[n].start /\ p[n].end = v[n].end
      BY <2>2, <3>2
    <3>4. q[n] = WindowTime(g, data, p[n], at)
      BY <1>2, <2>1 DEF TimesOf
    <3>5. q[n] = m
      BY <1>0, <3>1, <3>3, <3>4, WindowTimeIs
    <3>6. QED
      BY <3>1, <3>3, <3>5
  <2>4. QED
    BY <2>1, <2>3
<1>c. p = [n \in DOMAIN p |-> p[n]]
  BY <1>2 DEF Progress
<1>4. CASE high <= created
  <2>1. v = << >>
    BY <1>0, <1>2, <1>4, WindowsAre
  <2>2. DOMAIN q = {} /\ IsFiniteSet({}) /\ q \in [{} -> Int]
    BY <1>2, <1>3, <2>1, FS_EmptySet
  <2>3. Cut(q, {}) = q /\ SumFunction(Cut(q, {})) = 0
    BY <2>2, SumOfCut
  <2>4. Later(created, high) = created
    BY <1>4 DEF Later
  <2>5. TimeWithin(a, b, created, created) = 0
    <3>1. Adds(a, b)
      BY <1>1, TimesAdd
    <3>2. created <= created /\ created \in Int
      BY <1>0
    <3>3. QED
      BY <3>1, <3>2 DEF Adds
  <2>6. 1..0 = {} /\ 0 \in Nat /\ Len(p) = 0
    <3>1. 1..0 = {} /\ 0 \in Nat /\ p = [n \in 1..0 |-> p[n]]
      BY <1>c, <1>3, <2>1
    <3>2. QED
      BY <3>1, FunctionIsSequence
  <2>7. SumFunction(q) = TimeOf(data.spans, g.scope, created, Later(created, high), at)
    BY <1>1, <2>3, <2>4, <2>5
  <2>8. DOMAIN p = 1..0 /\ q \in [1..0 -> Int]
    BY <1>3, <2>1, <2>2, <2>6
  <2>9. CountsAll(g, data, at, 0)
    BY <1>0, <1>2, <2>6, <2>7, <2>8 DEF CountsAll
  <2>10. QED
    BY <2>6, <2>9
<1>5. CASE created < high
  <2>1. PICK w : /\ w = Bounds(g.period, g.created, data.cal)
                 /\ \A n \in 1..MaxWindows : w[n].start \in Int /\ w[n].end \in Int /\ w[n].start < w[n].end
                 /\ \A n \in 1..MaxWindows : n # 1 => w[n].start = w[n - 1].end
                 /\ w[1].start <= created
    <3>1. g.period \in Period /\ g.created \in Int
      BY DEF GoalRow, Period
    <3>2. PICK w : /\ w = Bounds(g.period, g.created, data.cal) /\ Tiles(w)
                   /\ DayStartInstant(data.cal.zone, CivilDate(data.cal.zone, g.created)) <= g.created
                        => w[1].start <= g.created
      BY <3>1, PeriodsTile
    <3>3. QED
      BY <1>0, <3>2 DEF Tiles
  <2>2. PICK N : N = Cardinality(Open(g, w, at))
    OBVIOUS
  <2>3. v = [n \in 1..N |-> Window(g, w[n], at)]
    <3>1. ~(GoalHorizon(g, at) <= g.created)
      BY <1>0, <1>5
    <3>2. v = [n \in 1..Cardinality(Open(g, Bounds(g.period, g.created, data.cal), at))
                |-> Window(g, Bounds(g.period, g.created, data.cal)[n], at)]
      BY <1>2, <3>1, WindowsAre
    <3>3. QED
      BY <2>1, <2>2, <3>2
  <2>4. Open(g, w, at) = 1..N /\ N \in Nat
    <3>1. Tiles(w) /\ at \in Int /\ GoalHorizon(g, at) \in Int
      BY <1>0, <2>1 DEF Tiles
    <3>2. QED
      BY <2>2, <3>1, OpenPeriods
  <2>5. Len(p) = N /\ N < MaxWindows
    <3>1. DOMAIN v = 1..N /\ p = [n \in 1..N |-> p[n]]
      <4>1. DOMAIN v = 1..N
        BY <2>3
      <4>2. QED
        BY <1>3, <1>c, <4>1
    <3>2. Len(p) = N
      BY <2>4, <3>1, FunctionIsSequence
    <3>3. QED
      BY <1>2, <3>2
  <2>6. PICK top \in 1..MaxWindows : top = N + 1 /\ \A n \in 1..N : n \in 1..MaxWindows /\ n + 1 \in 1..MaxWindows
    BY <2>4, <2>5, WindowsAssumption
  <2> DEFINE e == [n \in 1..(1 + N) |-> Clip(w[n].start, created, high)]
  <2>7. \A n \in 1..(1 + N) : n \in 1..MaxWindows
    BY <2>4, <2>6
  <2>8. e \in [1..(1 + N) -> Int]
    BY <2>1, <2>7, OverlapOfClips, EarlierTyped DEF Clip
  <2>9. \A n \in 1..N : e[n] <= e[n + 1] /\ q[n] = TimeWithin(a, b, e[n], e[n + 1])
    <3> SUFFICES ASSUME NEW n \in 1..N
                 PROVE  e[n] <= e[n + 1] /\ q[n] = TimeWithin(a, b, e[n], e[n + 1])
      OBVIOUS
    <3>1. n \in 1..MaxWindows /\ n + 1 \in 1..MaxWindows /\ n + 1 # 1 /\ (n + 1) - 1 = n /\ n \in 1..(1 + N) /\ n + 1 \in 1..(1 + N)
      BY <2>4, <2>6
    <3>2. PICK x, y \in Int : x = w[n].start /\ y = w[n].end /\ x <= y /\ w[n + 1].start = y
      BY <2>1, <3>1
    <3>3. e[n] = Clip(x, created, high) /\ e[n + 1] = Clip(y, created, high)
      BY <3>1, <3>2
    <3>4. v[n].start = x /\ v[n].end = y
      BY <2>3, <3>2 DEF Window
    <3>5. q[n] = TimeOf(data.spans, g.scope, Later(x, created), Earlier(y, high), at)
      BY <1>3, <2>3, <3>4
    <3>6. q[n] = TimeWithin(a, b, Clip(x, created, high), Clip(y, created, high))
      <4>1. created <= high
        BY <1>5
      <4>2. TimeOf(data.spans, g.scope, Later(x, created), Earlier(y, high), at)
              = TimeWithin(a, b, Clip(x, created, high), Clip(y, created, high))
        <5>1. \A low, up \in Int : low <= up => TimeOf(data.spans, g.scope, Later(x, low), Earlier(y, up), at)
                = TimeWithin(a, b, Clip(x, low, up), Clip(y, low, up))
          BY <1>b, <3>2
        <5>2. QED
          BY <4>1, <5>1
      <4>3. QED
        BY <3>5, <4>2
    <3>7. Clip(x, created, high) <= Clip(y, created, high)
      BY <3>2 DEF Clip, Earlier, Later
    <3>8. QED
      BY <3>3, <3>6, <3>7
  <2>10. e[1] = created /\ e[1 + N] = high
    <3>1. e[1] = created
      <4>1. 1 \in 1..MaxWindows /\ 1 \in 1..(1 + N)
        BY <2>4, <2>6
      <4>2. w[1].start \in Int /\ w[1].start <= created /\ e[1] = Clip(w[1].start, created, high)
        BY <2>1, <4>1
      <4>3. QED
        BY <1>5, <4>2 DEF Clip, Earlier, Later
    <3>2. e[1 + N] = high
      <4>1. top = 1 + N /\ top \notin 1..N /\ top \in 1..(1 + N)
        BY <2>4, <2>6
      <4>2. w[top].start \in Int /\ ~(w[top].start < high)
        BY <1>0, <2>1, <2>4, <4>1 DEF Open
      <4>3. e[top] = Clip(w[top].start, created, high)
        BY <4>1
      <4>4. QED
        BY <1>5, <4>1, <4>2, <4>3 DEF Clip, Earlier, Later
    <3>3. QED
      BY <3>1, <3>2
  <2> HIDE DEF e
  <2>11. SumFunction([n \in 1..(1 + N - 1) |-> TimeWithin(a, b, e[n], e[n + 1])]) = TimeWithin(a, b, e[1], e[1 + N])
    <3>1. \A n \in 1..(1 + N - 1) : e[n] <= e[n + 1]
      BY <2>4, <2>9
    <3>2. 1 \in Int
      OBVIOUS
    <3>3. QED
      BY <1>1, <2>4, <2>8, <3>1, <3>2, TimesTelescope, Zenon
  <2>12. q = [n \in 1..(1 + N - 1) |-> TimeWithin(a, b, e[n], e[n + 1])]
    <3>1. 1..(1 + N - 1) = 1..N /\ q = [n \in 1..N |-> q[n]]
      BY <1>3, <2>3, <2>4
    <3>2. QED
      BY <2>9, <3>1
  <2>13. Later(created, high) = high
    BY <1>5 DEF Later
  <2>14. SumFunction(q) = TimeOf(data.spans, g.scope, created, high, at)
    BY <1>1, <2>10, <2>11, <2>12, Zenon
  <2>15. q \in [1..N -> Int]
    <3>1. Adds(a, b)
      BY <1>1, TimesAdd
    <3>2. ASSUME NEW n \in 1..N
          PROVE  q[n] \in Int
      <4>1. n \in 1..(1 + N) /\ n + 1 \in 1..(1 + N)
        BY <2>4
      <4>2. PICK x, y \in Int : x = e[n] /\ y = e[n + 1] /\ x <= y /\ y <= y /\ q[n] = TimeWithin(a, b, x, y)
        BY <2>8, <2>9, <4>1
      <4>3. \A z \in Int : y <= z => TimeWithin(a, b, x, y) \in Int
        BY <3>1, <4>2 DEF Adds
      <4>4. QED
        BY <4>2, <4>3
    <3>3. q = [n \in 1..N |-> q[n]]
      BY <1>3, <2>3
    <3>4. QED
      BY <3>2, <3>3
  <2>16. DOMAIN p = 1..N /\ \A n \in 1..N : p[n].actual = Minutes(q[n])
    BY <1>3, <2>3
  <2>17. CountsAll(g, data, at, N)
    BY <1>0, <1>2, <2>5, <2>13, <2>14, <2>15, <2>16 DEF CountsAll
  <2>18. QED
    BY <2>4, <2>17
<1>6. QED
  BY <1>4, <1>5

LEMMA TimeInScope ==
    ASSUME Typed, NEW scope, NEW from, NEW to, NEW at
    PROVE  TimeIn({s \in Mine : InScope(Data.spans[s], scope)}, from, to, at) = TimeOf(Data.spans, scope, from, to, at)
<1>1. PICK S, spans : S = {s \in Mine : InScope(Data.spans[s], scope)} /\ spans = Data.spans
  OBVIOUS
<1>2. InScopeOf(spans, scope) = S
  BY <1>1, DataIs DEF InScopeOf
<1>3. \A s \in S : Overlap(session[s].from, EndOf(session[s], at), from, to)
                     = Overlap(spans[s].from, EndOf(spans[s], at), from, to)
  <2> SUFFICES ASSUME NEW s \in S
               PROVE  session[s].from = spans[s].from /\ EndOf(session[s], at) = EndOf(spans[s], at)
    OBVIOUS
  <2>1. spans[s] = [task |-> session[s].task, project |-> task[session[s].task].project,
                    from |-> session[s].from, to |-> session[s].to]
    BY <1>1, SpanOf
  <2>2. QED
    BY <2>1 DEF EndOf
<1>4. TimeIn(S, from, to, at) = SumFunction([s \in S |-> Overlap(session[s].from, EndOf(session[s], at), from, to)])
  BY DEF TimeIn, Sum
<1>5. TimeOf(spans, scope, from, to, at) = SumFunction([s \in S |-> Overlap(spans[s].from, EndOf(spans[s], at), from, to)])
  BY <1>2 DEF TimeOf
<1>6. QED
  BY <1>1, <1>3, <1>4, <1>5

(* A goal's progress counts all the time tracked in its scope during its   *)
(* life in one of its periods and no other, whatever the clocks do (the    *)
(* walk of goalWindows through the calendar), and shows it but for the     *)
(* rounding of each period, provided the calendar has every day and no     *)
(* zone is further from UTC than dayStartInstant looks.                    *)
THEOREM AllTimeAlwaysCounted == ASSUME EveryDay, ZonesFit PROVE Spec => []AllTimeIsCounted
<1> DEFINE AllOf(g) == TimeIn({s \in Mine : InScope(Data.spans[s], goal[g].scope)}, goal[g].created,
                              Later(goal[g].created, GoalHorizon(goal[g], now)), now)
           WindowTimes(g, ws) == [n \in DOMAIN ws |-> WindowTime(goal[g], Data, ws[n], now)]
           Actuals(ws) == [n \in DOMAIN ws |-> ws[n].actual]
<1>1. ASSUME Typed, NEW g \in Stored, NEW ws, ws = Progress(goal[g], Data, now),
             InItsDay(goal[g].created), Len(ws) < MaxWindows
      PROVE  /\ SumFunction(WindowTimes(g, ws)) = AllOf(g)
             /\ Agree(SumFunction(Actuals(ws)), Len(ws), Minutes(AllOf(g)), 1)
  <2>1. goal[g] \in GoalRow /\ now \in Nat
    BY <1>1, BoundsAssumption DEF Stored, Typed, GoalsTyped, DataTyped, Opt
  <2>2. PICK row, data, at, to : row = goal[g] /\ data = Data /\ at = now /\ to = Later(row.created, GoalHorizon(row, at))
    OBVIOUS
  <2>3. data.cal = cal /\ data.cal \in Calendar /\ SpansTyped(data.spans)
    BY <1>1, <2>2, DataIs, DataSpans
  <2>4. DayStartInstant(data.cal.zone, CivilDate(data.cal.zone, row.created)) <= row.created
    BY <1>1, <2>2, <2>3 DEF InItsDay
  <2>5. row \in GoalRow /\ at \in Nat /\ Len(Progress(row, data, at)) < MaxWindows
    BY <1>1, <2>1, <2>2
  <2>6. PICK N \in Nat : CountsAll(row, data, at, N)
    BY <2>3, <2>4, <2>5, PeriodsCount
  <2>7. TimeIn({s \in Mine : InScope(Data.spans[s], row.scope)}, row.created, to, at)
          = TimeOf(Data.spans, row.scope, row.created, to, at)
    BY <1>1, TimeInScope
  <2>8. PICK f, time : f = TimesOf(row, data, at) /\ time = AllOf(g)
    OBVIOUS
  <2>9. DOMAIN ws = 1..N /\ Len(ws) = N /\ f \in [1..N -> Int] /\ WindowTimes(g, ws) = f
    BY <1>1, <2>2, <2>6, <2>8 DEF CountsAll, TimesOf
  <2>10. SumFunction(f) = time
    BY <2>2, <2>6, <2>7, <2>8 DEF CountsAll
  <2>11. Actuals(ws) = Rounded(f)
    <3>1. \A n \in 1..N : ws[n].actual = Minutes(f[n])
      BY <1>1, <2>2, <2>6, <2>8 DEF CountsAll
    <3>2. QED
      BY <2>9, <3>1 DEF Rounded
  <2>12. IsFiniteSet(1..N) /\ Cardinality(1..N) = N
    <3>1. 1 \in Int /\ N \in Int /\ (IF 1 > N THEN 0 ELSE N - 1 + 1) = N
      OBVIOUS
    <3>2. QED
      BY <3>1, FS_Interval
  <2>13. PICK sum \in Int : sum = SumFunction(Actuals(ws)) /\ time \in Int /\ Near(sum, time, N)
    BY <2>9, <2>10, <2>11, <2>12, RoundedSum
  <2>14. Minutes(time) \in Int /\ Near(Minutes(time), time, 1) /\ 1 \in Nat
    BY <2>13, MinutesNear
  <2>15. Agree(sum, N, Minutes(time), 1)
    BY <2>13, <2>14, NearAgree
  <2>16. QED
    BY <2>8, <2>9, <2>10, <2>13, <2>15
<1> HIDE DEF AllOf
<1>2. ASSUME Typed
      PROVE  AllTimeIsCounted
  <2>1. \A g \in Stored : \A ws \in {Progress(goal[g], Data, now)} :
            InItsDay(goal[g].created) /\ Len(ws) < MaxWindows =>
                /\ SumFunction(WindowTimes(g, ws)) = AllOf(g)
                /\ Agree(SumFunction(Actuals(ws)), Len(ws), Minutes(AllOf(g)), 1)
    BY <1>1, <1>2
  <2>2. QED
    BY <2>1 DEF AllTimeIsCounted, Sum, AllOf
<1>3. QED
  BY <1>2, AlwaysFollows, PTL DEF Spec

-----------------------------------------------------------------------------
(* Reports.  A session ends no earlier than it begins, and no later than   *)
(* the last instant there is.                                              *)
InTime(row, at) == row.from <= EndOf(row, at) /\ EndOf(row, at) <= Horizon + Tolerance

SessionsInTime == \A s \in Tracked : InTime(session[s], now)

LEMMA InTimeStep ==
    ASSUME Typed, Typed', SessionsInTime, [Next]_vars
    PROVE  SessionsInTime'
<1>0. /\ now \in 0..Horizon /\ Horizon \in Nat /\ Tolerance \in Nat /\ session = [s \in Session |-> session[s]]
      /\ \A s \in Tracked : session[s] \in SessionRow /\ session[s].from \in Nat /\ session[s].to \in Opt(Nat)
      /\ \A n \in Nat : n # None
  BY BoundsAssumption, NoneAssumption DEF Typed, DataTyped, Tracked, Opt, SessionRow
<1>1. ASSUME session' = session, now' = now
      PROVE  SessionsInTime'
  BY <1>1 DEF SessionsInTime, Tracked, InTime, EndOf
<1>2. ASSUME NEW u \in User, NEW c \in Task, NEW from \in Nat, NEW to \in Opt(Nat), NewSession(u, c, from, to),
             now' = now, IF to = None THEN from <= now ELSE from <= to /\ to <= Horizon + Tolerance
      PROVE  SessionsInTime'
  <2>1. PICK s \in Session : session[s] = None /\ session' = [session EXCEPT ![s] = [by |-> u, task |-> c, from |-> from, to |-> to]]
    BY <1>2 DEF NewSession
  <2>2. PICK row : row = [by |-> u, task |-> c, from |-> from, to |-> to]
    OBVIOUS
  <2>3. InTime(row, now)
    BY <1>0, <1>2, <2>2 DEF InTime, EndOf
  <2>4. \A x \in Session : session'[x] = IF x = s THEN row ELSE session[x]
    BY <1>0, <2>1, <2>2
  <2>5. \A x \in Session : session'[x] # None => InTime(session'[x], now)
    BY <2>3, <2>4 DEF SessionsInTime, Tracked
  <2>6. QED
    BY <1>2, <2>5 DEF SessionsInTime, Tracked, InTime, EndOf
<1>3. ASSUME NEW t \in Thread, Request(t) \/ Die(t)
      PROVE  session' = session /\ now' = now
  BY <1>3 DEF Request, PostGoal, UndoDelete, InsertGoal, PatchGoal, UpdateGoal, ReadGoalBack, TellGoal,
         DeleteGoal, CommitDelete, Import, ImportGoals, TellAll, Die, Starts, Writes, Tell, db
<1>4. CASE Export \/ EditTask \/ SetCalendar \/ Asks \/ (\E k \in Check : Receive(k) \/ LoseAnswer(k)) \/ UNCHANGED vars
  <2>1. session' = session /\ now' = now
    BY <1>4 DEF Export, EditTask, SetCalendar, Asks, Receive, LoseAnswer, db, vars
  <2>2. QED
    BY <1>1, <2>1
<1>5. CASE StartTimer
  <2>1. now' = now /\ now <= now /\ now \in Nat /\ None \in Opt(Nat)
    BY <1>0, <1>5 DEF StartTimer, Opt
  <2>2. PICK c \in Task : NewSession(Me, c, now, None)
    BY <1>5 DEF StartTimer
  <2>3. QED
    BY <1>2, <2>1, <2>2, GoalsAssumption
<1>6. CASE StopTimer
  <2>1. PICK s \in Tracked : session[s].to = None /\ session' = [session EXCEPT ![s].to = now]
    BY <1>6 DEF StopTimer
  <2>2. session[s] \in SessionRow /\ session[s].from <= now /\ now' = now /\ s \in Session
    <3>1. InTime(session[s], now)
      BY <2>1 DEF SessionsInTime
    <3>2. session[s].from <= now
      BY <2>1, <3>1 DEF InTime, EndOf
    <3>3. now' = now /\ s \in Session
      BY <1>6, <2>1 DEF StopTimer, Tracked
    <3>4. QED
      BY <1>0, <2>1, <3>2, <3>3
  <2>3. PICK row : row = [session[s] EXCEPT !.to = now] /\ row.to = now /\ row.from = session[s].from
    <3>1. \A q \in SessionRow : [q EXCEPT !.to = now].to = now /\ [q EXCEPT !.to = now].from = q.from
      BY DEF SessionRow
    <3>2. QED
      BY <2>2, <3>1
  <2>4. InTime(row, now)
    BY <1>0, <2>2, <2>3 DEF InTime, EndOf
  <2>5. \A x \in Session : session'[x] = IF x = s THEN row ELSE session[x]
    BY <1>0, <2>1, <2>2, <2>3
  <2>6. \A x \in Session : session'[x] # None => InTime(session'[x], now)
    BY <2>4, <2>5 DEF SessionsInTime, Tracked
  <2>7. QED
    BY <2>2, <2>6 DEF SessionsInTime, Tracked, InTime, EndOf
<1>7. CASE EnterSession
  <2>1. PICK u \in User, c \in Task, from \in Time, to \in Time :
            from < to /\ to <= now + Tolerance /\ NewSession(u, c, from, to)
    BY <1>7 DEF EnterSession
  <2>2. from \in Nat /\ to \in Opt(Nat) /\ to # None /\ from <= to /\ to <= Horizon + Tolerance
    BY <1>0, <2>1 DEF Time, Opt
  <2>3. QED
    BY <1>2, <1>7, <2>1, <2>2 DEF EnterSession
<1>8. CASE RemoveSession
  <2>1. PICK s \in Mine : session' = [session EXCEPT ![s] = None]
    BY <1>8 DEF RemoveSession
  <2>2. \A x \in Session : session'[x] # None => session'[x] = session[x] /\ x \in Tracked
    BY <1>0, <2>1 DEF Tracked
  <2>3. \A x \in Session : session'[x] # None => InTime(session'[x], now)
    BY <2>2 DEF SessionsInTime
  <2>4. now' = now
    BY <1>8 DEF RemoveSession
  <2>5. QED
    BY <2>3, <2>4 DEF SessionsInTime, Tracked, InTime, EndOf
<1>9. CASE Tick
  <2>1. session' = session /\ now' = now + 1 /\ now' \in 0..Horizon
    BY <1>9 DEF Tick, Typed, DataTyped
  <2>2. \A x \in Session : session'[x] # None => InTime(session'[x], now')
    <3> SUFFICES ASSUME NEW x \in Session, session[x] # None
                 PROVE  InTime(session[x], now')
      BY <2>1
    <3>1. x \in Tracked
      BY DEF Tracked
    <3>2. PICK row : row = session[x]
      OBVIOUS
    <3>3. InTime(row, now) /\ row.from \in Nat /\ row.to \in Opt(Nat)
      BY <1>0, <3>1, <3>2 DEF SessionsInTime
    <3>4. CASE row.to = None
      BY <1>0, <2>1, <3>2, <3>3, <3>4 DEF InTime, EndOf
    <3>5. CASE row.to # None
      BY <3>2, <3>3, <3>5 DEF InTime, EndOf
    <3>6. QED
      BY <3>4, <3>5
  <2>3. QED
    BY <2>2 DEF SessionsInTime, Tracked, InTime, EndOf
<1>10. CASE \E t \in Thread : (Request(t) /\ Overlaps(t)) \/ Die(t)
  BY <1>1, <1>3, <1>10
<1>11. QED
  BY <1>4, <1>5, <1>6, <1>7, <1>8, <1>9, <1>10 DEF Next

LEMMA AlwaysInTime == Spec => [](Typed /\ SessionsInTime)
<1>1. Init => SessionsInTime
  BY DEF Init, SessionsInTime, Tracked
<1>2. Typed /\ Typed' /\ SessionsInTime /\ [Next]_vars => SessionsInTime'
  BY InTimeStep
<1>3. Spec => [](Typed /\ FollowInv)
  BY AlwaysFollows
<1>4. QED
  BY <1>1, <1>2, <1>3, PTL DEF Spec

-----------------------------------------------------------------------------
(* The buckets of a range of days are the steps of a ladder.               *)

(* What shared/time.ts says of civilDate: no later instant has an earlier  *)
(* date; and no scene begins between the two midnights of a day.           *)
LEMMA DayHasNotEnded ==
    ASSUME EveryDay, ZonesFit, DatesNeverReturn, NEW zone \in Zone, NEW i \in Int
    PROVE  i < DayStartInstant(zone, CivilDate(zone, i) + 1)
<1>1. PICK day, next, then \in Int : day = CivilDate(zone, i) /\ next = day + 1 /\ then = DayStartInstant(zone, next)
  <2>1. CivilDate(zone, i) \in Int /\ CivilDate(zone, i) + 1 \in Int
    BY DayStartTyped
  <2>2. DayStartInstant(zone, CivilDate(zone, i) + 1) \in Int
    BY <2>1, DayStartTyped
  <2>3. QED
    BY <2>1, <2>2
<1>2. CivilDate(zone, then) = next
  BY <1>1, DaysInOrder
<1>3. then <= i => next <= day
  BY <1>1, <1>2 DEF DatesNeverReturn, DatesGoOn
<1>4. QED
  BY <1>1, <1>3

(* The sessions of a set, as where they begin and where they end.          *)
LEMMA TrackedWithin ==
    ASSUME Typed, NEW S \in SUBSET Tracked
    PROVE  \E a, b : /\ IsFiniteSet(S) /\ a \in [S -> Int] /\ b \in [S -> Int]
                     /\ \A s \in S : a[s] = session[s].from /\ b[s] = EndOf(session[s], now)
                     /\ \A x, y : TimeIn(S, x, y, now) = TimeWithin(a, b, x, y)
<1>1. IsFiniteSet(S) /\ \A s \in S : session[s].from \in Int /\ EndOf(session[s], now) \in Int
  <2>1. IsFiniteSet(S)
    BY FS_Subset DEF Typed, DataTyped
  <2>2. ASSUME NEW s \in S
        PROVE  session[s].from \in Int /\ EndOf(session[s], now) \in Int
    <3>1. session[s] \in SessionRow /\ now \in Int
      BY BoundsAssumption DEF Typed, DataTyped, Tracked, Opt
    <3>2. session[s].from \in Nat /\ session[s].to \in Nat \cup {None}
      BY <3>1 DEF SessionRow
    <3>3. QED
      BY <3>1, <3>2 DEF EndOf
  <2>3. QED
    BY <2>1, <2>2
<1>2. PICK a, b : a = [s \in S |-> session[s].from] /\ b = [s \in S |-> EndOf(session[s], now)]
  OBVIOUS
<1>3. a \in [S -> Int] /\ b \in [S -> Int] /\ \A s \in S : a[s] = session[s].from /\ b[s] = EndOf(session[s], now)
  BY <1>1, <1>2
<1>4. \A x, y : TimeIn(S, x, y, now) = TimeWithin(a, b, x, y)
  BY <1>2 DEF TimeIn, TimeWithin, Sum
<1>5. QED
  BY <1>1, <1>3, <1>4

DayTimes(S, from, to) == [d \in from..to |-> DayTime(S, d)]
BucketsOf(S, from, to) == SumFunction([d \in from..to |-> DayBucket(S, d)])

LEMMA DaysAddUp ==
    ASSUME EveryDay, ZonesFit, Typed, NEW S \in SUBSET Tracked, NEW from \in Int, NEW to \in Int, from <= to
    PROVE  /\ DayTimes(S, from, to) \in [from..to -> Int]
           /\ SumFunction(DayTimes(S, from, to)) = RangeTime(S, from, to)
<1>1. PICK a, b : /\ IsFiniteSet(S) /\ a \in [S -> Int] /\ b \in [S -> Int]
                  /\ \A x, y : TimeIn(S, x, y, now) = TimeWithin(a, b, x, y)
  BY TrackedWithin
<1>2. PICK zone \in Zone, m \in Nat : zone = cal.zone /\ m = (to - from) + 1 /\ from + m = to + 1
  BY DEF Typed, DataTyped, Calendar
<1>3. PICK e : e = [d \in from..(from + m) |-> DayStartInstant(zone, d)]
  OBVIOUS
<1>4. e \in [from..(from + m) -> Int]
  BY <1>3, DayStartTyped
<1>5. \A d \in from..(from + m - 1) : /\ e[d] <= e[d + 1]
                                      /\ DayTime(S, d) = TimeWithin(a, b, e[d], e[d + 1])
  <2> SUFFICES ASSUME NEW d \in from..(from + m - 1)
               PROVE  e[d] <= e[d + 1] /\ DayTime(S, d) = TimeWithin(a, b, e[d], e[d + 1])
    OBVIOUS
  <2>1. PICK next \in Int : next = d + 1 /\ d < next /\ d \in Int /\ d \in from..(from + m) /\ next \in from..(from + m)
    OBVIOUS
  <2>2. e[d] = DayStartInstant(zone, d) /\ e[next] = DayStartInstant(zone, next) /\ e[d] \in Int /\ e[next] \in Int
    BY <1>3, <1>4, <2>1
  <2>3. DayStartInstant(zone, d) < DayStartInstant(zone, next)
    BY <2>1, DaysInOrder
  <2>4. DayTime(S, d) = TimeIn(S, DayStartInstant(zone, d), DayStartInstant(zone, next), now)
    BY <1>2, <2>1 DEF DayTime, DayBounds
  <2>5. QED
    BY <1>1, <2>1, <2>2, <2>3, <2>4
<1>6. SumFunction([d \in from..(from + m - 1) |-> TimeWithin(a, b, e[d], e[d + 1])])
        = TimeWithin(a, b, e[from], e[from + m])
  BY <1>1, <1>4, <1>5, TimesTelescope
<1>7. /\ DayTimes(S, from, to) = [d \in from..(from + m - 1) |-> TimeWithin(a, b, e[d], e[d + 1])]
      /\ DayTimes(S, from, to) \in [from..to -> Int]
  <2>1. from..(from + m - 1) = from..to
    BY <1>2
  <2>2. ASSUME NEW d \in from..(from + m - 1)
        PROVE  DayTime(S, d) \in Int
    <3>1. Adds(a, b)
      BY <1>1, TimesAdd
    <3>2. PICK next \in Int : next = d + 1 /\ d \in from..(from + m) /\ next \in from..(from + m)
      OBVIOUS
    <3>3. PICK x, y \in Int : x = e[d] /\ y = e[next] /\ x <= y /\ DayTime(S, d) = TimeWithin(a, b, x, y)
      BY <1>4, <1>5, <3>2
    <3>4. \A z \in Int : y <= z => TimeWithin(a, b, x, y) \in Int
      BY <3>1, <3>3 DEF Adds
    <3>5. QED
      BY <3>3, <3>4
  <2>3. QED
    BY <1>5, <2>1, <2>2 DEF DayTimes
<1>8. RangeTime(S, from, to) = TimeWithin(a, b, e[from], e[from + m])
  <2>1. from \in from..(from + m) /\ from + m \in from..(from + m)
    OBVIOUS
  <2>2. e[from] = DayStartInstant(zone, from) /\ e[from + m] = DayStartInstant(zone, to + 1)
    BY <1>2, <1>3, <2>1
  <2>3. RangeTime(S, from, to) = TimeIn(S, DayStartInstant(zone, from), DayStartInstant(zone, to + 1), now)
    BY <1>2 DEF RangeTime, DayBounds
  <2>4. QED
    BY <1>1, <2>2, <2>3
<1>9. QED
  BY <1>6, <1>7, <1>8

(* The time of a range is known by its days, and by its slice.             *)
LEMMA DaysTell ==
    ASSUME EveryDay, ZonesFit, Typed, NEW S \in SUBSET Tracked, NEW from \in Int, NEW to \in Int, from <= to
    PROVE  /\ BucketsOf(S, from, to) \in Int /\ RangeTime(S, from, to) \in Int /\ RangeTotal(S, from, to) \in Int
           /\ (to - from) + 1 \in Nat
           /\ Near(BucketsOf(S, from, to), RangeTime(S, from, to), (to - from) + 1)
           /\ Near(RangeTotal(S, from, to), RangeTime(S, from, to), 1)
<1>1. PICK f, time : f = DayTimes(S, from, to) /\ time = RangeTime(S, from, to) /\ f \in [from..to -> Int]
                     /\ SumFunction(f) = time
  BY DaysAddUp
<1>2. PICK n \in Nat : n = (to - from) + 1 /\ IsFiniteSet(from..to) /\ Cardinality(from..to) = n
  <2>1. (to - from) + 1 \in Nat /\ (IF from > to THEN 0 ELSE to - from + 1) = (to - from) + 1
    OBVIOUS
  <2>2. QED
    BY <2>1, FS_Interval
<1>3. Rounded(f) = [d \in from..to |-> DayBucket(S, d)]
  BY <1>1 DEF Rounded, DayTimes, DayBucket
<1>4. time \in Int /\ BucketsOf(S, from, to) \in Int /\ Near(BucketsOf(S, from, to), time, n)
  BY <1>1, <1>2, <1>3, RoundedSum DEF BucketsOf
<1>5. RangeTotal(S, from, to) = Minutes(time) /\ Minutes(time) \in Int /\ Near(Minutes(time), time, 1)
  BY <1>1, <1>4, MinutesNear DEF RangeTotal
<1>6. QED
  BY <1>1, <1>2, <1>4, <1>5

LEMMA DaysAlwaysMakeUp ==
    ASSUME EveryDay, ZonesFit, Typed, NEW S \in SUBSET Tracked, NEW from \in Int, NEW to \in Int, from <= to
    PROVE  DaysMakeUp(S, from, to)
<1>1. Agree(BucketsOf(S, from, to), (to - from) + 1, RangeTotal(S, from, to), 1)
  <2>1. PICK a, b, time \in Int, n \in Nat : /\ a = BucketsOf(S, from, to) /\ b = RangeTotal(S, from, to)
                                            /\ n = (to - from) + 1 /\ Near(a, time, n) /\ Near(b, time, 1)
    BY DaysTell
  <2>2. 1 \in Nat
    OBVIOUS
  <2>3. Agree(a, n, b, 1)
    BY <2>1, <2>2, NearAgree
  <2>4. QED
    BY <2>1, <2>3
<1>2. SumFunction([d \in from..to |-> DayTime(S, d)]) = RangeTime(S, from, to)
  BY DaysAddUp DEF DayTimes
<1>3. QED
  BY <1>1, <1>2 DEF DaysMakeUp, BucketsOf, Sum

LEMMA OverlapToEnd ==
    \A a, b, x, y, z \in Int : b <= y /\ b <= z => Overlap(a, b, x, y) = Overlap(a, b, x, z)
  BY DEF Overlap, Later, Earlier

(* All the days there are add up to all there is.                          *)
LEMMA AllDays ==
    ASSUME EveryDay, ZonesFit, DatesNeverReturn, BeginsInADay, Typed, SessionsInTime, NEW S \in SUBSET Tracked
    PROVE  AllColumn(S) = RangeTotal(S, CivilDate(cal.zone, 0), CivilDate(cal.zone, Horizon + Tolerance))
<1>1. PICK zone \in Zone, last \in Int : zone = cal.zone /\ last = Horizon + Tolerance
  BY BoundsAssumption DEF Typed, DataTyped, Calendar
<1>2. PICK x, y \in Int : /\ x = DayStartInstant(zone, CivilDate(zone, 0)) /\ x <= 0
                          /\ y = DayStartInstant(zone, CivilDate(zone, last) + 1) /\ last < y
  <2>1. CivilDate(zone, 0) \in Int /\ CivilDate(zone, last) + 1 \in Int
    BY DayStartTyped
  <2>2. DayStartInstant(zone, CivilDate(zone, 0)) \in Int /\ DayStartInstant(zone, CivilDate(zone, last) + 1) \in Int
    BY <2>1, DayStartTyped
  <2>3. DayStartInstant(zone, CivilDate(zone, 0)) <= 0 /\ last < DayStartInstant(zone, CivilDate(zone, last) + 1)
    BY DayHasNotEnded DEF BeginsInADay
  <2>4. QED
    BY <2>2, <2>3
<1>3. \A s \in S : Overlap(session[s].from, EndOf(session[s], now), x, y) = EndOf(session[s], now) - session[s].from
  <2> SUFFICES ASSUME NEW s \in S
               PROVE  Overlap(session[s].from, EndOf(session[s], now), x, y) = EndOf(session[s], now) - session[s].from
    OBVIOUS
  <2>1. session[s] \in SessionRow /\ now \in Int /\ InTime(session[s], now)
    BY BoundsAssumption DEF Typed, DataTyped, Tracked, Opt, SessionsInTime
  <2>2. PICK a, b : a = session[s].from /\ b = EndOf(session[s], now)
    OBVIOUS
  <2>3. a \in Nat /\ b \in Int
    BY <2>1, <2>2 DEF SessionRow, EndOf
  <2>4. a <= b /\ b <= last
    BY <1>1, <2>1, <2>2 DEF InTime
  <2>5. x <= a /\ b <= y
    BY <1>2, <2>3, <2>4
  <2>6. QED
    <3>1. a \in Int
      BY <2>3
    <3>2. Overlap(a, b, x, y) = b - a
      BY <2>3, <2>4, <2>5, <3>1 DEF Overlap, Later, Earlier
    <3>3. QED
      BY <2>2, <3>2
<1>4. RangeTime(S, CivilDate(cal.zone, 0), CivilDate(cal.zone, Horizon + Tolerance)) = TimeIn(S, x, y, now)
  BY <1>1, <1>2 DEF RangeTime, DayBounds
<1>5. AllTime(S) = TimeIn(S, x, y, now)
  BY <1>3 DEF TimeIn, AllTime, Sum
<1>6. QED
  BY <1>4, <1>5 DEF AllColumn, RangeTotal

(* This week's days up to today add up to what the table shows of it.      *)
LEMMA ThisWeek ==
    ASSUME EveryDay, ZonesFit, DatesNeverReturn, Typed, NEW S \in SUBSET Tracked,
           \A s \in S : EndOf(session[s], now) <= now
    PROVE  WeekColumn(S) =
             RangeTotal(S, CivilDate(cal.zone, WeekStartInstant(cal.zone, now, cal.weekStart)), CivilDate(cal.zone, now))
<1>1. PICK zone \in Zone, at \in Int : zone = cal.zone /\ at = now /\ cal.weekStart \in Int
  BY BoundsAssumption DEF Typed, DataTyped, Calendar
<1>2. PICK day, k \in Int : day = CivilDate(zone, at) /\ k = day - ((day - cal.weekStart) % DaysInWeek)
  <2>1. CivilDate(zone, at) \in Int /\ CivilDate(zone, at) - cal.weekStart \in Int
    BY <1>1, DayStartTyped
  <2>2. (CivilDate(zone, at) - cal.weekStart) % DaysInWeek \in Int
    <3>1. PICK d \in Nat \ {0}, x \in Int : d = DaysInWeek /\ x = CivilDate(zone, at) - cal.weekStart
      BY <2>1, CalendarAssumption
    <3>2. x % d \in Nat
      BY Remainder
    <3>3. QED
      BY <3>1, <3>2
  <2>3. QED
    BY <2>1, <2>2
<1>3. PICK x, y \in Int : x = DayStartInstant(zone, k) /\ y = DayStartInstant(zone, day + 1) /\ at < y
  <2>1. at < DayStartInstant(zone, day + 1)
    BY <1>2, DayHasNotEnded
  <2>2. DayStartInstant(zone, k) \in Int /\ DayStartInstant(zone, day + 1) \in Int
    BY DayStartTyped
  <2>3. QED
    BY <2>1, <2>2
<1>4. WeekStartInstant(cal.zone, now, cal.weekStart) = x /\ CivilDate(zone, x) = k
  BY <1>1, <1>2, <1>3, DaysInOrder DEF WeekStartInstant
<1>5. RangeTime(S, k, day) = TimeIn(S, x, y, now) /\ WeekTime(S) = TimeIn(S, x, now, now)
  BY <1>1, <1>3, <1>4 DEF RangeTime, WeekTime, DayBounds
<1>6. \A s \in S : Overlap(session[s].from, EndOf(session[s], now), x, y) = Overlap(session[s].from, EndOf(session[s], now), x, now)
  <2> SUFFICES ASSUME NEW s \in S
               PROVE  Overlap(session[s].from, EndOf(session[s], now), x, y) = Overlap(session[s].from, EndOf(session[s], now), x, now)
    OBVIOUS
  <2>1. session[s] \in SessionRow /\ EndOf(session[s], now) <= now
    BY DEF Typed, DataTyped, Tracked, Opt
  <2>2. PICK a, b : a = session[s].from /\ b = EndOf(session[s], now)
    OBVIOUS
  <2>3. a \in Int /\ b \in Int /\ b <= at /\ b <= y
    <3>1. a \in Int /\ b \in Int
      BY <1>1, <2>1, <2>2 DEF SessionRow, EndOf
    <3>2. b <= at
      BY <1>1, <2>1, <2>2
    <3>3. QED
      BY <1>3, <3>1, <3>2
  <2>4. Overlap(a, b, x, y) = Overlap(a, b, x, at)
    BY <2>3 DEF Overlap, Later, Earlier
  <2>5. QED
    BY <1>1, <2>2, <2>4
<1>7. TimeIn(S, x, y, now) = TimeIn(S, x, now, now)
  BY <1>6 DEF TimeIn, Sum
<1>8. WeekTime(S) = RangeTime(S, k, day)
  BY <1>5, <1>7
<1>9. QED
  BY <1>1, <1>2, <1>4, <1>8 DEF WeekColumn, RangeTotal

(* A sum is the sum of what each owner has of it.                          *)
LEMMA SumByOwner ==
    ASSUME NEW S, IsFiniteSet(S), NEW f \in [S -> Int], NEW U, IsFiniteSet(U), NEW own \in [S -> U]
    PROVE  SumFunction([u \in U |-> SumFunction(Cut(f, {s \in S : own[s] = u}))]) = SumFunction(f)
<1> DEFINE Of(V) == {s \in S : own[s] \in V}
<1>a. ASSUME NEW T \in SUBSET S
      PROVE  SumFunction(Cut(f, T)) \in Int
  BY SumOfCut
<1>1. PICK h : h = [u \in U |-> SumFunction(Cut(f, {s \in S : own[s] = u}))]
  OBVIOUS
<1>2. h \in [U -> Int]
  <2>1. \A u \in U : SumFunction(Cut(f, {s \in S : own[s] = u})) \in Int
    BY <1>a
  <2>2. QED
    BY <1>1, <2>1
<1>b. /\ SumFunction(Cut(h, {})) = 0
      /\ \A V \in SUBSET U : /\ SumFunction(Cut(h, V)) \in Int
                             /\ \A i \in V : SumFunction(Cut(h, V)) = h[i] + SumFunction(Cut(h, V \ {i}))
  BY <1>2, SumOfCut
<1> DEFINE Good == {V \in SUBSET U : SumFunction(Cut(h, V)) = SumFunction(Cut(f, Of(V)))}
<1>3. {} \in Good
  <2>1. Of({}) = {} /\ SumFunction(Cut(f, {})) = 0
    BY SumOfCut
  <2>2. QED
    BY <1>b, <2>1
<1>4. ASSUME NEW V \in SUBSET U, NEW i \in V, V \ {i} \in Good
      PROVE  V \in Good
  <2>1. PICK A, T, B : A = Of(V) /\ T = {s \in S : own[s] = i} /\ B = Of(V \ {i})
    OBVIOUS
  <2>2. A \in SUBSET S /\ A \cap T = T /\ A \ T = B /\ T \in SUBSET A /\ B \in SUBSET A /\ B \in SUBSET S
    BY <2>1
  <2>3. PICK g : g = Cut(f, A)
    OBVIOUS
  <2>4. IsFiniteSet(A) /\ g \in [A -> Int]
    BY <2>2, <2>3, FS_Subset DEF Cut
  <2>5. Cut(g, A \cap T) = Cut(f, T) /\ Cut(g, A \ T) = Cut(f, B)
    BY <2>2, <2>3 DEF Cut
  <2>6. SumFunction(g) = SumFunction(Cut(g, A \cap T)) + SumFunction(Cut(g, A \ T))
    BY <2>4, SumSplits
  <2>7. SumFunction(Cut(h, V)) = h[i] + SumFunction(Cut(h, V \ {i}))
    BY <1>b
  <2>8. SumFunction(Cut(h, V \ {i})) = SumFunction(Cut(f, B))
    BY <1>4, <2>1
  <2>9. h[i] = SumFunction(Cut(f, T))
    BY <1>1, <2>1
  <2>10. SumFunction(Cut(h, V)) = SumFunction(Cut(f, A))
    BY <2>3, <2>5, <2>6, <2>7, <2>8, <2>9
  <2>11. QED
    BY <2>1, <2>10
<1>5. U \in Good
  <2> HIDE DEF Good
  <2>1. QED
    BY <1>3, <1>4, BySubsets
<1>6. Of(U) = S /\ Cut(f, S) = f /\ Cut(h, U) = h
  BY <1>1 DEF Cut
<1>7. QED
  BY <1>1, <1>5, <1>6

LEMMA MembersAddUp ==
    ASSUME EveryDay, Typed, IsFiniteSet(User), NEW p, NEW from \in Int, NEW to \in Int
    PROVE  /\ [u \in User |-> RangeTime(OfMember(u, p), from, to)] \in [User -> Int]
           /\ SumFunction([u \in User |-> RangeTime(OfMember(u, p), from, to)]) = RangeTime(OfGroup(p), from, to)
<1>1. PICK S, x, y : /\ S = OfGroup(p)
                     /\ x = DayStartInstant(cal.zone, from) /\ y = DayBounds(cal.zone, to).end
  OBVIOUS
<1>2. PICK f, own : /\ f = [s \in S |-> Overlap(session[s].from, EndOf(session[s], now), x, y)]
                    /\ own = [s \in S |-> session[s].by]
  OBVIOUS
<1>3. IsFiniteSet(S) /\ own \in [S -> User]
  <2>1. S \in SUBSET Tracked /\ \A s \in S : session[s] \in SessionRow
    BY <1>1 DEF Typed, DataTyped, Tracked, Opt, OfGroup
  <2>2. IsFiniteSet(S)
    BY <2>1, FS_Subset DEF Typed, DataTyped
  <2>3. QED
    BY <1>2, <2>1, <2>2 DEF SessionRow
<1>4. \A u \in User : RangeTime(OfMember(u, p), from, to) = SumFunction(Cut(f, {s \in S : own[s] = u}))
  <2> SUFFICES ASSUME NEW u \in User
               PROVE  RangeTime(OfMember(u, p), from, to) = SumFunction(Cut(f, {s \in S : own[s] = u}))
    OBVIOUS
  <2>1. PICK T : T = {s \in S : own[s] = u}
    OBVIOUS
  <2>2. T = OfMember(u, p)
    BY <1>1, <1>2, <2>1 DEF OfMember
  <2>3. RangeTime(OfMember(u, p), from, to) = TimeIn(T, x, y, now)
    BY <1>1, <2>2 DEF RangeTime
  <2>4. TimeIn(T, x, y, now) = SumFunction([s \in T |-> Overlap(session[s].from, EndOf(session[s], now), x, y)])
    BY DEF TimeIn, Sum
  <2>5. Cut(f, T) = [s \in T |-> Overlap(session[s].from, EndOf(session[s], now), x, y)]
    BY <1>2, <2>1 DEF Cut
  <2>6. QED
    BY <2>1, <2>3, <2>4, <2>5
<1>5. f \in [S -> Int]
  <2>1. x \in Int /\ y \in Int
    <3>1. cal.zone \in Zone /\ to + 1 \in Int
      BY DEF Typed, DataTyped, Calendar
    <3>2. DayStartInstant(cal.zone, from) \in Int /\ DayStartInstant(cal.zone, to + 1) \in Int
      BY <3>1, DayStartTyped
    <3>3. QED
      BY <1>1, <3>2 DEF DayBounds
  <2>2. PICK a, b : /\ IsFiniteSet(S) /\ a \in [S -> Int] /\ b \in [S -> Int]
                    /\ \A s \in S : a[s] = session[s].from /\ b[s] = EndOf(session[s], now)
                    /\ \A i, j : TimeIn(S, i, j, now) = TimeWithin(a, b, i, j)
    <3>1. S \in SUBSET Tracked
      BY <1>1 DEF OfGroup
    <3>2. QED
      BY <3>1, TrackedWithin
  <2>3. \A s \in S : Overlap(session[s].from, EndOf(session[s], now), x, y) \in Int
    <3> SUFFICES ASSUME NEW s \in S
                 PROVE  Overlap(a[s], b[s], x, y) \in Int
      BY <2>2
    <3>1. a[s] \in Int /\ b[s] \in Int
      BY <2>2
    <3>2. \A i, j \in Int : Overlap(i, j, x, y) \in Int
      BY <2>1 DEF Overlap, Later, Earlier
    <3>3. QED
      BY <3>1, <3>2, Zenon
  <2>4. QED
    BY <1>2, <2>3
<1>6. RangeTime(S, from, to) = SumFunction(f)
  BY <1>1, <1>2 DEF RangeTime, TimeIn, Sum
<1>7. PICK h : h = [u \in User |-> RangeTime(OfMember(u, p), from, to)]
               /\ h = [u \in User |-> SumFunction(Cut(f, {s \in S : own[s] = u}))]
  BY <1>4
<1>8. SumFunction(h) = SumFunction(f)
  BY <1>3, <1>5, <1>7, SumByOwner
<1>9. \A u \in User : SumFunction(Cut(f, {s \in S : own[s] = u})) \in Int
  <2>1. \A u \in User : {s \in S : own[s] = u} \in SUBSET S
    OBVIOUS
  <2>2. \A t \in SUBSET S : SumFunction(Cut(f, t)) \in Int
    BY <1>3, <1>5, SumOfCut
  <2>3. QED
    BY <2>1, <2>2
<1>10. QED
  BY <1>1, <1>6, <1>7, <1>8, <1>9

LEMMA MembersTell ==
    ASSUME EveryDay, Typed, IsFiniteSet(User), NEW p, NEW from \in Int, NEW to \in Int
    PROVE  /\ SumFunction([u \in User |-> MemberTotal(u, p, from, to)]) \in Int /\ Cardinality(User) \in Nat
           /\ Near(SumFunction([u \in User |-> MemberTotal(u, p, from, to)]), RangeTime(OfGroup(p), from, to),
                   Cardinality(User))
<1>1. PICK h : h = [u \in User |-> RangeTime(OfMember(u, p), from, to)] /\ h \in [User -> Int]
               /\ SumFunction(h) = RangeTime(OfGroup(p), from, to)
  BY MembersAddUp
<1>2. Rounded(h) = [u \in User |-> MemberTotal(u, p, from, to)]
  BY <1>1 DEF Rounded, MemberTotal, RangeTotal
<1>3. QED
  BY <1>1, <1>2, RoundedSum

(* A group's days hold its members' time, and the figures agree.           *)
GroupAgrees(p, from, to) ==
    /\ Sum(LAMBDA d : DayTime(OfGroup(p), d), from..to) = Sum(LAMBDA u : RangeTime(OfMember(u, p), from, to), User)
    /\ Agree(Sum(LAMBDA d : GroupBucket(p, d), from..to), (to - from) + 1,
             Sum(LAMBDA u : MemberTotal(u, p, from, to), User), Cardinality(User))

LEMMA GroupsAgree ==
    ASSUME EveryDay, ZonesFit, Typed, IsFiniteSet(User), NEW p, NEW from \in Int, NEW to \in Int, from <= to
    PROVE  GroupAgrees(p, from, to)
<1>1. OfGroup(p) \in SUBSET Tracked
  BY DEF OfGroup
<1>2. SumFunction([d \in from..to |-> DayTime(OfGroup(p), d)])
        = SumFunction([u \in User |-> RangeTime(OfMember(u, p), from, to)])
  BY <1>1, DaysAddUp, MembersAddUp DEF DayTimes
<1>3. PICK time, a, b \in Int, m, n \in Nat :
          /\ a = SumFunction([d \in from..to |-> GroupBucket(p, d)]) /\ m = (to - from) + 1 /\ Near(a, time, m)
          /\ b = SumFunction([u \in User |-> MemberTotal(u, p, from, to)]) /\ n = Cardinality(User) /\ Near(b, time, n)
  <2>1. BucketsOf(OfGroup(p), from, to) = SumFunction([d \in from..to |-> GroupBucket(p, d)])
    BY DEF BucketsOf, GroupBucket
  <2>2. PICK a, time \in Int, m \in Nat : /\ a = BucketsOf(OfGroup(p), from, to) /\ time = RangeTime(OfGroup(p), from, to)
                                         /\ m = (to - from) + 1 /\ Near(a, time, m)
    BY <1>1, DaysTell
  <2>3. QED
    BY <2>1, <2>2, MembersTell
<1>4. Agree(a, m, b, n)
  BY <1>3, NearAgree
<1>5. QED
  BY <1>2, <1>3, <1>4 DEF GroupAgrees, Sum

(* The charts of the reports agree: days with totals, all days with all    *)
(* time, the week with the table, and members with their group, exactly in *)
(* the time they tell and but for half a minute a figure in what is shown. *)
THEOREM ReportsAlwaysAgree ==
    ASSUME EveryDay, ZonesFit, DatesNeverReturn, BeginsInADay, IsFiniteSet(User)
    PROVE  Spec => [](FiguresAgree /\ ReportsAgree)
<1> DEFINE first == CivilDate(cal.zone, 0)
           last == CivilDate(cal.zone, Horizon + Tolerance)
           week == CivilDate(cal.zone, WeekStartInstant(cal.zone, now, cal.weekStart))
           today == CivilDate(cal.zone, now)
           ahead == \E s \in Mine : EndOf(session[s], now) > now
<1>1. ASSUME Typed, SessionsInTime
      PROVE  FiguresAgree
  <2>1. first \in Int /\ last \in Int /\ week \in Int /\ today \in Int
    <3>1. cal.zone \in Zone /\ cal.weekStart \in Int /\ now \in Int /\ 0 \in Int /\ Horizon + Tolerance \in Int
      BY <1>1, BoundsAssumption DEF Typed, DataTyped, Calendar
    <3>2. first \in Int /\ last \in Int /\ today \in Int
      BY <3>1, DayStartTyped
    <3>3. today - ((today - cal.weekStart) % DaysInWeek) \in Int
      <4>1. PICK t, w \in Int : t = today /\ w = cal.weekStart
        BY <3>1, <3>2
      <4>2. (t - w) % DaysInWeek \in Int /\ t - w \in Int
        <5>1. PICK d \in Nat \ {0}, x \in Int : d = DaysInWeek /\ x = t - w
          BY CalendarAssumption
        <5>2. x % d \in Nat
          BY Remainder
        <5>3. QED
          BY <5>1, <5>2
      <4>3. QED
        BY <4>1, <4>2
    <3>4. WeekStartInstant(cal.zone, now, cal.weekStart) \in Int
      BY <3>1, <3>3, DayStartTyped DEF WeekStartInstant
    <3>5. QED
      BY <3>1, <3>2, <3>4, DayStartTyped
  <2>2. ASSUME NEW from \in {first, week}, NEW to \in first..last, from <= to, NEW S \in SUBSET Tracked
        PROVE  DaysMakeUp(S, from, to)
    <3>1. from \in Int /\ to \in Int
      BY <2>1
    <3>2. QED
      BY <1>1, <2>2, <3>1, DaysAlwaysMakeUp
  <2>3. \A to \in first..last : Min(first..last) = first /\ Max(first..last) = last
    <3> SUFFICES ASSUME NEW to \in first..last
                 PROVE  Min(first..last) = first /\ Max(first..last) = last
      OBVIOUS
    <3>1. first \in first..last /\ last \in first..last
      BY <2>1
    <3>2. Min(first..last) = first
      <4>1. PICK T, m : T = first..last /\ m = first
        OBVIOUS
      <4>2. T \in SUBSET Int /\ m \in T /\ \A x \in T : m <= x
        BY <2>1, <3>1, <4>1
      <4>3. Min(T) = m
        BY <4>2, MinIs
      <4>4. QED
        BY <4>1, <4>3
    <3>3. Max(first..last) = last
      <4>1. \A y \in first..last : (\A x \in first..last : y >= x) => y = last
        BY <2>1, <3>1
      <4>2. Max(first..last) \in first..last /\ \A x \in first..last : Max(first..last) >= x
        BY <2>1, <3>1 DEF Max
      <4>3. QED
        BY <4>1, <4>2, Zenon
    <3>4. QED
      BY <3>2, <3>3
  <2>4. ASSUME NEW S \in SUBSET Tracked
        PROVE  AllColumn(S) = RangeTotal(S, first, last)
    BY <1>1, AllDays
  <2>5. ASSUME NEW S \in SUBSET Mine, ~ahead
        PROVE  WeekColumn(S) = RangeTotal(S, week, today)
    <3>1. S \in SUBSET Tracked /\ \A s \in S : EndOf(session[s], now) <= now
      <4>1. S \in SUBSET Tracked
        BY DEF Mine
      <4>2. ASSUME NEW s \in S
            PROVE  EndOf(session[s], now) <= now
        <5>1. session[s] \in SessionRow /\ now \in Int /\ ~(EndOf(session[s], now) > now)
          BY <1>1, <2>5, <4>1, BoundsAssumption DEF Typed, DataTyped, Tracked, Opt
        <5>2. EndOf(session[s], now) \in Int
          BY <5>1 DEF SessionRow, EndOf
        <5>3. QED
          BY <5>1, <5>2
      <4>3. QED
        BY <4>1, <4>2
    <3>2. QED
      BY <1>1, <3>1, ThisWeek
  <2>6. ASSUME NEW from \in {first, week}, NEW to \in first..last, from <= to, NEW p \in Project
        PROVE  GroupAgrees(p, from, to)
    <3>1. from \in Int /\ to \in Int
      BY <2>1
    <3>2. QED
      BY <1>1, <2>6, <3>1, GroupsAgree
  <2>7. \A from \in {Min(first..last), week}, to \in first..last : from <= to => from \in {first, week}
    BY <2>3
  <2> HIDE DEF first, last, week, today, ahead
  <2>8. ASSUME NEW from \in {first, week}, NEW to \in first..last, from <= to, NEW c \in Task
        PROVE  /\ DaysMakeUp(OfTask(c), from, to)
               /\ from = first /\ to = last => AllColumn(OfTask(c)) = RangeTotal(OfTask(c), from, to)
               /\ from = week /\ to = today /\ ~ahead => WeekColumn(OfTask(c)) = RangeTotal(OfTask(c), from, to)
    <3>1. PICK S : S = OfTask(c) /\ S \in SUBSET Tracked /\ S \in SUBSET Mine
      BY DEF OfTask, Mine
    <3>2. DaysMakeUp(S, from, to)
      BY <2>2, <2>8, <3>1
    <3>3. from = first /\ to = last => AllColumn(S) = RangeTotal(S, from, to)
      BY <2>4, <3>1
    <3>4. from = week /\ to = today /\ ~ahead => WeekColumn(S) = RangeTotal(S, from, to)
      BY <2>5, <3>1
    <3>5. QED
      BY <3>1, <3>2, <3>3, <3>4
  <2>9. ASSUME NEW from \in {first, week}, NEW to \in first..last, from <= to, NEW p \in Project
        PROVE  DaysMakeUp(OfProject(p), from, to) /\ GroupAgrees(p, from, to)
    <3>1. OfProject(p) \in SUBSET Tracked
      BY DEF OfProject, Mine
    <3>2. QED
      BY <2>2, <2>6, <2>9, <3>1
  <2>10. \A from \in {Min(first..last), week}, to \in first..last : from <= to =>
            /\ \A c \in Task :
                  /\ DaysMakeUp(OfTask(c), from, to)
                  /\ from = Min(first..last) /\ to = Max(first..last)
                        => AllColumn(OfTask(c)) = RangeTotal(OfTask(c), from, to)
                  /\ from = week /\ to = today /\ ~ahead => WeekColumn(OfTask(c)) = RangeTotal(OfTask(c), from, to)
            /\ \A p \in Project : DaysMakeUp(OfProject(p), from, to) /\ GroupAgrees(p, from, to)
    <3> SUFFICES ASSUME NEW from \in {Min(first..last), week}, NEW to \in first..last, from <= to
                 PROVE  /\ \A c \in Task :
                              /\ DaysMakeUp(OfTask(c), from, to)
                              /\ from = Min(first..last) /\ to = Max(first..last)
                                    => AllColumn(OfTask(c)) = RangeTotal(OfTask(c), from, to)
                              /\ from = week /\ to = today /\ ~ahead
                                    => WeekColumn(OfTask(c)) = RangeTotal(OfTask(c), from, to)
                        /\ \A p \in Project : DaysMakeUp(OfProject(p), from, to) /\ GroupAgrees(p, from, to)
      OBVIOUS
    <3>1. from \in {first, week} /\ Min(first..last) = first /\ Max(first..last) = last
      BY <2>3, <2>7
    <3>2. QED
      BY <2>8, <2>9, <3>1
  <2>11. QED
    BY <2>10 DEF FiguresAgree, GroupAgrees, first, last, week, today, ahead
<1>2. FiguresAgree => ReportsAgree
  BY DEF ReportsAgree
<1>3. Spec => [](Typed /\ SessionsInTime)
  BY AlwaysInTime
<1>4. QED
  BY <1>1, <1>2, <1>3, PTL

-----------------------------------------------------------------------------
(* Streaks.  The statistics fold over the periods, the last one first.     *)
Stats == [periods : Nat, met : Nat, current : Nat, best : Nat, total : Int, over : Nat]

StatsFold(direction, p, it) ==
    it = [s \in SUBSET (DOMAIN p) |->
             IF s = {} THEN NoStats ELSE CountedIn(direction, it[s \ {Max(s)}], p[Max(s)])]

LEMMA StatsIs ==
    \A direction, p : GoalStats(direction, p) = (CHOOSE it : StatsFold(direction, p, it))[DOMAIN p]
  BY DEF GoalStats, FoldLeft, MapThenFoldSet, StatsFold

LEMMA CountedTyped ==
    ASSUME NEW direction, NEW st \in Stats, NEW w, w.actual \in Int
    PROVE  CountedIn(direction, st, w) \in Stats
<1> DEFINE met == WindowMet(direction, w)
           run == IF met THEN st.current + 1 ELSE 0
<1>1. /\ st.periods + 1 \in Nat /\ st.met + 1 \in Nat /\ st.met \in Nat /\ run \in Nat /\ Later(st.best, run) \in Nat
      /\ st.total + w.actual \in Int /\ st.over + 1 \in Nat /\ st.over \in Nat
  BY DEF Stats, Later
<1>2. Counted(st, w, met) =
          [st EXCEPT !.periods = st.periods + 1, !.met = IF met THEN st.met + 1 ELSE st.met,
                     !.total = st.total + w.actual, !.over = IF w.actual > w.target THEN st.over + 1 ELSE st.over,
                     !.current = run, !.best = Later(st.best, run)]
  BY DEF Counted
<1>3. Counted(st, w, met) \in Stats
  <2> HIDE DEF run, met
  <2>1. QED
    BY <1>1, <1>2 DEF Stats
<1>4. QED
  BY <1>3 DEF CountedIn

Recount(st, periods, met, total, over, run, best) ==
    [st EXCEPT !.periods = periods, !.met = met, !.total = total, !.over = over, !.current = run, !.best = best]

(* What a period does to the streaks.                                      *)
LEMMA CountedStreak ==
    ASSUME NEW direction, NEW st \in Stats, NEW w
    PROVE  /\ w.elapsed =>
                /\ CountedIn(direction, st, w).current = IF WindowMet(direction, w) THEN st.current + 1 ELSE 0
                /\ CountedIn(direction, st, w).best
                     = Later(st.best, IF WindowMet(direction, w) THEN st.current + 1 ELSE 0)
           /\ ~w.elapsed => CountedIn(direction, st, w) = st
<1>1. \A a, b, c, d, e, f : Recount(st, a, b, c, d, e, f).current = e /\ Recount(st, a, b, c, d, e, f).best = f
  BY DEF Recount, Stats
<1>2. PICK met, run : met = WindowMet(direction, w) /\ run = IF WindowMet(direction, w) THEN st.current + 1 ELSE 0
  OBVIOUS
<1>3. w.elapsed => CountedIn(direction, st, w)
          = Recount(st, st.periods + 1, IF met THEN st.met + 1 ELSE st.met, st.total + w.actual,
                    IF w.actual > w.target THEN st.over + 1 ELSE st.over, run, Later(st.best, run))
  BY <1>2 DEF Counted, CountedIn, Recount
<1>4. ~w.elapsed => CountedIn(direction, st, w) = st
  BY DEF CountedIn
<1>5. w.elapsed => CountedIn(direction, st, w).current = run /\ CountedIn(direction, st, w).best = Later(st.best, run)
  BY <1>1, <1>3
<1>6. QED
  BY <1>2, <1>4, <1>5

LEMMA GreatestOf ==
    ASSUME NEW S \in SUBSET Int, NEW m \in S, \A x \in S : x <= m
    PROVE  Max(S) = m
<1>1. \A y \in S : (\A x \in S : y >= x) => y = m
  OBVIOUS
<1>2. Max(S) \in S /\ \A x \in S : Max(S) >= x
  <2>1. \A x \in S : m >= x
    OBVIOUS
  <2>2. QED
    BY <2>1 DEF Max
<1>3. QED
  BY <1>1, <1>2, Zenon

LEMMA GreatestIn ==
    ASSUME NEW L \in Nat, NEW s \in SUBSET (1..L), s # {}
    PROVE  Max(s) \in s
<1> DEFINE Good == {k \in 0..L : s \cap (1..k) # {} => \E m \in s : \A x \in s \cap (1..k) : x <= m}
<1>1. 0 \in Good
  OBVIOUS
<1>2. ASSUME NEW k \in 1..L, k - 1 \in Good
      PROVE  k \in Good
  <2>1. CASE k \in s
    <3>1. \A x \in s \cap (1..k) : x <= k
      OBVIOUS
    <3>2. QED
      BY <2>1, <3>1
  <2>2. CASE k \notin s
    <3>1. s \cap (1..k) = s \cap (1..(k - 1))
      BY <2>2
    <3>2. QED
      BY <1>2, <3>1
  <2>3. QED
    BY <2>1, <2>2
<1>3. L \in Good
  <2> HIDE DEF Good
  <2>1. QED
    BY <1>1, <1>2, ByNumbers
<1>4. PICK m \in s : \A x \in s : x <= m
  BY <1>3
<1>5. Max(s) = m
  BY <1>4, GreatestOf
<1>6. QED
  BY <1>5

LEMMA StatsFoldExists ==
    ASSUME NEW direction, NEW p, NEW L \in Nat, DOMAIN p = 1..L, \A n \in 1..L : p[n].actual \in Int
    PROVE  \E it : StatsFold(direction, p, it)
<1> DEFINE S == 1..L
           pick == [s \in SUBSET S |-> Max(s)]
           step == [n \in S |-> [st \in Stats |-> CountedIn(direction, st, p[n])]]
<1>1. IsFiniteSet(S) /\ NoStats \in Stats
  BY FS_Interval DEF NoStats, Stats
<1>2. \A s \in SUBSET S : pick[s] = Max(s) /\ (s # {} => pick[s] \in s)
  BY GreatestIn
<1>3. step \in [S -> [Stats -> Stats]] /\ \A n \in S, st \in Stats : step[n][st] = CountedIn(direction, st, p[n])
  BY CountedTyped
<1> HIDE DEF pick, step
<1>4. PICK it \in [SUBSET S -> Stats] : Folds(S, pick, NoStats, step, it)
  <2> HIDE DEF S
  <2>1. QED
    BY <1>1, <1>2, <1>3, FoldExists
<1>5. ASSUME NEW s \in SUBSET S
      PROVE  it[s] = IF s = {} THEN NoStats ELSE CountedIn(direction, it[s \ {Max(s)}], p[Max(s)])
  <2>1. it[s] = IF s = {} THEN NoStats ELSE step[pick[s]][it[s \ {pick[s]}]]
    BY <1>4 DEF Folds
  <2>2. pick[s] = Max(s) /\ (s # {} => Max(s) \in S) /\ it[s \ {Max(s)}] \in Stats
    BY <1>2
  <2>3. QED
    BY <1>3, <2>1, <2>2
<1>6. StatsFold(direction, p, it)
  BY <1>4, <1>5 DEF StatsFold
<1>7. QED
  BY <1>6

Counting(direction, p, L, st) ==
    /\ st \in [0..L -> Stats] /\ st[0] = NoStats /\ GoalStats(direction, p) = st[L]
    /\ \A n \in 1..L : st[n] = CountedIn(direction, st[n - 1], p[n])

LEMMA StatsSteps ==
    ASSUME NEW direction, NEW p, NEW L \in Nat, DOMAIN p = 1..L, \A n \in 1..L : p[n].actual \in Int
    PROVE  \E st : Counting(direction, p, L, st)
<1>1. PICK it : StatsFold(direction, p, it) /\ GoalStats(direction, p) = it[1..L]
  <2>1. \E it : StatsFold(direction, p, it)
    BY StatsFoldExists
  <2>2. StatsFold(direction, p, CHOOSE it : StatsFold(direction, p, it))
    BY <2>1
  <2>3. GoalStats(direction, p) = (CHOOSE it : StatsFold(direction, p, it))[DOMAIN p]
    BY StatsIs
  <2>4. QED
    BY <2>2, <2>3
<1>2. \A s \in SUBSET (1..L) : it[s] = IF s = {} THEN NoStats ELSE CountedIn(direction, it[s \ {Max(s)}], p[Max(s)])
  BY <1>1 DEF StatsFold
<1> DEFINE st == [n \in 0..L |-> it[1..n]]
<1>3. st[0] = NoStats /\ st[L] = it[1..L]
  <2>1. 1..0 = {} /\ {} \in SUBSET (1..L) /\ 0 \in 0..L /\ L \in 0..L
    OBVIOUS
  <2>2. QED
    BY <1>2, <2>1
<1>4. ASSUME NEW n \in 1..L
      PROVE  st[n] = CountedIn(direction, st[n - 1], p[n])
  <2>1. n \in 1..n /\ 1..n \in SUBSET (1..L) /\ 1..n # {} /\ n \in 0..L /\ n - 1 \in 0..L /\ (1..n) \ {n} = 1..(n - 1)
    <3>1. n \in 1..n /\ n \in 0..L /\ n - 1 \in 0..L
      OBVIOUS
    <3>2. 1..n \in SUBSET (1..L)
      OBVIOUS
    <3>3. (1..n) \ {n} = 1..(n - 1)
      BY WithoutLast
    <3>4. QED
      BY <3>1, <3>2, <3>3
  <2>2. Max(1..n) = n
    <3>1. 1..n \in SUBSET Int /\ \A x \in 1..n : x <= n
      OBVIOUS
    <3>2. PICK T : T = 1..n
      OBVIOUS
    <3>3. QED
      BY <2>1, <3>1, <3>2, GreatestOf
  <2>3. it[1..n] = CountedIn(direction, it[1..(n - 1)], p[n])
    BY <1>2, <2>1, <2>2
  <2>4. QED
    BY <2>1, <2>3
<1>5. st \in [0..L -> Stats]
  <2> DEFINE Good == {n \in 0..L : st[n] \in Stats}
  <2>1. NoStats \in Stats
    BY DEF NoStats, Stats
  <2> SUFFICES ASSUME NEW m \in 0..L
               PROVE  st[m] \in Stats
    OBVIOUS
  <2> HIDE DEF st
  <2>2. 0 \in Good
    BY <1>3, <2>1
  <2>3. ASSUME NEW k \in 1..m, k - 1 \in Good
        PROVE  k \in Good
    <3>1. k \in 1..L /\ k \in 0..L /\ st[k - 1] \in Stats /\ p[k].actual \in Int
      BY <2>3
    <3>2. st[k] \in Stats
      BY <1>4, <3>1, CountedTyped
    <3>3. QED
      BY <3>1, <3>2
  <2>4. m \in Good
    <3>1. m \in Nat
      OBVIOUS
    <3> HIDE DEF Good
    <3>2. QED
      BY <2>2, <2>3, <3>1, ByNumbers
  <2>5. QED
    BY <2>4
<1>6. QED
  <2> HIDE DEF st
  <2>1. QED
    BY <1>1, <1>3, <1>4, <1>5 DEF Counting

LEMMA TimeTyped ==
    ASSUME NEW spans, SpansTyped(spans), NEW scope, NEW at \in Nat, NEW x \in Int, NEW y \in Int
    PROVE  TimeOf(spans, scope, x, y, at) \in Int
<1>1. PICK S, a, b : /\ IsFiniteSet(S) /\ a \in [S -> Int] /\ b \in [S -> Int]
                     /\ IsWithin(spans, scope, at, a, b)
  BY TimeIsWithin
<1>2. PICK f : f = [s \in S |-> Overlap(a[s], b[s], x, y)]
  OBVIOUS
<1>3. f \in [S -> Int]
  <2>1. \A i, j \in Int : Overlap(i, j, x, y) \in Int
    BY DEF Overlap, Later, Earlier
  <2>2. \A s \in S : a[s] \in Int /\ b[s] \in Int
    BY <1>1
  <2>3. \A s \in S : Overlap(a[s], b[s], x, y) \in Int
    BY <2>1, <2>2, Zenon
  <2>4. QED
    BY <1>2, <2>3
<1>4. TimeOf(spans, scope, x, y, at) = SumFunction(f)
  BY <1>1, <1>2 DEF IsWithin, TimeWithin
<1>5. QED
  BY <1>1, <1>3, <1>4, SumTyped

(* The periods that are over are all but at most the last.                 *)
LEMMA PeriodsOver ==
    ASSUME EveryDay, ZonesFit, NEW g \in GoalRow, NEW data, data.cal \in Calendar, SpansTyped(data.spans), NEW at \in Nat
    PROVE  \E L \in Nat : \E E \in 0..L :
              /\ DOMAIN Progress(g, data, at) = 1..L
              /\ \A n \in 1..L : /\ Progress(g, data, at)[n].elapsed <=> n <= E
                                 /\ Progress(g, data, at)[n].actual \in Int
<1>0. PICK created, high, end \in Int : created = g.created /\ end = GoalEnd(g) /\ high = GoalHorizon(g, at) /\ high <= at
  <2>1. g.created \in Int /\ GoalEnd(g) \in Int /\ at \in Int
    BY GoalEndIs DEF GoalRow
  <2>2. GoalHorizon(g, at) \in Int /\ GoalHorizon(g, at) <= at
    BY <2>1, EarlierTyped DEF GoalHorizon
  <2>3. QED
    BY <2>1, <2>2
<1>1. PICK v, p : v = GoalWindows(g, data.cal, at) /\ p = Progress(g, data, at)
  OBVIOUS
<1>2. DOMAIN p = DOMAIN v /\ \A n \in DOMAIN v : /\ p[n].elapsed = v[n].elapsed
          /\ p[n].actual = Minutes(TimeOf(data.spans, g.scope, Later(v[n].start, created),
                                          Earlier(v[n].end, high), at))
  <2>1. \A w, actual : Figures(w, actual).actual = actual /\ Figures(w, actual).elapsed = w.elapsed
    BY DEF Figures
  <2>2. QED
    BY <1>0, <1>1, <2>1, ProgressIs
<1>3. CASE high <= created
  <2>1. v = << >>
    BY <1>0, <1>1, <1>3, WindowsAre
  <2>2. DOMAIN p = 1..0 /\ 0 \in Nat /\ 0 \in 0..0 /\ \A n \in 1..0 : FALSE
    BY <1>2, <2>1
  <2>3. QED
    BY <1>1, <2>2
<1>4. CASE created < high
  <2>1. PICK w : w = Bounds(g.period, g.created, data.cal) /\ Tiles(w)
    <3>1. g.period \in Period /\ g.created \in Int
      BY DEF GoalRow, Period
    <3>2. QED
      BY <3>1, PeriodsTile
  <2>2. PICK L : L = Cardinality(Open(g, w, at))
    OBVIOUS
  <2>3. v = [n \in 1..L |-> Window(g, w[n], at)]
    <3>1. ~(GoalHorizon(g, at) <= g.created)
      BY <1>0, <1>4
    <3>2. v = [n \in 1..Cardinality(Open(g, Bounds(g.period, g.created, data.cal), at))
                |-> Window(g, Bounds(g.period, g.created, data.cal)[n], at)]
      BY <1>1, <3>1, WindowsAre
    <3>3. QED
      BY <2>1, <2>2, <3>2
  <2>4. Open(g, w, at) = 1..L /\ L \in 0..MaxWindows /\ MaxWindows \in Nat
    <3>1. at \in Int /\ GoalHorizon(g, at) \in Int /\ MaxWindows \in Nat
      BY <1>0, WindowsAssumption
    <3>2. QED
      BY <2>1, <2>2, <3>1, OpenPeriods
  <2>5. \A n \in 1..L : w[n].start \in Int /\ w[n].end \in Int /\ (n # 1 => w[n].start = w[n - 1].end)
    BY <2>1, <2>4 DEF Tiles
  <2>6. \A n \in 1..L : v[n].start = w[n].start /\ v[n].end = w[n].end
                        /\ (v[n].elapsed <=> Earlier(w[n].end, end) <= at)
    BY <1>0, <2>3 DEF Window, Elapsed
  <2>7. ASSUME NEW n \in 1..L
        PROVE  p[n].actual \in Int
    <3>1. PICK from, to \in Int : from = Later(v[n].start, created) /\ to = Earlier(v[n].end, high)
      <4>1. v[n].start \in Int /\ v[n].end \in Int
        BY <2>5, <2>6
      <4>2. QED
        BY <1>0, <4>1, EarlierTyped
    <3>2. p[n].actual = Minutes(TimeOf(data.spans, g.scope, from, to, at))
      BY <1>2, <2>3, <3>1
    <3>3. TimeOf(data.spans, g.scope, from, to, at) \in Int
      BY TimeTyped
    <3>4. QED
      BY <3>2, <3>3, MinutesNear
  <2>8. ASSUME NEW n \in 1..L, n # L
        PROVE  v[n].elapsed
    <3>1. n + 1 \in 1..L /\ n + 1 # 1 /\ (n + 1) - 1 = n
      BY <2>4, <2>8
    <3>2. w[n + 1].start = w[n].end /\ w[n].end \in Int
      BY <2>5, <3>1
    <3>3. w[n + 1].start < high
      BY <1>0, <2>4, <3>1 DEF Open
    <3>4. PICK e \in Int : e = w[n].end /\ e <= at
      BY <1>0, <3>2, <3>3
    <3>5. Earlier(e, end) <= at
      BY <1>0, <3>4 DEF Earlier
    <3>6. QED
      BY <2>6, <3>4, <3>5
  <2>9. PICK E \in 0..L : \A n \in 1..L : v[n].elapsed <=> n <= E
    <3>1. CASE L = 0
      <4>1. 0 \in 0..L /\ \A n \in 1..L : FALSE
        BY <3>1
      <4>2. QED
        BY <4>1
    <3>2. CASE L # 0 /\ v[L].elapsed
      <4>1. L \in 0..L /\ \A n \in 1..L : v[n].elapsed /\ n <= L
        BY <2>4, <2>8, <3>2
      <4>2. QED
        BY <4>1
    <3>3. CASE L # 0 /\ ~v[L].elapsed
      <4>1. L - 1 \in 0..L /\ \A n \in 1..L : n <= L - 1 <=> n # L
        BY <2>4, <3>3
      <4>2. \A n \in 1..L : v[n].elapsed <=> n # L
        BY <2>8, <3>3
      <4>3. QED
        BY <4>1, <4>2
    <3>4. QED
      BY <3>1, <3>2, <3>3
  <2>10. DOMAIN p = 1..L /\ L \in Nat /\ \A n \in 1..L : (p[n].elapsed <=> n <= E) /\ p[n].actual \in Int
    BY <1>2, <2>3, <2>4, <2>7, <2>9
  <2>11. QED
    BY <1>1, <2>10
<1>5. high <= created \/ created < high
  BY <1>0
<1>6. QED
  BY <1>3, <1>4, <1>5

(* c periods up to e have been met in a row, and b is the longest such run.*)
Streak(met, e, c, b) ==
    /\ c \in 0..e /\ ((e - c) + 1)..e \subseteq met /\ (c < e => e - c \notin met)
    /\ b \in 0..e /\ (b = 0 \/ \E i, j \in 1..e : i <= j /\ i..j \subseteq met /\ (j - i) + 1 = b)
    /\ \A i, j \in 1..e : i <= j /\ i..j \subseteq met => (j - i) + 1 <= b

LEMMA StreakBegins == ASSUME NEW met PROVE Streak(met, 0, 0, 0)
  BY DEF Streak

LEMMA StreakGrows ==
    ASSUME NEW met, NEW e \in Nat, NEW c, NEW b, Streak(met, e, c, b)
    PROVE  /\ e + 1 \in met => Streak(met, e + 1, c + 1, Later(b, c + 1))
           /\ e + 1 \notin met => Streak(met, e + 1, 0, Later(b, 0))
<1>1. /\ c \in 0..e /\ ((e - c) + 1)..e \subseteq met /\ (c < e => e - c \notin met)
      /\ b \in 0..e /\ (b = 0 \/ \E i, j \in 1..e : i <= j /\ i..j \subseteq met /\ (j - i) + 1 = b)
      /\ \A i, j \in 1..e : i <= j /\ i..j \subseteq met => (j - i) + 1 <= b
  BY DEF Streak
<1>2. ASSUME NEW i \in 1..(e + 1), NEW j \in 1..(e + 1), i <= j, i..j \subseteq met, j # e + 1
      PROVE  (j - i) + 1 <= b
  <2>1. i \in 1..e /\ j \in 1..e
    BY <1>2
  <2>2. QED
    BY <1>1, <1>2, <2>1
<1>3. ASSUME b # 0
      PROVE  \E i, j \in 1..(e + 1) : i <= j /\ i..j \subseteq met /\ (j - i) + 1 = b
  <2>1. PICK i, j \in 1..e : i <= j /\ i..j \subseteq met /\ (j - i) + 1 = b
    BY <1>1, <1>3
  <2>2. i \in 1..(e + 1) /\ j \in 1..(e + 1)
    OBVIOUS
  <2>3. QED
    BY <2>1, <2>2
<1>4. ASSUME e + 1 \in met
      PROVE  Streak(met, e + 1, c + 1, Later(b, c + 1))
  <2>1. PICK m : m = Later(b, c + 1)
    OBVIOUS
  <2>2. m \in 0..(e + 1) /\ b <= m /\ c + 1 <= m /\ (m = b \/ m = c + 1)
    BY <1>1, <2>1 DEF Later
  <2>3. ((e - c) + 1)..(e + 1) \subseteq met
    <3> SUFFICES ASSUME NEW n \in ((e - c) + 1)..(e + 1)
                 PROVE  n \in met
      OBVIOUS
    <3>1. CASE n = e + 1
      BY <1>4, <3>1
    <3>2. CASE n # e + 1
      <4>1. n \in ((e - c) + 1)..e
        BY <1>1, <3>2
      <4>2. QED
        BY <1>1, <4>1
    <3>3. QED
      BY <3>1, <3>2
  <2>4. (e + 1) - (c + 1) = e - c
    BY <1>1
  <2>5. m = 0 \/ \E i, j \in 1..(e + 1) : i <= j /\ i..j \subseteq met /\ (j - i) + 1 = m
    <3>1. CASE m = b
      BY <1>3, <3>1
    <3>2. CASE m = c + 1
      <4>1. PICK i, j \in 1..(e + 1) : i = (e - c) + 1 /\ j = e + 1
        BY <1>1
      <4>2. i <= j /\ (j - i) + 1 = m /\ i..j \subseteq met
        BY <1>1, <2>3, <3>2, <4>1
      <4>3. QED
        BY <4>1, <4>2
    <3>3. QED
      BY <2>2, <3>1, <3>2
  <2>6. ASSUME NEW i \in 1..(e + 1), NEW j \in 1..(e + 1), i <= j, i..j \subseteq met
        PROVE  (j - i) + 1 <= m
    <3>1. CASE j # e + 1
      <4>1. (j - i) + 1 <= b
        BY <1>2, <2>6, <3>1
      <4>2. QED
        BY <1>1, <2>2, <4>1
    <3>2. CASE j = e + 1
      <4>1. ~(c < e /\ i <= e - c)
        <5>1. c < e /\ i <= e - c => e - c \in i..j
          BY <1>1, <3>2
        <5>2. QED
          BY <1>1, <2>6, <5>1
      <4>2. (j - i) + 1 <= c + 1
        BY <1>1, <3>2, <4>1
      <4>3. QED
        BY <1>1, <2>2, <4>2
    <3>3. QED
      BY <3>1, <3>2
  <2>7. c + 1 \in 0..(e + 1) /\ (c + 1 < e + 1 => c < e)
    BY <1>1
  <2>8. Streak(met, e + 1, c + 1, m)
    BY <1>1, <2>2, <2>3, <2>4, <2>5, <2>6, <2>7 DEF Streak
  <2>9. QED
    BY <2>1, <2>8
<1>5. ASSUME e + 1 \notin met
      PROVE  Streak(met, e + 1, 0, Later(b, 0))
  <2>1. Later(b, 0) = b
    BY <1>1 DEF Later
  <2>2. ((e + 1) - 0) + 1 > e + 1 /\ (e + 1) - 0 = e + 1 /\ b \in 0..(e + 1) /\ 0 \in 0..(e + 1)
    BY <1>1
  <2>3. ASSUME NEW i \in 1..(e + 1), NEW j \in 1..(e + 1), i <= j, i..j \subseteq met
        PROVE  (j - i) + 1 <= b
    <3>1. j = e + 1 => e + 1 \in i..j
      BY <2>3
    <3>2. QED
      BY <1>2, <1>5, <2>3, <3>1
  <2>4. (((e + 1) - 0) + 1)..(e + 1) \subseteq met
    BY <2>2
  <2>5. b = 0 \/ \E i, j \in 1..(e + 1) : i <= j /\ i..j \subseteq met /\ (j - i) + 1 = b
    BY <1>3
  <2>6. Streak(met, e + 1, 0, b)
    BY <1>5, <2>2, <2>3, <2>4, <2>5 DEF Streak
  <2>7. QED
    BY <2>1, <2>6
<1>6. QED
  BY <1>4, <1>5

LEMMA StreaksOf ==
    ASSUME NEW direction, NEW p, NEW L \in Nat, NEW E \in 0..L, DOMAIN p = 1..L,
           \A n \in 1..L : (p[n].elapsed <=> n <= E) /\ p[n].actual \in Int
    PROVE  Streak({n \in 1..E : WindowMet(direction, p[n])}, E,
                  GoalStats(direction, p).current, GoalStats(direction, p).best)
<1> DEFINE met == {n \in 1..E : WindowMet(direction, p[n])}
<1>1. PICK st \in [0..L -> Stats] :
              /\ st[0] = NoStats /\ GoalStats(direction, p) = st[L]
              /\ \A n \in 1..L : st[n] = CountedIn(direction, st[n - 1], p[n])
  <2>1. \A n \in 1..L : p[n].actual \in Int
    OBVIOUS
  <2>2. \E st : Counting(direction, p, L, st)
    BY <2>1, StatsSteps
  <2>3. QED
    BY <2>2 DEF Counting
<1>2. \A n \in 1..L : n - 1 \in 0..L /\ st[n - 1] \in Stats
  BY <1>1
<1>3. \A n \in 1..L : /\ n <= E => /\ st[n].current = IF n \in met THEN st[n - 1].current + 1 ELSE 0
                                   /\ st[n].best = Later(st[n - 1].best, IF n \in met THEN st[n - 1].current + 1 ELSE 0)
                      /\ ~(n <= E) => st[n] = st[n - 1]
  <2> SUFFICES ASSUME NEW n \in 1..L
               PROVE  /\ n <= E => /\ st[n].current = IF n \in met THEN st[n - 1].current + 1 ELSE 0
                                   /\ st[n].best = Later(st[n - 1].best, IF n \in met THEN st[n - 1].current + 1 ELSE 0)
                      /\ ~(n <= E) => st[n] = st[n - 1]
    OBVIOUS
  <2>1. st[n] = CountedIn(direction, st[n - 1], p[n]) /\ st[n - 1] \in Stats /\ (p[n].elapsed <=> n <= E)
    BY <1>1, <1>2
  <2>2. n <= E => (n \in met <=> WindowMet(direction, p[n]))
    OBVIOUS
  <2> HIDE DEF met
  <2>3. QED
    BY <2>1, <2>2, CountedStreak
<1> DEFINE Upto == {n \in 0..E : Streak(met, n, st[n].current, st[n].best)}
           Same == {d \in 0..(L - E) : st[E + d] = st[E]}
<1> HIDE DEF met
<1>4. 0 \in Upto
  <2>1. NoStats.current = 0 /\ NoStats.best = 0 /\ 0 \in 0..E
    BY DEF NoStats
  <2>2. QED
    BY <1>1, <2>1, StreakBegins
<1>5. ASSUME NEW k \in 1..E, k - 1 \in Upto
      PROVE  k \in Upto
  <2>1. PICK e \in Nat : e = k - 1 /\ e + 1 = k
    OBVIOUS
  <2>2. k \in 1..L /\ k <= E /\ k \in 0..E
    OBVIOUS
  <2>3. PICK c, b : c = st[k - 1].current /\ b = st[k - 1].best
    OBVIOUS
  <2>4. Streak(met, e, c, b)
    BY <1>5, <2>1, <2>3
  <2>5. /\ st[k].current = IF k \in met THEN c + 1 ELSE 0
        /\ st[k].best = Later(b, IF k \in met THEN c + 1 ELSE 0)
    BY <1>3, <2>2, <2>3
  <2>6. /\ e + 1 \in met => Streak(met, e + 1, c + 1, Later(b, c + 1))
        /\ e + 1 \notin met => Streak(met, e + 1, 0, Later(b, 0))
    BY <2>4, StreakGrows
  <2>7. CASE k \in met
    <3>1. st[k].current = c + 1 /\ st[k].best = Later(b, c + 1) /\ Streak(met, k, c + 1, Later(b, c + 1))
      BY <2>1, <2>5, <2>6, <2>7
    <3>2. QED
      BY <2>2, <3>1
  <2>8. CASE k \notin met
    <3>1. st[k].current = 0 /\ st[k].best = Later(b, 0) /\ Streak(met, k, 0, Later(b, 0))
      BY <2>1, <2>5, <2>6, <2>8
    <3>2. QED
      BY <2>2, <3>1
  <2>9. QED
    BY <2>7, <2>8
<1>6. E \in Upto
  <2>1. E \in Nat
    OBVIOUS
  <2> HIDE DEF Upto
  <2>2. QED
    BY <1>4, <1>5, <2>1, ByNumbers
<1>7. 0 \in Same
  OBVIOUS
<1>8. ASSUME NEW k \in 1..(L - E), k - 1 \in Same
      PROVE  k \in Same
  <2>1. PICK n \in 1..L : n = E + k /\ n - 1 = E + (k - 1) /\ ~(n <= E)
    OBVIOUS
  <2>2. st[n] = st[n - 1] /\ st[n - 1] = st[E]
    BY <1>3, <1>8, <2>1
  <2>3. QED
    BY <2>1, <2>2
<1>9. L - E \in Same
  <2>1. L - E \in Nat
    OBVIOUS
  <2> HIDE DEF Same
  <2>2. QED
    BY <1>7, <1>8, <2>1, ByNumbers
<1>10. st[L] = st[E]
  <2>1. E + (L - E) = L
    OBVIOUS
  <2>2. QED
    BY <1>9, <2>1
<1>11. QED
  BY <1>1, <1>6, <1>10 DEF met

(* The lengths of the runs that end with one of `ends`.                    *)
Lengths(met, periods, ends) ==
    {0} \cup {Cardinality(r) : r \in {i..j : i \in periods, j \in ends} \cap SUBSET met}

Longest(met, L, ends, m) ==
    /\ m = 0 \/ \E i \in 1..L, j \in ends : i <= j /\ i..j \subseteq met /\ (j - i) + 1 = m
    /\ \A i \in 1..L, j \in ends : i <= j /\ i..j \subseteq met => (j - i) + 1 <= m

LEMMA LengthsAre ==
    ASSUME NEW L \in Nat, NEW met \in SUBSET (1..L), NEW ends \in SUBSET (1..L), NEW m \in Nat,
           Longest(met, L, ends, m)
    PROVE  m = Max(Lengths(met, 1..L, ends))
<1>0. /\ m = 0 \/ \E i \in 1..L, j \in ends : i <= j /\ i..j \subseteq met /\ (j - i) + 1 = m
      /\ \A i \in 1..L, j \in ends : i <= j /\ i..j \subseteq met => (j - i) + 1 <= m
  BY DEF Longest
<1>1. \A i, j \in 1..L : Cardinality(i..j) = IF i <= j THEN (j - i) + 1 ELSE 0
  <2> SUFFICES ASSUME NEW i \in 1..L, NEW j \in 1..L
               PROVE  Cardinality(i..j) = IF i <= j THEN (j - i) + 1 ELSE 0
    OBVIOUS
  <2>1. Cardinality(i..j) = IF i > j THEN 0 ELSE (j - i) + 1
    BY FS_Interval
  <2>2. QED
    BY <2>1
<1>2. m \in Lengths(met, 1..L, ends)
  <2>1. CASE m = 0
    BY <2>1 DEF Lengths
  <2>2. CASE m # 0
    <3>1. PICK i \in 1..L, j \in ends : i <= j /\ i..j \subseteq met /\ (j - i) + 1 = m
      BY <1>0, <2>2
    <3>2. j \in 1..L
      OBVIOUS
    <3>3. PICK r : r = i..j
      OBVIOUS
    <3>4. Cardinality(r) = m /\ r \in {x..y : x \in 1..L, y \in ends} \cap SUBSET met
      BY <1>1, <3>1, <3>2, <3>3
    <3>5. QED
      BY <3>4 DEF Lengths
  <2>3. QED
    BY <2>1, <2>2
<1>3. ASSUME NEW n \in Lengths(met, 1..L, ends)
      PROVE  n \in Int /\ n <= m
  <2>1. CASE n = 0
    BY <2>1
  <2>2. CASE n # 0
    <3>1. PICK r \in {i..j : i \in 1..L, j \in ends} \cap SUBSET met : n = Cardinality(r)
      BY <2>2 DEF Lengths
    <3>2. PICK i \in 1..L, j \in ends : r = i..j
      BY <3>1
    <3>3. j \in 1..L /\ i..j \subseteq met
      BY <3>1, <3>2
    <3>4. n = IF i <= j THEN (j - i) + 1 ELSE 0
      BY <1>1, <3>1, <3>2, <3>3
    <3>5. i <= j /\ n = (j - i) + 1
      BY <2>2, <3>4
    <3>6. (j - i) + 1 <= m
      BY <1>0, <3>3, <3>5
    <3>7. QED
      BY <3>3, <3>5, <3>6
  <2>3. QED
    BY <2>1, <2>2
<1>4. PICK S : S = Lengths(met, 1..L, ends)
  OBVIOUS
<1>5. S \in SUBSET Int /\ m \in S /\ \A n \in S : n <= m
  BY <1>2, <1>3, <1>4
<1>6. QED
  BY <1>4, <1>5, GreatestOf

LEMMA StreakIs ==
    ASSUME NEW L \in Nat, NEW E \in 0..L, NEW met \in SUBSET (1..E), NEW c, NEW b, Streak(met, E, c, b)
    PROVE  /\ b = Max(Lengths(met, 1..L, 1..E))
           /\ c = Max(Lengths(met, 1..L, {n \in 1..E : n + 1 \notin 1..E}))
<1>1. /\ c \in 0..E /\ ((E - c) + 1)..E \subseteq met /\ (c < E => E - c \notin met)
      /\ b \in 0..E /\ (b = 0 \/ \E i, j \in 1..E : i <= j /\ i..j \subseteq met /\ (j - i) + 1 = b)
      /\ \A i, j \in 1..E : i <= j /\ i..j \subseteq met => (j - i) + 1 <= b
  BY DEF Streak
<1>2. \A i \in 1..L, j \in 1..E : i <= j => i \in 1..E
  OBVIOUS
<1>3. met \in SUBSET (1..L) /\ 1..E \in SUBSET (1..L) /\ b \in Nat /\ c \in Nat
  BY <1>1
<1>4. b = Max(Lengths(met, 1..L, 1..E))
  <2>1. b = 0 \/ \E i \in 1..L, j \in 1..E : i <= j /\ i..j \subseteq met /\ (j - i) + 1 = b
    <3>1. 1..E \subseteq 1..L
      OBVIOUS
    <3>2. QED
      BY <1>1, <3>1, Zenon
  <2>2. \A i \in 1..L, j \in 1..E : i <= j /\ i..j \subseteq met => (j - i) + 1 <= b
    BY <1>1, <1>2
  <2>3. Longest(met, L, 1..E, b)
    BY <2>1, <2>2 DEF Longest
  <2>4. QED
    BY <1>3, <2>3, LengthsAre
<1>5. c = Max(Lengths(met, 1..L, {n \in 1..E : n + 1 \notin 1..E}))
  <2>1. PICK ends : ends = {n \in 1..E : n + 1 \notin 1..E}
    OBVIOUS
  <2>2. ends \in SUBSET (1..L) /\ \A n \in ends : n = E /\ n \in 1..E
    BY <2>1
  <2>3. c = 0 \/ \E i \in 1..L, j \in ends : i <= j /\ i..j \subseteq met /\ (j - i) + 1 = c
    <3>1. CASE c # 0
      <4>1. E \in ends
        BY <1>1, <2>1, <3>1
      <4>2. PICK i \in 1..L : i = (E - c) + 1
        BY <1>1, <3>1
      <4>3. i <= E /\ i..E \subseteq met /\ (E - i) + 1 = c
        BY <1>1, <3>1, <4>2
      <4>4. QED
        BY <4>1, <4>3
    <3>2. QED
      BY <3>1
  <2>4. ASSUME NEW i \in 1..L, NEW j \in ends, i <= j, i..j \subseteq met
        PROVE  (j - i) + 1 <= c
    <3>1. j = E /\ i \in 1..E
      BY <2>2, <2>4
    <3>2. c < E /\ i <= E - c => E - c \in i..j
      BY <1>1, <3>1
    <3>3. ~(c < E /\ i <= E - c)
      BY <1>1, <2>4, <3>2
    <3>4. QED
      BY <1>1, <3>1, <3>3
  <2>5. Longest(met, L, ends, c)
    BY <2>3, <2>4 DEF Longest
  <2>6. QED
    BY <1>3, <2>1, <2>2, <2>5, LengthsAre
<1>6. QED
  BY <1>4, <1>5

Over(ws) == {n \in DOMAIN ws : ws[n].elapsed}
MetIn(direction, ws) == {n \in Over(ws) : WindowMet(direction, ws[n])}

StreaksFit(direction, ws) ==
    /\ GoalStats(direction, ws).best = Max(Lengths(MetIn(direction, ws), DOMAIN ws, Over(ws)))
    /\ GoalStats(direction, ws).current
         = Max(Lengths(MetIn(direction, ws), DOMAIN ws, {n \in Over(ws) : n + 1 \notin Over(ws)}))

(* The streaks of a goal's statistics, which one pass over its periods     *)
(* counts (goalStats), are the longest run of periods that are over and    *)
(* were met, and the run that reaches the last of them.                    *)
THEOREM StreaksAreAlwaysRuns == ASSUME EveryDay, ZonesFit PROVE Spec => []StreaksAreRuns
<1>1. ASSUME Typed, NEW g \in Stored
      PROVE  StreaksFit(goal[g].direction, Progress(goal[g], Data, now))
  <2>1. goal[g] \in GoalRow /\ now \in Nat
    BY <1>1, BoundsAssumption DEF Stored, Typed, GoalsTyped, DataTyped, Opt
  <2>2. PICK row, data, at, direction, ws :
           /\ row = goal[g] /\ data = Data /\ at = now /\ direction = row.direction
           /\ ws = Progress(row, data, at)
    OBVIOUS
  <2>3. row \in GoalRow /\ at \in Nat /\ data.cal \in Calendar /\ SpansTyped(data.spans)
    BY <1>1, <2>1, <2>2, DataIs, DataSpans
  <2>4. PICK L \in Nat : \E E \in 0..L :
              /\ DOMAIN Progress(row, data, at) = 1..L
              /\ \A n \in 1..L : /\ Progress(row, data, at)[n].elapsed <=> n <= E
                                 /\ Progress(row, data, at)[n].actual \in Int
    BY <2>3, PeriodsOver
  <2>5. PICK E \in 0..L : DOMAIN ws = 1..L /\ \A n \in 1..L : (ws[n].elapsed <=> n <= E) /\ ws[n].actual \in Int
    BY <1>1, <2>2, <2>4
  <2>6. Over(ws) = 1..E
    BY <2>5 DEF Over
  <2>7. PICK met : /\ met = MetIn(direction, ws) /\ met = {n \in 1..E : WindowMet(direction, ws[n])}
                   /\ met \in SUBSET (1..E)
    BY <2>6 DEF MetIn
  <2>8. PICK c, b : c = GoalStats(direction, ws).current /\ b = GoalStats(direction, ws).best
    OBVIOUS
  <2>9. Streak(met, E, c, b)
    BY <2>5, <2>7, <2>8, StreaksOf
  <2>10. /\ b = Max(Lengths(met, 1..L, 1..E))
         /\ c = Max(Lengths(met, 1..L, {n \in 1..E : n + 1 \notin 1..E}))
    BY <2>7, <2>9, StreakIs
  <2>11. StreaksFit(direction, ws)
    BY <2>5, <2>6, <2>7, <2>8, <2>10 DEF StreaksFit
  <2>12. QED
    BY <2>2, <2>11
<1>2. Typed => StreaksAreRuns
  <2> SUFFICES ASSUME Typed, NEW g \in Stored, NEW ws \in {Progress(goal[g], Data, now)}
               PROVE  StreaksAre(goal[g].direction, ws)
    BY DEF StreaksAreRuns
  <2>1. StreaksFit(goal[g].direction, ws)
    BY <1>1
  <2>2. QED
    BY <2>1 DEF StreaksFit, StreaksAre, Over, MetIn, Lengths
<1>3. QED
  BY <1>2, AlwaysFollows, PTL DEF Spec
=============================================================================
