---------------------- MODULE TrajectoryPlannerProofs ----------------------
(***************************************************************************)
(* Theorems about TrajectoryPlanner, for any number of robots, any         *)
(* distances and any sequence of rounds: turns are right, two robots that  *)
(* are close do not both advance, one of them does, and nobody waits for   *)
(* ever.                                                                   *)
(*                                                                         *)
(* Where an argument takes the first or the greatest of several indices it *)
(* uses Least, that a set of naturals has a least element, which also does *)
(* duty for induction on an index.                                         *)
(***************************************************************************)
EXTENDS HelloTrajectoryPlanner, FiniteSetTheorems, SequenceTheorems, WellFoundedInduction, TLAPS

-----------------------------------------------------------------------------
(* Least and greatest.                                                     *)

LEMMA Least ==
  ASSUME NEW T \in SUBSET Nat, T # {}
  PROVE  \E m \in T : \A k \in T : m <= k
  <1> DEFINE U == {0..n : n \in T}
  <1>1. U \subseteq FiniteSubsetsOf(Nat)
    <2> SUFFICES ASSUME NEW n \in T PROVE 0..n \in FiniteSubsetsOf(Nat)
        OBVIOUS
    <2>1. n \in Int /\ 0 \in Int /\ 0..n \in SUBSET Nat
      OBVIOUS
    <2> QED
      BY <2>1, FS_Interval, Zenon DEF FiniteSubsetsOf
  <1>2. U # {}
    OBVIOUS
  <1>3. PICK s \in U : \A y \in U : ~ (<<y, s>> \in StrictSubsetOrdering(Nat))
    BY <1>1, <1>2, FS_StrictSubsetOrderingWellFounded, WFMin
  <1>4. PICK m \in T : s = 0..m
    BY <1>3
  <1>5. ASSUME NEW k \in T, k < m PROVE FALSE
    <2>1. 0..k \in U /\ 0..k \in SUBSET Nat /\ 0..m \in SUBSET Nat
      BY <1>5
    <2>2. 0..k \subseteq 0..m /\ m \in 0..m /\ m \notin 0..k
      BY <1>5
    <2>3. <<0..k, 0..m>> \in StrictSubsetOrdering(Nat)
      BY <2>1, <2>2 DEF StrictSubsetOrdering
    <2> QED
      BY <1>3, <1>4, <2>1, <2>3
  <1> QED
    BY <1>4, <1>5

LEMMA OneMore ==
  ASSUME NEW n \in Nat, NEW S, \A i \in S : i \in 1..n
  PROVE  \A m \in 1..n : {i \in S : i <= m} = {i \in S : i <= m - 1} \cup (S \cap {m})
  OBVIOUS

\* Of finitely many indices one has the greatest value.
LEMMA Greatest ==
  ASSUME NEW n \in Nat, NEW S, \A i \in S : i \in 1..n, S # {}, NEW f \in [S -> Nat]
  PROVE  \E k \in S : \A j \in S : f[j] <= f[k]
  <1> DEFINE Upto(m) == {j \in S : j <= m}
             HasGreatest(m) == \E k \in Upto(m) : \A j \in Upto(m) : f[j] <= f[k]
             Bad == {m \in 1..n : Upto(m) # {} /\ ~HasGreatest(m)}
  <1>1. \A i \in S : i \in Nat /\ 1 <= i /\ i <= n /\ f[i] \in Nat
    OBVIOUS
  <1>2. Bad = {}
    <2> SUFFICES ASSUME Bad # {} PROVE FALSE
        OBVIOUS
    <2>1. PICK m \in Bad : \A k \in Bad : m <= k
      <3>1. Bad \in SUBSET Nat
        OBVIOUS
      <3> HIDE DEF Bad
      <3> QED
        BY <3>1, Least
    <2>2. m \in 1..n /\ m \in Nat /\ Upto(m) # {} /\ ~HasGreatest(m)
      BY <2>1
    <2>3. Upto(m) = Upto(m - 1) \cup (S \cap {m})
      BY <2>2, OneMore
    <2>4. Upto(m - 1) # {}
      <3> SUFFICES ASSUME Upto(m - 1) = {} PROVE FALSE
          OBVIOUS
      <3>1. m \in Upto(m) /\ \A j \in Upto(m) : j = m
        BY <2>2, <2>3
      <3>2. \A j \in Upto(m) : f[j] <= f[m]
        BY <1>1, <3>1
      <3> QED
        BY <2>2, <3>1, <3>2, Zenon
    <2>5. m - 1 \in 1..n
      BY <1>1, <2>2, <2>4
    <2>6. HasGreatest(m - 1)
      <3>1. m - 1 \notin Bad
        <4> HIDE DEF Bad
        <4> QED
          BY <2>1, <2>2
      <3> QED
        BY <2>4, <2>5, <3>1
    <2>7. PICK k \in Upto(m - 1) : \A j \in Upto(m - 1) : f[j] <= f[k]
      BY <2>6, Zenon
    <2>8. k \in Upto(m) /\ k \in S
      BY <2>3, <2>7
    <2>9. CASE m \in S /\ f[k] < f[m]
      <3>1. m \in Upto(m) /\ \A j \in Upto(m) : f[j] <= f[m]
        BY <1>1, <2>2, <2>3, <2>7, <2>8, <2>9
      <3> QED
        BY <2>2, <3>1, Zenon
    <2>10. CASE ~(m \in S /\ f[k] < f[m])
      <3>1. \A j \in Upto(m) : f[j] <= f[k]
        BY <1>1, <2>2, <2>3, <2>7, <2>8, <2>10
      <3> QED
        BY <2>2, <2>8, <3>1, Zenon
    <2> QED
      BY <2>9, <2>10
  <1>3. PICK e \in S : TRUE
    OBVIOUS
  <1>4. n \in 1..n /\ Upto(n) = S
    BY <1>1, <1>3
  <1>5. HasGreatest(n)
    BY <1>2, <1>4
  <1> QED
    BY <1>4, <1>5

-----------------------------------------------------------------------------
(* The ids of the lists Plan is given.                                     *)

Rising(f, n) == f \in [1..n -> Nat] /\ \A j, k \in 1..n : j < k => f[j] < f[k]

\* What one rising row has at k cannot be missing from another that has been
\* the same up to there.
LEMMA NotBelow ==
  ASSUME NEW n \in Nat, NEW m \in Nat, NEW f, NEW g, Rising(f, n), Rising(g, m),
         \A i \in 1..n : \E j \in 1..m : g[j] = f[i],
         NEW k \in 1..n, k \in 1..m, \A j \in 1..(k - 1) : f[j] = g[j]
  PROVE  g[k] <= f[k]
  <1> SUFFICES ASSUME ~(g[k] <= f[k]) PROVE FALSE
      OBVIOUS
  <1>1. f[k] \in Nat /\ g[k] \in Nat /\ f[k] < g[k]
    BY DEF Rising
  <1>2. PICK j \in 1..m : g[j] = f[k]
    OBVIOUS
  <1>3. CASE j < k
    <2>1. j \in 1..(k - 1) /\ j \in 1..n
      BY <1>3
    <2>2. f[j] < f[k] /\ f[j] = g[j]
      BY <1>3, <2>1 DEF Rising
    <2> QED
      BY <1>1, <1>2, <2>2
  <1>4. CASE k < j
    <2>1. g[k] < g[j]
      BY <1>4 DEF Rising
    <2> QED
      BY <1>1, <1>2, <2>1
  <1> QED
    BY <1>1, <1>2, <1>3, <1>4

\* ... so two rising rows of the same numbers are the same.
LEMMA SameRising ==
  ASSUME NEW n \in Nat, NEW m \in Nat, NEW f, NEW g, Rising(f, n), Rising(g, m),
         {f[i] : i \in 1..n} = {g[j] : j \in 1..m}
  PROVE  n = m /\ f = g
  <1>0. /\ \A i \in 1..n : \E j \in 1..m : g[j] = f[i]
        /\ \A j \in 1..m : \E i \in 1..n : f[i] = g[j]
    BY Zenon
  <1> DEFINE Bad == {k \in (1..n) \cap (1..m) : f[k] # g[k]}
  <1>1. Bad = {}
    <2> SUFFICES ASSUME Bad # {} PROVE FALSE
        OBVIOUS
    <2>1. PICK k \in Bad : \A j \in Bad : k <= j
      <3>1. Bad \in SUBSET Nat
        OBVIOUS
      <3> HIDE DEF Bad
      <3> QED
        BY <3>1, Least
    <2>2. k \in 1..n /\ k \in 1..m /\ f[k] # g[k]
      BY <2>1
    <2>3. \A j \in 1..(k - 1) : f[j] = g[j]
      BY <2>1, <2>2
    <2>4. g[k] <= f[k]
      BY <1>0, <2>2, <2>3, NotBelow
    <2>5. f[k] <= g[k]
      BY <1>0, <2>2, <2>3, NotBelow
    <2> QED
      BY <2>2, <2>4, <2>5 DEF Rising
  <1>2. \A k \in (1..n) \cap (1..m) : f[k] = g[k]
    BY <1>1
  <1>3. ASSUME n < m PROVE FALSE
    <2>1. PICK i \in 1..n : f[i] = g[n + 1]
      BY <1>0, <1>3
    <2>2. i \in 1..m /\ i < n + 1 /\ n + 1 \in 1..m
      BY <1>3
    <2>3. g[i] < g[n + 1] /\ g[i] = f[i] /\ g[i] \in Nat
      BY <1>2, <2>2 DEF Rising
    <2> QED
      BY <2>1, <2>3
  <1>4. ASSUME m < n PROVE FALSE
    <2>1. PICK i \in 1..m : g[i] = f[m + 1]
      BY <1>0, <1>4
    <2>2. i \in 1..n /\ i < m + 1 /\ m + 1 \in 1..n
      BY <1>4
    <2>3. f[i] < f[m + 1] /\ g[i] = f[i] /\ f[i] \in Nat
      BY <1>2, <2>2 DEF Rising
    <2> QED
      BY <2>1, <2>3
  <1>5. n = m
    BY <1>3, <1>4
  <1>6. f = g
    BY <1>2, <1>5 DEF Rising
  <1> QED
    BY <1>5, <1>6

-----------------------------------------------------------------------------
(* The lists.                                                              *)

Ids(a) == [k \in 1..Len(a) |-> a[k].id]
List(a) == Len(a) \in Nat /\ DOMAIN a = 1..Len(a) /\ Rising(Ids(a), Len(a))

LEMMA RobotsAreNumbers == Robot \subseteq Nat
  BY PlannerAssumption, Zenon DEF PlannerAssumption

LEMMA InfoList ==
  ASSUME NEW a \in Seq(Info), Ascending(a)
  PROVE  /\ List(a)
         /\ \A k \in DOMAIN a : /\ a[k].id \in Robot /\ a[k].pos \in Point
                                /\ a[k].theta \in 0..(CIRCLE - 1)
  <1>1. Len(a) \in Nat /\ DOMAIN a = 1..Len(a)
    BY LenProperties, Zenon
  <1>2. \A k \in 1..Len(a) : a[k] \in Info
    BY ElementOfSeq, Zenon
  <1>3. \A i \in Info : i.id \in Robot /\ i.pos \in Point /\ i.theta \in 0..(CIRCLE - 1)
    BY DEF Info
  <1>4. \A k \in DOMAIN a : a[k].id \in Robot
    BY <1>1, <1>2, <1>3, Zenon
  <1>5. \A k \in 1..Len(a) : a[k].id \in Nat
    BY <1>1, <1>4, RobotsAreNumbers, Zenon
  <1>6. Rising(Ids(a), Len(a))
    BY <1>1, <1>5, Zenon DEF Rising, Ids, Ascending
  <1> QED
    BY <1>1, <1>2, <1>3, <1>6, Zenon DEF List

LEMMA TargetList ==
  ASSUME NEW a \in Seq(Target), Ascending(a)
  PROVE  /\ List(a)
         /\ \A k \in DOMAIN a : a[k].id \in Robot /\ a[k].pos \in Point
  <1>1. Len(a) \in Nat /\ DOMAIN a = 1..Len(a)
    BY LenProperties, Zenon
  <1>2. \A k \in 1..Len(a) : a[k] \in Target
    BY ElementOfSeq, Zenon
  <1>3. \A i \in Target : i.id \in Robot /\ i.pos \in Point
    BY DEF Target
  <1>4. \A k \in DOMAIN a : a[k].id \in Robot
    BY <1>1, <1>2, <1>3, Zenon
  <1>5. \A k \in 1..Len(a) : a[k].id \in Nat
    BY <1>1, <1>4, RobotsAreNumbers, Zenon
  <1>6. Rising(Ids(a), Len(a))
    BY <1>1, <1>5, Zenon DEF Rising, Ids, Ascending
  <1> QED
    BY <1>1, <1>2, <1>3, <1>6, Zenon DEF List

\* What Plan is given is typed and in order; so is the input of no round.
Inputs == Calls \cup {NoCall}

LEMMA InputsAreLists ==
  ASSUME NEW c \in Inputs
  PROVE  /\ c.info \in Seq(Info) /\ c.targets \in Seq(Target)
         /\ Ascending(c.info) /\ Ascending(c.targets)
         /\ List(c.info) /\ List(c.targets)
         /\ Len(c.info) <= Slots /\ Len(c.targets) <= Slots
  <1>1. CASE c \in Calls
    <2>1. c \in [info : Seq(Info), targets : Seq(Target)]
      BY <1>1, PlannerAssumption, Zenon DEF PlannerAssumption
    <2>2. c.info \in Seq(Info) /\ c.targets \in Seq(Target)
      BY <2>1
    <2>3. /\ Ascending(c.info) /\ Ascending(c.targets)
          /\ Len(c.info) <= Slots /\ Len(c.targets) <= Slots
      BY <1>1, PlannerAssumption, Zenon DEF PlannerAssumption
    <2> QED
      BY <2>2, <2>3, InfoList, TargetList, Zenon
  <1>2. CASE c = NoCall
    <2>1. c.info = <<>> /\ c.targets = <<>>
      BY <1>2 DEF NoCall
    <2>2. <<>> \in Seq(Info) /\ <<>> \in Seq(Target) /\ Len(<<>>) = 0 /\ Ascending(<<>>)
      BY DEF Ascending
    <2>3. Slots \in Nat
      BY PlannerAssumption, Zenon DEF PlannerAssumption
    <2>4. Len(<<>>) <= Slots
      BY <2>2, <2>3
    <2> QED
      BY <2>1, <2>2, <2>4, InfoList, TargetList, Zenon
  <1> QED
    BY <1>1, <1>2 DEF Inputs

\* Two lists of the same ids have the same id at each index.
LEMMA SameIds ==
  ASSUME NEW a, NEW b, List(a), List(b), IdsOf(a) = IdsOf(b)
  PROVE  Len(a) = Len(b) /\ \A k \in DOMAIN a : a[k].id = b[k].id
  <1>1. PICK f, g, n, m : f = Ids(a) /\ g = Ids(b) /\ n = Len(a) /\ m = Len(b)
    OBVIOUS
  <1>2. n \in Nat /\ m \in Nat /\ DOMAIN a = 1..n /\ DOMAIN b = 1..m
    BY <1>1, Zenon DEF List
  <1>3. Rising(f, n) /\ Rising(g, m)
    BY <1>1, Zenon DEF List
  <1>4. /\ \A i \in 1..n : f[i] = a[i].id
        /\ \A i \in 1..m : g[i] = b[i].id
    BY <1>1, Zenon DEF Ids
  <1>5. IdsOf(a) = {f[i] : i \in 1..n} /\ IdsOf(b) = {g[j] : j \in 1..m}
    BY <1>2, <1>4 DEF IdsOf
  <1>7. n = m /\ f = g
    BY <1>2, <1>3, <1>5, SameRising, Zenon
  <1>8. \A k \in DOMAIN a : a[k].id = b[k].id
    BY <1>2, <1>4, <1>7, Zenon
  <1> QED
    BY <1>1, <1>7, <1>8

\* An id is at one index of a list.
LEMMA OneIndex ==
  ASSUME NEW a, List(a), NEW j \in DOMAIN a, NEW k \in DOMAIN a, a[j].id = a[k].id
  PROVE  j = k
  <1> DEFINE f == Ids(a)
             n == Len(a)
  <1>1. n \in Nat /\ j \in 1..n /\ k \in 1..n /\ Rising(f, n)
    BY Zenon DEF List
  <1>2. f[j] = f[k]
    BY <1>1, Zenon DEF Ids
  <1> HIDE DEF f, n
  <1>3. f[j] \in Nat /\ (j < k => f[j] < f[k]) /\ (k < j => f[k] < f[j])
    BY <1>1 DEF Rising
  <1> QED
    BY <1>1, <1>2, <1>3

-----------------------------------------------------------------------------
(* One round.                                                              *)

LEMMA ConstantTypes ==
  /\ CIRCLE \in Nat /\ CIRCLE # 0 /\ CIRCLE % 4 = 0
  /\ Slots \in Nat /\ wait_max_number \in Nat /\ min_dis \in Nat /\ Origin \in Point
  <1>1. /\ CIRCLE \in Nat \ {0} /\ CIRCLE % 4 = 0
        /\ Slots \in Nat /\ wait_max_number \in Nat /\ min_dis \in Nat /\ Origin \in Point
    BY PlannerAssumption, Zenon DEF PlannerAssumption
  <1> QED
    BY <1>1

LEMMA DistanceTypes ==
  /\ \A p, q \in Point : Dist[p][q] \in Nat
  /\ \A p, q \in Point : Dist[p][q] = Dist[q][p]
  /\ \A p, q \in Point : Bearing[p][q] \in 0..(CIRCLE - 1)
  <1>1. /\ Dist \in [Point -> [Point -> Nat]]
        /\ \A p, q \in Point : Dist[p][q] = Dist[q][p]
        /\ Bearing \in [Point -> [Point -> 0..(CIRCLE - 1)]]
    BY PlannerAssumption, Zenon DEF PlannerAssumption
  <1> QED
    BY <1>1

\* Reset finds one of the farthest targets.
LEMMA FarthestIsPoint ==
  ASSUME NEW c \in Inputs, max_dis \in Point
  PROVE  Farthest(c.targets) \in Point
  <1>1. PICK t : t = c.targets
    OBVIOUS
  <1>2. PICK n \in Nat : DOMAIN t = 1..n /\ \A k \in 1..n : t[k].pos \in Point
    BY <1>1, InputsAreLists, TargetList, Zenon DEF List
  <1>3. PICK away : away = {k \in DOMAIN t : Dist[Origin][t[k].pos] > 0}
    OBVIOUS
  <1>4. PICK d : d = [k \in away |-> Dist[Origin][t[k].pos]]
    OBVIOUS
  <1>5. /\ \A k \in away : k \in 1..n
        /\ d \in [away -> Nat]
    <2>1. \A k \in away : k \in 1..n
      BY <1>2, <1>3
    <2>2. \A k \in away : Dist[Origin][t[k].pos] \in Nat
      BY <1>2, <2>1, DistanceTypes, ConstantTypes, Zenon
    <2> QED
      BY <1>4, <2>1, <2>2
  <1>6. PICK far : far = {k \in away : \A j \in away :
                            d[j] < d[k] \/ (d[j] = d[k] /\ k <= j)}
    OBVIOUS
  <1>7. Farthest(t) = IF away = {} THEN max_dis ELSE t[CHOOSE k \in far : TRUE].pos
    <2>1. far = {k \in away : \A j \in away :
                   LET dk == Dist[Origin][t[k].pos]
                       dj == Dist[Origin][t[j].pos]
                   IN  dj < dk \/ (dj = dk /\ k <= j)}
      BY <1>4, <1>6
    <2> QED
      BY <1>3, <2>1 DEF Farthest
  <1>8. ASSUME away # {} PROVE far # {}
    <2>1. PICK g \in away : \A j \in away : d[j] <= d[g]
      BY <1>5, <1>8, Greatest
    <2>2. PICK top : top = {k \in away : d[k] = d[g]}
      OBVIOUS
    <2>3. top \in SUBSET Nat /\ top # {}
      BY <1>5, <2>1, <2>2
    <2>4. PICK k \in top : \A j \in top : k <= j
      BY <2>3, Least
    <2>5. k \in away /\ \A j \in away : d[j] < d[k] \/ (d[j] = d[k] /\ k <= j)
      BY <1>5, <2>1, <2>2, <2>4
    <2> QED
      BY <1>6, <2>5
  <1>9. CASE away = {}
    BY <1>1, <1>7, <1>9
  <1>10. CASE away # {}
    <2>1. (CHOOSE k \in far : TRUE) \in far
      BY <1>8, <1>10
    <2>2. (CHOOSE k \in far : TRUE) \in 1..n
      BY <1>5, <1>6, <2>1
    <2> QED
      BY <1>1, <1>2, <1>7, <1>10, <2>2, Zenon
  <1> QED
    BY <1>9, <1>10

\* A robot waits exactly if one of the pairs too close says so.
LEMMA WaitsCount ==
  ASSUME NEW a, List(a), NEW far, NEW k
  PROVE  /\ Waits(a, far, k) \in Nat
         /\ Waits(a, far, k) > 0 <=> \E p \in TooClose(a) : Yields(a, far, p) = k
  <1> DEFINE W == {p \in TooClose(a) : Yields(a, far, p) = k}
  <1>1. IsFiniteSet(DOMAIN a)
    <2>1. Len(a) \in Int /\ 1 \in Int /\ DOMAIN a = 1..Len(a)
      BY DEF List
    <2> QED
      BY <2>1, FS_Interval, Zenon
  <1>2. IsFiniteSet((DOMAIN a) \X (DOMAIN a))
    BY <1>1, FS_Product, Zenon
  <1>3. W \in SUBSET ((DOMAIN a) \X (DOMAIN a))
    BY Zenon DEF TooClose
  <1>4. IsFiniteSet(W)
    BY <1>2, <1>3, FS_Subset, Zenon
  <1>5. Cardinality(W) \in Nat /\ (Cardinality(W) = 0 <=> W = {})
    BY <1>4, FS_CardinalityType, FS_EmptySet, Zenon
  <1>6. Waits(a, far, k) = Cardinality(W)
    BY Zenon DEF Waits
  <1> HIDE DEF W
  <1>7. Waits(a, far, k) \in Nat /\ (Waits(a, far, k) > 0 <=> W # {})
    BY <1>5, <1>6
  <1> QED
    BY <1>7, Zenon DEF W

\* Of a pair too close the first comes first in the list, too.
LEMMA PairsInOrder ==
  ASSUME NEW a, List(a), NEW p \in TooClose(a)
  PROVE  /\ p[1] \in DOMAIN a /\ p[2] \in DOMAIN a /\ p = <<p[1], p[2]>>
         /\ p[1] < p[2] /\ a[p[1]].id < a[p[2]].id
  <1>1. /\ p[1] \in DOMAIN a /\ p[2] \in DOMAIN a /\ p = <<p[1], p[2]>>
        /\ a[p[1]].id < a[p[2]].id
    BY DEF TooClose
  <1>2. PICK f, n, i, j : f = Ids(a) /\ n = Len(a) /\ i = p[1] /\ j = p[2]
    OBVIOUS
  <1>3. n \in Nat /\ i \in 1..n /\ j \in 1..n /\ Rising(f, n)
    BY <1>1, <1>2, Zenon DEF List
  <1>4. f[i] = a[i].id /\ f[j] = a[j].id
    BY <1>2, <1>3, Zenon DEF Ids
  <1>5. f[i] < f[j]
    BY <1>1, <1>2, <1>4, Zenon
  <1>6. i < j
    BY <1>3, <1>5 DEF Rising
  <1> QED
    BY <1>1, <1>2, <1>6

\* The robot nearest to the farthest target never waits; of several, the last.
LEMMA NearestMoves ==
  ASSUME NEW c \in Inputs, c.info # <<>>, NEW far \in Point
  PROVE  \E k \in DOMAIN c.info : Waits(c.info, far, k) = 0
  <1>1. PICK a : a = c.info
    OBVIOUS
  <1>2. List(a) /\ a \in Seq(Info) /\ Ascending(a)
    BY <1>1, InputsAreLists, Zenon
  <1>3. PICK n \in Nat : DOMAIN a = 1..n /\ \A k \in 1..n : a[k].pos \in Point
    BY <1>2, InfoList, Zenon DEF List
  <1>4. n > 0
    <2>1. Len(a) # 0
      BY <1>1, <1>2
    <2>2. DOMAIN a = 1..Len(a)
      BY <1>2, Zenon DEF List
    <2> QED
      BY <1>2, <1>3, <2>1, <2>2 DEF List
  <1>5. PICK d : d = [k \in 1..n |-> Dist[a[k].pos][far]]
    OBVIOUS
  <1>6. d \in [1..n -> Nat]
    <2>1. \A k \in 1..n : Dist[a[k].pos][far] \in Nat
      BY <1>3, DistanceTypes, Zenon
    <2> QED
      BY <1>5, <2>1
  <1>7. PICK g \in 1..n : \A k \in 1..n : d[g] <= d[k]
    <2>1. PICK V : V = {d[k] : k \in 1..n}
      OBVIOUS
    <2>2. V \in SUBSET Nat /\ d[1] \in V
      BY <1>4, <1>6, <2>1
    <2>3. PICK v \in V : \A w \in V : v <= w
      BY <2>2, Least
    <2> QED
      BY <2>1, <2>3
  <1>8. PICK last \in 1..n : d[last] = d[g] /\ \A j \in 1..n : d[j] = d[g] => j <= last
    <2>1. PICK ties : ties = {k \in 1..n : d[k] = d[g]}
      OBVIOUS
    <2>2. PICK id : id = [k \in ties |-> k]
      OBVIOUS
    <2>3. (\A k \in ties : k \in 1..n) /\ ties # {} /\ id \in [ties -> Nat]
      BY <2>1, <2>2
    <2>4. PICK k \in ties : \A j \in ties : id[j] <= id[k]
      BY <2>3, Greatest
    <2> QED
      BY <2>1, <2>2, <2>4
  <1>9. ASSUME NEW p \in TooClose(a), Yields(a, far, p) = last PROVE FALSE
    <2>1. PICK i, j : i = p[1] /\ j = p[2]
      OBVIOUS
    <2>2. i \in 1..n /\ j \in 1..n /\ i < j
      BY <1>2, <1>3, <2>1, PairsInOrder, Zenon
    <2>3. last = IF d[i] < d[j] THEN j ELSE i
      BY <1>5, <1>9, <2>1, <2>2 DEF Yields
    <2> QED
      BY <1>6, <1>7, <1>8, <2>2, <2>3
  <1>10. Waits(a, far, last) = 0
    <2>1. /\ Waits(a, far, last) \in Nat
          /\ Waits(a, far, last) > 0 <=> \E p \in TooClose(a) : Yields(a, far, p) = last
      BY <1>2, WaitsCount
    <2>2. ~(Waits(a, far, last) > 0)
      BY <1>9, <2>1, Zenon
    <2> QED
      BY <2>1, <2>2
  <1> QED
    BY <1>1, <1>3, <1>10, Zenon

-----------------------------------------------------------------------------
(* What a robot is told.                                                   *)

\* Step 2: half a circle at most, and it ends at the bearing.
LEMMA ShorterTurn ==
  ASSUME NEW theta \in 0..(CIRCLE - 1), NEW b \in 0..(CIRCLE - 1)
  PROVE  /\ Turn(theta, b) \in Int
         /\ -PI <= Turn(theta, b) /\ Turn(theta, b) <= PI
         /\ (theta - Turn(theta, b) - b) % CIRCLE = 0
  <1>1. PICK C \in Nat : C = CIRCLE /\ C # 0 /\ C % 4 = 0
    BY ConstantTypes
  <1>2. PICK h \in Nat : h = PI /\ C = 2 * h
    <2>1. PI = C \div 2
      BY <1>1 DEF PI
    <2>2. C = 4 * (C \div 4)
      BY <1>1
    <2>3. C \div 2 = 2 * (C \div 4) /\ C \div 4 \in Nat
      BY <1>1, <2>2
    <2> QED
      BY <2>1, <2>2, <2>3
  <1>3. PICK t : t = Turn(theta, b)
    OBVIOUS
  <1>4. /\ t \in Int /\ -h <= t /\ t <= h
        /\ theta - t - b = 0 \/ theta - t - b = C \/ theta - t - b = -C
    <2>1. theta \in Int /\ 0 <= theta /\ theta < C /\ b \in Int /\ 0 <= b /\ b < C
      BY <1>1
    <2>2. PICK d1, d2 : /\ d1 = theta - b
                        /\ d2 = IF d1 < 0 THEN C + d1 ELSE d1 - C
      OBVIOUS
    <2>3. t = IF Abs(d1) > Abs(d2) THEN d2 ELSE d1
      BY <1>1, <1>3, <2>2 DEF Turn
    <2>4. t = IF (IF d1 < 0 THEN -d1 ELSE d1) > (IF d2 < 0 THEN -d2 ELSE d2) THEN d2 ELSE d1
      BY <2>3 DEF Abs
    <2>5. CASE d1 < 0
      BY <1>2, <2>1, <2>2, <2>4, <2>5
    <2>6. CASE ~(d1 < 0)
      BY <1>2, <2>1, <2>2, <2>4, <2>6
    <2> QED
      BY <2>5, <2>6
  <1>5. 0 % C = 0 /\ C % C = 0 /\ (-C) % C = 0
    BY <1>1
  <1> QED
    BY <1>1, <1>2, <1>3, <1>4, <1>5

\* What Plan leaves in out_action.
Actions(c, far, free) ==
  [k \in DOMAIN c.targets |-> ActionFor(c.info, c.targets, far, free, k)]

StepOf(info, far, free, k) == IF k \in free THEN 3 ELSE IF Waits(info, far, k) > 0 THEN 0 ELSE 5

\* The robot of target k is the j-th of those located.
At(c, k, j) == j \in DOMAIN c.info /\ c.info[j].id = c.targets[k].id

LEMMA LocatesOne ==
  ASSUME NEW c \in Inputs, NEW k \in DOMAIN c.targets, NEW j, At(c, k, j)
  PROVE  Locates(c.info, c.targets[k].id) = {j}
  <1>1. \A i \in DOMAIN c.info : c.info[i].id = c.info[j].id => i = j
    BY InputsAreLists, OneIndex, Zenon DEF At
  <1> QED
    BY <1>1 DEF Locates, At

\* The action of a target whose robot is located: which robot and how many steps, ...
LEMMA StepOfLocated ==
  ASSUME NEW c \in Inputs, NEW far, NEW free, NEW k \in DOMAIN c.targets, NEW j, At(c, k, j)
  PROVE  /\ Actions(c, far, free)[k].id = c.targets[k].id
         /\ Actions(c, far, free)[k].detla_step = StepOf(c.info, far, free, k)
  <1>1. Locates(c.info, c.targets[k].id) = {j}
    BY LocatesOne, Zenon
  <1>2. Actions(c, far, free)[k] = ActionFor(c.info, c.targets, far, free, k)
    BY DEF Actions
  <1> QED
    <2>1. Locates(c.info, c.targets[k].id) # {}
      BY <1>1
    <2>2. CASE k \in free
      <3>1. PICK turn : Actions(c, far, free)[k] =
                          [id |-> c.targets[k].id, delta_theta |-> turn, detla_step |-> 3]
        BY <1>2, <2>1, <2>2, Zenon DEF ActionFor
      <3>2. StepOf(c.info, far, free, k) = 3
        BY <2>2 DEF StepOf
      <3> QED
        BY <3>1, <3>2
    <2>3. CASE k \notin free /\ Waits(c.info, far, k) > 0
      <3>1. PICK turn : Actions(c, far, free)[k] =
                          [id |-> c.targets[k].id, delta_theta |-> turn, detla_step |-> 0]
        BY <1>2, <2>1, <2>3, Zenon DEF ActionFor
      <3>2. StepOf(c.info, far, free, k) = 0
        BY <2>3 DEF StepOf
      <3> QED
        BY <3>1, <3>2
    <2>4. CASE k \notin free /\ ~(Waits(c.info, far, k) > 0)
      <3>1. PICK turn : Actions(c, far, free)[k] =
                          [id |-> c.targets[k].id, delta_theta |-> turn, detla_step |-> 5]
        BY <1>2, <2>1, <2>4, Zenon DEF ActionFor
      <3>2. StepOf(c.info, far, free, k) = 5
        BY <2>4 DEF StepOf
      <3> QED
        BY <3>1, <3>2
    <2> QED
      BY <2>2, <2>3, <2>4

TurnOf(c, free, k, j) ==
  LET turn == Turn(c.info[j].theta, Bearing[c.info[j].pos][c.targets[k].pos])
  IN  IF k \in free THEN turn - PI \div 2 ELSE turn

\* ... and how far it turns.
LEMMA TurnOfLocated ==
  ASSUME NEW c \in Inputs, NEW far, NEW free, NEW k \in DOMAIN c.targets, NEW j, At(c, k, j)
  PROVE  Actions(c, far, free)[k] =
           [id |-> c.targets[k].id,
            delta_theta |-> TurnOf(c, free, k, j),
            detla_step |-> StepOf(c.info, far, free, k)]
  <1>1. Locates(c.info, c.targets[k].id) = {j}
    BY LocatesOne, Zenon
  <1>2. (CHOOSE i \in Locates(c.info, c.targets[k].id) : TRUE) = j
    BY <1>1
  <1>3. Actions(c, far, free)[k] = ActionFor(c.info, c.targets, far, free, k)
    BY DEF Actions
  <1> QED
    BY <1>1, <1>2, <1>3 DEF ActionFor, StepOf, TurnOf

\* Of a target whose robot is not.
LEMMA ActionOfHidden ==
  ASSUME NEW c \in Inputs, NEW far, NEW free, NEW k \in DOMAIN c.targets,
         ~ \E j : At(c, k, j)
  PROVE  Actions(c, far, free)[k] = Uninit
  <1>1. Locates(c.info, c.targets[k].id) = {}
    BY DEF Locates, At
  <1> QED
    BY <1>1 DEF Actions, ActionFor

\* When the robots located are those with a target, each has the same index in
\* both lists.
LEMMA MatchedIndices ==
  ASSUME NEW c \in Inputs, Matched(c)
  PROVE  /\ DOMAIN c.info = DOMAIN c.targets
         /\ \A k \in DOMAIN c.targets : c.info[k].id = c.targets[k].id
  <1>1. List(c.info) /\ List(c.targets) /\ IdsOf(c.info) = IdsOf(c.targets)
    BY InputsAreLists, Zenon DEF Matched
  <1>2. Len(c.info) = Len(c.targets) /\ \A k \in DOMAIN c.info : c.info[k].id = c.targets[k].id
    BY <1>1, SameIds
  <1>3. DOMAIN c.info = 1..Len(c.info) /\ DOMAIN c.targets = 1..Len(c.targets)
    BY <1>1, Zenon DEF List
  <1> QED
    BY <1>2, <1>3

LEMMA MatchedActions ==
  ASSUME NEW c \in Inputs, Matched(c), NEW far, NEW free, NEW k \in DOMAIN c.targets
  PROVE  /\ Actions(c, far, free)[k].id = c.targets[k].id
         /\ Actions(c, far, free)[k].detla_step = StepOf(c.info, far, free, k)
  <1>1. At(c, k, k)
    <2>1. k \in DOMAIN c.info /\ c.info[k].id = c.targets[k].id
      BY MatchedIndices, Zenon
    <2> QED
      BY <2>1 DEF At
  <1>2. Actions(c, far, free)[k].id = c.targets[k].id
    BY <1>1, StepOfLocated, Zenon
  <1>3. Actions(c, far, free)[k].detla_step = StepOf(c.info, far, free, k)
    BY <1>1, StepOfLocated, Zenon
  <1> QED
    BY <1>2, <1>3

-----------------------------------------------------------------------------
(* The invariant.                                                          *)

Typed ==
  /\ call \in Inputs /\ max_dis \in Point
  /\ id_to_id \in [1..Slots -> Nat]
  /\ overrun \in BOOLEAN
  /\ located \in SUBSET Robot /\ waited \in [Robot -> Nat]

\* What is in out_action follows from the round's input and max_dis.
Outcome ==
  /\ \E free : action_list = Actions(call, max_dis, free)
  /\ overrun => \E k \in (1..Slots) \ DOMAIN call.targets : Waits(call.info, max_dis, k) > 0

\* A robot has waited no more often than the counter at its index says.
Counted(a) ==
  /\ List(a) /\ IdsOf(a) = located /\ DOMAIN a \subseteq 1..Slots
  /\ \A k \in DOMAIN a : waited[a[k].id] <= id_to_id[k]

Patience ==
  /\ WaitIsBounded
  /\ \A r \in Robot : r \notin located => waited[r] = 0
  /\ \E a : Counted(a)

Inv == Typed /\ Outcome /\ Patience

\* One round with the values it works with.
Round(c, far, count, free) ==
  /\ far = Farthest(c.targets) /\ count = Counters(c.info, far)
  /\ free = SideSteps(c.info, c.targets, count)
  /\ call' = c /\ located' = IdsOf(c.info) /\ max_dis' = far
  /\ action_list' = Actions(c, far, free)
  /\ c.targets = <<>> => overrun' = FALSE /\ id_to_id' = id_to_id
  /\ c.targets # <<>> =>
       /\ overrun' = \E k \in (1..Slots) \ DOMAIN c.targets : Waits(c.info, far, k) > 0
       /\ id_to_id' = [k \in 1..Slots |-> IF k \in free THEN 0 ELSE count[k]]
  /\ waited' = [r \in Robot |->
                  IF Matched(c) /\ r \in Standing(Actions(c, far, free))
                    THEN (IF Matched(c) /\ IdsOf(c.info) = located THEN waited[r] + 1 ELSE 1)
                    ELSE 0]

LEMMA ReplanIsRound ==
  ASSUME NEW c, Replan(c)
  PROVE  \E far, count, free : Round(c, far, count, free)
  <1>1. PICK far : far = Farthest(c.targets)
    OBVIOUS
  <1>2. PICK count : count = Counters(c.info, far)
    OBVIOUS
  <1>3. PICK free : free = SideSteps(c.info, c.targets, count)
    OBVIOUS
  <1>4. Round(c, far, count, free)
    BY <1>1, <1>2, <1>3 DEF Replan, Round, Actions
  <1> QED
    BY <1>4

LEMMA InitInv == Init => Inv
  <1> SUFFICES ASSUME Init PROVE Inv
      OBVIOUS
  <1>1. Typed
    BY ConstantTypes DEF Init, Typed, Inputs
  <1>2. Outcome
    <2>1. call.targets = <<>> /\ action_list = <<>> /\ overrun = FALSE
      BY DEF Init, NoCall
    <2>2. Actions(call, max_dis, {}) = <<>>
      BY <2>1 DEF Actions
    <2> QED
      BY <2>1, <2>2 DEF Outcome
  <1>3. Patience
    <2>1. <<>> \in Seq(Info) /\ Ascending(<<>>) /\ DOMAIN <<>> = {}
      BY DEF Ascending
    <2>2. List(<<>>)
      BY <2>1, InfoList, Zenon
    <2>3. Counted(<<>>)
      BY <2>1, <2>2 DEF Counted, IdsOf, Init
    <2>4. WaitIsBounded
      BY ConstantTypes DEF WaitIsBounded, Init
    <2>5. \A r \in Robot : waited[r] = 0
      BY DEF Init
    <2> QED
      BY <2>3, <2>4, <2>5, Zenon DEF Patience
  <1> QED
    BY <1>1, <1>2, <1>3 DEF Inv

-----------------------------------------------------------------------------

LEMMA RoundIsTyped ==
  ASSUME Inv, NEW c \in Calls, NEW far, NEW count, NEW free, Round(c, far, count, free)
  PROVE  /\ Typed' /\ List(c.info)
         /\ count \in [1..Slots -> Nat]
         /\ \A k \in 1..Slots : /\ Waits(c.info, far, k) \in Nat
                                 /\ count[k] = id_to_id[k] + Waits(c.info, far, k)
  <1>1. c \in Inputs
    BY DEF Inputs
  <1>2. List(c.info) /\ c.info \in Seq(Info) /\ Ascending(c.info)
    BY <1>1, InputsAreLists, Zenon
  <1>3. far \in Point
    BY <1>1, FarthestIsPoint, Zenon DEF Inv, Typed, Round
  <1>4. \A k : Waits(c.info, far, k) \in Nat
    BY <1>2, WaitsCount, Zenon
  <1>5. count = [k \in 1..Slots |-> id_to_id[k] + Waits(c.info, far, k)]
    BY Zenon DEF Round, Counters
  <1>6. \A k \in 1..Slots : id_to_id[k] \in Nat
    BY DEF Inv, Typed
  <1>7. count \in [1..Slots -> Nat]
    BY <1>4, <1>5, <1>6
  <1>8. IdsOf(c.info) \in SUBSET Robot
    <2>1. \A k \in DOMAIN c.info : c.info[k].id \in Robot
      BY <1>2, InfoList, Zenon
    <2> QED
      BY <2>1, Zenon DEF IdsOf
  <1>9. id_to_id' \in [1..Slots -> Nat] /\ overrun' \in BOOLEAN
    <2>1. CASE c.targets = <<>>
      BY <2>1 DEF Round, Inv, Typed
    <2>2. CASE c.targets # <<>>
      <3>1. id_to_id' = [k \in 1..Slots |-> IF k \in free THEN 0 ELSE count[k]]
        BY <2>2, Zenon DEF Round
      <3>2. id_to_id' \in [1..Slots -> Nat]
        BY <1>7, <3>1
      <3>3. overrun' \in BOOLEAN
        BY <2>2, Zenon DEF Round
      <3> QED
        BY <3>2, <3>3
    <2> QED
      BY <2>1, <2>2
  <1>10. waited' \in [Robot -> Nat]
    <2>1. \A r \in Robot : waited[r] \in Nat
      BY DEF Inv, Typed
    <2> QED
      BY <2>1 DEF Round
  <1>11. call' \in Inputs /\ max_dis' \in Point /\ located' \in SUBSET Robot
    BY <1>1, <1>3, <1>8, Zenon DEF Round
  <1>12. Typed'
    BY <1>9, <1>10, <1>11, Zenon DEF Typed
  <1> QED
    BY <1>2, <1>4, <1>5, <1>7, <1>12

LEMMA RoundHasOutcome ==
  ASSUME NEW c \in Calls, NEW far, NEW count, NEW free, Round(c, far, count, free)
  PROVE  Outcome'
  <1>1. call' = c /\ max_dis' = far /\ action_list' = Actions(c, far, free)
    BY Zenon DEF Round
  <1>2. action_list' = Actions(call, max_dis, free)'
    BY <1>1 DEF Actions, ActionFor
  <1>3. overrun' => \E k \in (1..Slots) \ DOMAIN c.targets : Waits(c.info, far, k) > 0
    BY Zenon DEF Round
  <1>4. (\E k \in (1..Slots) \ DOMAIN call.targets : Waits(call.info, max_dis, k) > 0)'
          <=> \E k \in (1..Slots) \ DOMAIN c.targets : Waits(c.info, far, k) > 0
    BY <1>1 DEF Waits
  <1> QED
    BY <1>2, <1>3, <1>4, Zenon DEF Outcome

\* A robot left standing, when all located robots have a target, is at an index
\* whose counter was raised and not reset.
LEMMA StandingIsCounted ==
  ASSUME NEW c \in Inputs, Matched(c), NEW far, NEW free,
         NEW r \in Standing(Actions(c, far, free))
  PROVE  \E j \in DOMAIN c.targets :
           /\ j \in DOMAIN c.info /\ c.info[j].id = r /\ c.targets[j].id = r
           /\ j \notin free /\ Waits(c.info, far, j) > 0
  <1>1. DOMAIN Actions(c, far, free) = DOMAIN c.targets
    BY DEF Actions
  <1>2. PICK j \in DOMAIN c.targets : /\ Actions(c, far, free)[j].id = r
                                      /\ Actions(c, far, free)[j].detla_step = 0
    BY <1>1, Zenon DEF Standing
  <1>3. c.targets[j].id = r /\ StepOf(c.info, far, free, j) = 0
    BY <1>2, MatchedActions, ZenonT(60)
  <1>4. j \notin free /\ Waits(c.info, far, j) > 0
    BY <1>3 DEF StepOf
  <1>5. j \in DOMAIN c.info /\ c.info[j].id = r
    BY <1>3, MatchedIndices, Zenon
  <1> QED
    BY <1>3, <1>4, <1>5, Zenon

\* Such a counter has been raised once more than the robot had waited, and is
\* not beyond the limit, or the robot would have side-stepped.
LEMMA StandingIsBounded ==
  ASSUME Inv, NEW c \in Calls, NEW far, NEW count, NEW free, Round(c, far, count, free),
         Matched(c), NEW r \in Standing(Actions(c, far, free))
  PROVE  \E j \in DOMAIN c.info :
           /\ c.info[j].id = r /\ j \in 1..Slots
           /\ waited'[r] <= id_to_id'[j] /\ id_to_id'[j] <= wait_max_number
  <1>1. c \in Inputs
    BY DEF Inputs
  <1>2. PICK j \in DOMAIN c.targets :
           /\ j \in DOMAIN c.info /\ c.info[j].id = r /\ c.targets[j].id = r
           /\ j \notin free /\ Waits(c.info, far, j) > 0
    BY <1>1, StandingIsCounted
  <1>3. j \in 1..Slots
    <2>1. List(c.info) /\ Len(c.info) <= Slots
      BY <1>1, InputsAreLists, Zenon
    <2> QED
      BY <1>2, <2>1, ConstantTypes DEF List
  <1>4. /\ Waits(c.info, far, j) \in Nat /\ count[j] = id_to_id[j] + Waits(c.info, far, j)
        /\ id_to_id[j] \in Nat /\ List(c.info)
    BY <1>3, RoundIsTyped DEF Inv, Typed
  <1>5. id_to_id'[j] = count[j]
    <2>1. c.targets # <<>>
      BY <1>2
    <2>2. id_to_id' = [k \in 1..Slots |-> IF k \in free THEN 0 ELSE count[k]]
      BY <2>1, Zenon DEF Round
    <2> QED
      BY <1>2, <1>3, <2>2
  <1>6. ~(count[j] > wait_max_number)
    <2>1. Locates(c.info, c.targets[j].id) # {}
      BY <1>2 DEF Locates
    <2> QED
      BY <1>2, <2>1, Zenon DEF Round, SideSteps
  <1>7. r \in Robot
    <2>1. c.info \in Seq(Info) /\ Ascending(c.info)
      BY <1>1, InputsAreLists, Zenon
    <2> QED
      BY <1>2, <2>1, InfoList, Zenon
  <1>8. waited'[r] = IF IdsOf(c.info) = located THEN waited[r] + 1 ELSE 1
    BY <1>7, Zenon DEF Round
  <1>9. CASE IdsOf(c.info) = located
    <2>1. PICK a : Counted(a)
      BY Zenon DEF Inv, Patience
    <2>2. Len(a) = Len(c.info) /\ \A k \in DOMAIN a : a[k].id = c.info[k].id
      BY <1>4, <1>9, <2>1, SameIds DEF Counted
    <2>3. j \in DOMAIN a /\ a[j].id = r
      BY <1>2, <1>4, <2>1, <2>2 DEF Counted, List
    <2>4. waited[r] <= id_to_id[j]
      BY <2>1, <2>3, Zenon DEF Counted
    <2>5. waited[r] \in Nat
      BY <1>7 DEF Inv, Typed
    <2> QED
      BY <1>2, <1>3, <1>4, <1>5, <1>6, <1>8, <1>9, <2>4, <2>5, ConstantTypes
  <1>10. CASE IdsOf(c.info) # located
    BY <1>2, <1>3, <1>4, <1>5, <1>6, <1>8, <1>10, ConstantTypes
  <1> QED
    BY <1>9, <1>10

LEMMA RoundKeepsPatience ==
  ASSUME Inv, NEW c \in Calls, NEW far, NEW count, NEW free, Round(c, far, count, free)
  PROVE  Patience'
  <1>1. PICK standing : standing = {r \in Robot : Matched(c) /\ r \in Standing(Actions(c, far, free))}
    OBVIOUS
  <1>2. \A r \in Robot : r \notin standing => waited'[r] = 0
    BY <1>1, Zenon DEF Round
  <1>3. \A r \in standing : \E j \in DOMAIN c.info :
           /\ c.info[j].id = r /\ j \in 1..Slots
           /\ waited'[r] <= id_to_id'[j] /\ id_to_id'[j] <= wait_max_number
    BY <1>1, StandingIsBounded
  <1>4. /\ List(c.info) /\ id_to_id' \in [1..Slots -> Nat] /\ waited' \in [Robot -> Nat]
        /\ located' = IdsOf(c.info)
    <2>1. Typed' /\ List(c.info)
      BY RoundIsTyped
    <2> QED
      BY <2>1, Zenon DEF Typed, Round
  <1>5. WaitIsBounded'
    <2> SUFFICES ASSUME NEW r \in Robot PROVE waited'[r] <= wait_max_number
        BY DEF WaitIsBounded
    <2>1. CASE r \in standing
      <3>1. PICK j \in 1..Slots : /\ waited'[r] <= id_to_id'[j]
                                  /\ id_to_id'[j] <= wait_max_number
        BY <1>3, <2>1
      <3>2. waited'[r] \in Nat /\ id_to_id'[j] \in Nat
        BY <1>4
      <3> QED
        BY <3>1, <3>2, ConstantTypes
    <2>2. CASE r \notin standing
      BY <1>2, <2>2, ConstantTypes
    <2> QED
      BY <2>1, <2>2
  <1>6. \A r \in Robot : r \notin located' => waited'[r] = 0
    BY <1>2, <1>3, <1>4, Zenon DEF IdsOf
  <1>7. Counted(c.info)'
    <2>1. DOMAIN c.info \subseteq 1..Slots
      <3>1. c \in Inputs
        BY DEF Inputs
      <3>2. Len(c.info) <= Slots
        BY <3>1, InputsAreLists, Zenon
      <3> QED
        BY <1>4, <3>2, ConstantTypes DEF List
    <2>2. ASSUME NEW k \in DOMAIN c.info PROVE waited'[c.info[k].id] <= id_to_id'[k]
      <3>1. PICK r : r = c.info[k].id
        OBVIOUS
      <3>2. CASE r \in standing
        <4>1. PICK j \in DOMAIN c.info : c.info[j].id = r /\ waited'[r] <= id_to_id'[j]
          BY <1>3, <3>2
        <4>2. j = k
          BY <1>4, <3>1, <4>1, OneIndex
        <4> QED
          BY <3>1, <4>1, <4>2
      <3>3. CASE r \notin standing
        <4>1. r \in Robot
          <5>1. c \in Inputs
            BY DEF Inputs
          <5>2. c.info \in Seq(Info) /\ Ascending(c.info)
            BY <5>1, InputsAreLists, Zenon
          <5> QED
            BY <3>1, <5>2, InfoList, Zenon
        <4>2. waited'[r] = 0 /\ id_to_id'[k] \in Nat
          BY <1>2, <1>4, <2>1, <3>3, <4>1
        <4> QED
          BY <3>1, <4>2
      <3> QED
        BY <3>2, <3>3
    <2> QED
      BY <1>4, <2>1, <2>2, Zenon DEF Counted, List
  <1>8. \E a : Counted(a)'
    BY <1>7, Zenon
  <1> QED
    BY <1>5, <1>6, <1>8, Zenon DEF Patience

LEMMA ReplanKeepsInv ==
  ASSUME Inv, NEW c \in Calls, Replan(c)
  PROVE  Inv'
  <1>1. PICK far, count, free : Round(c, far, count, free)
    BY ReplanIsRound, Zenon
  <1> QED
    BY <1>1, RoundIsTyped, RoundHasOutcome, RoundKeepsPatience, Zenon DEF Inv

LEMMA DoneKeepsInv ==
  ASSUME Inv, Done
  PROVE  Inv'
  <1>1. /\ call' = NoCall /\ action_list' = <<>> /\ overrun' = FALSE
        /\ UNCHANGED <<max_dis, id_to_id, located, waited>>
    BY DEF Done
  <1>2. Typed'
    BY <1>1 DEF Inv, Typed, Inputs
  <1>3. Outcome'
    <2>1. Actions(call, max_dis, {})' = <<>>
      BY <1>1 DEF Actions, NoCall
    <2> QED
      BY <1>1, <2>1 DEF Outcome
  <1>4. Patience'
    BY <1>1, Zenon DEF Inv, Patience, WaitIsBounded, Counted
  <1> QED
    BY <1>2, <1>3, <1>4 DEF Inv

LEMMA NextKeepsInv == Inv /\ [Next]_vars => Inv'
  <1> SUFFICES ASSUME Inv, [Next]_vars PROVE Inv'
      OBVIOUS
  <1>1. CASE Done
    BY <1>1, DoneKeepsInv
  <1>2. CASE \E c \in Calls : Replan(c)
    BY <1>2, ReplanKeepsInv
  <1>3. CASE UNCHANGED vars
    <2>1. UNCHANGED <<max_dis, id_to_id, call, action_list, overrun, located, waited>>
      BY <1>3 DEF vars
    <2>2. Typed'
      BY <2>1, Zenon DEF Inv, Typed
    <2>3. Outcome'
      <3>1. PICK free : action_list = Actions(call, max_dis, free)
        BY Zenon DEF Inv, Outcome
      <3>2. action_list' = Actions(call, max_dis, free)'
        BY <2>1, <3>1 DEF Actions, ActionFor
      <3>3. (\E k \in (1..Slots) \ DOMAIN call.targets : Waits(call.info, max_dis, k) > 0)'
              <=> \E k \in (1..Slots) \ DOMAIN call.targets : Waits(call.info, max_dis, k) > 0
        BY <2>1 DEF Waits
      <3> QED
        BY <2>1, <3>2, <3>3, Zenon DEF Inv, Outcome
    <2>4. Patience'
      BY <2>1, Zenon DEF Inv, Patience, WaitIsBounded, Counted
    <2> QED
      BY <2>2, <2>3, <2>4 DEF Inv
  <1> QED
    BY <1>1, <1>2, <1>3 DEF Next

LEMMA Invariant == Spec => []Inv
  BY InitInv, NextKeepsInv, PTL DEF Spec

-----------------------------------------------------------------------------
(* What follows.                                                           *)

\* What the variables of Reset and Plan hold, max_dis above all: the farthest
\* target is one (trajectoryplanner.cpp, Reset).
THEOREM TypeCorrect == Spec => []TypeOK
  <1>1. Inv => TypeOK
    <2> SUFFICES ASSUME Inv PROVE TypeOK
        OBVIOUS
    <2>1. call \in [info : Seq(Info), targets : Seq(Target)]
      <3>1. CASE call \in Calls
        BY <3>1, PlannerAssumption, Zenon DEF PlannerAssumption
      <3>2. CASE call = NoCall
        BY <3>2 DEF NoCall
      <3> QED
        BY <3>1, <3>2 DEF Inv, Typed, Inputs
    <2>2. ASSUME NEW k \in DOMAIN action_list
          PROVE  \/ action_list[k] = Uninit
                 \/ action_list[k] \in [id : Robot, delta_theta : Int, detla_step : {0, 3, 5}]
      <3>1. PICK free : action_list = Actions(call, max_dis, free)
        BY Zenon DEF Inv, Outcome
      <3>2. k \in DOMAIN call.targets /\ call \in Inputs
        BY <3>1 DEF Actions, Inv, Typed
      <3>3. CASE ~ \E j : At(call, k, j)
        BY <3>1, <3>2, <3>3, ActionOfHidden
      <3>4. CASE \E j : At(call, k, j)
        <4>1. PICK j : At(call, k, j)
          BY <3>4
        <4>2. /\ call.info \in Seq(Info) /\ Ascending(call.info)
              /\ call.targets \in Seq(Target) /\ Ascending(call.targets)
          BY <3>2, InputsAreLists, Zenon
        <4>3. /\ call.info[j].theta \in 0..(CIRCLE - 1) /\ call.info[j].pos \in Point
          BY <4>1, <4>2, InfoList, Zenon DEF At
        <4>4. call.targets[k].id \in Robot /\ call.targets[k].pos \in Point
          BY <3>2, <4>2, TargetList, Zenon
        <4>5. PICK b : b = Bearing[call.info[j].pos][call.targets[k].pos]
          OBVIOUS
        <4>6. Turn(call.info[j].theta, b) \in Int
          <5>1. b \in 0..(CIRCLE - 1)
            BY <4>3, <4>4, <4>5, DistanceTypes, Zenon
          <5> QED
            BY <4>3, <5>1, ShorterTurn, Zenon
        <4>7. PI \div 2 \in Int
          BY ConstantTypes DEF PI
        <4>8. StepOf(call.info, max_dis, free, k) \in {0, 3, 5}
          BY DEF StepOf
        <4>9. action_list[k] =
                [id |-> call.targets[k].id,
                 delta_theta |-> TurnOf(call, free, k, j),
                 detla_step |-> StepOf(call.info, max_dis, free, k)]
          BY <3>1, <3>2, <4>1, TurnOfLocated, Zenon
        <4>10. TurnOf(call, free, k, j) \in Int
          BY <4>5, <4>6, <4>7 DEF TurnOf
        <4> QED
          BY <4>4, <4>8, <4>9, <4>10
      <3> QED
        BY <3>3, <3>4
    <2> QED
      BY <2>1, <2>2 DEF TypeOK, Inv, Typed
  <1> QED
    BY Invariant, <1>1, PTL

\* Step 2 sends every robot the shorter way round, to face its target
\* (trajectoryplanner.cpp, Plan).
THEOREM TurnsAreRight == Spec => []TurnsToTarget
  <1>1. Inv => TurnsToTarget
    <2> SUFFICES ASSUME Inv, NEW k \in DOMAIN action_list, NEW j \in DOMAIN call.info,
                        action_list[k] # Uninit, action_list[k].id = call.info[j].id,
                        action_list[k].detla_step # 3
                 PROVE  /\ -PI <= action_list[k].delta_theta
                        /\ action_list[k].delta_theta <= PI
                        /\ (call.info[j].theta - action_list[k].delta_theta
                              - Bearing[call.info[j].pos][call.targets[k].pos]) % CIRCLE = 0
        BY DEF TurnsToTarget
    <2>1. PICK free : action_list = Actions(call, max_dis, free)
      BY Zenon DEF Inv, Outcome
    <2>2. k \in DOMAIN call.targets /\ call \in Inputs
      BY <2>1 DEF Actions, Inv, Typed
    <2>3. PICK i : At(call, k, i)
      BY <2>1, <2>2, ActionOfHidden, Zenon
    <2>4. /\ action_list[k].id = call.targets[k].id
          /\ action_list[k].detla_step = StepOf(call.info, max_dis, free, k)
      BY <2>1, <2>2, <2>3, StepOfLocated, ZenonT(60)
    <2>5. At(call, k, j)
      BY <2>4 DEF At
    <2>6. k \notin free
      BY <2>4 DEF StepOf
    <2>7. PICK b : b = Bearing[call.info[j].pos][call.targets[k].pos]
      OBVIOUS
    <2>8. action_list[k] =
            [id |-> call.targets[k].id,
             delta_theta |-> TurnOf(call, free, k, j),
             detla_step |-> StepOf(call.info, max_dis, free, k)]
      BY <2>1, <2>2, <2>5, TurnOfLocated, ZenonT(60)
    <2>9. action_list[k].delta_theta = Turn(call.info[j].theta, b)
      BY <2>6, <2>7, <2>8 DEF TurnOf
    <2>10. /\ call.info \in Seq(Info) /\ Ascending(call.info)
           /\ call.targets \in Seq(Target) /\ Ascending(call.targets)
      BY <2>2, InputsAreLists, Zenon
    <2>11. call.info[j].theta \in 0..(CIRCLE - 1) /\ b \in 0..(CIRCLE - 1)
      <3>1. /\ call.info[j].theta \in 0..(CIRCLE - 1) /\ call.info[j].pos \in Point
        BY <2>10, InfoList, Zenon
      <3>2. call.targets[k].pos \in Point
        BY <2>2, <2>10, TargetList, Zenon
      <3> QED
        BY <2>7, <3>1, <3>2, DistanceTypes, Zenon
    <2> QED
      BY <2>7, <2>9, <2>11, ShorterTurn, Zenon
  <1> QED
    BY Invariant, <1>1, PTL

\* Step 3 stops one of any two robots below the safety distance, and writes
\* within out_action, when the robots located are those with a target
\* (trajectoryplanner.cpp, Plan).
THEOREM NeverTwoAdvance == Spec => []NeverBothAdvance
  <1>1. Inv => NeverBothAdvance
    <2> SUFFICES ASSUME Inv, Matched(call)
                 PROVE  /\ ~overrun
                        /\ \A p \in Crowding : ~(/\ action_list[p[1]].detla_step = 5
                                                  /\ action_list[p[2]].detla_step = 5)
        BY Zenon DEF NeverBothAdvance
    <2>1. call \in Inputs /\ List(call.info)
      BY InputsAreLists, Zenon DEF Inv, Typed
    <2>2. DOMAIN call.info = DOMAIN call.targets
      BY <2>1, MatchedIndices, Zenon
    <2>3. PICK free : action_list = Actions(call, max_dis, free)
      BY Zenon DEF Inv, Outcome
    <2>4. ~overrun
      <3>1. ASSUME NEW k \in (1..Slots) \ DOMAIN call.targets, Waits(call.info, max_dis, k) > 0
            PROVE  FALSE
        <4>1. /\ Waits(call.info, max_dis, k) > 0
                   <=> \E p \in TooClose(call.info) : Yields(call.info, max_dis, p) = k
          BY <2>1, WaitsCount
        <4>2. PICK p \in TooClose(call.info) : Yields(call.info, max_dis, p) = k
          BY <3>1, <4>1
        <4>3. p[1] \in DOMAIN call.info /\ p[2] \in DOMAIN call.info
          BY <2>1, PairsInOrder, Zenon
        <4> QED
          BY <2>2, <4>2, <4>3 DEF Yields
      <3> QED
        BY <3>1, Zenon DEF Inv, Outcome
    <2>5. ASSUME NEW p \in Crowding, action_list[p[1]].detla_step = 5, action_list[p[2]].detla_step = 5
          PROVE  FALSE
      <3>1. /\ p \in (DOMAIN call.info) \X (DOMAIN call.info)
            /\ p[1] < p[2] /\ Dist[call.info[p[1]].pos][call.info[p[2]].pos] < min_dis
        BY Zenon DEF Crowding
      <3>2. p[1] \in DOMAIN call.info /\ p[2] \in DOMAIN call.info
        BY <3>1
      <3>3. call.info[p[1]].id < call.info[p[2]].id
        <4>1. Ascending(call.info)
          BY <2>1, InputsAreLists, Zenon
        <4> QED
          BY <3>1, <3>2, <4>1, Zenon DEF Ascending
      <3>4. p \in TooClose(call.info)
        BY <3>1, <3>3, Zenon DEF TooClose
      <3>5. PICK k : k = Yields(call.info, max_dis, p)
        OBVIOUS
      <3>6. Waits(call.info, max_dis, k) > 0
        <4>1. Waits(call.info, max_dis, k) > 0
                <=> \E q \in TooClose(call.info) : Yields(call.info, max_dis, q) = k
          BY <2>1, WaitsCount
        <4> QED
          BY <3>4, <3>5, <4>1
      <3>7. k = p[1] \/ k = p[2]
        BY <3>5 DEF Yields
      <3>8. k \in DOMAIN call.targets /\ action_list[k].detla_step = 5
        BY <2>2, <2>5, <3>2, <3>7, Zenon
      <3>9. action_list[k].detla_step = StepOf(call.info, max_dis, free, k)
        BY <2>1, <2>3, <3>8, MatchedActions, Zenon
      <3> QED
        BY <3>6, <3>8, <3>9 DEF StepOf
    <2> QED
      BY <2>4, <2>5, Zenon
  <1> QED
    BY Invariant, <1>1, PTL

\* Not all robots of a crowd are stopped: the one nearest to the farthest target
\* moves (trajectoryplanner.cpp, Plan, steps 3 and 4).
THEOREM OneAlwaysMoves == Spec => []SomebodyMoves
  <1>1. Inv => SomebodyMoves
    <2> SUFFICES ASSUME Inv, Matched(call), call.info # <<>>
                 PROVE  \E k \in DOMAIN action_list : action_list[k].detla_step > 0
        BY Zenon DEF SomebodyMoves
    <2>1. call \in Inputs /\ max_dis \in Point
      BY DEF Inv, Typed
    <2>2. PICK k \in DOMAIN call.info : Waits(call.info, max_dis, k) = 0
      BY <2>1, NearestMoves, Zenon
    <2>3. PICK free : action_list = Actions(call, max_dis, free)
      BY Zenon DEF Inv, Outcome
    <2>4. k \in DOMAIN call.targets
      BY <2>1, <2>2, MatchedIndices, Zenon
    <2>5. action_list[k].detla_step = StepOf(call.info, max_dis, free, k)
      BY <2>1, <2>3, <2>4, MatchedActions, Zenon
    <2>6. StepOf(call.info, max_dis, free, k) > 0
      BY <2>2 DEF StepOf
    <2>7. k \in DOMAIN action_list
      BY <2>3, <2>4 DEF Actions
    <2> QED
      BY <2>5, <2>6, <2>7
  <1> QED
    BY Invariant, <1>1, PTL

\* While the same robots are located, and have the targets, none is left standing
\* more than wait_max_number rounds in a row: step 4 (trajectoryplanner.cpp, Plan).
THEOREM NobodyStarves == Spec => []WaitIsBounded
  <1>1. Inv => WaitIsBounded
    BY DEF Inv, Patience
  <1> QED
    BY Invariant, <1>1, PTL

-----------------------------------------------------------------------------
(* The planner of the older program.                                       *)

\* For a turn of at most half a circle that does not cross the heading of zero
\* the two formulas agree.
LEMMA SameTurn ==
  ASSUME NEW theta \in 0..(CIRCLE - 1), NEW b \in 0..(CIRCLE - 1),
         b # PI, Abs(theta - b) <= PI
  PROVE  (HelloTurn(theta, b) - Turn(theta, b)) % CIRCLE = 0
  <1>1. PICK C \in Nat : C = CIRCLE /\ C # 0 /\ C % 4 = 0
    BY ConstantTypes
  <1>2. theta \in Int /\ b \in Int /\ 0 <= theta /\ theta < C /\ 0 <= b /\ b < C
    BY <1>1
  <1>3. PI \in Int /\ C = 2 * PI
    BY <1>1 DEF PI
  <1>4. HelloTurn(theta, b) = theta - b
    BY <1>1, <1>2, <1>3 DEF HelloTurn, A1, Abs
  <1>5. Turn(theta, b) = theta - b
    BY <1>1, <1>2, <1>3 DEF Turn, Abs
  <1> QED
    BY <1>1, <1>2, <1>4, <1>5

\* What MoveToPostWork hands to the planner when every target's robot is
\* located: those robots, in the order of the targets.
LEMMA MovedList ==
  ASSUME NEW c, c.info \in Seq(Info), NEW n \in Nat, DOMAIN c.targets = 1..n, Fresh(c)
  PROVE  /\ HelloMoveToPostWork(c) \in [1..n -> Info]
         /\ \A k \in 1..n : HelloMoveToPostWork(c)[k].id = c.targets[k].id
  <1>1. \A k \in 1..n :
          LET j == CHOOSE j \in Locates(c.info, c.targets[k].id) : TRUE
          IN  /\ j \in DOMAIN c.info /\ c.info[j].id = c.targets[k].id
              /\ HelloMoveToPostWork(c)[k] = c.info[j]
    BY DEF HelloMoveToPostWork, Fresh, Locates
  <1>2. \A j \in DOMAIN c.info : c.info[j] \in Info
    BY ElementOfSeq, LenProperties, Zenon
  <1>3. \A k \in 1..n : /\ HelloMoveToPostWork(c)[k] \in Info
                        /\ HelloMoveToPostWork(c)[k].id = c.targets[k].id
    BY <1>1, <1>2, Zenon
  <1>4. HelloMoveToPostWork(c) = [k \in 1..n |-> HelloMoveToPostWork(c)[k]]
    BY DEF HelloMoveToPostWork
  <1> QED
    BY <1>3, <1>4, Zenon

\* It gives each target one action, with the step 0 wherever the robot waits.
LEMMA HelloWaits ==
  ASSUME NEW c, NEW k \in DOMAIN c.targets, NEW far, far = Farthest(c.targets),
         Waits(HelloMoveToPostWork(c), far, k) > 0
  PROVE  HelloActions(c)[k].detla_step = 0
  BY DEF HelloActions, HelloPlan

\* Of two robots closer than min_dis the planner of the older program lets one
\* wait, whichever of the located robots have a target.
LEMMA HelloOneWaits ==
  ASSUME NEW c, c.info \in Seq(Info), NEW n \in Nat, DOMAIN c.targets = 1..n, Fresh(c),
         \A j, k \in 1..n : j < k => c.targets[j].id < c.targets[k].id,
         NEW j \in 1..n, NEW k \in 1..n, j < k,
         Dist[HelloMoveToPostWork(c)[j].pos][HelloMoveToPostWork(c)[k].pos] < min_dis
  PROVE  HelloActions(c)[j].detla_step = 0 \/ HelloActions(c)[k].detla_step = 0
  <1>1. PICK a, far : a = HelloMoveToPostWork(c) /\ far = Farthest(c.targets)
    OBVIOUS
  <1>2. a \in [1..n -> Info] /\ \A i \in 1..n : a[i].id = c.targets[i].id
    BY <1>1, MovedList
  <1>3. a \in Seq(Info) /\ DOMAIN a = 1..n
    BY <1>2
  <1>4. Ascending(a)
    BY <1>2, <1>3 DEF Ascending
  <1>5. List(a)
    BY <1>3, <1>4, InfoList, Zenon
  <1>6. <<j, k>> \in TooClose(a)
    BY <1>1, <1>2, <1>3 DEF TooClose
  <1>7. Yields(a, far, <<j, k>>) \in {j, k}
    BY DEF Yields
  <1>8. Waits(a, far, j) > 0 \/ Waits(a, far, k) > 0
    BY <1>5, <1>6, <1>7, WaitsCount, Zenon
  <1> QED
    BY <1>1, <1>8, HelloWaits

\* In every round the present planner plans, the older one turns each robot as
\* it does where the two formulas agree, and of two robots closer than min_dis
\* lets one wait, even when other robots are located as well.
THEOREM OldPlannerAgrees == Spec => []HelloPlansRight
  <1>1. Inv => HelloTurnsToTarget
    <2> SUFFICES ASSUME Inv, Fresh(call), NEW k \in DOMAIN call.targets,
                        NEW h, h = HelloMoveToPostWork(call)[k],
                        NEW b, b = Bearing[h.pos][call.targets[k].pos],
                        ~SameX(h.pos, call.targets[k].pos), b # PI, Abs(h.theta - b) <= PI
                 PROVE  (HelloActions(call)[k].delta_theta - Turn(h.theta, b)) % CIRCLE = 0
        BY DEF HelloTurnsToTarget
    <2>1. /\ call.info \in Seq(Info) /\ List(call.targets)
          /\ call.targets[k].pos \in Point
      BY InputsAreLists, TargetList, Zenon DEF Inv, Typed
    <2>2. h \in Info
      BY <2>1, MovedList DEF List
    <2>3. h.theta \in 0..(CIRCLE - 1) /\ h.pos \in Point
      BY <2>2 DEF Info
    <2>4. b \in 0..(CIRCLE - 1)
      BY <2>1, <2>3, DistanceTypes, Zenon
    <2>5. HelloActions(call)[k].delta_theta = HelloTurn(h.theta, b)
      BY DEF HelloActions, HelloPlan
    <2> QED
      <3> DEFINE theta == h.theta
      <3>1. theta \in 0..(CIRCLE - 1) /\ Abs(theta - b) <= PI /\ b # PI
        BY <2>3
      <3> HIDE DEF theta
      <3>2. (HelloTurn(theta, b) - Turn(theta, b)) % CIRCLE = 0
        BY <2>4, <3>1, SameTurn
      <3> QED
        BY <2>5, <3>2 DEF theta
  <1>2. Inv => HelloNeverBothAdvance
    <2> SUFFICES ASSUME Inv, NEW n \in 0..Len(call.targets),
                        NEW pick \in [1..n -> DOMAIN call.targets],
                        NEW c, c = Thinned(pick), Fresh(c),
                        \A j, k \in 1..n : j < k => pick[j] < pick[k],
                        NEW j \in 1..n, NEW k \in 1..n, j < k,
                        Dist[HelloMoveToPostWork(c)[j].pos][HelloMoveToPostWork(c)[k].pos] < min_dis
                 PROVE  HelloActions(c)[j].detla_step = 0 \/ HelloActions(c)[k].detla_step = 0
        BY Zenon DEF HelloNeverBothAdvance
    <2>1. call.info \in Seq(Info) /\ Ascending(call.targets) /\ List(call.targets)
      BY InputsAreLists, Zenon DEF Inv, Typed
    <2>2. n \in Nat
      BY <2>1 DEF List
    <2>3. c.info = call.info /\ c.targets = [i \in 1..n |-> call.targets[pick[i]]]
      BY DEF Thinned
    <2>4. \A i, m \in 1..n : i < m => c.targets[i].id < c.targets[m].id
      BY <2>1, <2>3 DEF Ascending
    <2> QED
      BY <2>1, <2>2, <2>3, <2>4, HelloOneWaits
  <1>3. Inv => HelloPlansRight
    BY <1>1, <1>2 DEF HelloPlansRight
  <1> QED
    BY Invariant, <1>3, PTL
=============================================================================
