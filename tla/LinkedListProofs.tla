-------------------------- MODULE LinkedListProofs --------------------------
(***************************************************************************)
(* Proofs about the linked list, for every heap: each call leaves a list    *)
(* whose nodes form one path and whose cache is right, and read along that  *)
(* path the list is the sequence of ElementList.  And, about the user of the *)
(* lists, that an action is stopped when its time is over, that the         *)
(* elements of groups which are replaced are given back, and that the       *)
(* status is that of the current action.                                    *)
(***************************************************************************)
EXTENDS LinkedListCalls, XpiderInfo, FiniteSetTheorems, SequenceTheorems,
        NaturalsInduction, WellFoundedInduction, TLAPS

\* Lists of values from D, their nodes on the heap.
Nodes(D) == [data : D, next : Cells \cup {NULL}, used : BOOLEAN]
Lists(D) ==
  [nodes : [Cells -> Nodes(D)], _size : Nat, root : Cells \cup {NULL},
   last : Cells \cup {NULL}, isCached : BOOLEAN, lastIndexGot : Nat,
   lastNodeGot : Cells \cup {NULL}]

\* The node at index i of the path s of n nodes, NULL behind its end.
At(s, n, i) == IF i < n THEN s[i + 1] ELSE NULL

\* s is the path from root to last: it has each used cell once, and the cache,
\* when there is one, holds a node of it or the NULL behind it.
IsPath(list, s) ==
  LET n == list._size
  IN  /\ s \in [1..n -> Cells]
      /\ \A i, j \in 1..n : s[i] = s[j] => i = j
      /\ \A c \in Cells : list.nodes[c].used <=> \E i \in 1..n : s[i] = c
      /\ list.root = At(s, n, 0)
      /\ list.last = IF n = 0 THEN NULL ELSE s[n]
      /\ \A i \in 1..n : list.nodes[s[i]].next = At(s, n, i)
      /\ list.isCached => /\ list.lastIndexGot <= n
                          /\ list.lastNodeGot = At(s, n, list.lastIndexGot)

-----------------------------------------------------------------------------
(* Reading a list.                                                         *)

\* The least element of a set of natural numbers.
LEMMA LeastOfNats ==
  ASSUME NEW S \in SUBSET Nat, S # {}
  PROVE  \E x \in S : \A y \in S : x <= y
  <1>1. PICK x \in S : \A y \in S : ~(<<y, x>> \in OpToRel(<, Nat))
    BY NatLessThanWellFounded, WFMin
  <1>2. ASSUME NEW y \in S, y < x PROVE FALSE
    <2>1. <<y, x>> \in Nat \X Nat
      OBVIOUS
    <2>2. <<y, x>> \in OpToRel(<, Nat)
      BY <1>2, <2>1 DEF OpToRel
    <2> QED
      BY <1>1, <1>2, <2>2
  <1> QED
    BY <1>2

\* NULL is no cell.
LEMMA NullIsNoCell == NULL \notin Cells
  BY CellsAssumption DEF NULL

\* Walking k steps along next from the node at index j leads to the one at j + k.
LEMMA WalkOnPath ==
  ASSUME NEW D, NEW list \in Lists(D), NEW s, IsPath(list, s),
         NEW j \in Nat, NEW k \in Nat
  PROVE  Walk(list, At(s, list._size, j), k) = At(s, list._size, j + k)
  <1> DEFINE n == list._size
             Along(w) == [i \in 0..k |-> IF i = 0 THEN At(s, n, j)
                            ELSE IF w[i - 1] = NULL THEN NULL
                                 ELSE list.nodes[w[i - 1]].next]
             W == [i \in 0..k |-> At(s, n, j + i)]
             w == CHOOSE f : f = Along(f)
  <1>1. n \in Nat
    BY DEF Lists
  <1>2. ASSUME NEW i \in 0..k, i # 0
        PROVE  At(s, n, j + i) = IF At(s, n, j + (i - 1)) = NULL THEN NULL
                                 ELSE list.nodes[At(s, n, j + (i - 1))].next
    <2>1. CASE j + (i - 1) < n
      <3>1. j + i \in 1..n /\ At(s, n, j + (i - 1)) = s[j + i]
        BY <1>1, <1>2, <2>1 DEF At
      <3>2. s[j + i] # NULL /\ list.nodes[s[j + i]].next = At(s, n, j + i)
        BY <3>1, NullIsNoCell DEF IsPath
      <3> QED
        BY <3>1, <3>2
    <2>2. CASE ~(j + (i - 1) < n)
      <3>1. ~(j + i < n)
        BY <1>1, <1>2, <2>2
      <3> QED
        BY <2>2, <3>1 DEF At
    <2> QED
      BY <2>1, <2>2
  <1>3. W = Along(W)
    <2>1. ASSUME NEW i \in 0..k PROVE W[i] = Along(W)[i]
      <3>1. CASE i = 0
        BY <3>1
      <3>2. CASE i # 0
        <4>1. i - 1 \in 0..k
          BY <3>2
        <4> QED
          BY <1>2, <3>2, <4>1
      <3> QED
        BY <3>1, <3>2
    <2> HIDE DEF n
    <2> QED
      BY <2>1
  <1>4. w = Along(w)
    BY <1>3
  <1>5. Walk(list, At(s, n, j), k) = w[k]
    BY DEF Walk
  <1> DEFINE Wrong == {i \in 0..k : w[i] # At(s, n, j + i)}
  <1> HIDE DEF w
  <1>6. ASSUME Wrong # {} PROVE FALSE
    <2> Wrong \in SUBSET Nat
      OBVIOUS
    <2> HIDE DEF Wrong
    <2>1. PICK i \in Wrong : \A h \in Wrong : i <= h
      BY <1>6, LeastOfNats
    <2> USE DEF Wrong
    <2>2. CASE i = 0
      BY <1>4, <2>1, <2>2
    <2>3. CASE i # 0
      <3>1. i - 1 \in 0..k /\ i - 1 \notin Wrong
        BY <2>1, <2>3
      <3>2. w[i - 1] = At(s, n, j + (i - 1))
        BY <3>1
      <3>3. w[i] = Along(w)[i]
        BY <1>4, Zenon
      <3> QED
        BY <1>2, <2>1, <2>3, <3>2, <3>3
    <2> QED
      BY <2>2, <2>3
  <1>7. w[k] = At(s, n, j + k)
    BY <1>6
  <1> QED
    BY <1>5, <1>7

\* getNode finds the node at the index, NULL behind the end, with the cache and
\* without; what it remembers is right, and it changes nothing else.
LEMMA GetNode ==
  ASSUME NEW D, NEW list \in Lists(D), NEW s, IsPath(list, s), NEW index \in Nat
  PROVE  /\ getNode(list, index) = At(s, list._size, index)
         /\ Got(list, index) \in Lists(D) /\ IsPath(Got(list, index), s)
         /\ Got(list, index).nodes = list.nodes
         /\ Got(list, index)._size = list._size
         /\ Got(list, index).root = list.root
         /\ Got(list, index).last = list.last
         /\ ~list.isCached /\ Got(list, index).isCached =>
              Got(list, index).lastIndexGot = index
  <1> DEFINE n == list._size
             pos == IF FromCache(list, index) THEN list.lastIndexGot ELSE 0
             from == IF FromCache(list, index) THEN list.lastNodeGot ELSE list.root
  <1>1. n \in Nat /\ pos \in Nat /\ pos <= index /\ pos <= n /\ from = At(s, n, pos)
    BY DEF Lists, IsPath, FromCache
  <1>2. NodeAt(list, index) = Walk(list, from, index - pos)
    BY DEF NodeAt
  <1>3. NodeAt(list, index) = At(s, n, index)
    BY <1>1, <1>2, WalkOnPath, pos + (index - pos) = index, index - pos \in Nat
  <1>4. Reaches(list, index) <=> pos = index \/ index - 1 < n
    <2>1. Reaches(list, index) <=> pos = index \/ Walk(list, from, index - 1 - pos) # NULL
      BY DEF Reaches
    <2>2. ASSUME pos # index
          PROVE  Walk(list, from, index - 1 - pos) = At(s, n, index - 1)
      <3>1. index - 1 - pos \in Nat /\ pos + (index - 1 - pos) = index - 1
        BY <1>1, <2>2
      <3> QED
        BY <1>1, <3>1, WalkOnPath
    <2>3. ASSUME pos # index
          PROVE  At(s, n, index - 1) # NULL <=> index - 1 < n
      <3>1. index - 1 < n => index \in 1..n /\ s[index] \in Cells
        BY <1>1, <2>3 DEF IsPath
      <3>2. (index - 1) + 1 = index
        OBVIOUS
      <3> QED
        BY <3>1, <3>2, NullIsNoCell DEF At
    <2> QED
      BY <2>1, <2>2, <2>3
  <1> HIDE DEF pos, from
  <1>5. Reaches(list, index) => index <= n
    BY <1>1, <1>4
  <1>6. getNode(list, index) = At(s, n, index)
    BY <1>1, <1>3, <1>4 DEF getNode, At
  <1>7. At(s, n, index) \in Cells \cup {NULL}
    BY <1>1 DEF At, IsPath
  <1>8. CASE Reaches(list, index)
    <2>1. Got(list, index) = [list EXCEPT !.isCached = TRUE, !.lastIndexGot = index,
                                          !.lastNodeGot = At(s, n, index)]
      BY <1>3, <1>8 DEF Got
    <2>2. Got(list, index) \in Lists(D)
      BY <1>7, <2>1 DEF Lists
    <2>3. /\ Got(list, index).nodes = list.nodes /\ Got(list, index)._size = n
          /\ Got(list, index).root = list.root /\ Got(list, index).last = list.last
          /\ Got(list, index).lastIndexGot = index
          /\ Got(list, index).lastNodeGot = At(s, n, index)
      BY <2>1 DEF Lists
    <2> QED
      BY <1>5, <1>6, <1>8, <2>2, <2>3 DEF IsPath
  <1>9. CASE ~Reaches(list, index)
    BY <1>6, <1>9 DEF Got
  <1> QED
    BY <1>8, <1>9

\* Read from root, the data are those of the path.
LEMMA ElementsOnPath ==
  ASSUME NEW D, NEW list \in Lists(D), NEW s, IsPath(list, s)
  PROVE  /\ Elements(list) = [i \in 1..list._size |-> list.nodes[s[i]].data]
         /\ Elements(list) \in Seq(D) /\ Len(Elements(list)) = list._size
  <1> DEFINE n == list._size
  <1>1. n \in Nat /\ list.root = At(s, n, 0)
    BY DEF Lists, IsPath
  <1>2. ASSUME NEW i \in 1..n
        PROVE  Walk(list, list.root, i - 1) = s[i] /\ s[i] \in Cells
    <2>1. i - 1 \in Nat /\ i - 1 < n /\ 0 + (i - 1) = i - 1 /\ (i - 1) + 1 = i
      BY <1>1
    <2>2. Walk(list, list.root, i - 1) = At(s, n, i - 1)
      BY <1>1, <2>1, WalkOnPath
    <2> QED
      BY <2>1, <2>2 DEF At, IsPath
  <1>3. ASSUME NEW i \in 1..n
        PROVE  Datum(list, Walk(list, list.root, i - 1)) = list.nodes[s[i]].data
    BY <1>2, NullIsNoCell DEF Datum
  <1>4. Elements(list) = [i \in 1..n |-> list.nodes[s[i]].data]
    BY <1>3 DEF Elements
  <1>5. \A i \in 1..n : list.nodes[s[i]].data \in D
    BY <1>2 DEF Lists, Nodes
  <1> QED
    BY <1>1, <1>4, <1>5

\* get answers the element at the index, T behind the end.
LEMMA GetOnPath ==
  ASSUME NEW D, NEW list \in Lists(D), NEW s, IsPath(list, s), NEW index \in Nat
  PROVE  get(list, index) = IF index < list._size THEN Elements(list)[index + 1] ELSE T
  <1>1. list._size \in Nat
    BY DEF Lists
  <1>2. get(list, index) = Datum(list, At(s, list._size, index))
    BY GetNode DEF get
  <1>3. CASE index < list._size
    <2>1. index + 1 \in 1..list._size /\ s[index + 1] \in Cells
      BY <1>1, <1>3 DEF IsPath
    <2>2. Elements(list)[index + 1] = list.nodes[s[index + 1]].data
      BY <2>1, ElementsOnPath
    <2> QED
      BY <1>2, <1>3, <2>1, <2>2, NullIsNoCell DEF At, Datum
  <1>4. CASE ~(index < list._size)
    BY <1>2, <1>4 DEF At, Datum
  <1> QED
    BY <1>3, <1>4

-----------------------------------------------------------------------------
(* What the operators on sequences give, element by element.               *)

\* s of length n with c put in as the k-th, and without the k-th.
Inserted(s, n, k, c) ==
  [i \in 1..(n + 1) |-> IF i < k THEN s[i] ELSE IF i = k THEN c ELSE s[i - 1]]
Without(s, n, k) == [i \in 1..(n - 1) |-> IF i < k THEN s[i] ELSE s[i + 1]]

LEMMA InsertedSeq ==
  ASSUME NEW D, NEW e \in Seq(D), NEW k \in 1..(Len(e) + 1), NEW t \in D
  PROVE  InsertAt(e, k, t) = Inserted(e, Len(e), k, t)
  <1> DEFINE front == SubSeq(e, 1, k - 1)
             back == SubSeq(e, k, Len(e))
             whole == InsertAt(e, k, t)
  <1>1. /\ front \in Seq(D) /\ Len(front) = k - 1
        /\ \A i \in 1..(k - 1) : front[i] = e[i]
    <2>1. \A i \in 1..(k - 1) : e[i] \in D
      OBVIOUS
    <2> QED
      BY <2>1, SubSeqProperties
  <1>2. /\ back \in Seq(D) /\ Len(back) = Len(e) - k + 1
        /\ \A i \in 1..(Len(e) - k + 1) : back[i] = e[k + i - 1]
    <2>1. \A i \in k..Len(e) : e[i] \in D
      OBVIOUS
    <2> QED
      BY <2>1, SubSeqProperties
  <1> HIDE DEF front, back
  <1>3. <<t>> \in Seq(D) /\ Len(<<t>>) = 1 /\ <<t>>[1] = t
    OBVIOUS
  <1>4. /\ front \o <<t>> \in Seq(D) /\ Len(front \o <<t>>) = k
        /\ \A i \in 1..k : (front \o <<t>>)[i] = IF i < k THEN e[i] ELSE t
    BY <1>1, <1>3, ConcatProperties
  <1>5. whole = (front \o <<t>>) \o back
    BY DEF InsertAt, front, back
  <1>6. /\ whole \in Seq(D) /\ Len(whole) = Len(e) + 1
        /\ \A i \in 1..(Len(e) + 1) :
             whole[i] = IF i <= k THEN (front \o <<t>>)[i] ELSE back[i - k]
    <2> DEFINE begin == front \o <<t>>
    <2>1. begin \in Seq(D) /\ Len(begin) = k /\ whole = begin \o back
      BY <1>4, <1>5
    <2> HIDE DEF begin, whole
    <2>2. /\ whole \in Seq(D) /\ Len(whole) = k + Len(back)
          /\ \A i \in 1..(k + Len(back)) :
               whole[i] = IF i <= k THEN begin[i] ELSE back[i - k]
      <3>1. back \in Seq(D)
        BY <1>2
      <3> QED
        BY <2>1, <3>1, ConcatProperties
    <2>3. k + Len(back) = Len(e) + 1
      BY <1>2
    <2> USE DEF begin
    <2> QED
      BY <2>2, <2>3
  <1> HIDE DEF whole
  <1>7. ASSUME NEW i \in 1..(Len(e) + 1)
        PROVE  whole[i] = IF i < k THEN e[i] ELSE IF i = k THEN t ELSE e[i - 1]
    <2>1. CASE i <= k
      BY <1>4, <1>6, <2>1
    <2>2. CASE i > k
      <3>1. i - k \in 1..(Len(e) - k + 1) /\ k + (i - k) - 1 = i - 1
        BY <2>2
      <3> QED
        BY <1>2, <1>6, <2>2, <3>1, SMTT(40)
    <2> QED
      BY <2>1, <2>2
  <1>8. whole = [i \in 1..(Len(e) + 1) |->
                   IF i < k THEN e[i] ELSE IF i = k THEN t ELSE e[i - 1]]
    BY <1>6, <1>7
  <1> QED
    BY <1>8 DEF whole, Inserted

LEMMA RemovedSeq ==
  ASSUME NEW D, NEW e \in Seq(D), NEW k \in 1..Len(e)
  PROVE  RemoveAt(e, k) = Without(e, Len(e), k)
  <1> DEFINE front == SubSeq(e, 1, k - 1)
             back == SubSeq(e, k + 1, Len(e))
             whole == RemoveAt(e, k)
  <1>1. /\ front \in Seq(D) /\ Len(front) = k - 1
        /\ \A i \in 1..(k - 1) : front[i] = e[i]
    <2>1. \A i \in 1..(k - 1) : e[i] \in D
      OBVIOUS
    <2> QED
      BY <2>1, SubSeqProperties
  <1>2. /\ back \in Seq(D) /\ Len(back) = Len(e) - k
        /\ \A i \in 1..(Len(e) - k) : back[i] = e[k + i]
    <2>1. \A i \in (k + 1)..Len(e) : e[i] \in D
      OBVIOUS
    <2>2. /\ back \in Seq(D) /\ Len(back) = IF k + 1 <= Len(e) THEN Len(e) - (k + 1) + 1 ELSE 0
          /\ \A i \in 1..(Len(e) - (k + 1) + 1) : back[i] = e[(k + 1) + i - 1]
      BY <2>1, SubSeqProperties
    <2> QED
      BY <2>2
  <1> HIDE DEF front, back
  <1>3. whole = front \o back
    BY DEF RemoveAt, front, back
  <1> HIDE DEF whole
  <1>4. /\ whole \in Seq(D) /\ Len(whole) = Len(e) - 1
        /\ \A i \in 1..(Len(e) - 1) :
             whole[i] = IF i <= k - 1 THEN front[i] ELSE back[i - (k - 1)]
    <2>1. /\ whole \in Seq(D) /\ Len(whole) = Len(front) + Len(back)
          /\ \A i \in 1..(Len(front) + Len(back)) :
               whole[i] = IF i <= Len(front) THEN front[i] ELSE back[i - Len(front)]
      BY <1>1, <1>2, <1>3, ConcatProperties
    <2>2. Len(front) = k - 1 /\ Len(front) + Len(back) = Len(e) - 1
      BY <1>1, <1>2
    <2> QED
      BY <2>1, <2>2
  <1>5. ASSUME NEW i \in 1..(Len(e) - 1)
        PROVE  whole[i] = IF i < k THEN e[i] ELSE e[i + 1]
    <2>1. CASE i < k
      BY <1>1, <1>4, <2>1
    <2>2. CASE ~(i < k)
      <3>1. i - (k - 1) \in 1..(Len(e) - k) /\ k + (i - (k - 1)) = i + 1
        BY <2>2
      <3> QED
        BY <1>2, <1>4, <2>2, <3>1
    <2> QED
      BY <2>1, <2>2
  <1>6. whole = [i \in 1..(Len(e) - 1) |-> IF i < k THEN e[i] ELSE e[i + 1]]
    BY <1>4, <1>5
  <1> QED
    BY <1>6 DEF whole, Without

-----------------------------------------------------------------------------
(* Changing a path.                                                        *)

\* While the list has fewer elements than the heap has cells, new takes a free one.
LEMMA NewNodeIsFree ==
  ASSUME NEW D, NEW list \in Lists(D), NEW s, IsPath(list, s),
         list._size < Cardinality(Cells)
  PROVE  NewNode(list) \in Cells /\ ~list.nodes[NewNode(list)].used
  <1> DEFINE n == list._size
  <1>1. ASSUME Used(list) = Cells PROVE FALSE
    <2>1. s \in Surjection(1..n, Cells)
      BY <1>1 DEF Used, IsPath, Surjection
    <2>2. Cardinality(Cells) <= n
      BY <2>1, FS_SurjCardinalityBound DEF ExistsSurjection, Lists
    <2>3. n \in Nat /\ Cardinality(Cells) \in Nat
      BY FS_CardinalityType, CellsAssumption DEF Lists
    <2> QED
      BY <2>2, <2>3
  <1>2. Cells \ Used(list) \in SUBSET Nat /\ Cells \ Used(list) # {}
    BY <1>1, CellsAssumption DEF Used
  <1>3. NewNode(list) \in Cells \ Used(list)
    BY <1>2, LeastOfNats DEF NewNode, Min
  <1> QED
    BY <1>3 DEF Used

\* Lists of values from D whose nodes form a path.
WellFormed(list, D) ==
  list \in Lists(D) /\ \E s \in [1..list._size -> Cells] : IsPath(list, s)

\* new is list with the free cell c linked in as the k-th node of the path s, and
\* with the k-th node taken out, where what is remembered lies before it.
PutsIn(new, list, s, k, c, t) ==
  LET n == list._size
  IN  /\ c \in Cells /\ ~list.nodes[c].used /\ k \in 1..(n + 1)
      /\ new._size = n + 1 /\ new.nodes[c] = Node(t, At(s, n, k - 1))
      /\ \A x \in Cells \ {c} :
           /\ new.nodes[x].used = list.nodes[x].used
           /\ new.nodes[x].data = list.nodes[x].data
           /\ new.nodes[x].next = IF k > 1 /\ x = s[k - 1] THEN c ELSE list.nodes[x].next
      /\ new.root = IF k = 1 THEN c ELSE list.root
      /\ new.last = IF k = n + 1 THEN c ELSE list.last
      /\ ~new.isCached

TakesOut(new, list, s, k) ==
  LET n == list._size
  IN  /\ k \in 1..n /\ new._size = n - 1 /\ ~new.nodes[s[k]].used
      /\ \A x \in Cells \ {s[k]} :
           /\ new.nodes[x].used = list.nodes[x].used
           /\ new.nodes[x].data = list.nodes[x].data
           /\ new.nodes[x].next = IF k > 1 /\ x = s[k - 1] THEN At(s, n, k)
                                  ELSE list.nodes[x].next
      /\ new.root = IF k = 1 THEN At(s, n, 1) ELSE list.root
      /\ new.last = IF k < n THEN list.last ELSE IF k = 1 THEN NULL ELSE s[k - 1]
      /\ new.isCached => /\ new.lastIndexGot < k - 1
                         /\ new.lastNodeGot = At(s, n, new.lastIndexGot)

LEMMA InsertNode ==
  ASSUME NEW D, NEW list \in Lists(D), NEW s, IsPath(list, s),
         NEW k, NEW t \in D, NEW c, NEW new \in Lists(D), PutsIn(new, list, s, k, c, t)
  PROVE  WellFormed(new, D) /\ Elements(new) = InsertAt(Elements(list), k, t)
  <1> USE DEF PutsIn
  <1> DEFINE n == list._size
             p == Inserted(s, n, k, c)
  <1>1. /\ n \in Nat /\ s \in [1..n -> Cells]
        /\ \A i, j \in 1..n : s[i] = s[j] => i = j
        /\ \A i \in 1..n : s[i] # c /\ list.nodes[s[i]].used
        /\ \A i \in 1..n : list.nodes[s[i]].next = At(s, n, i)
    BY DEF Lists, IsPath
  <1>2. new.nodes[c].used = TRUE /\ new.nodes[c].data = t
        /\ new.nodes[c].next = At(s, n, k - 1)
    BY DEF Node
  <1>3. /\ p \in [1..(n + 1) -> Cells] /\ p[k] = c
        /\ \A i \in 1..(k - 1) : p[i] = s[i] /\ i \in 1..n
        /\ \A i \in (k + 1)..(n + 1) : p[i] = s[i - 1] /\ i - 1 \in 1..n
    BY <1>1 DEF Inserted
  <1> HIDE DEF p
  <1>4. \A i, j \in 1..(n + 1) : p[i] = p[j] => i = j
    BY <1>1, <1>3, SMTT(40)
  <1>5. \A x \in Cells : new.nodes[x].used <=> \E i \in 1..(n + 1) : p[i] = x
    <2> SUFFICES ASSUME NEW x \in Cells
                 PROVE  new.nodes[x].used <=> \E i \in 1..(n + 1) : p[i] = x
        OBVIOUS
    <2>1. CASE x = c
      BY <1>1, <1>2, <1>3, <2>1
    <2>2. CASE x # c
      <3>1. new.nodes[x].used <=> \E i \in 1..n : s[i] = x
        BY <2>2 DEF IsPath
      <3>2. ASSUME NEW i \in 1..n, s[i] = x PROVE \E j \in 1..(n + 1) : p[j] = x
        <4>1. CASE i < k
          BY <1>1, <1>3, <3>2, <4>1
        <4>2. CASE ~(i < k)
          <5>1. i + 1 \in (k + 1)..(n + 1) /\ (i + 1) - 1 = i
            BY <1>1, <4>2
          <5> QED
            BY <1>3, <3>2, <5>1
        <4> QED
          BY <4>1, <4>2
      <3>3. ASSUME NEW i \in 1..(n + 1), p[i] = x PROVE \E j \in 1..n : s[j] = x
        <4>1. CASE i \in 1..(k - 1)
          BY <1>3, <3>3, <4>1
        <4>2. CASE i \in (k + 1)..(n + 1)
          BY <1>3, <3>3, <4>2
        <4>3. i # k
          BY <1>3, <2>2, <3>3
        <4> QED
          BY <1>1, <4>1, <4>2, <4>3
      <3> QED
        BY <3>1, <3>2, <3>3
    <2> QED
      BY <2>1, <2>2
  <1>6. new.root = At(p, n + 1, 0)
    BY <1>1, <1>3 DEF At, IsPath
  <1>7. new.last = p[n + 1]
    BY <1>1, <1>3 DEF IsPath
  <1>8. ASSUME NEW i \in 1..(n + 1)
        PROVE  new.nodes[p[i]].next = At(p, n + 1, i)
    <2>1. CASE i < k - 1
      <3>1. i \in 1..(k - 1) /\ i + 1 \in 1..(k - 1) /\ k - 1 \in 1..n /\ i # k - 1
            /\ i < n /\ i < n + 1
        BY <1>1, <2>1
      <3>2. p[i] = s[i] /\ p[i + 1] = s[i + 1] /\ i \in 1..n /\ s[i] # s[k - 1]
        BY <1>1, <1>3, <3>1
      <3>3. new.nodes[s[i]].next = At(s, n, i)
        BY <1>1, <3>2
      <3> QED
        BY <3>1, <3>2, <3>3 DEF At
    <2>2. CASE i = k - 1
      <3>1. p[i] = s[i] /\ p[i + 1] = c /\ i < n + 1 /\ i \in 1..n
        BY <1>1, <1>3, <2>2
      <3> QED
        BY <1>1, <1>3, <2>2, <3>1 DEF At
    <2>3. CASE i = k
      <3>1. CASE k = n + 1
        BY <1>1, <1>2, <1>3, <2>3, <3>1 DEF At
      <3>2. CASE k < n + 1
        <4>1. p[i + 1] = s[i] /\ (k - 1) + 1 = i
          BY <1>1, <1>3, <2>3, <3>2
        <4> QED
          BY <1>1, <1>2, <1>3, <2>3, <3>2, <4>1 DEF At
      <3> QED
        BY <1>1, <3>1, <3>2
    <2>4. CASE i > k
      <3>1. p[i] = s[i - 1] /\ i - 1 \in 1..n /\ (k > 1 => s[i - 1] # s[k - 1])
        BY <1>1, <1>3, <2>4
      <3>2. new.nodes[p[i]].next = At(s, n, i - 1)
        BY <1>1, <1>3, <3>1
      <3>3. i < n + 1 => p[i + 1] = s[i]
        BY <1>1, <1>3, <2>4
      <3> QED
        BY <1>1, <3>2, <3>3 DEF At
    <2> QED
      BY <1>1, <2>1, <2>2, <2>3, <2>4
  <1>9. IsPath(new, p)
    BY <1>1, <1>3, <1>4, <1>5, <1>6, <1>7, <1>8 DEF IsPath
  <1>10. Elements(new) = InsertAt(Elements(list), k, t)
    <2> DEFINE e == Elements(list)
    <2>1. /\ e = [i \in 1..n |-> list.nodes[s[i]].data] /\ e \in Seq(D) /\ Len(e) = n
          /\ Elements(new) = [i \in 1..(n + 1) |-> new.nodes[p[i]].data]
      BY <1>9, ElementsOnPath
    <2> HIDE DEF e
    <2>2. ASSUME NEW i \in 1..(n + 1)
          PROVE  new.nodes[p[i]].data = IF i < k THEN e[i] ELSE IF i = k THEN t ELSE e[i - 1]
      <3>1. CASE i \in 1..(k - 1)
        <4>1. p[i] = s[i] /\ i \in 1..n
          BY <1>3, <3>1
        <4>2. new.nodes[s[i]].data = list.nodes[s[i]].data
          BY <1>1, <4>1
        <4>3. e[i] = list.nodes[s[i]].data
          BY <2>1, <4>1
        <4> QED
          BY <3>1, <4>1, <4>2, <4>3
      <3>2. CASE i = k
        BY <1>2, <1>3, <3>2
      <3>3. CASE i \in (k + 1)..(n + 1)
        <4>1. p[i] = s[i - 1] /\ i - 1 \in 1..n
          BY <1>3, <3>3
        <4>2. new.nodes[s[i - 1]].data = list.nodes[s[i - 1]].data
          BY <1>1, <4>1
        <4>3. e[i - 1] = list.nodes[s[i - 1]].data
          BY <2>1, <4>1
        <4> QED
          BY <3>3, <4>1, <4>2, <4>3
      <3> QED
        BY <1>1, <3>1, <3>2, <3>3
    <2>3. InsertAt(e, k, t) = Inserted(e, n, k, t)
      <3>1. e \in Seq(D) /\ k \in 1..(Len(e) + 1) /\ t \in D
        BY <2>1
      <3>2. InsertAt(e, k, t) = Inserted(e, Len(e), k, t)
        <4>1. \A f \in Seq(D) : \A i \in 1..(Len(f) + 1) :
                InsertAt(f, i, t) = Inserted(f, Len(f), i, t)
          BY InsertedSeq
        <4> QED
          BY <3>1, <4>1, Zenon
      <3> QED
        BY <2>1, <3>2
    <2> QED
      BY <2>1, <2>2, <2>3 DEF e, Inserted
  <1>11. WellFormed(new, D)
    BY <1>1, <1>3, <1>9 DEF WellFormed
  <1> QED
    BY <1>10, <1>11

LEMMA RemoveNode ==
  ASSUME NEW D, NEW list \in Lists(D), NEW s, IsPath(list, s),
         NEW k, NEW new \in Lists(D), TakesOut(new, list, s, k)
  PROVE  WellFormed(new, D) /\ Elements(new) = RemoveAt(Elements(list), k)
  <1> USE DEF TakesOut
  <1> DEFINE n == list._size
             p == Without(s, n, k)
  <1>1. /\ n \in Nat /\ s \in [1..n -> Cells]
        /\ \A i, j \in 1..n : s[i] = s[j] => i = j
        /\ \A i \in 1..n : list.nodes[s[i]].used
        /\ \A i \in 1..n : list.nodes[s[i]].next = At(s, n, i)
    BY DEF Lists, IsPath
  <1>2. /\ p \in [1..(n - 1) -> Cells]
        /\ \A i \in 1..(k - 1) : p[i] = s[i] /\ i \in 1..(n - 1)
        /\ \A i \in k..(n - 1) : p[i] = s[i + 1] /\ i + 1 \in 1..n
    BY <1>1 DEF Without
  <1> HIDE DEF p
  <1>3. \A i, j \in 1..(n - 1) : p[i] = p[j] => i = j
    BY <1>1, <1>2
  <1>4. \A i \in 1..(n - 1) : p[i] # s[k]
    BY <1>1, <1>2
  <1>5. \A x \in Cells : new.nodes[x].used <=> \E i \in 1..(n - 1) : p[i] = x
    <2> SUFFICES ASSUME NEW x \in Cells
                 PROVE  new.nodes[x].used <=> \E i \in 1..(n - 1) : p[i] = x
        OBVIOUS
    <2>1. CASE x = s[k]
      BY <1>4, <2>1
    <2>2. CASE x # s[k]
      <3>1. new.nodes[x].used <=> \E i \in 1..n : s[i] = x
        BY <2>2 DEF IsPath
      <3>2. ASSUME NEW i \in 1..n, s[i] = x PROVE \E j \in 1..(n - 1) : p[j] = x
        <4>1. CASE i < k
          BY <1>2, <3>2, <4>1
        <4>2. CASE ~(i < k)
          <5>1. i - 1 \in k..(n - 1) /\ (i - 1) + 1 = i
            BY <1>1, <2>2, <3>2, <4>2
          <5> QED
            BY <1>2, <3>2, <5>1
        <4> QED
          BY <4>1, <4>2
      <3>3. ASSUME NEW i \in 1..(n - 1), p[i] = x PROVE \E j \in 1..n : s[j] = x
        BY <1>1, <1>2, <3>3
      <3> QED
        BY <3>1, <3>2, <3>3
    <2> QED
      BY <2>1, <2>2
  <1>6. new.root = At(p, n - 1, 0)
    BY <1>1, <1>2 DEF At, IsPath
  <1>7. new.last = IF n - 1 = 0 THEN NULL ELSE p[n - 1]
    BY <1>1, <1>2 DEF IsPath
  <1>8. ASSUME NEW i \in 1..(n - 1)
        PROVE  new.nodes[p[i]].next = At(p, n - 1, i)
    <2>1. CASE i < k - 1
      <3>1. p[i] = s[i] /\ p[i + 1] = s[i + 1] /\ i \in 1..n /\ s[i] # s[k - 1]
            /\ i < n /\ i < n - 1 /\ p[i] # s[k]
        BY <1>1, <1>2, <1>4, <2>1
      <3>2. new.nodes[s[i]].next = At(s, n, i)
        BY <1>1, <3>1
      <3> QED
        BY <3>1, <3>2 DEF At
    <2>2. CASE i = k - 1
      <3>1. p[i] = s[i] /\ i < n /\ k > 1
        BY <1>1, <1>2, <2>2
      <3>2. new.nodes[p[i]].next = At(s, n, k)
        BY <1>1, <1>2, <1>4, <2>2, <3>1
      <3>3. k < n => p[k] = s[k + 1] /\ i + 1 = k
        BY <1>1, <1>2, <2>2
      <3> QED
        BY <1>1, <2>2, <3>2, <3>3 DEF At
    <2>3. CASE i >= k
      <3>1. p[i] = s[i + 1] /\ i + 1 \in 1..n /\ (k > 1 => s[i + 1] # s[k - 1])
        BY <1>1, <1>2, <2>3
      <3>2. new.nodes[p[i]].next = At(s, n, i + 1)
        BY <1>1, <1>2, <1>4, <3>1
      <3>3. i < n - 1 => p[i + 1] = s[(i + 1) + 1]
        BY <1>1, <1>2, <2>3
      <3> QED
        BY <1>1, <3>2, <3>3 DEF At
    <2> QED
      BY <1>1, <2>1, <2>2, <2>3
  <1>9. new.isCached => /\ new.lastIndexGot <= n - 1
                        /\ new.lastNodeGot = At(p, n - 1, new.lastIndexGot)
    <2> SUFFICES ASSUME new.isCached
                 PROVE  /\ new.lastIndexGot <= n - 1
                        /\ new.lastNodeGot = At(p, n - 1, new.lastIndexGot)
        OBVIOUS
    <2> DEFINE g == new.lastIndexGot
    <2>1. g \in Nat /\ g < k - 1 /\ new.lastNodeGot = At(s, n, g)
      BY DEF Lists
    <2> HIDE DEF g
    <2>2. g + 1 \in 1..(k - 1) /\ g < n /\ g < n - 1
      BY <1>1, <2>1
    <2>3. At(s, n, g) = At(p, n - 1, g)
      BY <1>2, <2>2 DEF At
    <2> QED
      BY <1>1, <2>1, <2>2, <2>3 DEF g
  <1>10. IsPath(new, p)
    BY <1>1, <1>2, <1>3, <1>5, <1>6, <1>7, <1>8, <1>9 DEF IsPath
  <1>11. Elements(new) = RemoveAt(Elements(list), k)
    <2> DEFINE e == Elements(list)
    <2>1. /\ e = [i \in 1..n |-> list.nodes[s[i]].data] /\ e \in Seq(D) /\ Len(e) = n
          /\ Elements(new) = [i \in 1..(n - 1) |-> new.nodes[p[i]].data]
      BY <1>10, ElementsOnPath
    <2> HIDE DEF e
    <2>2. ASSUME NEW i \in 1..(n - 1)
          PROVE  new.nodes[p[i]].data = IF i < k THEN e[i] ELSE e[i + 1]
      <3>1. new.nodes[p[i]].data = list.nodes[p[i]].data
        BY <1>2, <1>4
      <3> QED
        BY <1>1, <1>2, <2>1, <3>1
    <2>3. RemoveAt(e, k) = Without(e, n, k)
      <3>1. e \in Seq(D) /\ k \in 1..Len(e)
        BY <2>1
      <3>2. RemoveAt(e, k) = Without(e, Len(e), k)
        BY <3>1, RemovedSeq, Zenon
      <3> QED
        BY <2>1, <3>2
    <2> QED
      BY <2>1, <2>2, <2>3 DEF e, Without
  <1>12. WellFormed(new, D)
    BY <1>1, <1>2, <1>10 DEF WellFormed
  <1> QED
    BY <1>11, <1>12

-----------------------------------------------------------------------------
(* The operations.                                                         *)

\* A list that remembers no node, and a list with other nodes, size and ends.
Uncached(list) == [list EXCEPT !.isCached = FALSE]
With(list, nodes, m, root, last) ==
  [list EXCEPT !.nodes = nodes, !._size = m, !.root = root, !.last = last]

LEMMA ListUncached ==
  ASSUME NEW D, NEW list \in Lists(D)
  PROVE  /\ Uncached(list) \in Lists(D) /\ ~Uncached(list).isCached
         /\ Uncached(list).nodes = list.nodes /\ Uncached(list)._size = list._size
         /\ Uncached(list).root = list.root /\ Uncached(list).last = list.last
         /\ \A s : IsPath(list, s) => IsPath(Uncached(list), s)
  BY DEF Lists, Uncached, IsPath

LEMMA ListWith ==
  ASSUME NEW D, NEW list \in Lists(D), NEW nodes \in [Cells -> Nodes(D)], NEW m \in Nat,
         NEW root \in Cells \cup {NULL}, NEW last \in Cells \cup {NULL}
  PROVE  LET new == With(list, nodes, m, root, last)
         IN  /\ new \in Lists(D) /\ new.nodes = nodes /\ new._size = m /\ new.root = root
             /\ new.last = last /\ (new.isCached <=> list.isCached)
             /\ new.lastIndexGot = list.lastIndexGot /\ new.lastNodeGot = list.lastNodeGot
  BY DEF Lists, With

LEMMA WithAgain ==
  ASSUME NEW D, NEW list \in Lists(D),
         NEW nodes, NEW m, NEW root, NEW last, NEW nodes2, NEW m2, NEW root2, NEW last2
  PROVE  With(With(list, nodes, m, root, last), nodes2, m2, root2, last2) =
           With(list, nodes2, m2, root2, last2)
  BY DEF With, Lists

LEMMA AddInserts ==
  ASSUME NEW D, NEW list, WellFormed(list, D), list._size < Cardinality(Cells),
         NEW t \in D
  PROVE  /\ WellFormed(add(list, t), D)
         /\ Elements(add(list, t)) = InsertAt(Elements(list), list._size + 1, t)
  <1>1. PICK s \in [1..list._size -> Cells] : list \in Lists(D) /\ IsPath(list, s)
    BY DEF WellFormed
  <1> DEFINE n == list._size
             c == NewNode(list)
             new == add(list, t)
             linked == IF list.root = NULL THEN list.nodes
                       ELSE [list.nodes EXCEPT ![list.last].next = c]
             nodes == [linked EXCEPT ![c] = Node(t, NULL)]
  <1>2. c \in Cells /\ ~list.nodes[c].used
    BY <1>1, NewNodeIsFree
  <1>3. /\ n \in Nat /\ (list.root = NULL <=> n = 0)
        /\ n > 0 => list.last = s[n] /\ s[n] \in Cells /\ s[n] # c
    BY <1>1, <1>2, NullIsNoCell DEF Lists, IsPath, At
  <1> HIDE DEF c
  <1> DEFINE root == IF n = 0 THEN c ELSE list.root
  <1>4. new = With(Uncached(list), nodes, n + 1, root, c)
    BY <1>1, <1>3 DEF add, Appended, Lists, With, Uncached, c
  <1>5. /\ linked \in [Cells -> Nodes(D)] /\ linked[c] = list.nodes[c]
        /\ \A x \in Cells \ {c} :
             /\ linked[x].used = list.nodes[x].used /\ linked[x].data = list.nodes[x].data
             /\ linked[x].next = IF n > 0 /\ x = s[n] THEN c ELSE list.nodes[x].next
    BY <1>1, <1>2, <1>3 DEF Lists, Nodes
  <1> HIDE DEF linked
  <1>6. Node(t, NULL) \in Nodes(D)
    BY DEF Node, Nodes
  <1>7. /\ nodes \in [Cells -> Nodes(D)] /\ nodes[c] = Node(t, NULL)
        /\ \A x \in Cells \ {c} : nodes[x] = linked[x]
    BY <1>2, <1>5, <1>6
  <1> HIDE DEF nodes, new
  <1>8. /\ new \in Lists(D) /\ new.nodes = nodes /\ new._size = n + 1
        /\ new.root = root /\ new.last = c /\ ~new.isCached
    <2>1. root \in Cells \cup {NULL} /\ n + 1 \in Nat
      BY <1>1, <1>2, <1>3 DEF Lists
    <2>2. c \in Cells \cup {NULL} /\ Uncached(list) \in Lists(D) /\ ~Uncached(list).isCached
      BY <1>1, <1>2, ListUncached
    <2> HIDE DEF root, n
    <2>3. new \in Lists(D) /\ new.nodes = nodes /\ new._size = n + 1 /\ new.root = root
      BY <1>4, <1>7, <2>1, <2>2, ListWith
    <2>4. new.last = c /\ ~new.isCached
      BY <1>4, <1>7, <2>1, <2>2, ListWith
    <2> QED
      BY <2>3, <2>4
  <1> DEFINE k == n + 1
  <1>9. /\ k \in 1..(n + 1) /\ At(s, n, k - 1) = NULL /\ (k > 1 <=> n > 0)
        /\ k - 1 = n /\ (k = 1 <=> n = 0)
    BY <1>3 DEF At
  <1>10. PutsIn(new, list, s, k, c, t)
    BY <1>2, <1>5, <1>7, <1>8, <1>9 DEF PutsIn
  <1> HIDE DEF k
  <1>11. WellFormed(new, D) /\ Elements(new) = InsertAt(Elements(list), k, t)
    BY <1>1, <1>8, <1>10, InsertNode
  <1> QED
    BY <1>11 DEF new, k

LEMMA UnshiftInserts ==
  ASSUME NEW D, NEW list, WellFormed(list, D), list._size < Cardinality(Cells),
         NEW t \in D
  PROVE  /\ WellFormed(unshift(list, t), D)
         /\ Elements(unshift(list, t)) = InsertAt(Elements(list), 1, t)
  <1>1. PICK s \in [1..list._size -> Cells] : list \in Lists(D) /\ IsPath(list, s)
    BY DEF WellFormed
  <1> DEFINE n == list._size
             c == NewNode(list)
             new == unshift(list, t)
             nodes == [list.nodes EXCEPT ![c] = Node(t, list.root)]
  <1>2. c \in Cells /\ ~list.nodes[c].used /\ n \in Nat
    BY <1>1, NewNodeIsFree DEF Lists
  <1>3. CASE n = 0
    <2>1. new = add(list, t) /\ n + 1 = 1
      BY <1>3 DEF unshift
    <2> HIDE DEF new, n
    <2> QED
      BY <2>1, AddInserts DEF new, n
  <1>4. CASE n # 0
    <2>1. new = With(Uncached(list), nodes, n + 1, c, list.last)
      BY <1>1, <1>4 DEF unshift, Lists, With, Uncached
    <2>2. Node(t, list.root) \in Nodes(D) /\ list.nodes \in [Cells -> Nodes(D)]
          /\ list.last \in Cells \cup {NULL}
      BY <1>1 DEF Node, Nodes, Lists
    <2>3. nodes \in [Cells -> Nodes(D)] /\ nodes[c] = Node(t, list.root)
          /\ \A x \in Cells \ {c} : nodes[x] = list.nodes[x]
      BY <1>2, <2>2
    <2> HIDE DEF nodes, new, c
    <2>4. /\ new \in Lists(D) /\ new.nodes = nodes /\ new._size = n + 1
          /\ new.root = c /\ new.last = list.last /\ ~new.isCached
      BY <1>1, <1>2, <2>1, <2>2, <2>3, ListUncached, ListWith, SMTT(40)
    <2>5. list.root = At(s, n, 1 - 1) /\ 1 \in 1..(n + 1) /\ 1 # n + 1
      BY <1>1, <1>2, <1>4 DEF IsPath
    <2>6. PutsIn(new, list, s, 1, c, t)
      BY <1>2, <2>3, <2>4, <2>5 DEF PutsIn
    <2> QED
      BY <1>1, <2>4, <2>6, InsertNode DEF new
  <1> QED
    BY <1>3, <1>4

LEMMA InsertBehindInserts ==
  ASSUME NEW D, NEW list, WellFormed(list, D), list._size < Cardinality(Cells),
         NEW t \in D, NEW index \in Nat, index + 1 < list._size
  PROVE  /\ WellFormed(InsertBehind(list, index, t), D)
         /\ Elements(InsertBehind(list, index, t)) = InsertAt(Elements(list), index + 2, t)
  <1>1. PICK s \in [1..list._size -> Cells] : list \in Lists(D) /\ IsPath(list, s)
    BY DEF WellFormed
  <1> DEFINE n == list._size
             c == NewNode(list)
             prev == getNode(list, index)
             found == Got(list, index)
             new == InsertBehind(list, index, t)
             linked == [list.nodes EXCEPT ![c] = Node(t, list.nodes[prev].next)]
             nodes == [linked EXCEPT ![prev].next = c]
             k == index + 2
  <1>2. c \in Cells /\ ~list.nodes[c].used /\ n \in Nat
    BY <1>1, NewNodeIsFree DEF Lists
  <1>3. prev = s[k - 1] /\ prev \in Cells /\ prev # c /\ list.nodes[prev].next = At(s, n, k - 1)
    <2>1. prev = At(s, n, index)
      BY <1>1, GetNode
    <2>2. index + 1 \in 1..n /\ k - 1 = index + 1
      BY <1>2
    <2> QED
      BY <1>1, <1>2, <2>1, <2>2 DEF At, IsPath
  <1>4. /\ found \in Lists(D) /\ found.nodes = list.nodes /\ found._size = n
        /\ found.root = list.root /\ found.last = list.last
    BY <1>1, GetNode
  <1>5. list.nodes \in [Cells -> Nodes(D)] /\ list.root \in Cells \cup {NULL}
        /\ list.last \in Cells \cup {NULL} /\ list.nodes[prev].next \in Cells \cup {NULL}
    BY <1>1, <1>3 DEF Lists, Nodes
  <1> HIDE DEF c, prev, found, k
  <1>6. new = With(Uncached(found), nodes, n + 1, list.root, list.last)
    <2>1. new = [found EXCEPT !.nodes[c] = Node(t, list.nodes[prev].next),
                              !.nodes[prev].next = c,
                              !._size = @ + 1, !.isCached = FALSE]
      BY DEF InsertBehind, c, prev, found
    <2> DEFINE f1 == [found EXCEPT !.nodes[c] = Node(t, list.nodes[prev].next)]
               f2 == [f1 EXCEPT !.nodes[prev].next = c]
    <2>2. new = [f2 EXCEPT !._size = @ + 1, !.isCached = FALSE]
      BY <2>1
    <2>3. f1 = [found EXCEPT !.nodes = linked]
      BY <1>4 DEF Lists
    <2> HIDE DEF f1, linked
    <2>4. f2 = [found EXCEPT !.nodes = nodes]
      BY <1>4, <2>3 DEF Lists
    <2> HIDE DEF f2, nodes, new
    <2>5. new = With(Uncached(found), nodes, n + 1, list.root, list.last)
      BY <1>4, <2>2, <2>4 DEF Lists, With, Uncached
    <2> QED
      BY <2>5
  <1>7. Node(t, list.nodes[prev].next) \in Nodes(D)
    BY <1>5 DEF Node, Nodes
  <1>8. /\ linked \in [Cells -> Nodes(D)] /\ linked[c] = Node(t, list.nodes[prev].next)
        /\ \A x \in Cells \ {c} : linked[x] = list.nodes[x]
    BY <1>2, <1>5, <1>7
  <1> HIDE DEF linked
  <1>9. /\ nodes \in [Cells -> Nodes(D)] /\ nodes[c] = linked[c]
        /\ \A x \in Cells : /\ nodes[x].used = linked[x].used
                            /\ nodes[x].data = linked[x].data
                            /\ nodes[x].next = IF x = prev THEN c ELSE linked[x].next
    BY <1>2, <1>3, <1>8 DEF Nodes
  <1> HIDE DEF nodes, new
  <1>10. /\ new \in Lists(D) /\ new.nodes = nodes /\ new._size = n + 1
         /\ new.root = list.root /\ new.last = list.last /\ ~new.isCached
    <2>1. n + 1 \in Nat /\ Uncached(found) \in Lists(D) /\ ~Uncached(found).isCached
      BY <1>2, <1>4, ListUncached
    <2> HIDE DEF n
    <2>4. nodes \in [Cells -> Nodes(D)] /\ list.root \in Cells \cup {NULL}
          /\ list.last \in Cells \cup {NULL}
      BY <1>5, <1>9
    <2> DEFINE root == list.root
               last == list.last
               base == Uncached(found)
               m == n + 1
    <2>2. new = With(base, nodes, m, root, last) /\ base \in Lists(D) /\ ~base.isCached
      BY <1>6, <2>1
    <2>3. m \in Nat /\ root \in Cells \cup {NULL} /\ last \in Cells \cup {NULL}
      BY <2>1, <2>4
    <2> HIDE DEF m, root, last, base
    <2>5. new \in Lists(D) /\ ~new.isCached
      BY <2>2, <2>3, <2>4, ListWith
    <2>6. new.nodes = nodes /\ new._size = m /\ new.root = root /\ new.last = last
      BY <2>2 DEF With, Lists
    <2> QED
      BY <2>5, <2>6 DEF m, root, last
  <1>11. k \in 1..(n + 1) /\ k > 1 /\ k # n + 1 /\ k # 1
    BY <1>2 DEF k
  <1>12. PutsIn(new, list, s, k, c, t)
    BY <1>2, <1>3, <1>8, <1>9, <1>10, <1>11 DEF PutsIn
  <1>13. WellFormed(new, D) /\ Elements(new) = InsertAt(Elements(list), k, t)
    BY <1>1, <1>10, <1>12, InsertNode
  <1> QED
    BY <1>13 DEF new, k

LEMMA SetReplaces ==
  ASSUME NEW D, NEW list, WellFormed(list, D), NEW t \in D, NEW index \in Nat
  PROVE  /\ WellFormed(set(list, index, t), D) /\ set(list, index, t)._size = list._size
         /\ Elements(set(list, index, t)) =
              IF index < list._size THEN ReplaceAt(Elements(list), index + 1, t)
              ELSE Elements(list)
  <1>1. PICK s \in [1..list._size -> Cells] : list \in Lists(D) /\ IsPath(list, s)
    BY DEF WellFormed
  <1> DEFINE n == list._size
             c == getNode(list, index)
             found == Got(list, index)
             new == set(list, index, t)
             nodes == [list.nodes EXCEPT ![c].data = t]
  <1>2. n \in Nat
    BY <1>1 DEF Lists
  <1>3. CASE ~(index < n)
    BY <1>2, <1>3 DEF set
  <1>4. CASE index < n
    <2>1. /\ found \in Lists(D) /\ found.nodes = list.nodes /\ found._size = n
          /\ IsPath(found, s) /\ c = At(s, n, index)
      BY <1>1, GetNode
    <2>2. c = s[index + 1] /\ c \in Cells /\ index + 1 \in 1..n
      BY <1>1, <1>2, <1>4, <2>1 DEF At, IsPath
    <2> HIDE DEF c, found
    <2>3. new = [found EXCEPT !.nodes = nodes]
      BY <1>2, <1>4, <2>1 DEF set, Lists, c, found
    <2>4. /\ nodes \in [Cells -> Nodes(D)]
          /\ \A x \in Cells : /\ nodes[x].used = list.nodes[x].used
                              /\ nodes[x].next = list.nodes[x].next
                              /\ nodes[x].data = IF x = c THEN t ELSE list.nodes[x].data
      BY <1>1, <2>2, SMTT(40) DEF Lists, Nodes
    <2> HIDE DEF nodes, new
    <2>5. new \in Lists(D) /\ new.nodes = nodes /\ new._size = n
      BY <2>1, <2>3, <2>4 DEF Lists
    <2>6. /\ new.root = found.root /\ new.last = found.last
          /\ (new.isCached <=> found.isCached) /\ new.lastIndexGot = found.lastIndexGot
          /\ new.lastNodeGot = found.lastNodeGot
      BY <2>1, <2>3 DEF Lists
    <2>7. IsPath(new, s)
      BY <2>1, <2>4, <2>5, <2>6 DEF IsPath
    <2> DEFINE e == Elements(list)
    <2>8. /\ e = [i \in 1..n |-> list.nodes[s[i]].data]
          /\ Elements(new) = [i \in 1..n |-> new.nodes[s[i]].data]
      BY <1>1, <2>5, <2>7, ElementsOnPath
    <2>9. ASSUME NEW i \in 1..n
          PROVE  new.nodes[s[i]].data = IF i = index + 1 THEN t ELSE list.nodes[s[i]].data
      <3>1. s[i] \in Cells /\ (s[i] = c <=> i = index + 1)
        BY <1>1, <2>2 DEF IsPath
      <3> QED
        BY <2>4, <2>5, <3>1
    <2> HIDE DEF e
    <2>10. Elements(new) = [e EXCEPT ![index + 1] = t]
      BY <2>8, <2>9
    <2>11. Elements(new) = ReplaceAt(e, index + 1, t)
      BY <2>10 DEF ReplaceAt
    <2>12. WellFormed(new, D)
      BY <1>1, <2>5, <2>7 DEF WellFormed
    <2> QED
      BY <1>4, <2>5, <2>11, <2>12 DEF new, e
  <1> QED
    BY <1>3, <1>4

\* Taking out the only node, and the first of several.
LEMMA PopOnly ==
  ASSUME NEW D, NEW list \in Lists(D), list._size = 1
  PROVE  pop(list) = With(Uncached(list), [list.nodes EXCEPT ![list.root] = Freed],
                          0, NULL, NULL)
  <1> DEFINE base == Uncached(list)
             new == pop(list)
             nodes == [list.nodes EXCEPT ![list.root] = Freed]
             f1 == [base EXCEPT !.nodes[list.root] = Freed]
  <1>1. base \in Lists(D) /\ base.nodes = list.nodes
    BY ListUncached
  <1>2. Unlinked(list) = [base EXCEPT !.nodes[list.root] = Freed, !.root = NULL,
                                      !._size = 0]
    BY DEF Unlinked, Uncached
  <1>3. new = [Unlinked(list) EXCEPT !.last = NULL]
    BY DEF pop
  <1>4. Unlinked(list) = [f1 EXCEPT !.root = NULL, !._size = 0]
    BY <1>2
  <1>5. f1 = [base EXCEPT !.nodes = nodes]
    BY <1>1 DEF Lists
  <1>6. new = With(base, nodes, 0, NULL, NULL)
    <2> HIDE DEF f1, nodes, new, base
    <2> QED
      BY <1>1, <1>3, <1>4, <1>5 DEF With, Lists
  <1> QED
    BY <1>6

LEMMA ShiftFirst ==
  ASSUME NEW D, NEW list \in Lists(D), list._size > 1
  PROVE  shift(list) = With(Uncached(list), [list.nodes EXCEPT ![list.root] = Freed],
                            list._size - 1, list.nodes[list.root].next, list.last)
  <1> DEFINE new == shift(list)
             nodes == [list.nodes EXCEPT ![list.root] = Freed]
             root == list.nodes[list.root].next
             m == list._size - 1
  <1>1. new = [list EXCEPT !.nodes = nodes, !.root = root, !._size = m,
                           !.isCached = FALSE]
    BY DEF shift, Lists
  <1>2. new = With(Uncached(list), nodes, m, root, list.last)
    <2> HIDE DEF new, nodes, m, root
    <2> QED
      BY <1>1 DEF With, Uncached, Lists
  <1> QED
    BY <1>2

LEMMA PopRemoves ==
  ASSUME NEW D, NEW list, WellFormed(list, D), T \in D
  PROVE  /\ WellFormed(pop(list), D)
         /\ list._size = 0 => pop(list) = list
         /\ list._size > 0 => /\ pop(list)._size = list._size - 1
                              /\ Elements(pop(list)) = RemoveAt(Elements(list), list._size)
  <1>1. PICK s \in [1..list._size -> Cells] : list \in Lists(D) /\ IsPath(list, s)
    BY DEF WellFormed
  <1> DEFINE n == list._size
             base == Uncached(list)
             new == pop(list)
  <1>2. /\ n \in Nat /\ base \in Lists(D) /\ ~base.isCached /\ base.nodes = list.nodes
        /\ base._size = n /\ base.root = list.root /\ base.last = list.last
        /\ IsPath(base, s) /\ list.nodes \in [Cells -> Nodes(D)]
    BY <1>1, ListUncached DEF Lists
  <1>3. Freed \in Nodes(D) /\ ~Freed.used
    BY DEF Freed, Nodes
  <1>4. CASE n = 0
    <2>1. list.last = NULL
      BY <1>1, <1>4 DEF IsPath
    <2>2. new = [list EXCEPT !.last = NULL]
      BY <1>4 DEF pop, Unlinked
    <2>3. new = list
      BY <1>1, <2>1, <2>2 DEF Lists
    <2> QED
      BY <1>4, <2>3
  <1>5. CASE n = 1
    <2> DEFINE nodes == [list.nodes EXCEPT ![list.root] = Freed]
    <2>1. new = With(base, nodes, 0, NULL, NULL)
      BY <1>1, <1>5, PopOnly
    <2>2. list.root = s[1] /\ s[1] \in Cells
      BY <1>1, <1>5 DEF At, IsPath
    <2>3. /\ nodes \in [Cells -> Nodes(D)] /\ nodes[s[1]] = Freed
          /\ \A x \in Cells \ {s[1]} : nodes[x] = list.nodes[x]
      BY <1>2, <1>3, <2>2
    <2> HIDE DEF nodes, new, base
    <2>4. new \in Lists(D) /\ ~new.isCached
      BY <1>2, <2>1, <2>3, ListWith
    <2>5. new.nodes = nodes /\ new._size = 0 /\ new.root = NULL /\ new.last = NULL
      BY <1>2, <2>1 DEF With, Lists
    <2>6. TakesOut(new, list, s, 1)
      BY <1>3, <1>5, <2>3, <2>4, <2>5 DEF TakesOut, At
    <2>7. WellFormed(new, D) /\ Elements(new) = RemoveAt(Elements(list), 1)
      BY <1>1, <2>4, <2>6, RemoveNode
    <2> QED
      BY <1>5, <2>5, <2>7 DEF new
  <1>6. CASE n > 1
    <2> DEFINE end == getNode(base, n - 2)
               found == Got(base, n - 2)
               cut == [list.nodes EXCEPT ![list.nodes[end].next] = Freed]
               nodes == [cut EXCEPT ![end].next = NULL]
    <2>1. n - 2 \in Nat /\ n - 1 \in 1..n /\ n \in 1..n /\ (n - 2) + 1 = n - 1
      BY <1>2, <1>6
    <2>2. /\ end = At(s, n, n - 2) /\ found \in Lists(D) /\ found.nodes = list.nodes
          /\ found._size = n /\ found.root = list.root /\ found.last = list.last
          /\ IsPath(found, s) /\ (found.isCached => found.lastIndexGot = n - 2)
      <3> DEFINE i == n - 2
      <3>1. base \in Lists(D) /\ IsPath(base, s) /\ i \in Nat /\ ~base.isCached
        BY <1>2, <2>1
      <3> HIDE DEF base, i
      <3>2. /\ getNode(base, i) = At(s, base._size, i)
            /\ Got(base, i) \in Lists(D) /\ Got(base, i).nodes = base.nodes
            /\ Got(base, i)._size = base._size /\ Got(base, i).root = base.root
            /\ Got(base, i).last = base.last /\ IsPath(Got(base, i), s)
        BY <3>1, GetNode
      <3>3. Got(base, i).isCached => Got(base, i).lastIndexGot = i
        BY <3>1, GetNode
      <3> QED
        BY <1>2, <3>2, <3>3 DEF i
    <2>3. /\ end = s[n - 1] /\ end \in Cells /\ list.nodes[end].next = s[n] /\ s[n] \in Cells
          /\ s[n] # end
      BY <1>1, <1>6, <2>1, <2>2 DEF At, IsPath
    <2> HIDE DEF end, found
    <2>4. new = With(found, nodes, n - 1, list.root, end)
      <3>1. Unlinked(list) = [found EXCEPT !.nodes[list.nodes[end].next] = Freed,
                                           !.nodes[end].next = NULL, !._size = @ - 1]
        BY <1>6 DEF Unlinked, Uncached, end, found
      <3>5. new = [Unlinked(list) EXCEPT !.last = end]
        BY <1>2, <1>6 DEF pop, Uncached, end
      <3> DEFINE f1 == [found EXCEPT !.nodes[list.nodes[end].next] = Freed]
                 f2 == [f1 EXCEPT !.nodes[end].next = NULL]
      <3>2. Unlinked(list) = [f2 EXCEPT !._size = @ - 1]
        BY <3>1
      <3>3. f1 = [found EXCEPT !.nodes = cut]
        BY <2>2 DEF Lists
      <3> HIDE DEF f1, cut
      <3>4. f2 = [found EXCEPT !.nodes = nodes]
        BY <2>2, <3>3 DEF Lists
      <3> HIDE DEF f2, nodes, new
      <3> QED
        BY <2>2, <3>2, <3>4, <3>5, ZenonT(40) DEF Lists, With
    <2>5. /\ cut \in [Cells -> Nodes(D)] /\ cut[s[n]] = Freed
          /\ \A x \in Cells \ {s[n]} : cut[x] = list.nodes[x]
      BY <1>2, <1>3, <2>3
    <2> HIDE DEF cut
    <2>6. /\ nodes \in [Cells -> Nodes(D)] /\ nodes[s[n]] = Freed
          /\ \A x \in Cells \ {s[n]} :
               /\ nodes[x].used = list.nodes[x].used
               /\ nodes[x].data = list.nodes[x].data
               /\ nodes[x].next = IF x = s[n - 1] THEN NULL ELSE list.nodes[x].next
      BY <2>3, <2>5 DEF Nodes
    <2> HIDE DEF nodes, new
    <2>7. /\ n - 1 \in Nat /\ list.root \in Cells \cup {NULL} /\ end \in Cells \cup {NULL}
          /\ nodes \in [Cells -> Nodes(D)]
      BY <1>1, <2>1, <2>3, <2>6 DEF Lists
    <2>8. new \in Lists(D)
      <3> DEFINE m == n - 1
                 root == list.root
      <3>1. m \in Nat /\ root \in Cells \cup {NULL} /\ new = With(found, nodes, m, root, end)
        BY <2>4, <2>7
      <3> HIDE DEF m, root
      <3>2. found \in Lists(D) /\ nodes \in [Cells -> Nodes(D)] /\ end \in Cells \cup {NULL}
        BY <2>2, <2>7
      <3> QED
        BY <3>1, <3>2, ListWith
    <2>9. /\ new.nodes = nodes /\ new._size = n - 1 /\ new.root = list.root /\ new.last = end
          /\ (new.isCached <=> found.isCached) /\ new.lastIndexGot = found.lastIndexGot
          /\ new.lastNodeGot = found.lastNodeGot
      BY <2>2, <2>4 DEF With, Lists
    <2>10. TakesOut(new, list, s, n)
      <3>1. ~new.nodes[s[n]].used /\ n \in 1..n /\ At(s, n, n) = NULL
        BY <1>3, <2>1, <2>6, <2>9 DEF At
      <3>2. new.isCached => /\ new.lastIndexGot < n - 1
                            /\ new.lastNodeGot = At(s, n, new.lastIndexGot)
        BY <1>2, <2>2, <2>9 DEF IsPath
      <3> QED
        BY <1>2, <1>6, <2>3, <2>6, <2>9, <3>1, <3>2 DEF TakesOut
    <2>11. WellFormed(new, D) /\ Elements(new) = RemoveAt(Elements(list), n)
      BY <1>1, <2>8, <2>10, RemoveNode
    <2> QED
      BY <1>6, <2>9, <2>11 DEF new
  <1> QED
    BY <1>2, <1>4, <1>5, <1>6

LEMMA ShiftRemoves ==
  ASSUME NEW D, NEW list, WellFormed(list, D), T \in D
  PROVE  /\ WellFormed(shift(list), D)
         /\ list._size = 0 => shift(list) = list
         /\ list._size > 0 => /\ shift(list)._size = list._size - 1
                              /\ Elements(shift(list)) = RemoveAt(Elements(list), 1)
  <1>1. PICK s \in [1..list._size -> Cells] : list \in Lists(D) /\ IsPath(list, s)
    BY DEF WellFormed
  <1> DEFINE n == list._size
             base == Uncached(list)
             new == shift(list)
             nodes == [list.nodes EXCEPT ![list.root] = Freed]
             root == list.nodes[list.root].next
             m == n - 1
  <1>2. /\ n \in Nat /\ base \in Lists(D) /\ ~base.isCached /\ base.nodes = list.nodes
        /\ base._size = n /\ base.root = list.root /\ base.last = list.last
        /\ list.nodes \in [Cells -> Nodes(D)]
    BY <1>1, ListUncached DEF Lists
  <1>3. Freed \in Nodes(D) /\ ~Freed.used
    BY DEF Freed, Nodes
  <1>4. CASE n <= 1
    <2>1. new = pop(list)
      BY <1>4 DEF shift
    <2>2. n = 0 \/ n = 1
      BY <1>2, <1>4
    <2> HIDE DEF new
    <2> QED
      BY <2>1, <2>2, PopRemoves DEF new
  <1>5. CASE n > 1
    <2>1. /\ list.root = s[1] /\ s[1] \in Cells /\ root = At(s, n, 1)
          /\ root \in Cells \cup {NULL} /\ list.last \in Cells \cup {NULL} /\ m \in Nat
      BY <1>1, <1>2, <1>5 DEF At, IsPath, Lists, Nodes
    <2>2. new = With(base, nodes, m, root, list.last)
      BY <1>1, <1>5, ShiftFirst
    <2>3. /\ nodes \in [Cells -> Nodes(D)] /\ nodes[s[1]] = Freed
          /\ \A x \in Cells \ {s[1]} : nodes[x] = list.nodes[x]
      BY <1>2, <1>3, <2>1
    <2> HIDE DEF nodes, new, base, m, root
    <2>4. new \in Lists(D) /\ ~new.isCached
      <3> DEFINE last == list.last
      <3>1. last \in Cells \cup {NULL} /\ new = With(base, nodes, m, root, last)
        BY <2>1, <2>2
      <3> HIDE DEF last
      <3> QED
        BY <1>2, <2>1, <2>3, <3>1, ListWith
    <2>5. new.nodes = nodes /\ new._size = m /\ new.root = root /\ new.last = list.last
      BY <1>2, <2>2 DEF With, Lists
    <2>6. TakesOut(new, list, s, 1)
      BY <1>2, <1>3, <1>5, <2>1, <2>3, <2>4, <2>5 DEF TakesOut, m
    <2>7. WellFormed(new, D) /\ Elements(new) = RemoveAt(Elements(list), 1)
      BY <1>1, <2>4, <2>6, RemoveNode
    <2> QED
      BY <1>5, <2>5, <2>7 DEF new, m
  <1> QED
    BY <1>2, <1>4, <1>5

LEMMA RemoveRemoves ==
  ASSUME NEW D, NEW list, WellFormed(list, D), T \in D, NEW index \in Nat
  PROVE  /\ WellFormed(remove(list, index), D)
         /\ IF index < list._size
              THEN /\ remove(list, index)._size = list._size - 1
                   /\ Elements(remove(list, index)) = RemoveAt(Elements(list), index + 1)
              ELSE remove(list, index) = list
  <1>1. PICK s \in [1..list._size -> Cells] : list \in Lists(D) /\ IsPath(list, s)
    BY DEF WellFormed
  <1> DEFINE n == list._size
             new == remove(list, index)
  <1>2. n \in Nat /\ list.nodes \in [Cells -> Nodes(D)]
    BY <1>1 DEF Lists
  <1>3. Freed \in Nodes(D) /\ ~Freed.used
    BY DEF Freed, Nodes
  <1>4. CASE ~(index < n)
    BY <1>2, <1>4 DEF remove
  <1>5. CASE index < n /\ index = 0
    <2>1. new = shift(list) /\ index + 1 = 1 /\ n > 0
      BY <1>2, <1>5 DEF remove
    <2> HIDE DEF new
    <2> QED
      BY <1>5, <2>1, ShiftRemoves DEF new
  <1>6. CASE index < n /\ index # 0 /\ index = n - 1
    <2>1. new = pop(list) /\ index + 1 = n /\ n > 0
      BY <1>2, <1>6 DEF remove
    <2> HIDE DEF new
    <2> QED
      BY <1>6, <2>1, PopRemoves DEF new
  <1>7. CASE index < n /\ index # 0 /\ index # n - 1
    <2> DEFINE prev == getNode(list, index - 1)
               gone == list.nodes[prev].next
               behind == list.nodes[gone].next
               found == Got(list, index - 1)
               base == Uncached(found)
               cut == [list.nodes EXCEPT ![gone] = Freed]
               nodes == [cut EXCEPT ![prev].next = behind]
               k == index + 1
               m == n - 1
               root == list.root
               last == list.last
    <2>1. /\ index - 1 \in Nat /\ index \in 1..n /\ k \in 1..n /\ k < n /\ k > 1
          /\ k - 1 = index /\ (index - 1) + 1 = index /\ m \in Nat
      BY <1>2, <1>7
    <2>2. /\ prev = At(s, n, index - 1) /\ found \in Lists(D) /\ found.nodes = list.nodes
          /\ found._size = n /\ found.root = root /\ found.last = last
      BY <1>1, <2>1, GetNode
    <2>3. /\ base \in Lists(D) /\ ~base.isCached /\ base.nodes = list.nodes
          /\ base._size = n /\ base.root = root /\ base.last = last
      BY <2>2, ListUncached
    <2>4. prev = s[k - 1] /\ prev \in Cells /\ gone = At(s, n, index)
      <3>3. At(s, n, index - 1) = s[index] /\ s[index] \in Cells
        <4>1. s[index] \in Cells
          BY <1>1, <2>1
        <4>2. index - 1 < n /\ (index - 1) + 1 = index
          BY <1>2, <1>7, <2>1
        <4> QED
          BY <4>1, <4>2 DEF At
      <3>1. prev = s[index] /\ prev \in Cells
        BY <2>2, <3>3
      <3>2. list.nodes[s[index]].next = At(s, n, index)
        BY <1>1, <2>1 DEF IsPath
      <3> QED
        BY <2>1, <3>1, <3>2
    <2> HIDE DEF prev
    <2>5. gone = s[k] /\ gone \in Cells /\ gone # prev /\ behind = At(s, n, k)
      <3>1. gone = s[k] /\ gone \in Cells
        BY <1>1, <1>7, <2>1, <2>4 DEF At, IsPath
      <3>2. list.nodes[s[k]].next = At(s, n, k) /\ s[k] # s[k - 1]
        BY <1>1, <2>1 DEF IsPath
      <3> QED
        BY <2>4, <3>1, <3>2
    <2> HIDE DEF gone
    <2>6. behind \in Cells \cup {NULL} /\ root \in Cells \cup {NULL}
          /\ last \in Cells \cup {NULL}
      BY <1>1, <2>5 DEF Lists, Nodes
    <2>7. new = With(base, nodes, m, root, last)
      <3>1. new = [found EXCEPT !.nodes[gone] = Freed, !.nodes[prev].next = behind,
                                !._size = @ - 1, !.isCached = FALSE]
        BY <1>2, <1>7, <2>1 DEF remove, prev, gone
      <3> HIDE DEF gone, prev, behind, found, root, last
      <3> DEFINE f1 == [found EXCEPT !.nodes[gone] = Freed]
                 f2 == [f1 EXCEPT !.nodes[prev].next = behind]
      <3>2. new = [f2 EXCEPT !._size = @ - 1, !.isCached = FALSE]
        BY <3>1
      <3>3. f1 = [found EXCEPT !.nodes = cut]
        BY <2>2 DEF Lists
      <3> HIDE DEF f1, cut
      <3>4. f2 = [found EXCEPT !.nodes = nodes]
        BY <2>2, <3>3 DEF Lists
      <3> HIDE DEF f2, nodes, new
      <3> QED
        BY <2>2, <3>2, <3>4 DEF Lists, With, Uncached
    <2> HIDE DEF prev, gone, behind, found, base, root, last, k
    <2>8. /\ cut \in [Cells -> Nodes(D)] /\ cut[gone] = Freed
          /\ \A x \in Cells \ {gone} : cut[x] = list.nodes[x]
      BY <1>2, <1>3, <2>5
    <2> HIDE DEF cut
    <2>9. /\ nodes \in [Cells -> Nodes(D)] /\ nodes[gone] = Freed
          /\ \A x \in Cells \ {gone} :
               /\ nodes[x].used = list.nodes[x].used
               /\ nodes[x].data = list.nodes[x].data
               /\ nodes[x].next = IF x = prev THEN behind ELSE list.nodes[x].next
      BY <2>4, <2>5, <2>6, <2>8 DEF Nodes
    <2> HIDE DEF nodes, new, m
    <2>10. new \in Lists(D) /\ ~new.isCached
      <3>1. nodes \in [Cells -> Nodes(D)] /\ m \in Nat
        BY <2>1, <2>9
      <3> QED
        BY <2>3, <2>6, <2>7, <3>1, ListWith
    <2>11. new.nodes = nodes /\ new._size = m /\ new.root = root /\ new.last = last
      BY <2>3, <2>7 DEF With, Lists
    <2>12. TakesOut(new, list, s, k)
      BY <1>3, <2>1, <2>4, <2>5, <2>9, <2>10, <2>11 DEF TakesOut, m, root, last
    <2>13. WellFormed(new, D) /\ Elements(new) = RemoveAt(Elements(list), k)
      BY <1>1, <2>10, <2>12, RemoveNode
    <2> QED
      BY <1>7, <2>11, <2>13 DEF new, m, k
  <1> QED
    BY <1>2, <1>4, <1>5, <1>6, <1>7

\* The list without its first i nodes.
Emptied(list, s, i) ==
  With(Uncached(list),
       [x \in Cells |-> IF \E h \in 1..i : s[h] = x THEN Freed ELSE list.nodes[x]],
       list._size - i, At(s, list._size, i), IF i = list._size THEN NULL ELSE list.last)

LEMMA ShiftEmpties ==
  ASSUME NEW D, NEW list \in Lists(D), NEW s, IsPath(list, s),
         NEW i \in 1..list._size, NEW now \in Lists(D),
         Uncached(now) = Emptied(list, s, i - 1)
  PROVE  shift(now) = Emptied(list, s, i)
  <1> DEFINE n == list._size
             base == Uncached(list)
             N(j) == [x \in Cells |-> IF \E h \in 1..j : s[h] = x THEN Freed
                                      ELSE list.nodes[x]]
             End(j) == IF j = n THEN NULL ELSE list.last
             cut == [now.nodes EXCEPT ![now.root] = Freed]
  <1>1. n \in Nat /\ base \in Lists(D)
    BY ListUncached DEF Lists
  <1>2. Emptied(list, s, i - 1) = With(base, N(i - 1), n - (i - 1), At(s, n, i - 1), End(i - 1))
    BY DEF Emptied
  <1>3. /\ now.nodes = N(i - 1) /\ now._size = n - (i - 1) /\ now.root = At(s, n, i - 1)
        /\ now.last = End(i - 1)
    <2> DEFINE old == Uncached(now)
    <2>1. /\ old.nodes = now.nodes /\ old._size = now._size /\ old.root = now.root
          /\ old.last = now.last
      BY ListUncached
    <2> HIDE DEF old, N, End
    <2>2. old = With(base, N(i - 1), n - (i - 1), At(s, n, i - 1), End(i - 1))
      BY <1>2 DEF old
    <2> QED
      BY <1>1, <2>1, <2>2 DEF With, Lists
  <1>4. now.root = s[i] /\ now.last = list.last /\ s[i] \in Cells /\ i \in 1..n
    <2>1. i - 1 < n /\ (i - 1) + 1 = i /\ i - 1 # n
      BY <1>1
    <2>2. At(s, n, i - 1) = s[i] /\ End(i - 1) = list.last
      BY <2>1 DEF At
    <2>3. s[i] \in Cells
      BY DEF IsPath
    <2> QED
      BY <1>3, <2>2, <2>3
  <1>5. cut = N(i)
    <2>1. ASSUME NEW x \in Cells
          PROVE  (\E h \in 1..i : s[h] = x) <=> x = s[i] \/ \E h \in 1..(i - 1) : s[h] = x
      BY <1>1
    <2> QED
      BY <1>3, <1>4, <2>1
  <1>6. now.nodes[s[i]].next = At(s, n, i)
    <2>1. ~\E h \in 1..(i - 1) : s[h] = s[i]
      BY <1>1, <1>4 DEF IsPath
    <2>2. now.nodes[s[i]] = list.nodes[s[i]]
      BY <1>3, <1>4, <2>1
    <2> QED
      BY <1>4, <2>2 DEF IsPath
  <1> HIDE DEF N, End, cut
  <1>7. shift(now) = With(Uncached(now), cut, n - i, At(s, n, i), End(i))
    <2>1. CASE i = n
      <3>1. now._size = 1 /\ n - i = 0 /\ At(s, n, i) = NULL /\ End(i) = NULL
        <4>1. n - (i - 1) = 1 /\ n - i = 0 /\ ~(i < n)
          BY <1>1, <2>1
        <4> QED
          BY <1>3, <2>1, <4>1 DEF At, End
      <3>2. shift(now) = pop(now)
        BY <3>1 DEF shift
      <3>3. pop(now) = With(Uncached(now), cut, 0, NULL, NULL)
        BY <3>1, PopOnly DEF cut
      <3> QED
        BY <3>1, <3>2, <3>3
    <2>2. CASE i # n
      <3>1. now._size > 1 /\ now._size - 1 = n - i /\ End(i) = list.last
        BY <1>1, <1>3, <2>2 DEF End
      <3>2. shift(now) = With(Uncached(now), cut, now._size - 1, now.nodes[now.root].next,
                              now.last)
        BY <3>1, ShiftFirst DEF cut
      <3> QED
        BY <1>4, <1>6, <3>1, <3>2
    <2> QED
      BY <2>1, <2>2
  <1>8. shift(now) = With(base, N(i), n - i, At(s, n, i), End(i))
    BY <1>1, <1>2, <1>5, <1>7, WithAgain
  <1> QED
    BY <1>8 DEF Emptied, N, End

LEMMA ClearEmpties ==
  ASSUME NEW D, NEW list, WellFormed(list, D), T \in D
  PROVE  /\ WellFormed(clear(list), D) /\ clear(list)._size = 0
         /\ Elements(clear(list)) = <<>>
  <1>1. PICK s \in [1..list._size -> Cells] : list \in Lists(D) /\ IsPath(list, s)
    BY DEF WellFormed
  <1> DEFINE n == list._size
             base == Uncached(list)
             Shifts(w) == [i \in 0..n |-> IF i = 0 THEN list ELSE shift(w[i - 1])]
             W == [i \in 0..n |-> IF i = 0 THEN list ELSE Emptied(list, s, i)]
             w == CHOOSE f : f = Shifts(f)
  <1>2. n \in Nat /\ base \in Lists(D) /\ ~base.isCached /\ list.last \in Cells \cup {NULL}
    BY <1>1, ListUncached DEF Lists
  <1>3. ASSUME NEW i \in 0..n
        PROVE  /\ Emptied(list, s, i) \in Lists(D) /\ ~Emptied(list, s, i).isCached
               /\ Uncached(Emptied(list, s, i)) = Emptied(list, s, i)
    <2> DEFINE nodes == [x \in Cells |-> IF \E h \in 1..i : s[h] = x THEN Freed
                                         ELSE list.nodes[x]]
               m == n - i
               root == At(s, n, i)
               last == IF i = n THEN NULL ELSE list.last
               new == Emptied(list, s, i)
    <2>1. Freed \in Nodes(D) /\ \A x \in Cells : list.nodes[x] \in Nodes(D)
      BY <1>1 DEF Freed, Nodes, Lists
    <2>2. nodes \in [Cells -> Nodes(D)]
      BY <2>1
    <2>3. m \in Nat /\ root \in Cells \cup {NULL} /\ last \in Cells \cup {NULL}
      <3>1. i < n => i + 1 \in 1..n
        BY <1>2
      <3> QED
        BY <1>1, <1>2, <3>1, SMTT(40) DEF At, IsPath
    <2>4. new = With(base, nodes, m, root, last)
      BY DEF Emptied
    <2> HIDE DEF nodes, m, root, last, base, new
    <2>5. new \in Lists(D) /\ ~new.isCached
      BY <1>2, <2>2, <2>3, <2>4, ListWith
    <2>6. Uncached(new) = new
      BY <2>5 DEF Uncached, Lists
    <2> QED
      BY <2>5, <2>6 DEF new
  <1>4. base = Emptied(list, s, 0)
    <2>1. [x \in Cells |-> IF \E h \in 1..0 : s[h] = x THEN Freed ELSE list.nodes[x]] = list.nodes
      BY <1>1 DEF Lists
    <2>2. At(s, n, 0) = list.root /\ (IF 0 = n THEN NULL ELSE list.last) = list.last /\ n - 0 = n
      BY <1>1, <1>2 DEF IsPath
    <2>3. Emptied(list, s, 0) = With(base, list.nodes, n, list.root, list.last)
      BY <2>1, <2>2 DEF Emptied
    <2> QED
      BY <1>1, <2>3 DEF With, Uncached, Lists
  <1>5. ASSUME NEW i \in 1..n PROVE shift(W[i - 1]) = Emptied(list, s, i)
    <2> DEFINE now == W[i - 1]
    <2>1. now \in Lists(D) /\ Uncached(now) = Emptied(list, s, i - 1)
      BY <1>1, <1>2, <1>3, <1>4
    <2> HIDE DEF now
    <2>2. shift(now) = Emptied(list, s, i)
      BY <1>1, <2>1, ShiftEmpties
    <2> QED
      BY <2>2 DEF now
  <1>6. W = Shifts(W)
    <2>1. ASSUME NEW i \in 0..n PROVE W[i] = Shifts(W)[i]
      BY <1>2, <1>5
    <2> HIDE DEF n
    <2> QED
      BY <2>1
  <1>7. w = Shifts(w)
    BY <1>6
  <1>8. clear(list) = w[n]
    BY DEF clear
  <1> DEFINE Wrong == {i \in 0..n : w[i] # W[i]}
  <1> HIDE DEF w, W
  <1>9. ASSUME Wrong # {} PROVE FALSE
    <2> Wrong \in SUBSET Nat
      BY <1>2
    <2> HIDE DEF Wrong
    <2>1. PICK i \in Wrong : \A h \in Wrong : i <= h
      BY <1>9, LeastOfNats
    <2> USE DEF Wrong
    <2>2. w[i] = Shifts(w)[i] /\ W[i] = Shifts(W)[i]
      BY <1>6, <1>7, Zenon
    <2>3. CASE i = 0
      BY <2>1, <2>2, <2>3
    <2>4. CASE i # 0
      <3>1. i - 1 \in 0..n /\ i - 1 \notin Wrong
        BY <1>2, <2>1, <2>4
      <3> QED
        BY <2>1, <2>2, <2>4, <3>1
    <2> QED
      BY <2>3, <2>4
  <1>10. clear(list) = W[n]
    BY <1>2, <1>8, <1>9
  <1>11. CASE n = 0
    <2>1. clear(list) = list
      BY <1>10, <1>11 DEF W
    <2> QED
      BY <1>1, <1>11, <2>1, ElementsOnPath
  <1>12. CASE n # 0
    <2> DEFINE new == Emptied(list, s, n)
               empty == [i \in 1..0 |-> NULL]
    <2>1. clear(list) = new
      BY <1>2, <1>10, <1>12 DEF W
    <2>2. new \in Lists(D) /\ ~new.isCached
      BY <1>2, <1>3
    <2>3. /\ new._size = n - n /\ new.root = At(s, n, n) /\ new.last = NULL
          /\ new.nodes = [x \in Cells |-> IF \E h \in 1..n : s[h] = x THEN Freed
                                          ELSE list.nodes[x]]
      BY <1>2 DEF Emptied, With, Lists
    <2>4. new._size = 0 /\ new.root = NULL
      BY <1>2, <2>3 DEF At
    <2>5. \A x \in Cells : ~new.nodes[x].used
      BY <1>1, <2>3 DEF IsPath, Freed
    <2> HIDE DEF new
    <2>6. IsPath(new, empty) /\ empty \in [1..new._size -> Cells]
      BY <2>2, <2>3, <2>4, <2>5 DEF IsPath, At
    <2>7. WellFormed(new, D)
      BY <2>2, <2>6 DEF WellFormed
    <2>8. Elements(new) = <<>>
      BY <2>2, <2>4, <2>6, ElementsOnPath
    <2> QED
      BY <2>1, <2>4, <2>7, <2>8
  <1> QED
    BY <1>11, <1>12

-----------------------------------------------------------------------------
(* The calls.                                                              *)

Values == Data \cup {T}

\* The list of the caller, whatever the order of the calls.
ListInv == WellFormed(l, Values) /\ l._size <= MaxSize

LEMMA RoomIsRoom == MaxSize \in Nat /\ MaxSize = Cardinality(Cells)
  BY ListAssumption, CellsAssumption, FS_CardinalityType

LEMMA ListFacts ==
  ASSUME ListInv
  PROVE  l \in Lists(Values) /\ l._size \in Nat /\ Elements(l) \in Seq(Values)
         /\ Len(Elements(l)) = l._size /\ \E s : IsPath(l, s)
  BY ElementsOnPath DEF ListInv, WellFormed, Lists

\* A call that puts t in at an index, which behind the end stands for the end.
LEMMA AddCalls ==
  ASSUME ListInv, Room, NEW t \in Data,
         NEW index \in Nat, index <= l._size + 1,
         l' = addAt(l, index, t) \/ (index = l._size /\ l' = add(l, t))
                                 \/ (index = 0 /\ l' = unshift(l, t))
  PROVE  ListInv' /\ Elements(l)' = InsertAt(Elements(l),
                       (IF index > l._size THEN l._size ELSE index) + 1, t)
         /\ l'._size = l._size + 1
  <1>1. /\ WellFormed(l, Values) /\ l._size < Cardinality(Cells) /\ t \in Values
        /\ l._size \in Nat /\ Elements(l) \in Seq(Values) /\ Len(Elements(l)) = l._size
    BY ListFacts, RoomIsRoom DEF ListInv, Room, Values
  <1> DEFINE at == IF index > l._size THEN l._size ELSE index
  <1>2. WellFormed(l', Values) /\ Elements(l') = InsertAt(Elements(l), at + 1, t)
    <2>1. CASE l' = add(l, t) /\ index >= l._size
      <3>1. at = l._size
        BY <1>1, <2>1
      <3> QED
        BY <1>1, <2>1, <3>1, AddInserts
    <2>2. CASE l' = unshift(l, t) /\ index = 0
      <3>1. at + 1 = 1
        BY <1>1, <2>2
      <3> QED
        BY <1>1, <2>2, <3>1, UnshiftInserts
    <2>3. CASE l' = InsertBehind(l, index - 1, t) /\ index < l._size /\ index # 0
      <3>1. /\ at + 1 = (index - 1) + 2 /\ index - 1 \in Nat
            /\ (index - 1) + 1 < l._size
        BY <1>1, <2>3
      <3> QED
        BY <1>1, <2>3, <3>1, InsertBehindInserts
    <2> QED
      BY <1>1, <2>1, <2>2, <2>3 DEF addAt
  <1>3. l'._size = l._size + 1
    <2>1. at + 1 \in 1..(l._size + 1)
      BY <1>1
    <2> HIDE DEF at
    <2>2. Elements(l') = Inserted(Elements(l), l._size, at + 1, t)
      BY <1>1, <1>2, <2>1, InsertedSeq
    <2>3. Len(Elements(l')) = l'._size /\ l'._size \in Nat
      BY <1>2, ElementsOnPath DEF WellFormed, Lists
    <2>4. Len(Elements(l')) = l._size + 1
      BY <1>1, <2>2 DEF Inserted
    <2> QED
      BY <2>3, <2>4
  <1>4. l'._size <= MaxSize
    BY <1>1, <1>3, RoomIsRoom DEF Room
  <1> QED
    BY <1>2, <1>3, <1>4 DEF ListInv

\* A call that takes out the element at an index, nothing behind the end.
LEMMA TakeOutCalls ==
  ASSUME ListInv, NEW index \in Int,
         \/ index >= 0 /\ l' = remove(l, index)
         \/ index = l._size - 1 /\ l' = pop(l)
         \/ index = 0 /\ l' = shift(l),
         got' = removed(l, index)
  PROVE  /\ ListInv'
         /\ Elements(l)' = IF index \in 0..(l._size - 1) THEN RemoveAt(Elements(l), index + 1)
                           ELSE Elements(l)
         /\ got' = IF index \in 0..(l._size - 1) THEN Elements(l)[index + 1] ELSE T
  <1>1. /\ WellFormed(l, Values) /\ T \in Values /\ l._size \in Nat /\ l._size <= MaxSize
        /\ MaxSize \in Nat
    BY ListFacts, RoomIsRoom DEF ListInv, Values
  <1>2. /\ WellFormed(l', Values)
        /\ IF index \in 0..(l._size - 1)
             THEN l'._size = l._size - 1 /\ Elements(l') = RemoveAt(Elements(l), index + 1)
             ELSE l' = l
    <2>1. CASE index >= 0 /\ l' = remove(l, index)
      <3>1. index \in Nat /\ (index \in 0..(l._size - 1) <=> index < l._size)
        BY <1>1, <2>1
      <3> QED
        BY <1>1, <2>1, <3>1, RemoveRemoves
    <2>2. CASE index = l._size - 1 /\ l' = pop(l)
      <3>1. index + 1 = l._size /\ (index \in 0..(l._size - 1) <=> l._size > 0)
            /\ (l._size > 0 \/ l._size = 0)
        BY <1>1, <2>2
      <3> QED
        BY <1>1, <2>2, <3>1, PopRemoves
    <2>3. CASE index = 0 /\ l' = shift(l)
      <3>1. index + 1 = 1 /\ (index \in 0..(l._size - 1) <=> l._size > 0)
            /\ (l._size > 0 \/ l._size = 0)
        BY <1>1, <2>3
      <3> QED
        BY <1>1, <2>3, <3>1, ShiftRemoves
    <2> QED
      BY <2>1, <2>2, <2>3
  <1>3. l'._size <= MaxSize
    BY <1>1, <1>2
  <1>4. index \in 0..(l._size - 1) => get(l, index) = Elements(l)[index + 1]
    <2> SUFFICES ASSUME index \in 0..(l._size - 1)
                 PROVE  get(l, index) = Elements(l)[index + 1]
        OBVIOUS
    <2>1. index \in Nat /\ index < l._size
      BY <1>1
    <2> QED
      BY <2>1, ListFacts, GetOnPath
  <1> QED
    BY <1>2, <1>3, <1>4 DEF ListInv, removed

\* Every call leaves the invariant true and does to the sequence of elements what
\* a step of ElementList does.
LEMMA CallImplements ==
  ASSUME ListInv, [ListNext]_callVars
  PROVE  ListInv' /\ [Sequence!Next]_<<Elements(l), got>>
  <1> DEFINE e == Elements(l)
             size == l._size
  <1>1. /\ l \in Lists(Values) /\ size \in Nat /\ size <= MaxSize /\ MaxSize \in Nat
        /\ e \in Seq(Values) /\ Len(e) = size /\ WellFormed(l, Values) /\ T \in Values
    BY ListFacts, RoomIsRoom DEF ListInv, Values
  <1>2. ASSUME Room, NEW t \in Data, NEW i \in 0..(size + 1), got' = T,
               l' = addAt(l, i, t) \/ (i = size /\ l' = add(l, t))
                                   \/ (i = 0 /\ l' = unshift(l, t))
        PROVE  ListInv' /\ Sequence!Next
    <2>1. ListInv' /\ e' = InsertAt(e, (IF i > Len(e) THEN Len(e) ELSE i) + 1, t)
      BY <1>1, <1>2, AddCalls
    <2>2. size < MaxSize /\ i \in 0..MaxSize
      BY <1>1, <1>2 DEF Room
    <2>3. Sequence!Insert(i, t)
      BY <1>1, <1>2, <2>1, <2>2 DEF Sequence!Insert, Sequence!InsertAt, InsertAt
    <2> QED
      BY <2>1, <2>2, <2>3 DEF Sequence!Next
  <1>3. ASSUME NEW t \in Data, NEW i \in 0..(size + 1), SetAt(i, t)
        PROVE  ListInv' /\ Sequence!Next
    <2> DEFINE at == IF i < size THEN i ELSE size
    <2>1. /\ WellFormed(l', Values) /\ l'._size = size
          /\ e' = IF i < size THEN ReplaceAt(e, i + 1, t) ELSE e
      <3>1. t \in Values /\ i \in Nat /\ l' = set(l, i, t)
        BY <1>1, <1>3 DEF Values, SetAt
      <3>2. /\ WellFormed(set(l, i, t), Values) /\ set(l, i, t)._size = l._size
            /\ Elements(set(l, i, t)) = IF i < l._size THEN ReplaceAt(Elements(l), i + 1, t)
                                        ELSE Elements(l)
        <4> DEFINE old == l
        <4>1. WellFormed(old, Values) /\ t \in Values /\ i \in Nat
          BY <1>1, <3>1
        <4> HIDE DEF old
        <4>2. /\ WellFormed(set(old, i, t), Values) /\ set(old, i, t)._size = old._size
              /\ Elements(set(old, i, t)) =
                   IF i < old._size THEN ReplaceAt(Elements(old), i + 1, t) ELSE Elements(old)
          BY <4>1, SetReplaces
        <4> QED
          BY <4>2 DEF old
      <3> QED
        BY <3>1, <3>2
    <2>2. Sequence!Set(at, t) /\ at \in 0..MaxSize
      <3>1. /\ got' = T /\ at \in 0..MaxSize /\ (at < Len(e) <=> i < size)
            /\ i < size => at = i
        BY <1>1, <1>3 DEF SetAt
      <3>2. e' = IF at < Len(e) THEN Sequence!ReplaceAt(e, at + 1, t) ELSE e
        BY <2>1, <3>1 DEF Sequence!ReplaceAt, ReplaceAt
      <3> QED
        BY <3>1, <3>2 DEF Sequence!Set
    <2> HIDE DEF at
    <2> QED
      BY <1>1, <2>1, <2>2 DEF ListInv, Sequence!Next
  <1>4. ASSUME NEW index \in Int, index <= size + 1,
               \/ index >= 0 /\ l' = remove(l, index)
               \/ index = size - 1 /\ l' = pop(l)
               \/ index = 0 /\ l' = shift(l),
               got' = removed(l, index)
        PROVE  ListInv' /\ Sequence!Next
    <2> DEFINE at == IF index \in 0..(size - 1) THEN index ELSE size
    <2>1. /\ ListInv'
          /\ e' = IF index \in 0..(size - 1) THEN RemoveAt(e, index + 1) ELSE e
          /\ got' = IF index \in 0..(size - 1) THEN e[index + 1] ELSE T
      BY <1>4, TakeOutCalls
    <2>2. Sequence!TakeOut(at) /\ at \in 0..MaxSize
      BY <1>1, <2>1 DEF Sequence!TakeOut, Sequence!RemoveAt, RemoveAt
    <2> HIDE DEF at
    <2> QED
      BY <2>1, <2>2 DEF Sequence!Next
  <1>5. ASSUME NEW i \in 0..(size + 1), Get(i)
        PROVE  ListInv' /\ Sequence!Next
    <2> DEFINE at == IF i < size THEN i ELSE size
    <2>1. PICK s : IsPath(l, s) /\ s \in [1..size -> Cells]
      BY <1>1 DEF WellFormed
    <2>2. /\ l' \in Lists(Values) /\ IsPath(l', s) /\ l'.nodes = l.nodes /\ l'._size = size
          /\ got' = IF i < size THEN e[i + 1] ELSE T
      <3>1. l' = Got(l, i) /\ got' = get(l, i) /\ i \in Nat
        BY <1>1, <1>5 DEF Get
      <3>2. Got(l, i) \in Lists(Values) /\ IsPath(Got(l, i), s)
            /\ Got(l, i).nodes = l.nodes /\ Got(l, i)._size = l._size
        BY <1>1, <2>1, <3>1, GetNode
      <3>3. get(l, i) = IF i < l._size THEN Elements(l)[i + 1] ELSE T
        BY <1>1, <2>1, <3>1, GetOnPath
      <3> QED
        BY <3>1, <3>2, <3>3
    <2>3. e' = e
      BY <1>1, <2>1, <2>2, ElementsOnPath
    <2>4. Sequence!Get(at) /\ at \in 0..MaxSize
      BY <1>1, <2>2, <2>3 DEF Sequence!Get
    <2> HIDE DEF at
    <2> QED
      BY <1>1, <2>1, <2>2, <2>4 DEF ListInv, WellFormed, Sequence!Next
  <1>6. CASE Clear
    <2>1. WellFormed(l', Values) /\ l'._size = 0 /\ e' = <<>> /\ got' = T
      BY <1>1, <1>6, ClearEmpties DEF Clear
    <2>2. Sequence!Clear
      BY <2>1 DEF Sequence!Clear
    <2> QED
      BY <1>1, <2>1, <2>2 DEF ListInv, Sequence!Next
  <1>7. CASE UNCHANGED callVars
    <2>1. l' = l /\ got' = got
      BY <1>7 DEF callVars
    <2> QED
      BY <2>1 DEF ListInv, WellFormed
  <1>8. ASSUME NEW t \in Data, Add(t) \/ Unshift(t) PROVE ListInv' /\ Sequence!Next
    <2>1. size \in 0..(size + 1) /\ 0 \in 0..(size + 1)
      BY <1>1
    <2> QED
      BY <1>2, <1>8, <2>1 DEF Add, Unshift
  <1>9. ASSUME NEW t \in Data, NEW i \in Indices, AddAt(i, t) PROVE ListInv' /\ Sequence!Next
    BY <1>2, <1>9 DEF AddAt, Indices
  <1>10. ASSUME NEW i \in Indices, TakeOut(i) PROVE ListInv' /\ Sequence!Next
    BY <1>1, <1>4, <1>10 DEF TakeOut, Indices
  <1>11. ASSUME Pop \/ Shift PROVE ListInv' /\ Sequence!Next
    <2>1. size - 1 \in Int /\ size - 1 <= size + 1 /\ 0 <= size + 1
      BY <1>1
    <2> QED
      BY <1>4, <1>11, <2>1 DEF Pop, Shift
  <1> HIDE DEF e, size
  <1> QED
    BY <1>3, <1>5, <1>6, <1>7, <1>8, <1>9, <1>10, <1>11 DEF ListNext, Indices, size

\* The new list is empty.
LEMMA ListInitInv ==
  ASSUME ListInit
  PROVE  ListInv /\ Sequence!Init
  <1> DEFINE empty == [i \in 1..0 |-> NULL]
             D == Values
  <1>1. l \in Lists(Values)
    BY DEF ListInit, LinkedList, Lists, Nodes, Freed, Values
  <1>2. /\ l._size = 0 /\ l.root = NULL /\ l.last = NULL /\ ~l.isCached
        /\ \A c \in Cells : ~l.nodes[c].used
    BY DEF ListInit, LinkedList, Freed
  <1>3. IsPath(l, empty) /\ empty \in [1..l._size -> Cells]
    BY <1>2 DEF IsPath, At
  <1>4. Elements(l) = <<>>
    BY <1>1, <1>2, <1>3, ElementsOnPath
  <1>5. ListInv
    <2>1. WellFormed(l, Values)
      BY <1>1, <1>3 DEF WellFormed
    <2>2. l._size <= MaxSize
      BY <1>2, RoomIsRoom
    <2> QED
      BY <2>1, <2>2 DEF ListInv
  <1> QED
    BY <1>4, <1>5 DEF ListInit, Sequence!Init

\* A path is what WellLinked and CacheIsRight speak of.
LEMMA PathIsRight ==
  ASSUME ListInv
  PROVE  LinksAreRight
  <1>1. PICK s : IsPath(l, s) /\ l \in Lists(Values) /\ s \in [1..l._size -> Cells]
    BY DEF ListInv, WellFormed
  <1> DEFINE n == l._size
             chain == [k \in 1..n |-> Walk(l, l.root, k - 1)]
  <1>2. n \in Nat /\ l.root = At(s, n, 0)
    BY <1>1 DEF Lists, IsPath
  <1>3. ASSUME NEW j \in Nat PROVE Walk(l, l.root, j) = At(s, n, j)
    BY <1>1, <1>2, WalkOnPath, 0 + j = j
  <1>4. chain = s
    <2>1. ASSUME NEW k \in 1..n PROVE Walk(l, l.root, k - 1) = s[k]
      <3>1. k - 1 \in Nat /\ k - 1 < n /\ (k - 1) + 1 = k
        BY <1>2
      <3> QED
        BY <1>3, <3>1 DEF At
    <2> QED
      BY <1>1, <2>1
  <1>5. Range(s) = Used(l)
    BY <1>1 DEF Range, Used, IsPath
  <1>6. Cardinality(Used(l)) = n
    <2>1. s \in Bijection(1..n, Used(l))
      BY <1>1 DEF Bijection, Injection, Surjection, IsInjective, Used, IsPath
    <2>2. IsFiniteSet(1..n) /\ Cardinality(1..n) = n
      BY <1>2, FS_Interval
    <2> QED
      BY <2>1, <2>2, FS_Bijection DEF ExistsBijection
  <1>7. IF n = 0 THEN l.root = NULL /\ l.last = NULL
        ELSE l.last = s[n] /\ l.nodes[l.last].next = NULL
    BY <1>1, <1>2 DEF IsPath, At
  <1>8. WellLinked
    BY <1>4, <1>5, <1>6, <1>7 DEF WellLinked
  <1>9. CacheIsRight
    <2>1. l.isCached => l.lastIndexGot \in Nat /\ l.lastIndexGot <= n
      BY <1>1 DEF Lists, IsPath
    <2> QED
      BY <1>1, <1>2, <1>3, <2>1 DEF CacheIsRight, IsPath
  <1> QED
    BY <1>8, <1>9 DEF LinksAreRight

\* For every heap and every order of calls: the nodes that are in use are those that
\* lead from root to last, _size of them, and what getNode remembers is right.
THEOREM LinksStayRight == ListSpec => []LinksAreRight
  <1>1. ListInit => ListInv
    BY ListInitInv
  <1>2. ListInv /\ [ListNext]_callVars => ListInv'
    BY CallImplements
  <1>3. ListInv => LinksAreRight
    BY PathIsRight
  <1> QED
    BY <1>1, <1>2, <1>3, PTL DEF ListSpec

\* Whatever getNode remembers, every call answers and changes the list as the
\* sequence of ElementList.
THEOREM ListIsSequence == ListSpec => ImplementsSequence
  <1>1. ListInit => ListInv /\ Sequence!Init
    BY ListInitInv
  <1>2. ListInv /\ [ListNext]_callVars => ListInv' /\ [Sequence!Next]_<<Elements(l), got>>
    BY CallImplements
  <1> QED
    BY <1>1, <1>2, PTL DEF ListSpec, ImplementsSequence, Sequence!Spec, Sequence!listVars

-----------------------------------------------------------------------------
(* The runner of an action group (XpiderInfo).                             *)

\* While an action is watched, elapsed is the way the clock has gone since its start.
TimeInv ==
  /\ clock \in 0..(ClockSize - 1) /\ elapsed \in 0..(ClockSize - 1)
  /\ "is_enable" \in DOMAIN action_status
  /\ action_status.is_enable => /\ action_status.time_start \in 0..(ClockSize - 1)
                                /\ (clock - action_status.time_start) % ClockSize = elapsed

LEMMA InitTimeInv == Init => TimeInv
  BY InfoAssumption DEF Init, TimeInv

\* One tick of the clock brings the difference one further, the turn included.
LEMMA TickKeepsTime ==
  ASSUME TimeInv, Tick
  PROVE  TimeInv'
  <1> DEFINE N == ClockSize
             start == action_status.time_start
  <1>1. /\ N \in Nat \ {0} /\ clock \in 0..(N - 1) /\ elapsed \in 0..(N - 1)
        /\ elapsed < N - 1 /\ clock' = (clock + 1) % N /\ action_status' = action_status
        /\ elapsed' = IF action_status.is_enable THEN elapsed + 1 ELSE elapsed
    BY InfoAssumption DEF TimeInv, Tick, runVars
  <1>2. clock' = (IF clock = N - 1 THEN 0 ELSE clock + 1) /\ clock' \in 0..(N - 1)
    BY <1>1
  <1>3. elapsed' \in 0..(N - 1)
    BY <1>1
  <1>4. ASSUME action_status.is_enable
        PROVE  start \in 0..(N - 1) /\ (clock' - start) % N = elapsed + 1
    <2>1. start \in 0..(N - 1) /\ (clock - start) % N = elapsed
      BY <1>4 DEF TimeInv
    <2> HIDE DEF N, start
    <2>2. elapsed = IF clock >= start THEN clock - start ELSE clock - start + N
      BY <1>1, <2>1
    <2>3. clock' - start = elapsed + 1 \/ clock' - start = elapsed + 1 - N
      BY <1>1, <1>2, <2>1, <2>2
    <2>4. (clock' - start) % N = elapsed + 1
      BY <1>1, <2>3
    <2> QED
      BY <2>1, <2>4
  <1> QED
    BY <1>1, <1>2, <1>3, <1>4 DEF TimeInv

LEMMA NextKeepsTime == TimeInv /\ [Next]_vars => TimeInv'
  <1> SUFFICES ASSUME TimeInv, [Next]_vars PROVE TimeInv'
      OBVIOUS
  <1>1. ClockSize \in Nat \ {0}
    BY InfoAssumption
  <1>2. ASSUME NEW n \in 0..MaxActions, SetCurrentAction(n) PROVE TimeInv'
    <2>1. /\ clock' = clock /\ elapsed' = 0
          /\ "is_enable" \in DOMAIN action_status'
          /\ action_status'.is_enable => action_status'.time_start = clock
      <3> DEFINE list == action_group_list[running_group_id]
                 runs == list._size > 0 /\ n < list._size
                 element == Element(get(list, n))
      <3>1. CASE runs
        <4>1. clock' = clock /\ elapsed' = 0
          BY <1>2 DEF SetCurrentAction
        <4>2. action_status' = [id |-> element.id, time_counter |-> TimeOf(element),
                                time_start |-> clock, is_enable |-> TRUE]
          BY <1>2, <3>1 DEF SetCurrentAction
        <4> QED
          BY <4>1, <4>2 DEF TimeInv
      <3>2. CASE ~runs
        <4>1. clock' = clock /\ elapsed' = 0
          BY <1>2 DEF SetCurrentAction
        <4>2. action_status' = [action_status EXCEPT !.is_enable = FALSE]
          BY <1>2, <3>2 DEF SetCurrentAction
        <4> QED
          BY <4>1, <4>2 DEF TimeInv
      <3> QED
        BY <3>1, <3>2
    <2> QED
      BY <1>1, <2>1 DEF TimeInv
  <1>3. CASE StopCurrentAction
    BY <1>1, <1>3 DEF StopCurrentAction, TimeInv
  <1>7. CASE Count
    BY <1>7 DEF Count, TimeInv
  <1>4. CASE Tick
    BY <1>4, TickKeepsTime
  <1>5. CASE UNCHANGED <<action_status, clock, elapsed>>
    BY <1>5 DEF TimeInv
  <1>6. \/ \E m \in Messages : ParseGroupMsg(m)
        \/ \E g \in Groups : NameGroup(g)
        \/ ClearAllGroupList \/ AskCurrentAction \/ UNCHANGED vars
        => UNCHANGED <<action_status, clock, elapsed>>
    BY DEF ParseGroupMsg, ClearAllGroupList, NameGroup, AskCurrentAction, vars, runVars,
           historyVars
  <1> QED
    BY <1>2, <1>3, <1>4, <1>5, <1>6, <1>7 DEF Next

\* However the clock turns, ifActionShouldStop tells whether the time of the action
\* is over.
THEOREM ActionStopsOnTime == Spec => []StopsOnTime
  <1>1. TimeInv => StopsOnTime
    BY DEF TimeInv, StopsOnTime, ifActionShouldStop
  <1> QED
    BY <1>1, InitTimeInv, NextKeepsTime, PTL DEF Spec

-----------------------------------------------------------------------------

\* A function made step by step, from values of one set to values of the next.
Steps(w, n, s, F) == w[0] = s /\ \A i \in 1..n : w[i] = F[i][w[i - 1]]

LEMMA StepsExist ==
  ASSUME NEW n \in Nat, NEW Good, NEW F, NEW s \in Good[0],
         \A i \in 1..n : \A x \in Good[i - 1] : F[i][x] \in Good[i]
  PROVE  \E w : /\ w = [i \in 0..n |-> w[i]] /\ Steps(w, n, s, F)
                /\ \A i \in 0..n : w[i] \in Good[i]
  <1> DEFINE Made(m, w) == /\ w = [i \in 0..m |-> w[i]] /\ Steps(w, m, s, F)
                           /\ \A i \in 0..m : w[i] \in Good[i]
             Bad == {m \in 0..n : ~\E w : Made(m, w)}
  <1>1. ASSUME Bad # {} PROVE FALSE
    <2>1. Bad \in SUBSET Nat
      OBVIOUS
    <2> HIDE DEF Bad
    <2>2. PICK m \in Bad : \A k \in Bad : m <= k
      BY <1>1, <2>1, LeastOfNats
    <2> USE DEF Bad
    <2>3. CASE m = 0
      <3> DEFINE w == [i \in 0..0 |-> s]
      <3>1. Made(0, w)
        BY DEF Steps
      <3> QED
        BY <2>2, <2>3, <3>1
    <2>4. CASE m # 0
      <3>1. m - 1 \in 0..n /\ m \in 1..n /\ m - 1 \notin Bad /\ m \in Nat
        BY <2>2, <2>4
      <3>2. PICK w : Made(m - 1, w)
        BY <3>1
      <3> DEFINE v == [i \in 0..m |-> IF i = m THEN F[m][w[m - 1]] ELSE w[i]]
      <3>3. w[m - 1] \in Good[m - 1] /\ F[m][w[m - 1]] \in Good[m]
        BY <3>1, <3>2
      <3>4. \A i \in 0..m : v[i] \in Good[i]
        <4> TAKE i \in 0..m
        <4>1. CASE i = m
          BY <3>3, <4>1
        <4>2. CASE i # m
          <5>1. i \in 0..(m - 1)
            BY <3>1, <4>2
          <5> QED
            BY <3>2, <4>2, <5>1
        <4> QED
          BY <4>1, <4>2
      <3>5. Steps(v, m, s, F)
        <4>1. v[0] = s
          BY <2>4, <3>1, <3>2 DEF Steps
        <4>2. ASSUME NEW i \in 1..m PROVE v[i] = F[i][v[i - 1]]
          <5>1. v[i - 1] = w[i - 1]
            BY <3>1
          <5>2. CASE i = m
            BY <5>1, <5>2
          <5>3. CASE i # m
            <6>1. i \in 1..(m - 1)
              BY <3>1, <5>3
            <6>2. w[i] = F[i][w[i - 1]]
              BY <3>2, <6>1 DEF Steps
            <6>3. v[i] = w[i]
              BY <5>3
            <6> QED
              BY <5>1, <6>2, <6>3, Zenon
          <5> QED
            BY <5>2, <5>3
        <4> QED
          BY <4>1, <4>2 DEF Steps
      <3>6. v = [i \in 0..m |-> v[i]]
        OBVIOUS
      <3> HIDE DEF v
      <3>7. Made(m, v)
        BY <3>4, <3>5, <3>6
      <3> QED
        BY <2>2, <3>7
    <2> QED
      BY <2>3, <2>4
  <1> QED
    BY <1>1

\* What every step of a recursive function keeps, its last value has.
LEMMA StepsKeep ==
  ASSUME NEW n \in Nat, NEW Good, NEW w, w[0] \in Good[0],
         \A i \in 1..n : w[i - 1] \in Good[i - 1] => w[i] \in Good[i]
  PROVE  w[n] \in Good[n]
  <1> DEFINE Bad == {m \in 0..n : w[m] \notin Good[m]}
  <1>1. ASSUME Bad # {} PROVE FALSE
    <2>1. Bad \in SUBSET Nat
      OBVIOUS
    <2> HIDE DEF Bad
    <2>2. PICK m \in Bad : \A k \in Bad : m <= k
      BY <1>1, <2>1, LeastOfNats
    <2> USE DEF Bad
    <2>3. m \in 1..n /\ m - 1 \notin Bad
      BY <2>2
    <2>4. w[m - 1] \in Good[m - 1]
      BY <2>3
    <2> QED
      BY <2>2, <2>3, <2>4
  <1> QED
    BY <1>1

-----------------------------------------------------------------------------
(* The memory of the action groups.                                        *)

Pointers == Cells \cup {NULL}
Stores == [lists : [Groups -> Lists(Pointers)], elems : [Cells -> Actions \cup {Gone}],
           blks : [Ids -> Int]]

\* The i-th pointer of a group, and the cells that hold an element.
Ptr(s, g, i) == Elements(s.lists[g])[i]
Places(s, g) == 1..s.lists[g]._size
Held(s) == {p \in Cells : s.elems[p] # Gone}

\* Every element is in one place of one list, and only the speaker's data outlive theirs.
Tidy(s) ==
  /\ \A g \in Groups : WellFormed(s.lists[g], Pointers)
  /\ \A g \in Groups : \A i \in Places(s, g) : Ptr(s, g, i) \in Held(s)
  /\ \A g, h \in Groups : \A i \in Places(s, g), j \in Places(s, h) :
       Ptr(s, g, i) = Ptr(s, h, j) => g = h /\ i = j
  /\ \A p \in Held(s) : \E g \in Groups : \E i \in Places(s, g) : Ptr(s, g, i) = p
OnlySpeakers(s) ==
  \A i \in Ids : IF i = "idSpeaker" THEN Lost(s.blks, s.elems, i) >= 0
                 ELSE Lost(s.blks, s.elems, i) = 0
Sound(s) == s \in Stores /\ Tidy(s) /\ OnlySpeakers(s)

\* The element at a place; a group that holds the first k of these actions; and one
\* that holds what it held in another store.
ElementAt(s, g, i) == s.elems[Ptr(s, g, i)]
Holds(s, g, actions, k) ==
  s.lists[g]._size = k /\ \A i \in 1..k : ElementAt(s, g, i) = actions[i]
Same(t, s, g) ==
  /\ t.lists[g]._size = s.lists[g]._size
  /\ \A i \in Places(s, g) : ElementAt(t, g, i) = ElementAt(s, g, i)

LEMMA StoreTypes ==
  ASSUME NEW s \in Stores
  PROVE  /\ s.lists \in [Groups -> Lists(Pointers)] /\ s.blks \in [Ids -> Int]
         /\ s.elems \in [Cells -> Actions \cup {Gone}]
  BY DEF Stores

LEMMA HeldIsFinite ==
  ASSUME NEW s
  PROVE  IsFiniteSet(Held(s)) /\ Held(s) \subseteq Cells /\ Cardinality(Held(s)) \in Nat
         /\ Cardinality(Held(s)) <= Cardinality(Cells)
  BY CellsAssumption, FS_Subset, FS_CardinalityType DEF Held

\* A pointer found at a place.
LEMMA PointerAtPlace ==
  ASSUME NEW s, Sound(s), NEW g \in Groups
  PROVE  /\ s.lists[g]._size \in Nat /\ WellFormed(s.lists[g], Pointers)
         /\ Elements(s.lists[g]) \in Seq(Pointers)
         /\ Len(Elements(s.lists[g])) = s.lists[g]._size
         /\ \A i \in Nat : get(s.lists[g], i) = IF i < s.lists[g]._size THEN Ptr(s, g, i + 1)
                                                ELSE NULL
  <1>1. WellFormed(s.lists[g], Pointers)
    BY DEF Sound, Tidy
  <1> DEFINE list == s.lists[g]
  <1>2. PICK p : list \in Lists(Pointers) /\ IsPath(list, p)
    BY <1>1 DEF WellFormed
  <1> HIDE DEF list
  <1>3. list._size \in Nat
    BY <1>2 DEF Lists
  <1>4. Elements(list) \in Seq(Pointers) /\ Len(Elements(list)) = list._size
    BY <1>2, ElementsOnPath
  <1>5. ASSUME NEW i \in Nat
        PROVE  get(list, i) = IF i < list._size THEN Elements(list)[i + 1] ELSE T
    BY <1>2, GetOnPath
  <1>6. T = NULL
    BY InfoAssumption
  <1> QED
    BY <1>1, <1>3, <1>4, <1>5, <1>6 DEF list, Ptr

\* ClearGroupList meets every pointer of the group.
LEMMA PointersOfGroup ==
  ASSUME NEW s, Sound(s), NEW g \in Groups
  PROVE  PointersOf(s.lists[g]) = {Ptr(s, g, i) : i \in Places(s, g)}
         /\ PointersOf(s.lists[g]) \subseteq Held(s)
  <1> DEFINE n == s.lists[g]._size
             P(i) == Ptr(s, g, i)
             G(i) == get(s.lists[g], i)
  <1>1. n \in Nat /\ \A i \in 0..(n - 1) : G(i) = P(i + 1)
    BY PointerAtPlace
  <1>2. \A i \in 1..n : P(i) \in Held(s)
    BY DEF Sound, Tidy, Places
  <1>3. \A i \in 1..n : P(i) # NULL
    BY <1>2, NullIsNoCell DEF Held
  <1>4. PointersOf(s.lists[g]) = {G(i) : i \in 0..(n - 1)} \ {NULL}
    BY DEF PointersOf
  <1> HIDE DEF P, G, n
  <1>5. {G(i) : i \in 0..(n - 1)} = {P(i) : i \in 1..n}
    <2>1. \A i \in 0..(n - 1) : i + 1 \in 1..n
      BY <1>1
    <2>2. \A i \in 1..n : i - 1 \in 0..(n - 1) /\ (i - 1) + 1 = i
      BY <1>1
    <2>3. \A i \in 1..n : G(i - 1) = P(i)
      BY <1>1, <2>2
    <2> QED
      BY <1>1, <2>1, <2>2, <2>3
  <1>6. PointersOf(s.lists[g]) = {P(i) : i \in 1..n}
    BY <1>3, <1>4, <1>5
  <1>7. PointersOf(s.lists[g]) \subseteq Held(s)
    BY <1>2, <1>6
  <1> QED
    BY <1>6, <1>7 DEF P, n, Places

\* What Free gives back: the elements, and of their data all but the speaker's.
LEMMA FreeGivesBack ==
  ASSUME NEW s \in Stores, NEW gone, gone \subseteq Held(s), OnlySpeakers(s)
  PROVE  /\ Free(s, gone) \in Stores /\ Free(s, gone).lists = s.lists
         /\ Held(Free(s, gone)) = Held(s) \ gone /\ OnlySpeakers(Free(s, gone))
  <1> DEFINE new == Free(s, gone)
             elems == [p \in Cells |-> IF p \in gone THEN Gone ELSE s.elems[p]]
             blks == [i \in Ids |-> IF i = "idSpeaker" THEN s.blks[i] ELSE
                        s.blks[i] - Cardinality({p \in gone : s.elems[p].id = i})]
  <1>1. /\ s.elems \in [Cells -> Actions \cup {Gone}] /\ s.blks \in [Ids -> Int]
        /\ gone \subseteq Cells
    BY DEF Stores, Held
  <1>2. new = [[s EXCEPT !.elems = elems] EXCEPT !.blks = blks]
    BY DEF Free, Stores
  <1> DEFINE Card(c, i) == Cardinality({p \in Cells : c[p].id = i})
             Part(i) == Cardinality({p \in gone : s.elems[p].id = i})
  <1>3. ASSUME NEW i \in Ids
        PROVE  /\ Card(s.elems, i) \in Nat /\ Part(i) \in Nat
               /\ Card(elems, i) = Card(s.elems, i) - Part(i)
    <2> DEFINE all == {p \in Cells : s.elems[p].id = i}
               part == {p \in gone : s.elems[p].id = i}
               left == {p \in Cells : elems[p].id = i}
    <2>1. IsFiniteSet(all) /\ IsFiniteSet(part)
      BY <1>1, CellsAssumption, FS_Subset
    <2>2. i # "idUnknow"
      BY DEF Ids
    <2>3. left = all \ part
      <3>1. Gone.id = "idUnknow"
        BY DEF Gone
      <3> QED
        BY <1>1, <2>2, <3>1
    <2>4. all \cap part = part
      BY <1>1
    <2> HIDE DEF all, part, left
    <2>5. Cardinality(left) = Cardinality(all) - Cardinality(part)
      <3>1. Cardinality(all \ part) = Cardinality(all) - Cardinality(all \cap part)
        BY <2>1, FS_Difference
      <3> QED
        BY <2>3, <2>4, <3>1
    <2>6. Cardinality(all) \in Nat /\ Cardinality(part) \in Nat
      BY <2>1, FS_CardinalityType
    <2> QED
      BY <2>5, <2>6 DEF all, part, left
  <1> HIDE DEF Card, Part
  <1>4. blks \in [Ids -> Int] /\ elems \in [Cells -> Actions \cup {Gone}]
    <2>1. \A i \in Ids : Part(i) \in Nat
      BY <1>3
    <2> QED
      BY <1>1, <2>1 DEF Part
  <1>5. \A p \in Cells : elems[p] # Gone <=> s.elems[p] # Gone /\ p \notin gone
    BY <1>1
  <1>6. \A i \in Ids : blks[i] = IF i = "idSpeaker" THEN s.blks[i] ELSE s.blks[i] - Part(i)
    BY DEF Part
  <1> HIDE DEF elems, blks, new
  <1>7. /\ new \in Stores /\ new.lists = s.lists /\ new.elems = elems /\ new.blks = blks
    BY <1>2, <1>4 DEF Stores
  <1>8. Held(new) = Held(s) \ gone
    BY <1>5, <1>7 DEF Held
  <1>9. ASSUME NEW i \in Ids
        PROVE  IF i = "idSpeaker" THEN Lost(new.blks, new.elems, i) >= 0
               ELSE Lost(new.blks, new.elems, i) = 0
    <2>1. /\ Lost(new.blks, new.elems, i) = blks[i] - Card(elems, i)
          /\ Lost(s.blks, s.elems, i) = s.blks[i] - Card(s.elems, i)
      BY <1>7 DEF Lost, Card
    <2>2. s.blks[i] \in Int
      BY <1>1
    <2>3. IF i = "idSpeaker" THEN Lost(s.blks, s.elems, i) >= 0
          ELSE Lost(s.blks, s.elems, i) = 0
      BY DEF OnlySpeakers
    <2> QED
      BY <1>3, <1>6, <2>1, <2>2, <2>3
  <1> QED
    BY <1>7, <1>8, <1>9 DEF new, OnlySpeakers

\* Clearing a group frees what its list points to, and nothing of the others.
LEMMA ClearKeepsSound ==
  ASSUME NEW s, Sound(s), NEW g \in Groups
  PROVE  /\ Sound(ClearGroupList(s, g)) /\ ClearGroupList(s, g).lists[g]._size = 0
         /\ \A h \in Groups \ {g} : ClearGroupList(s, g).lists[h] = s.lists[h]
  <1> DEFINE gone == PointersOf(s.lists[g])
             freed == Free(s, gone)
             list == clear(s.lists[g])
             mid == [s EXCEPT !.lists[g] = list]
             new == ClearGroupList(s, g)
             lists == [s.lists EXCEPT ![g] = list]
  <1>1. /\ gone = {Ptr(s, g, i) : i \in Places(s, g)} /\ gone \subseteq Held(s)
    BY PointersOfGroup
  <1>2. s \in Stores /\ OnlySpeakers(s) /\ Tidy(s)
    BY DEF Sound
  <1>3. /\ freed \in Stores /\ freed.lists = s.lists
        /\ Held(freed) = Held(s) \ gone /\ OnlySpeakers(freed)
    BY <1>1, <1>2, FreeGivesBack
  <1>4. WellFormed(list, Pointers) /\ list._size = 0 /\ list \in Lists(Pointers)
    <2>1. T \in Pointers
      BY InfoAssumption DEF Pointers
    <2>2. WellFormed(s.lists[g], Pointers)
      BY PointerAtPlace
    <2>3. WellFormed(list, Pointers) /\ list._size = 0
      BY <2>1, <2>2, ClearEmpties
    <2> QED
      BY <2>3 DEF WellFormed
  <1>5. new = Free(mid, gone)
    BY DEF ClearGroupList
  <1> HIDE DEF gone, list
  <1>6. new = [freed EXCEPT !.lists = lists]
    <2> DEFINE elems == [p \in Cells |-> IF p \in gone THEN Gone ELSE s.elems[p]]
               blks == [i \in Ids |-> IF i = "idSpeaker" THEN s.blks[i] ELSE
                          s.blks[i] - Cardinality({p \in gone : s.elems[p].id = i})]
    <2>1. s = [lists |-> s.lists, elems |-> s.elems, blks |-> s.blks]
      BY <1>2 DEF Stores
    <2>2. mid = [lists |-> lists, elems |-> s.elems, blks |-> s.blks]
      BY <2>1
    <2> HIDE DEF mid, lists
    <2>3. mid.elems = s.elems /\ mid.blks = s.blks
      BY <2>2
    <2>4. /\ freed = [[s EXCEPT !.elems = elems] EXCEPT !.blks = blks]
          /\ new = [[mid EXCEPT !.elems = elems] EXCEPT !.blks = blks]
      <3> HIDE DEF gone, new
      <3>1. freed = [[s EXCEPT !.elems = elems] EXCEPT !.blks = blks]
        BY Zenon DEF Free
      <3>2. Free(mid, gone) = [[mid EXCEPT !.elems = elems] EXCEPT !.blks = blks]
        BY <2>3, Zenon DEF Free
      <3> QED
        BY <1>5, <3>1, <3>2, Zenon
    <2> HIDE DEF elems, blks, freed, new
    <2>5. freed = [lists |-> s.lists, elems |-> elems, blks |-> blks]
      BY <2>1, <2>4
    <2>6. new = [lists |-> lists, elems |-> elems, blks |-> blks]
      BY <2>2, <2>4
    <2> QED
      BY <2>5, <2>6
  <1>7. lists \in [Groups -> Lists(Pointers)] /\ lists[g] = list
        /\ \A h \in Groups \ {g} : lists[h] = s.lists[h]
    BY <1>2, <1>4 DEF Stores
  <1> HIDE DEF freed, lists, new, mid
  <1>8. /\ new \in Stores /\ new.lists = lists /\ new.elems = freed.elems
        /\ new.blks = freed.blks
    BY <1>3, <1>6, <1>7 DEF Stores
  <1>9. OnlySpeakers(new) /\ Held(new) = Held(s) \ gone
    BY <1>3, <1>8 DEF OnlySpeakers, Held
  <1>10. Places(new, g) = {}
    BY <1>4, <1>7, <1>8 DEF Places
  <1>11. \A h \in Groups \ {g} : /\ Places(new, h) = Places(s, h)
                                 /\ \A i : Ptr(new, h, i) = Ptr(s, h, i)
    BY <1>7, <1>8 DEF Places, Ptr
  <1>12. Tidy(new)
    <2>1. \A h \in Groups : WellFormed(new.lists[h], Pointers)
      BY <1>2, <1>4, <1>7, <1>8 DEF Tidy
    <2>2. ASSUME NEW h \in Groups, NEW i \in Places(new, h) PROVE Ptr(new, h, i) \in Held(new)
      <3>1. h # g /\ i \in Places(s, h) /\ Ptr(new, h, i) = Ptr(s, h, i)
        BY <1>10, <1>11, <2>2
      <3>2. Ptr(s, h, i) \in Held(s)
        BY <1>2, <3>1 DEF Tidy
      <3>3. \A j \in Places(s, g) : Ptr(s, g, j) # Ptr(s, h, i)
        BY <1>2, <3>1 DEF Tidy
      <3>4. Ptr(s, h, i) \notin gone
        BY <1>1, <3>3
      <3> QED
        BY <1>9, <3>1, <3>2, <3>4
    <2>3. ASSUME NEW h \in Groups, NEW k \in Groups,
                 NEW i \in Places(new, h), NEW j \in Places(new, k),
                 Ptr(new, h, i) = Ptr(new, k, j)
          PROVE  h = k /\ i = j
      <3>1. h # g /\ k # g
        BY <1>10, <2>3
      <3>2. /\ i \in Places(s, h) /\ j \in Places(s, k)
            /\ Ptr(s, h, i) = Ptr(s, k, j)
        BY <1>11, <2>3, <3>1
      <3> QED
        BY <1>2, <3>2 DEF Tidy
    <2>4. ASSUME NEW p \in Held(new)
          PROVE  \E h \in Groups : \E i \in Places(new, h) : Ptr(new, h, i) = p
      <3>1. p \in Held(s) /\ p \notin gone
        BY <1>9
      <3>2. PICK h \in Groups : \E i \in Places(s, h) : Ptr(s, h, i) = p
        BY <1>2, <3>1 DEF Tidy
      <3>3. PICK i \in Places(s, h) : Ptr(s, h, i) = p
        BY <3>2
      <3>4. h # g
        BY <1>1, <3>1, <3>3
      <3>5. i \in Places(new, h) /\ Ptr(new, h, i) = p
        BY <1>11, <3>3, <3>4
      <3> QED
        BY <3>5
    <2> QED
      BY <2>1, <2>2, <2>3, <2>4 DEF Tidy
  <1> QED
    BY <1>4, <1>7, <1>8, <1>9, <1>12 DEF Sound, new

\* An action put into a group that has room takes a free cell of a heap that has one.
LEMMA AddKeepsSound ==
  ASSUME NEW s, Sound(s), NEW g \in Groups, NEW a \in Actions,
         s.lists[g]._size < Cardinality(Cells), Cardinality(Held(s)) < Cardinality(Cells)
  PROVE  /\ Sound(GroupListAdd(s, g, a))
         /\ GroupListAdd(s, g, a).lists[g]._size = s.lists[g]._size + 1
         /\ \A h \in Groups \ {g} : GroupListAdd(s, g, a).lists[h] = s.lists[h]
         /\ Cardinality(Held(GroupListAdd(s, g, a))) = Cardinality(Held(s)) + 1
         /\ \A h \in Groups : \A i \in Places(s, h) :
              ElementAt(GroupListAdd(s, g, a), h, i) = ElementAt(s, h, i)
         /\ ElementAt(GroupListAdd(s, g, a), g, s.lists[g]._size + 1) = a
  <1> DEFINE free == {n \in Cells : s.elems[n] = Gone}
             p == Min(free)
             n == s.lists[g]._size
             list == add(s.lists[g], p)
             lists == [s.lists EXCEPT ![g] = list]
             elems == [s.elems EXCEPT ![p] = a]
             blks == [s.blks EXCEPT ![a.id] = @ + 1]
             new == GroupListAdd(s, g, a)
  <1>1. s \in Stores /\ OnlySpeakers(s) /\ Tidy(s)
    BY DEF Sound
  <1>2. /\ s.lists \in [Groups -> Lists(Pointers)] /\ s.blks \in [Ids -> Int]
        /\ s.elems \in [Cells -> Actions \cup {Gone}]
    BY <1>1, StoreTypes
  <1>3. p \in Cells /\ s.elems[p] = Gone
    <2>1. free # {}
      <3>1. SUFFICES ASSUME free = {} PROVE FALSE
        OBVIOUS
      <3>2. Held(s) = Cells
        BY <3>1 DEF Held
      <3> QED
        BY <3>2, CellsAssumption, FS_CardinalityType
    <2>2. free \in SUBSET Nat
      BY CellsAssumption
    <2> HIDE DEF free
    <2>3. PICK x \in free : \A y \in free : x <= y
      BY <2>1, <2>2, LeastOfNats
    <2>4. p \in free
      BY <2>3 DEF Min
    <2> QED
      BY <2>4 DEF free
  <1> HIDE DEF p, free
  <1>4. a.id \in Ids /\ a # Gone /\ a \in Actions \cup {Gone}
    <2>1. a.id \in Ids
      BY InfoAssumption
    <2>2. Gone.id \notin Ids
      BY DEF Gone, Ids
    <2> QED
      BY <2>1, <2>2
  <1>5. /\ n \in Nat /\ WellFormed(s.lists[g], Pointers)
        /\ Elements(s.lists[g]) \in Seq(Pointers) /\ Len(Elements(s.lists[g])) = n
    BY PointerAtPlace
  <1>6. /\ WellFormed(list, Pointers) /\ list._size = n + 1 /\ list \in Lists(Pointers)
        /\ \A i \in 1..(n + 1) : Elements(list)[i] = IF i = n + 1 THEN p ELSE Ptr(s, g, i)
    <2> DEFINE old == s.lists[g]
               e == Elements(old)
    <2>1. p \in Pointers /\ WellFormed(old, Pointers) /\ old._size < Cardinality(Cells)
      BY <1>3, <1>5 DEF Pointers
    <2>2. e \in Seq(Pointers) /\ Len(e) = n /\ old._size = n /\ \A i : e[i] = Ptr(s, g, i)
      BY <1>5 DEF Ptr
    <2>3. list = add(old, p)
      OBVIOUS
    <2> HIDE DEF old, n, list, e
    <2>4. WellFormed(list, Pointers) /\ Elements(list) = InsertAt(e, n + 1, p)
      BY <2>1, <2>2, <2>3, AddInserts DEF e
    <2>5. InsertAt(e, n + 1, p) = Inserted(e, n, n + 1, p)
      BY <1>5, <2>1, <2>2, InsertedSeq
    <2>6. PICK q : list \in Lists(Pointers) /\ IsPath(list, q)
      BY <2>4 DEF WellFormed
    <2>7. Len(Elements(list)) = list._size
      BY <2>6, ElementsOnPath
    <2>8. Elements(list) = [i \in 1..(n + 1) |-> IF i < n + 1 THEN e[i] ELSE
                              IF i = n + 1 THEN p ELSE e[i - 1]]
      BY <2>4, <2>5 DEF Inserted
    <2>9. Elements(list) \in Seq(Pointers) /\ DOMAIN Elements(list) = 1..(n + 1)
      BY <2>6, <2>8, ElementsOnPath
    <2>10. Len(Elements(list)) = n + 1
      BY <1>5, <2>9
    <2> QED
      BY <1>5, <2>2, <2>4, <2>6, <2>7, <2>8, <2>10, SMTT(40)
  <1>7. new = [[[s EXCEPT !.lists = lists] EXCEPT !.elems = elems] EXCEPT !.blks = blks]
    BY <1>1, <1>2 DEF GroupListAdd, Stores, p, free
  <1> HIDE DEF list
  <1>8. /\ lists \in [Groups -> Lists(Pointers)] /\ lists[g] = list
        /\ \A h \in Groups \ {g} : lists[h] = s.lists[h]
    BY <1>2, <1>6
  <1>9. /\ elems \in [Cells -> Actions \cup {Gone}] /\ elems[p] = a
        /\ \A x \in Cells \ {p} : elems[x] = s.elems[x]
    BY <1>2, <1>3, <1>4
  <1>10. /\ blks \in [Ids -> Int]
         /\ \A i \in Ids : blks[i] = s.blks[i] + IF i = a.id THEN 1 ELSE 0
    BY <1>2, <1>4
  <1> HIDE DEF lists, elems, blks, new
  <1>11. new \in Stores /\ new.lists = lists /\ new.elems = elems /\ new.blks = blks
    BY <1>1, <1>7, <1>8, <1>9, <1>10 DEF Stores
  <1>12. Held(new) = Held(s) \cup {p} /\ p \notin Held(s)
    BY <1>3, <1>4, <1>9, <1>11 DEF Held
  <1>13. Cardinality(Held(new)) = Cardinality(Held(s)) + 1
    BY <1>12, HeldIsFinite, FS_AddElement
  <1>14. OnlySpeakers(new)
    <2> SUFFICES ASSUME NEW i \in Ids
                 PROVE  IF i = "idSpeaker" THEN Lost(new.blks, new.elems, i) >= 0
                        ELSE Lost(new.blks, new.elems, i) = 0
        BY DEF OnlySpeakers
    <2> DEFINE then == {x \in Cells : s.elems[x].id = i}
               now == {x \in Cells : elems[x].id = i}
    <2>1. i # Gone.id
      BY DEF Ids, Gone
    <2>2. now = IF i = a.id THEN then \cup {p} ELSE then
      BY <1>3, <1>9, <2>1
    <2>3. p \notin then /\ IsFiniteSet(then)
      BY <1>3, <2>1, CellsAssumption, FS_Subset
    <2>4. /\ Lost(new.blks, new.elems, i) = blks[i] - Cardinality(now)
          /\ Lost(s.blks, s.elems, i) = s.blks[i] - Cardinality(then)
      BY <1>11 DEF Lost
    <2> HIDE DEF now, then
    <2>5. Cardinality(then) \in Nat
          /\ Cardinality(now) = Cardinality(then) + IF i = a.id THEN 1 ELSE 0
      BY <2>2, <2>3, FS_CardinalityType, FS_AddElement
    <2>6. s.blks[i] \in Int
      BY <1>2
    <2>7. Lost(new.blks, new.elems, i) = Lost(s.blks, s.elems, i)
      BY <1>10, <2>4, <2>5, <2>6
    <2>8. IF i = "idSpeaker" THEN Lost(s.blks, s.elems, i) >= 0
          ELSE Lost(s.blks, s.elems, i) = 0
      BY <1>1 DEF OnlySpeakers
    <2> QED
      BY <2>7, <2>8
  <1>15. /\ \A h \in Groups \ {g} : /\ Places(new, h) = Places(s, h)
                                    /\ \A i : Ptr(new, h, i) = Ptr(s, h, i)
         /\ Places(new, g) = 1..(n + 1) /\ Places(s, g) = 1..n
         /\ \A i \in 1..(n + 1) : Ptr(new, g, i) = IF i = n + 1 THEN p ELSE Ptr(s, g, i)
    BY <1>6, <1>8, <1>11 DEF Places, Ptr
  <1>16. ASSUME NEW h \in Groups, NEW i \in Places(new, h)
         PROVE  \/ h = g /\ i = n + 1 /\ Ptr(new, h, i) = p
                \/ /\ i \in Places(s, h) /\ Ptr(new, h, i) = Ptr(s, h, i)
                   /\ Ptr(new, h, i) \in Held(s) /\ Ptr(new, h, i) # p
    <2>1. CASE h = g /\ i = n + 1
      BY <1>5, <1>15, <2>1
    <2>2. CASE ~(h = g /\ i = n + 1)
      <3>1. i \in Places(s, h) /\ Ptr(new, h, i) = Ptr(s, h, i)
        BY <1>5, <1>15, <2>2
      <3>2. Ptr(s, h, i) \in Held(s)
        BY <1>1, <3>1 DEF Tidy
      <3> QED
        BY <1>12, <3>1, <3>2
    <2> QED
      BY <2>1, <2>2
  <1>17. Tidy(new)
    <2>1. \A h \in Groups : WellFormed(new.lists[h], Pointers)
      BY <1>1, <1>6, <1>8, <1>11 DEF Tidy
    <2>2. \A h \in Groups : \A i \in Places(new, h) : Ptr(new, h, i) \in Held(new)
      BY <1>12, <1>16
    <2>3. ASSUME NEW h \in Groups, NEW k \in Groups,
                 NEW i \in Places(new, h), NEW j \in Places(new, k),
                 Ptr(new, h, i) = Ptr(new, k, j)
          PROVE  h = k /\ i = j
      <3>1. CASE Ptr(new, h, i) = p
        <4>1. h = g /\ i = n + 1
          BY <1>16, <3>1
        <4>2. k = g /\ j = n + 1
          <5>1. Ptr(new, k, j) = p
            BY <2>3, <3>1
          <5> QED
            BY <1>16, <5>1
        <4> QED
          BY <4>1, <4>2
      <3>2. CASE Ptr(new, h, i) # p
        <4>1. /\ i \in Places(s, h) /\ j \in Places(s, k)
              /\ Ptr(s, h, i) = Ptr(s, k, j)
          BY <1>16, <2>3, <3>2
        <4> QED
          BY <1>1, <4>1 DEF Tidy
      <3> QED
        BY <3>1, <3>2
    <2>4. ASSUME NEW x \in Held(new)
          PROVE  \E h \in Groups : \E i \in Places(new, h) : Ptr(new, h, i) = x
      <3>1. CASE x = p
        <4>1. n + 1 \in Places(new, g) /\ Ptr(new, g, n + 1) = x
          BY <1>5, <1>15, <3>1
        <4> QED
          BY <4>1
      <3>2. CASE x # p
        <4>1. x \in Held(s)
          BY <1>12, <3>2
        <4>4. PICK h \in Groups : \E i \in Places(s, h) : Ptr(s, h, i) = x
          BY <1>1, <4>1 DEF Tidy
        <4>2. PICK i \in Places(s, h) : Ptr(s, h, i) = x
          BY <4>4
        <4>3. i \in Places(new, h) /\ Ptr(new, h, i) = x
          <5>1. CASE h = g
            BY <1>5, <1>15, <4>2, <5>1
          <5>2. CASE h # g
            BY <1>15, <4>2, <5>2
          <5> QED
            BY <5>1, <5>2
        <4> QED
          BY <4>3
      <3> QED
        BY <3>1, <3>2
    <2> QED
      BY <2>1, <2>2, <2>3, <2>4 DEF Tidy
  <1>18. ASSUME NEW h \in Groups, NEW i \in Places(s, h)
         PROVE  ElementAt(new, h, i) = ElementAt(s, h, i)
    <2>1. Ptr(s, h, i) \in Held(s)
      BY <1>1 DEF Tidy
    <2>2. Ptr(s, h, i) \in Cells /\ Ptr(s, h, i) # p
      BY <1>12, <2>1 DEF Held
    <2>3. Ptr(new, h, i) = Ptr(s, h, i)
      <3>1. CASE h = g
        <4>1. i \in 1..(n + 1) /\ i # n + 1
          BY <1>5, <1>15, <3>1
        <4> QED
          BY <1>15, <3>1, <4>1
      <3>2. CASE h # g
        BY <1>15, <3>2
      <3> QED
        BY <3>1, <3>2
    <2> QED
      BY <1>9, <1>11, <2>2, <2>3 DEF ElementAt
  <1>19. ElementAt(new, g, n + 1) = a
    <2>1. n + 1 \in 1..(n + 1)
      BY <1>5
    <2>2. Ptr(new, g, n + 1) = p
      BY <1>15, <2>1
    <2> QED
      BY <1>9, <1>11, <2>2 DEF ElementAt
  <1> QED
    BY <1>6, <1>8, <1>11, <1>13, <1>14, <1>17, <1>18, <1>19 DEF Sound, new

LEMMA GroupsAreNumbers ==
  /\ Cardinality(Groups) \in Nat
  /\ \A h \in Groups : h \in Nat /\ h < Cardinality(Groups)
  /\ \A h \in Nat : h < Cardinality(Groups) => h \in Groups
  <1>1. PICK n \in Nat : n = Cardinality(Groups)
    BY InfoAssumption, FS_CardinalityType
  <1>2. Groups = 0..(n - 1)
    BY <1>1, InfoAssumption
  <1>3. \A h : h \in Groups <=> h \in 0..(n - 1)
    BY <1>2, Zenon
  <1> QED
    BY <1>1, <1>3

\* After all groups are cleared nothing is held.
LEMMA ClearAllFrees ==
  ASSUME NEW s, Sound(s), NEW n \in 0..Cardinality(Groups),
         \A g \in Groups : g >= n => Places(s, g) = {}
  PROVE  /\ Sound(ClearGroups(s, n)) /\ Held(ClearGroups(s, n)) = {}
         /\ \A g \in Groups : ClearGroups(s, n).lists[g]._size = 0
  <1> DEFINE Good == [k \in 0..n |-> {t \in Stores : /\ Sound(t)
                        /\ \A h \in Groups : h < k \/ h >= n => t.lists[h]._size = 0}]
             F == [k \in 1..n |-> [t \in Stores |-> ClearGroupList(t, k - 1)]]
             Cleared(f) == [k \in 0..n |-> IF k = 0 THEN s ELSE ClearGroupList(f[k - 1], k - 1)]
             w == CHOOSE f : f = Cleared(f)
  <1>1. n \in Nat /\ \A k \in 1..n : k - 1 \in Groups /\ k - 1 \in 0..n
    BY GroupsAreNumbers
  <1>2. ClearGroups(s, n) = w[n]
    BY DEF ClearGroups
  <1> HIDE DEF w
  <1>3. ASSUME NEW k \in 1..n, NEW t \in Good[k - 1]
        PROVE  /\ t \in Stores /\ F[k][t] = ClearGroupList(t, k - 1)
               /\ ClearGroupList(t, k - 1) \in Good[k]
    <2> DEFINE new == ClearGroupList(t, k - 1)
    <2>1. /\ t \in Stores /\ Sound(t) /\ k - 1 \in Groups /\ k \in 0..n
          /\ \A h \in Groups : h < k - 1 \/ h >= n => t.lists[h]._size = 0
      BY <1>1
    <2>2. /\ Sound(new) /\ new.lists[k - 1]._size = 0
          /\ \A h \in Groups \ {k - 1} : new.lists[h] = t.lists[h]
      BY <2>1, ClearKeepsSound
    <2> HIDE DEF new
    <2>3. new \in Stores
      BY <2>2 DEF Sound
    <2>4. ASSUME NEW h \in Groups, h < k \/ h >= n PROVE new.lists[h]._size = 0
      <3>1. h \in Int
        BY GroupsAreNumbers
      <3>2. h = k - 1 \/ h < k - 1 \/ h >= n
        BY <2>4, <3>1
      <3> QED
        BY <2>1, <2>2, <3>2
    <2>5. new \in Good[k]
      BY <2>1, <2>2, <2>3, <2>4
    <2> QED
      BY <2>1, <2>5 DEF new
  <1>4. s \in Good[0]
    <2>1. s \in Stores /\ 0 \in 0..n
      BY <1>1 DEF Sound
    <2>2. \A h \in Groups : ~(h < 0)
      BY GroupsAreNumbers
    <2>3. ASSUME NEW h \in Groups, h >= n PROVE s.lists[h]._size = 0
      <3>1. 1..s.lists[h]._size = {} /\ s.lists[h]._size \in Nat
        BY <2>3, PointerAtPlace DEF Places
      <3> QED
        BY <3>1
    <2> QED
      BY <2>1, <2>2, <2>3
  <1>5. \E t : t \in Good[n] /\ t = w[n]
    <2> HIDE DEF Good, F
    <2>1. \A k \in 1..n : \A t \in Good[k - 1] : F[k][t] \in Good[k]
      BY <1>3
    <2>2. PICK f : /\ f = [k \in 0..n |-> f[k]] /\ Steps(f, n, s, F)
                   /\ \A k \in 0..n : f[k] \in Good[k]
      BY <1>1, <1>4, <2>1, StepsExist, Zenon
    <2>3. \A k \in 1..n : f[k] = ClearGroupList(f[k - 1], k - 1)
      BY <1>1, <1>3, <2>2 DEF Steps
    <2>4. f = Cleared(f)
      <3>1. ASSUME NEW k \in 0..n PROVE f[k] = IF k = 0 THEN s ELSE ClearGroupList(f[k - 1], k - 1)
        <4>1. CASE k = 0
          BY <2>2, <4>1 DEF Steps
        <4>2. CASE k # 0
          BY <1>1, <2>3, <4>2
        <4> QED
          BY <4>1, <4>2
      <3> QED
        BY <2>2, <3>1
    <2>5. w = Cleared(w)
      BY <2>4, Zenon DEF w
    <2>6. w[0] \in Good[0] /\ \A k \in 1..n : w[k - 1] \in Good[k - 1] => w[k] \in Good[k]
      <3>1. w[0] = s
        <4>1. 0 \in 0..n
          BY <1>1
        <4> QED
          BY <2>5, <4>1
      <3>2. ASSUME NEW k \in 1..n PROVE w[k] = ClearGroupList(w[k - 1], k - 1)
        <4>1. k \in 0..n /\ k # 0
          BY <1>1
        <4> QED
          BY <2>5, <4>1
      <3> QED
        BY <1>3, <1>4, <3>1, <3>2
    <2>7. w[n] \in Good[n]
      BY <1>1, <2>6, StepsKeep, Zenon
    <2> QED
      BY <2>7
  <1>6. /\ Sound(ClearGroups(s, n))
        /\ \A h \in Groups : ClearGroups(s, n).lists[h]._size = 0
    <2>1. n \in 0..n /\ \A h \in Groups : h < n \/ h >= n
      BY <1>1, GroupsAreNumbers
    <2> QED
      BY <1>2, <1>5, <2>1
  <1>7. Held(ClearGroups(s, n)) = {}
    <2> DEFINE c == ClearGroups(s, n)
    <2>1. \A h \in Groups : Places(c, h) = {}
      BY <1>6 DEF Places
    <2>2. Tidy(c)
      BY <1>6 DEF Sound
    <2> HIDE DEF c
    <2>3. Held(c) = {}
      BY <2>1, <2>2 DEF Tidy
    <2> QED
      BY <2>3 DEF c
  <1> QED
    BY <1>6, <1>7

\* Filling an empty group with no more actions than fit.
LEMMA FillKeepsSound ==
  ASSUME NEW s, Sound(s), NEW g \in Groups, NEW actions \in Seq(Actions), NEW b \in Nat,
         s.lists[g]._size = 0, Cardinality(Held(s)) <= b, b + Len(actions) <= Cardinality(Cells)
  PROVE  LET new == FillGroup(s, g, actions)
         IN  /\ Sound(new) /\ Cardinality(Held(new)) <= b + Len(actions)
             /\ Holds(new, g, actions, Len(actions))
             /\ \A h \in Groups \ {g} : Same(new, s, h)
  <1> DEFINE n == Len(actions)
             Good == [k \in 0..n |-> {t \in Stores : /\ Sound(t)
                        /\ Holds(t, g, actions, k) /\ Cardinality(Held(t)) <= b + k
                        /\ \A h \in Groups \ {g} : Same(t, s, h)}]
             F == [k \in 1..n |-> [t \in Stores |-> GroupListAdd(t, g, actions[k])]]
             Filled(f) == [k \in 0..n |-> IF k = 0 THEN s ELSE GroupListAdd(f[k - 1], g, actions[k])]
             w == CHOOSE f : f = Filled(f)
  <1>1. n \in Nat /\ (\A k \in 1..n : actions[k] \in Actions /\ k - 1 \in 0..n)
        /\ Cardinality(Cells) \in Nat /\ b + n <= Cardinality(Cells) /\ g \in Int
        /\ \A h \in Groups : h \in Int
    BY GroupsAreNumbers, CellsAssumption, FS_CardinalityType
  <1>2. FillGroup(s, g, actions) = w[n]
    BY DEF FillGroup
  <1> HIDE DEF n, w
  <1>3. ASSUME NEW k \in 1..n, NEW t \in Good[k - 1]
        PROVE  /\ t \in Stores /\ F[k][t] = GroupListAdd(t, g, actions[k])
               /\ GroupListAdd(t, g, actions[k]) \in Good[k]
    <2> DEFINE new == GroupListAdd(t, g, actions[k])
    <2>1. /\ t \in Stores /\ Sound(t) /\ Holds(t, g, actions, k - 1) /\ k \in 0..n
          /\ Cardinality(Held(t)) <= b + (k - 1)
          /\ \A h \in Groups \ {g} : Same(t, s, h)
      BY <1>1
    <2>9. t.lists[g]._size = k - 1 /\ \A i \in 1..(k - 1) : ElementAt(t, g, i) = actions[i]
      BY <2>1 DEF Holds
    <2>2. Cardinality(Held(t)) \in Nat
      BY HeldIsFinite
    <2>3. t.lists[g]._size < Cardinality(Cells) /\ Cardinality(Held(t)) < Cardinality(Cells)
      BY <1>1, <2>1, <2>2, <2>9
    <2>4. /\ Sound(new) /\ new.lists[g]._size = t.lists[g]._size + 1
          /\ \A h \in Groups \ {g} : new.lists[h] = t.lists[h]
          /\ Cardinality(Held(new)) = Cardinality(Held(t)) + 1
          /\ \A h \in Groups : \A i \in Places(t, h) : ElementAt(new, h, i) = ElementAt(t, h, i)
          /\ ElementAt(new, g, t.lists[g]._size + 1) = actions[k]
      BY <1>1, <2>1, <2>3, AddKeepsSound
    <2> HIDE DEF new
    <2>5. new \in Stores
      BY <2>4 DEF Sound
    <2>6. Holds(new, g, actions, k) /\ Cardinality(Held(new)) <= b + k
      <3>1. new.lists[g]._size = k /\ Cardinality(Held(new)) <= b + k
        BY <2>1, <2>2, <2>4, <2>9
      <3>2. ASSUME NEW i \in 1..k PROVE ElementAt(new, g, i) = actions[i]
        <4>1. CASE i = k
          BY <2>4, <2>9, <4>1
        <4>2. CASE i # k
          <5>1. i \in 1..(k - 1) /\ i \in Places(t, g)
            BY <2>9, <4>2 DEF Places
          <5> QED
            BY <2>4, <2>9, <5>1
        <4> QED
          BY <4>1, <4>2
      <3> QED
        BY <3>1, <3>2 DEF Holds
    <2>7. ASSUME NEW h \in Groups \ {g} PROVE Same(new, s, h)
      <3>1. new.lists[h] = t.lists[h] /\ Same(t, s, h)
        BY <2>1, <2>4
      <3>2. \A i \in Places(s, h) : i \in Places(t, h)
        BY <3>1 DEF Same, Places
      <3> QED
        BY <2>4, <3>1, <3>2 DEF Same
    <2>8. new \in Good[k]
      BY <2>1, <2>4, <2>5, <2>6, <2>7
    <2> QED
      BY <2>1, <2>8 DEF new
  <1>4. s \in Good[0]
    <2>1. s \in Stores /\ 0 \in 0..n
      BY <1>1 DEF Sound
    <2>2. Holds(s, g, actions, 0) /\ Cardinality(Held(s)) <= b + 0
          /\ \A h \in Groups \ {g} : Same(s, s, h)
      BY <1>1 DEF Holds, Same
    <2> QED
      BY <2>1, <2>2
  <1>5. \E t : t \in Good[n] /\ t = w[n]
    <2> HIDE DEF Good, F
    <2>1. \A k \in 1..n : \A t \in Good[k - 1] : F[k][t] \in Good[k]
      BY <1>3
    <2>2. PICK f : /\ f = [k \in 0..n |-> f[k]] /\ Steps(f, n, s, F)
                   /\ \A k \in 0..n : f[k] \in Good[k]
      BY <1>1, <1>4, <2>1, StepsExist, Zenon
    <2>3. \A k \in 1..n : f[k] = GroupListAdd(f[k - 1], g, actions[k])
      BY <1>1, <1>3, <2>2 DEF Steps
    <2>4. f = Filled(f)
      <3>1. ASSUME NEW k \in 0..n PROVE f[k] = IF k = 0 THEN s ELSE GroupListAdd(f[k - 1], g, actions[k])
        <4>1. CASE k = 0
          BY <2>2, <4>1 DEF Steps
        <4>2. CASE k # 0
          BY <1>1, <2>3, <4>2
        <4> QED
          BY <4>1, <4>2
      <3> QED
        BY <2>2, <3>1
    <2>5. w = Filled(w)
      BY <2>4, Zenon DEF w
    <2>6. w[0] \in Good[0] /\ \A k \in 1..n : w[k - 1] \in Good[k - 1] => w[k] \in Good[k]
      <3>1. w[0] = s
        <4>1. 0 \in 0..n
          BY <1>1
        <4> QED
          BY <2>5, <4>1
      <3>2. ASSUME NEW k \in 1..n PROVE w[k] = GroupListAdd(w[k - 1], g, actions[k])
        <4>1. k \in 0..n /\ k # 0
          BY <1>1
        <4> QED
          BY <2>5, <4>1
      <3> QED
        BY <1>3, <1>4, <3>1, <3>2
    <2>7. w[n] \in Good[n]
      BY <1>1, <2>6, StepsKeep, Zenon
    <2> QED
      BY <2>7
  <1>6. w[n] \in Good[n] /\ n \in 0..n
    BY <1>1, <1>5
  <1> QED
    BY <1>2, <1>6 DEF n

\* Groups of equal size take no more room than all of them.
LEMMA Multiples ==
  ASSUME NEW k \in Nat, k # 0, NEW m \in Nat, NEW c \in Nat, k <= c
  PROVE  (k - 1) * m \in Nat /\ ((k - 1) * m) + m = k * m /\ k * m <= c * m
  <1>1. PICK d \in Nat : c = k + d
    <2>1. c - k \in Nat /\ c = k + (c - k)
      OBVIOUS
    <2> QED
      BY <2>1
  <1>2. PICK j \in Nat : k = j + 1
    <2>1. k - 1 \in Nat /\ k = (k - 1) + 1
      OBVIOUS
    <2> QED
      BY <2>1
  <1>3. c * m = (k * m) + (d * m) /\ d * m \in Nat /\ k * m \in Nat
    BY <1>1
  <1>4. k * m = (j * m) + m /\ j * m \in Nat
    BY <1>2
  <1> QED
    BY <1>2, <1>3, <1>4

\* The groups of a message, put into empty lists.
LEMMA FillAllKeepsSound ==
  ASSUME NEW s, Sound(s), Held(s) = {}, \A g \in Groups : s.lists[g]._size = 0,
         NEW message \in Messages
  PROVE  /\ Sound(FillGroups(s, message))
         /\ \A g \in Groups : g < Len(message) =>
              Holds(FillGroups(s, message), g, message[g + 1], Len(message[g + 1]))
         /\ \A g \in Groups : g >= Len(message) =>
              FillGroups(s, message).lists[g]._size = 0
  <1> DEFINE n == Len(message)
             B(k) == k * MaxActions
             Full(t, h) == Holds(t, h, message[h + 1], Len(message[h + 1]))
             Good == [k \in 0..n |-> {t \in Stores :
                        /\ Sound(t) /\ Cardinality(Held(t)) <= B(k)
                        /\ \A h \in Groups : h < k => Full(t, h)
                        /\ \A h \in Groups : h >= k => t.lists[h]._size = 0}]
             F == [k \in 1..n |-> [t \in Stores |-> FillGroup(t, k - 1, message[k])]]
             Filled(f) == [k \in 0..n |-> IF k = 0 THEN s ELSE FillGroup(f[k - 1], k - 1, message[k])]
             w == CHOOSE f : f = Filled(f)
  <1>1. /\ n \in Nat /\ n <= Cardinality(Groups) /\ Cardinality(Cells) \in Nat
        /\ MaxActions \in Nat /\ B(Cardinality(Groups)) <= Cardinality(Cells)
        /\ \A k \in 1..n : message[k] \in Seq(Actions) /\ Len(message[k]) <= MaxActions
    BY InfoAssumption, CellsAssumption, FS_CardinalityType
  <1>2. /\ Cardinality(Groups) \in Nat /\ \A k \in 1..n : k - 1 \in Groups /\ k - 1 \in 0..n
        /\ \A h \in Groups : h \in Nat
    BY <1>1, GroupsAreNumbers
  <1>3. FillGroups(s, message) = w[n]
    BY DEF FillGroups
  <1>4. ASSUME NEW k \in 1..n
        PROVE  B(k - 1) \in Nat /\ B(k - 1) + MaxActions = B(k) /\ B(k) <= Cardinality(Cells)
    <2>1. k \in Nat /\ k # 0 /\ k <= Cardinality(Groups)
      BY <1>1, <1>2
    <2>2. B(k - 1) \in Nat /\ B(k - 1) + MaxActions = B(k) /\ B(k) <= B(Cardinality(Groups))
      BY <1>1, <1>2, <2>1, Multiples
    <2>3. B(k) \in Nat /\ B(Cardinality(Groups)) \in Nat
      BY <1>1, <1>2, <2>1
    <2> HIDE DEF B
    <2> QED
      BY <1>1, <2>2, <2>3
  <1>5. B(0) = 0
    BY <1>1
  <1> HIDE DEF n, w, B
  <1>6. ASSUME NEW k \in 1..n, NEW t \in Good[k - 1]
        PROVE  /\ t \in Stores /\ F[k][t] = FillGroup(t, k - 1, message[k])
               /\ FillGroup(t, k - 1, message[k]) \in Good[k]
    <2> DEFINE new == FillGroup(t, k - 1, message[k])
               m == Len(message[k])
               b == B(k - 1)
    <2>1. /\ t \in Stores /\ Sound(t) /\ k - 1 \in Groups /\ k \in 0..n
          /\ Cardinality(Held(t)) <= b
          /\ \A h \in Groups : h < k - 1 => Full(t, h)
          /\ \A h \in Groups : h >= k - 1 => t.lists[h]._size = 0
      BY <1>2
    <2>2. b \in Nat /\ m \in Nat /\ m <= MaxActions /\ b + MaxActions <= Cardinality(Cells)
          /\ b + MaxActions = B(k) /\ message[k] \in Seq(Actions)
      BY <1>1, <1>4
    <2>3. b + m <= Cardinality(Cells) /\ b + m <= B(k) /\ b + m \in Nat /\ B(k) \in Nat
      BY <1>1, <2>2
    <2> HIDE DEF b
    <2>4. /\ Sound(new) /\ Cardinality(Held(new)) <= b + m
          /\ Holds(new, k - 1, message[k], m)
          /\ \A h \in Groups \ {k - 1} : Same(new, t, h)
      <3>1. t.lists[k - 1]._size = 0
        BY <1>2, <2>1
      <3> QED
        BY <2>1, <2>2, <2>3, <3>1, FillKeepsSound
    <2>9. Full(new, k - 1)
      <3>1. (k - 1) + 1 = k
        OBVIOUS
      <3> QED
        BY <2>4, <3>1
    <2> HIDE DEF new, m
    <2>5. Cardinality(Held(new)) \in Nat /\ new \in Stores
      BY <2>4, HeldIsFinite DEF Sound
    <2>6. Cardinality(Held(new)) <= B(k)
      BY <2>3, <2>4, <2>5
    <2>7. ASSUME NEW h \in Groups, h >= k PROVE new.lists[h]._size = 0
      <3>1. h # k - 1 /\ h >= k - 1
        BY <1>2, <2>7
      <3> QED
        BY <2>1, <2>4, <3>1 DEF Same
    <2>10. ASSUME NEW h \in Groups, h < k PROVE Full(new, h)
      <3>1. CASE h = k - 1
        BY <2>9, <3>1
      <3>2. CASE h # k - 1
        <4>1. h < k - 1
          BY <1>2, <2>10, <3>2
        <4>2. Full(t, h) /\ Same(new, t, h)
          BY <2>1, <2>4, <3>2, <4>1
        <4> QED
          BY <4>2 DEF Same, Holds, Places
      <3> QED
        BY <3>1, <3>2
    <2> HIDE DEF Full
    <2>8. new \in Good[k]
      BY <2>1, <2>4, <2>5, <2>6, <2>7, <2>10
    <2> QED
      BY <2>1, <2>8 DEF new
  <1>7. s \in Good[0]
    <2>1. s \in Stores /\ 0 \in 0..n
      BY <1>1 DEF Sound
    <2>2. Cardinality(Held(s)) <= B(0) /\ \A h \in Groups : ~(h < 0)
      BY <1>2, <1>5, FS_EmptySet
    <2> QED
      BY <2>1, <2>2
  <1>8. \E t : t \in Good[n] /\ t = w[n]
    <2> HIDE DEF Good, F
    <2>1. \A k \in 1..n : \A t \in Good[k - 1] : F[k][t] \in Good[k]
      BY <1>6
    <2>2. PICK f : /\ f = [k \in 0..n |-> f[k]] /\ Steps(f, n, s, F)
                   /\ \A k \in 0..n : f[k] \in Good[k]
      BY <1>1, <1>7, <2>1, StepsExist, Zenon
    <2>3. \A k \in 1..n : f[k] = FillGroup(f[k - 1], k - 1, message[k])
      BY <1>2, <1>6, <2>2 DEF Steps
    <2>4. f = Filled(f)
      <3>1. ASSUME NEW k \in 0..n PROVE f[k] = IF k = 0 THEN s ELSE FillGroup(f[k - 1], k - 1, message[k])
        <4>1. CASE k = 0
          BY <2>2, <4>1 DEF Steps
        <4>2. CASE k # 0
          BY <1>1, <2>3, <4>2
        <4> QED
          BY <4>1, <4>2
      <3> QED
        BY <2>2, <3>1
    <2>5. w = Filled(w)
      BY <2>4, Zenon DEF w
    <2>6. w[0] \in Good[0] /\ \A k \in 1..n : w[k - 1] \in Good[k - 1] => w[k] \in Good[k]
      <3>1. w[0] = s
        <4>1. 0 \in 0..n
          BY <1>1
        <4> QED
          BY <2>5, <4>1
      <3>2. ASSUME NEW k \in 1..n PROVE w[k] = FillGroup(w[k - 1], k - 1, message[k])
        <4>1. k \in 0..n /\ k # 0
          BY <1>1
        <4> QED
          BY <2>5, <4>1
      <3> QED
        BY <1>6, <1>7, <3>1, <3>2
    <2>7. w[n] \in Good[n]
      BY <1>1, <2>6, StepsKeep, Zenon
    <2> QED
      BY <2>7
  <1>9. w[n] \in Good[n] /\ n \in 0..n
    BY <1>1, <1>8
  <1>10. /\ Sound(w[n]) /\ \A g \in Groups : g < n => Full(w[n], g)
         /\ \A g \in Groups : g >= n => w[n].lists[g]._size = 0
    <2> HIDE DEF Full
    <2> QED
      BY <1>9
  <1> QED
    BY <1>3, <1>10 DEF n

\* What getNode remembers changes no pointer.
Asked(s, g, i) == [s EXCEPT !.lists = [s.lists EXCEPT ![g] = Got(s.lists[g], i)]]

LEMMA GotKeepsSound ==
  ASSUME NEW s, Sound(s), NEW g \in Groups, NEW i \in Nat
  PROVE  LET new == Asked(s, g, i)
         IN  /\ Sound(new) /\ new.elems = s.elems
             /\ \A h \in Groups : /\ new.lists[h]._size = s.lists[h]._size
                                  /\ \A j : Ptr(new, h, j) = Ptr(s, h, j)
  <1> DEFINE old == s.lists[g]
             list == Got(old, i)
             lists == [s.lists EXCEPT ![g] = list]
             new == Asked(s, g, i)
  <1>1. s \in Stores /\ Tidy(s) /\ OnlySpeakers(s)
    BY DEF Sound
  <1>2. PICK p \in [1..old._size -> Cells] : old \in Lists(Pointers) /\ IsPath(old, p)
    BY PointerAtPlace DEF WellFormed
  <1> HIDE DEF old
  <1>3. /\ list \in Lists(Pointers) /\ IsPath(list, p) /\ list._size = old._size
        /\ list.nodes = old.nodes
    BY <1>2, GetNode
  <1> HIDE DEF list
  <1>4. Elements(list) = Elements(old)
    <2>1. Elements(list) = [j \in 1..list._size |-> list.nodes[p[j]].data]
      BY <1>3, ElementsOnPath
    <2>2. Elements(old) = [j \in 1..old._size |-> old.nodes[p[j]].data]
      BY <1>2, ElementsOnPath
    <2> QED
      BY <1>3, <2>1, <2>2
  <1>5. WellFormed(list, Pointers)
    BY <1>2, <1>3 DEF WellFormed
  <1>6. s.lists \in [Groups -> Lists(Pointers)]
    BY <1>1, StoreTypes
  <1>7. /\ lists \in [Groups -> Lists(Pointers)] /\ lists[g] = list
        /\ \A h \in Groups \ {g} : lists[h] = s.lists[h]
    BY <1>3, <1>6
  <1>8. new = [s EXCEPT !.lists = lists]
    BY DEF list, old, Asked
  <1> HIDE DEF lists, new
  <1>9. /\ new \in Stores /\ new.lists = lists /\ new.elems = s.elems /\ new.blks = s.blks
    BY <1>1, <1>7, <1>8 DEF Stores
  <1>10. ASSUME NEW h \in Groups
         PROVE  /\ new.lists[h]._size = s.lists[h]._size /\ Places(new, h) = Places(s, h)
                /\ \A j : Ptr(new, h, j) = Ptr(s, h, j)
                /\ WellFormed(new.lists[h], Pointers)
    <2>1. CASE h = g
      BY <1>3, <1>4, <1>5, <1>7, <1>9, <2>1 DEF Ptr, Places, old
    <2>2. CASE h # g
      <3>1. new.lists[h] = s.lists[h]
        BY <1>7, <1>9, <2>2
      <3> QED
        BY <1>1, <3>1 DEF Ptr, Places, Tidy
    <2> QED
      BY <2>1, <2>2
  <1>11. Held(new) = Held(s) /\ OnlySpeakers(new)
    BY <1>1, <1>9 DEF Held, OnlySpeakers
  <1>12. Tidy(new)
    BY <1>1, <1>10, <1>11 DEF Tidy
  <1> QED
    BY <1>9, <1>10, <1>11, <1>12 DEF Sound, new

-----------------------------------------------------------------------------
(* The invariant of XpiderInfo.                                            *)

Statuses == [id : Ids \cup {Gone.id}, time_counter : Nat, time_start : Nat,
             is_enable : BOOLEAN]
RunnerTyped ==
  /\ running_group_id \in Groups \cup {NoGroup} /\ running_action_id \in Nat
  /\ action_status \in Statuses /\ clock \in Nat

\* The lists hold what the last message said, and while an action is watched the
\* status is that of the action begun.
AsSaid == \A g \in Groups : Holds(Store, g, said[g], Len(said[g]))
SaidTyped == said \in [Groups -> Seq(Actions)]
StatusOfBegun ==
  /\ counted \in Nat
  /\ action_status.is_enable =>
       /\ begun \in Actions /\ action_status.id = begun.id
       /\ action_status.time_counter = Less(TimeOf(begun), counted)

\* The next message clears every list that holds anything.
Counted ==
  /\ store_group_num \in 0..Cardinality(Groups)
  /\ \A g \in Groups : g >= store_group_num => Places(Store, g) = {}

GroupsInv == Sound(Store) /\ Counted /\ SaidTyped /\ AsSaid
GroupInv == GroupsInv /\ RunnerTyped /\ StatusOfBegun

LEMMA InitGroupInv == Init => GroupInv
  <1> SUFFICES ASSUME Init PROVE GroupInv
    OBVIOUS
  <1> DEFINE empty == LinkedList
             s == Store
  <1>1. empty \in Lists(Pointers) /\ empty._size = 0
    BY InfoAssumption DEF LinkedList, Lists, Nodes, Freed, Pointers
  <1>2. WellFormed(empty, Pointers)
    <2>1. IsPath(empty, <<>>)
      <3>1. /\ empty.root = NULL /\ empty.last = NULL /\ ~empty.isCached
            /\ \A c \in Cells : ~empty.nodes[c].used
        BY DEF LinkedList, Freed
      <3> HIDE DEF empty
      <3> QED
        BY <1>1, <3>1 DEF IsPath, At
    <2>2. <<>> \in [1..empty._size -> Cells]
      BY <1>1
    <2> QED
      BY <1>1, <2>1, <2>2, Zenon DEF WellFormed
  <1> HIDE DEF empty
  <1>3. /\ s.lists = [g \in Groups |-> empty] /\ s.elems = [p \in Cells |-> Gone]
        /\ s.blks = [i \in Ids |-> 0]
    BY DEF Init, Store, empty
  <1>4. s \in Stores
    <2>1. s = [lists |-> action_group_list, elems |-> elements, blks |-> blocks]
      BY DEF Store
    <2>2. /\ action_group_list \in [Groups -> Lists(Pointers)]
          /\ elements \in [Cells -> Actions \cup {Gone}] /\ blocks \in [Ids -> Int]
      BY <1>1 DEF Init, empty
    <2> QED
      BY <2>1, <2>2 DEF Stores
  <1> HIDE DEF s
  <1>5. Held(s) = {} /\ \A g \in Groups : Places(s, g) = {}
    BY <1>1, <1>3 DEF Held, Places
  <1>6. Tidy(s)
    BY <1>2, <1>3, <1>5 DEF Tidy
  <1>7. OnlySpeakers(s)
    <2> SUFFICES ASSUME NEW i \in Ids PROVE Lost(s.blks, s.elems, i) = 0
        BY DEF OnlySpeakers
    <2>1. {p \in Cells : s.elems[p].id = i} = {}
      BY <1>3 DEF Gone, Ids
    <2> QED
      BY <1>3, <2>1, FS_EmptySet DEF Lost
  <1>8. RunnerTyped /\ StatusOfBegun
    BY InfoAssumption DEF Init, RunnerTyped, StatusOfBegun, Statuses, Gone, NoAction
  <1>10. SaidTyped /\ AsSaid
    <2>1. /\ said = [g \in Groups |-> <<>>] /\ <<>> \in Seq(Actions) /\ Len(<<>>) = 0
          /\ \A g \in Groups : s.lists[g]._size = 0
      BY <1>1, <1>3 DEF Init
    <2> QED
      BY <2>1 DEF SaidTyped, AsSaid, Holds, s
  <1>9. Counted
    <2>1. store_group_num = 0 /\ Cardinality(Groups) \in Nat
      BY GroupsAreNumbers DEF Init
    <2> QED
      BY <1>5, <2>1 DEF Counted, s
  <1> QED
    BY <1>4, <1>6, <1>7, <1>8, <1>9, <1>10 DEF GroupInv, GroupsInv, Sound, s

\* A message replaces the groups, whatever runs.
LEMMA MessageKeepsGroups ==
  ASSUME GroupInv, NEW m \in Messages, ParseGroupMsg(m)
  PROVE  GroupInv'
  <1> DEFINE cleared == ClearGroups(Store, store_group_num)
             s == FillGroups(cleared, m)
  <1>1. Sound(cleared) /\ Held(cleared) = {} /\ \A g \in Groups : cleared.lists[g]._size = 0
    BY ClearAllFrees DEF GroupInv, GroupsInv, Counted
  <1> HIDE DEF cleared
  <1>2. /\ Sound(s)
        /\ \A g \in Groups : g < Len(m) => Holds(s, g, m[g + 1], Len(m[g + 1]))
        /\ \A g \in Groups : g >= Len(m) => s.lists[g]._size = 0
    BY <1>1, FillAllKeepsSound
  <1>3. /\ action_group_list' = s.lists /\ elements' = s.elems /\ blocks' = s.blks
        /\ store_group_num' = Len(m) /\ UNCHANGED <<runVars, clock, begun, counted>>
        /\ said' = [g \in Groups |-> IF g < Len(m) THEN m[g + 1] ELSE <<>>]
    BY DEF ParseGroupMsg, s, cleared
  <1> HIDE DEF s
  <1>4. Store' = s
    BY <1>2, <1>3 DEF Store, Sound, Stores
  <1>5. Sound(Store')
    BY <1>2, <1>4
  <1>6. RunnerTyped' /\ StatusOfBegun'
    BY <1>3 DEF GroupInv, RunnerTyped, StatusOfBegun, runVars, TimeOf
  <1>7. /\ Len(m) \in 0..Cardinality(Groups) /\ Len(m) \in Nat
        /\ \A g \in Groups : g \in Nat /\ (g < Len(m) => m[g + 1] \in Seq(Actions))
    <2>1. m \in Seq(Seq(Actions)) /\ Len(m) \in 0..Cardinality(Groups) /\ Len(m) \in Nat
          /\ \A g \in Groups : g \in Nat
      BY InfoAssumption, GroupsAreNumbers
    <2>2. ASSUME NEW g \in Groups, g < Len(m) PROVE m[g + 1] \in Seq(Actions)
      <3>1. g + 1 \in 1..Len(m)
        BY <2>1, <2>2
      <3> QED
        BY <2>1, <3>1
    <2> QED
      BY <2>1, <2>2
  <1>8. Counted'
    BY <1>2, <1>3, <1>4, <1>7 DEF Counted, Places
  <1>9. SaidTyped'
    BY <1>3, <1>7 DEF SaidTyped
  <1>10. ASSUME NEW g \in Groups PROVE Holds(Store', g, said'[g], Len(said'[g]))
    <2>1. CASE g < Len(m)
      BY <1>2, <1>3, <1>4, <2>1
    <2>2. CASE ~(g < Len(m))
      <3>1. said'[g] = <<>> /\ Len(said'[g]) = 0 /\ Store'.lists[g]._size = 0
        BY <1>2, <1>3, <1>4, <1>7, <2>2
      <3> QED
        BY <3>1 DEF Holds
    <2> QED
      BY <2>1, <2>2
  <1>11. AsSaid'
    BY <1>10 DEF AsSaid
  <1> QED
    BY <1>5, <1>6, <1>8, <1>9, <1>11 DEF GroupInv, GroupsInv

\* All lists emptied, the number of the stored ones kept.
LEMMA ClearAllKeepsGroups ==
  ASSUME GroupInv, ClearAllGroupList
  PROVE  GroupInv'
  <1> DEFINE s == ClearGroups(Store, Cardinality(Groups))
  <1>1. Sound(s) /\ \A g \in Groups : s.lists[g]._size = 0
    <2>1. Sound(Store) /\ Cardinality(Groups) \in 0..Cardinality(Groups)
          /\ \A g \in Groups : ~(g >= Cardinality(Groups))
      BY GroupsAreNumbers DEF GroupInv, GroupsInv
    <2> QED
      BY <2>1, ClearAllFrees
  <1>2. /\ action_group_list' = s.lists /\ elements' = s.elems /\ blocks' = s.blks
        /\ UNCHANGED <<store_group_num, runVars, clock, begun, counted>>
        /\ said' = [g \in Groups |-> <<>>]
    BY DEF ClearAllGroupList
  <1> HIDE DEF s
  <1>3. Store' = s
    BY <1>1, <1>2 DEF Store, Sound, Stores
  <1>4. RunnerTyped' /\ StatusOfBegun'
    BY <1>2 DEF GroupInv, RunnerTyped, StatusOfBegun, runVars, TimeOf
  <1>5. Counted'
    BY <1>1, <1>2, <1>3 DEF GroupInv, GroupsInv, Counted, Places
  <1>6. SaidTyped' /\ AsSaid'
    <2>1. <<>> \in Seq(Actions) /\ Len(<<>>) = 0
      OBVIOUS
    <2> QED
      BY <1>1, <1>2, <1>3, <2>1 DEF SaidTyped, AsSaid, Holds
  <1> QED
    BY <1>1, <1>3, <1>4, <1>5, <1>6 DEF GroupInv, GroupsInv

\* Asking a list for a node changes only what it remembers.
LEMMA AskedStore ==
  ASSUME GroupsInv, NEW g \in Groups, NEW i \in Nat,
         action_group_list' = [action_group_list EXCEPT ![g] = Got(action_group_list[g], i)],
         UNCHANGED <<elements, blocks, store_group_num, said>>
  PROVE  GroupsInv'
  <1>1. Store' = Asked(Store, g, i) /\ Store'.elems = Store.elems
    BY DEF Store, Asked
  <1>2. /\ Sound(Asked(Store, g, i))
        /\ \A h \in Groups : /\ Asked(Store, g, i).lists[h]._size = Store.lists[h]._size
                             /\ \A j : Ptr(Asked(Store, g, i), h, j) = Ptr(Store, h, j)
    BY GotKeepsSound DEF GroupsInv
  <1>3. /\ Sound(Store')
        /\ \A h \in Groups : /\ Store'.lists[h]._size = Store.lists[h]._size
                             /\ \A j : Ptr(Store', h, j) = Ptr(Store, h, j)
    BY <1>1, <1>2, Zenon
  <1>4. \A h \in Groups : Places(Store', h) = Places(Store, h)
                         /\ \A j : ElementAt(Store', h, j) = ElementAt(Store, h, j)
    BY <1>1, <1>3 DEF Places, ElementAt
  <1>5. Counted' /\ SaidTyped'
    BY <1>4 DEF GroupsInv, Counted, SaidTyped
  <1>6. AsSaid'
    BY <1>3, <1>4 DEF GroupsInv, AsSaid, Holds
  <1> QED
    BY <1>3, <1>5, <1>6 DEF GroupsInv

\* What the runner is answered from a group: the element the last message had there.
LEMMA Answers ==
  ASSUME GroupInv, NEW g \in Groups, NEW n \in Nat
  PROVE  /\ action_group_list[g]._size = Len(said[g])
         /\ Element(get(action_group_list[g], n)) =
              IF n < Len(said[g]) THEN said[g][n + 1] ELSE Gone
         /\ n < Len(said[g]) => said[g][n + 1] \in Actions
  <1> DEFINE k == Len(said[g])
  <1>1. /\ Sound(Store) /\ Holds(Store, g, said[g], k) /\ said[g] \in Seq(Actions) /\ k \in Nat
        /\ Store.lists = action_group_list /\ Store.elems = elements
    BY DEF GroupInv, GroupsInv, AsSaid, SaidTyped, Store
  <1> HIDE DEF k
  <1>2. /\ action_group_list[g]._size = k
        /\ get(action_group_list[g], n) = IF n < k THEN Ptr(Store, g, n + 1) ELSE NULL
        /\ \A i \in 1..k : elements[Ptr(Store, g, i)] = said[g][i]
    BY <1>1, PointerAtPlace DEF Holds, ElementAt
  <1>3. CASE n < k
    <2>1. n + 1 \in 1..k /\ n + 1 \in Places(Store, g)
      BY <1>1, <1>2, <1>3 DEF Places
    <2>2. Ptr(Store, g, n + 1) \in Cells
      BY <1>1, <2>1 DEF Sound, Tidy, Held
    <2>3. Element(get(action_group_list[g], n)) = said[g][n + 1]
      BY <1>2, <1>3, <2>1, <2>2, NullIsNoCell DEF Element
    <2>4. said[g][n + 1] \in Actions
      BY <1>1, <2>1 DEF k
    <2> QED
      BY <1>2, <1>3, <2>3, <2>4 DEF k
  <1>4. CASE ~(n < k)
    BY <1>2, <1>4 DEF k, Element
  <1> QED
    BY <1>3, <1>4

LEMMA ActionTypes ==
  ASSUME NEW a \in Actions
  PROVE  a.id \in Ids /\ TimeOf(a) \in Nat /\ Less(TimeOf(a), 0) = TimeOf(a)
  <1>1. a.id \in Ids /\ a.time \in Nat
    BY InfoAssumption
  <1>2. TimeOf(a) \in Nat
    BY <1>1 DEF TimeOf
  <1> QED
    BY <1>1, <1>2 DEF Less

LEMMA SetKeepsGroups ==
  ASSUME GroupInv, NEW n \in 0..MaxActions, SetCurrentAction(n)
  PROVE  GroupInv'
  <1> DEFINE g == running_group_id
             list == action_group_list[g]
             runs == list._size > 0 /\ n < list._size
             a == Element(get(list, n))
  <1>1. /\ g \in Groups /\ n \in Nat /\ running_action_id' = n /\ counted' = 0
        /\ UNCHANGED <<elements, blocks, store_group_num, running_group_id, clock, said>>
    BY InfoAssumption DEF SetCurrentAction, GroupInv, RunnerTyped
  <1>2. CASE runs
    <2>1. a \in Actions
      BY <1>1, <1>2, Answers
    <2>2. /\ action_status' = [id |-> a.id, time_counter |-> TimeOf(a), time_start |-> clock,
                              is_enable |-> TRUE]
          /\ begun' = a
      BY <1>2, Zenon DEF SetCurrentAction
    <2>3. action_group_list' = [action_group_list EXCEPT ![g] = Got(action_group_list[g], n)]
      BY <1>2 DEF SetCurrentAction
    <2>4. GroupsInv'
      BY <1>1, <2>3, AskedStore DEF GroupInv
    <2> HIDE DEF a, g, list, runs
    <2>5. RunnerTyped'
      BY <1>1, <2>1, <2>2, ActionTypes DEF GroupInv, RunnerTyped, Statuses
    <2>6. StatusOfBegun'
      <3>1. begun' \in Actions /\ action_status'.id = begun'.id
            /\ action_status'.time_counter = Less(TimeOf(begun'), 0)
        BY <2>1, <2>2, ActionTypes
      <3> QED
        BY <1>1, <3>1 DEF StatusOfBegun, TimeOf
    <2> QED
      BY <2>4, <2>5, <2>6 DEF GroupInv
  <1>3. CASE ~runs
    <2>1. action_status' = [action_status EXCEPT !.is_enable = FALSE]
          /\ action_group_list' = action_group_list
      BY <1>3 DEF SetCurrentAction
    <2>2. GroupsInv'
      <3>1. Store' = Store
        BY <1>1, <2>1 DEF Store
      <3> QED
        BY <1>1, <3>1 DEF GroupInv, GroupsInv, Counted, SaidTyped, AsSaid
    <2> HIDE DEF runs, list, g, a
    <2>3. RunnerTyped' /\ StatusOfBegun'
      BY <1>1, <2>1 DEF GroupInv, RunnerTyped, StatusOfBegun, Statuses, g
    <2> QED
      BY <2>2, <2>3 DEF GroupInv
  <1> QED
    BY <1>2, <1>3

\* Counting down in steps is taking off all that was counted.
LEMMA CountKeepsGroups ==
  ASSUME GroupInv, Count
  PROVE  RunnerTyped' /\ StatusOfBegun'
  <1>1. /\ action_status' = [action_status EXCEPT !.time_counter = Less(@, CountStep)]
        /\ counted' = counted + CountStep /\ begun' = begun
        /\ UNCHANGED <<running_group_id, running_action_id, clock>>
        /\ CountStep \in Nat /\ counted \in Nat /\ action_status \in Statuses
        /\ action_status.time_counter \in Nat
    BY InfoAssumption DEF Count, GroupInv, RunnerTyped, StatusOfBegun, Statuses
  <1>2. Less(action_status.time_counter, CountStep) \in Nat /\ counted' \in Nat
    BY <1>1 DEF Less
  <1>3. RunnerTyped'
    BY <1>1, <1>2 DEF GroupInv, RunnerTyped, Statuses
  <1>4. ASSUME action_status'.is_enable
        PROVE  /\ begun \in Actions /\ action_status'.id = begun.id
               /\ action_status'.time_counter = Less(TimeOf(begun), counted')
    <2>1. /\ begun \in Actions /\ action_status.id = begun.id
          /\ action_status.time_counter = Less(TimeOf(begun), counted)
      BY <1>1, <1>4 DEF GroupInv, StatusOfBegun, Statuses
    <2>2. TimeOf(begun) \in Nat
      BY <2>1, ActionTypes
    <2>3. Less(Less(TimeOf(begun), counted), CountStep) = Less(TimeOf(begun), counted')
      BY <1>1, <2>2 DEF Less
    <2>4. action_status'.id = action_status.id
          /\ action_status'.time_counter = Less(action_status.time_counter, CountStep)
      BY <1>1 DEF Statuses
    <2> QED
      BY <2>1, <2>3, <2>4
  <1>5. StatusOfBegun'
    BY <1>1, <1>2, <1>4 DEF StatusOfBegun, TimeOf
  <1> QED
    BY <1>3, <1>5

LEMMA NextKeepsGroups == GroupInv /\ [Next]_vars => GroupInv'
  <1> SUFFICES ASSUME GroupInv, [Next]_vars PROVE GroupInv'
    OBVIOUS
  <1>1. ASSUME UNCHANGED <<listVars, said>> PROVE GroupsInv'
    <2>1. Store' = Store /\ store_group_num' = store_group_num
      BY <1>1 DEF Store, listVars
    <2> QED
      BY <1>1, <2>1 DEF GroupInv, GroupsInv, Counted, SaidTyped, AsSaid
  <1>2. ASSUME NEW g \in Groups, NameGroup(g) PROVE GroupInv'
    <2>1. RunnerTyped' /\ StatusOfBegun'
      BY <1>2 DEF NameGroup, GroupInv, RunnerTyped, StatusOfBegun, historyVars, TimeOf
    <2> QED
      BY <1>1, <1>2, <2>1 DEF GroupInv, NameGroup, historyVars
  <1>3. CASE StopCurrentAction
    <2>1. RunnerTyped' /\ StatusOfBegun'
      BY <1>3 DEF StopCurrentAction, GroupInv, RunnerTyped, StatusOfBegun, Statuses
    <2> QED
      BY <1>1, <1>3, <2>1 DEF GroupInv, StopCurrentAction
  <1>4. CASE Tick
    <2>1. clock' \in Nat
      BY <1>4, InfoAssumption DEF Tick, GroupInv, RunnerTyped
    <2>2. RunnerTyped' /\ StatusOfBegun'
      BY <1>4, <2>1 DEF Tick, GroupInv, RunnerTyped, StatusOfBegun, runVars, TimeOf
    <2> QED
      BY <1>1, <1>4, <2>2 DEF GroupInv, Tick
  <1>5. CASE Count
    BY <1>1, <1>5, CountKeepsGroups DEF GroupInv, Count
  <1>6. CASE AskCurrentAction
    <2>1. /\ running_group_id \in Groups /\ running_action_id \in Nat
          /\ UNCHANGED <<elements, blocks, store_group_num, said>>
      BY <1>6 DEF AskCurrentAction, GroupInv, RunnerTyped, historyVars
    <2>2. GroupsInv'
      BY <1>6, <2>1, AskedStore DEF AskCurrentAction, GroupInv
    <2>3. RunnerTyped' /\ StatusOfBegun'
      BY <1>6 DEF AskCurrentAction, GroupInv, RunnerTyped, StatusOfBegun, runVars, historyVars,
                  TimeOf
    <2> QED
      BY <2>2, <2>3 DEF GroupInv
  <1>7. CASE UNCHANGED vars
    BY <1>1, <1>7 DEF GroupInv, RunnerTyped, StatusOfBegun, vars, runVars, historyVars, TimeOf
  <1> QED
    BY <1>2, <1>3, <1>4, <1>5, <1>6, <1>7, MessageKeepsGroups, SetKeepsGroups,
       ClearAllKeepsGroups DEF Next

LEMMA GroupsHold == Spec => []GroupInv
  BY InitGroupInv, NextKeepsGroups, PTL DEF Spec

\* The lists and the heap belong together, and only the speaker's data are not
\* given back (xpider_info.cpp, ClearGroupList).
THEOREM ElementsAreGivenBack == Spec => []OnlySpeakersLeak
  <1>1. GroupInv => OnlySpeakersLeak
    <2> SUFFICES ASSUME GroupInv PROVE OnlySpeakersLeak
      OBVIOUS
    <2> DEFINE lists == action_group_list
               places == UNION {{g} \X (0..(lists[g]._size - 1)) : g \in Groups}
               Pointer(a) == get(lists[a[1]], a[2])
               held == {p \in Cells : elements[p] # Gone}
               s == Store
    <2>1. Sound(s) /\ Tidy(s) /\ OnlySpeakers(s)
      BY DEF GroupInv, GroupsInv, Sound
    <2>2. s.lists = lists /\ s.elems = elements /\ s.blks = blocks /\ held = Held(s)
      BY DEF Store, Held
    <2> HIDE DEF s
    <2>3. ASSUME NEW a \in places
          PROVE  /\ a = <<a[1], a[2]>> /\ a[1] \in Groups /\ a[2] \in Nat
                 /\ a[2] + 1 \in Places(s, a[1]) /\ Pointer(a) = Ptr(s, a[1], a[2] + 1)
      <3>1. PICK g \in Groups : a \in {g} \X (0..(lists[g]._size - 1))
        OBVIOUS
      <3>2. a = <<a[1], a[2]>> /\ a[1] = g /\ a[2] \in 0..(lists[g]._size - 1)
        BY <3>1
      <3>3. lists[g]._size \in Nat
            /\ \A i \in Nat : get(lists[g], i) = IF i < lists[g]._size THEN Ptr(s, g, i + 1) ELSE NULL
        BY <2>1, <2>2, PointerAtPlace
      <3>4. a[2] \in Nat /\ a[2] < lists[g]._size /\ a[2] + 1 \in 1..lists[g]._size
        BY <3>2, <3>3
      <3> QED
        BY <2>2, <3>2, <3>3, <3>4 DEF Places
    <2>4. \A a, b \in places : Pointer(a) = Pointer(b) => a = b
      <3> SUFFICES ASSUME NEW a \in places, NEW b \in places, Pointer(a) = Pointer(b)
                   PROVE  a = b
        OBVIOUS
      <3> HIDE DEF places, Pointer
      <3>1. a[1] = b[1] /\ a[2] + 1 = b[2] + 1
        BY <2>1, <2>3 DEF Tidy
      <3>2. a[2] = b[2]
        BY <2>3, <3>1
      <3> QED
        BY <2>3, <3>1, <3>2
    <2>5. \A a \in places : Pointer(a) \in held
      <3> HIDE DEF places, Pointer
      <3> QED
        BY <2>1, <2>2, <2>3 DEF Tidy
    <2>6. ASSUME NEW p \in held PROVE \E a \in places : Pointer(a) = p
      <3>1. PICK g \in Groups : \E i \in Places(s, g) : Ptr(s, g, i) = p
        BY <2>1, <2>2 DEF Tidy
      <3>2. PICK i \in Places(s, g) : Ptr(s, g, i) = p
        BY <3>1
      <3>3. lists[g]._size \in Nat /\ i \in 1..lists[g]._size
        BY <2>1, <2>2, PointerAtPlace DEF Places
      <3>4. i - 1 \in 0..(lists[g]._size - 1) /\ (i - 1) + 1 = i
        BY <3>3
      <3>5. <<g, i - 1>> \in places
        BY <3>4
      <3>6. Pointer(<<g, i - 1>>) = p
        <4>1. Pointer(<<g, i - 1>>) = Ptr(s, <<g, i - 1>>[1], <<g, i - 1>>[2] + 1)
          BY <2>3, <3>5
        <4> QED
          BY <3>2, <3>4, <4>1
      <3> QED
        BY <3>5, <3>6
    <2>7. held = {Pointer(a) : a \in places}
      <3> HIDE DEF held, places, Pointer
      <3> QED
        BY <2>5, <2>6
    <2>8. \A i \in Ids : IF i = "idSpeaker" THEN Lost(blocks, elements, i) >= 0
                         ELSE Lost(blocks, elements, i) = 0
      BY <2>1, <2>2 DEF OnlySpeakers
    <2> QED
      BY <2>4, <2>7, <2>8 DEF OnlySpeakersLeak
  <1> QED
    BY <1>1, GroupsHold, PTL

\* However the lists' caches stand and whatever messages came, the runner is answered
\* from the last one, and the status is that of the action begun, less what was
\* counted (xpider_info.cpp, SetCurrentAction, getCurrentAction and Count).
THEOREM StatusStaysCurrent == Spec => []StatusIsCurrent
  <1>1. GroupInv => StatusIsCurrent
    <2> SUFFICES ASSUME GroupInv, running_group_id # NoGroup PROVE StatusIsCurrent
      BY DEF StatusIsCurrent
    <2> DEFINE current == Element(getCurrentAction)
               group == said[running_group_id]
    <2>1. running_group_id \in Groups /\ running_action_id \in Nat
      BY DEF GroupInv, RunnerTyped
    <2>2. current = IF running_action_id < Len(group) THEN group[running_action_id + 1] ELSE Gone
      BY <2>1, Answers DEF getCurrentAction
    <2>3. ASSUME action_status.is_enable, current = begun
          PROVE  /\ action_status.id = current.id
                 /\ action_status.time_counter = Less(TimeOf(current), counted)
      <3>1. /\ action_status.id = begun.id
            /\ action_status.time_counter = Less(TimeOf(begun), counted)
        BY <2>3 DEF GroupInv, StatusOfBegun
      <3> HIDE DEF current
      <3> QED
        BY <2>3, <3>1
    <2> QED
      BY <2>2, <2>3 DEF StatusIsCurrent
  <1> QED
    BY <1>1, GroupsHold, PTL
=============================================================================
