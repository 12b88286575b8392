----------------------------- MODULE LinkedList -----------------------------
(***************************************************************************)
(* LinkedList<T> (xpider_ctl/linked_list.h): nodes on a heap, the last node *)
(* and the node that getNode found last.  A list is a record; an operation  *)
(* is an operator that gives the list it leaves.                            *)
(***************************************************************************)
EXTENDS Integers, Sequences, FiniteSets, SequencesExt, FiniteSetsExt, Functions

CONSTANTS
  T,                 \* the answer of a call that finds nothing: T()
  Cells              \* the places on the heap for nodes, as numbers

\* NULL is none of them.
ASSUME CellsAssumption == IsFiniteSet(Cells) /\ Cells \subseteq Nat \ {0}

NULL == 0
Freed == [data |-> T, next |-> NULL, used |-> FALSE]
Node(t, next) == [data |-> t, next |-> next, used |-> TRUE]

LinkedList ==
  [nodes |-> [c \in Cells |-> Freed], _size |-> 0, root |-> NULL, last |-> NULL,
   isCached |-> FALSE, lastIndexGot |-> 0, lastNodeGot |-> NULL]

\* k steps along next from node n; at NULL it ends.  A pointer to a freed node
\* is followed to NULL; WellLinked says that there is none.
Walk(l, n, k) ==
  LET w[i \in 0..k] == IF i = 0 THEN n
                       ELSE IF w[i - 1] = NULL THEN NULL ELSE l.nodes[w[i - 1]].next
  IN  w[k]
Datum(l, n) == IF n = NULL THEN T ELSE l.nodes[n].data

\* new takes a cell that was freed as soon as there is one.
Used(l) == {c \in Cells : l.nodes[c].used}
NewNode(l) == Min(Cells \ Used(l))

\* The cached node is a start when it lies at the index or before it.
FromCache(l, index) == l.isCached /\ l.lastIndexGot <= index

NodeAt(l, index) ==
  IF FromCache(l, index) THEN Walk(l, l.lastNodeGot, index - l.lastIndexGot)
  ELSE Walk(l, l.root, index)
\* The loop ends at the index, or before it when it meets NULL.
Reaches(l, index) ==
  LET pos == IF FromCache(l, index) THEN l.lastIndexGot ELSE 0
      from == IF FromCache(l, index) THEN l.lastNodeGot ELSE l.root
  IN  index >= 0 /\ (pos = index \/ Walk(l, from, index - 1 - pos) # NULL)

\* getNode: the node, and the list with what it remembers.
getNode(l, index) == IF Reaches(l, index) THEN NodeAt(l, index) ELSE NULL
Got(l, index) ==
  IF Reaches(l, index)
    THEN [l EXCEPT !.isCached = TRUE, !.lastIndexGot = index,
                   !.lastNodeGot = NodeAt(l, index)]
    ELSE l

\* A node behind the last one; as mutant of add, the cache outlives it.
Appended(l, t) ==
  LET n == NewNode(l)
      linked == IF l.root = NULL THEN l
                ELSE [l EXCEPT !.nodes[l.last].next = n]
  IN  [linked EXCEPT !.nodes[n] = Node(t, NULL),
                     !.root = IF l.root = NULL THEN n ELSE @, !.last = n,
                     !._size = @ + 1]

add(l, t) == [Appended(l, t) EXCEPT !.isCached = FALSE]

unshift(l, t) ==
  LET n == NewNode(l)
  IN  IF l._size = 0 THEN add(l, t)
      ELSE [l EXCEPT !.nodes[n] = Node(t, l.root), !.root = n,
                     !._size = @ + 1, !.isCached = FALSE]

\* add(int index, T): a node between prev and the one behind it.
InsertBehind(l, index, t) ==
  LET prev == getNode(l, index)
      n == NewNode(l)
  IN  [Got(l, index) EXCEPT
         !.nodes[n] = Node(t, l.nodes[prev].next), !.nodes[prev].next = n,
         !._size = @ + 1, !.isCached = FALSE]

\* Mutant of addAt: one node too far.
addAt_OneFar(l, index, t) ==
  IF index >= l._size THEN add(l, t)
  ELSE IF index = 0 THEN unshift(l, t) ELSE InsertBehind(l, index, t)

addAt(l, index, t) ==
  IF index >= l._size THEN add(l, t)
  ELSE IF index = 0 THEN unshift(l, t) ELSE InsertBehind(l, index - 1, t)

set(l, index, t) ==
  IF index \notin 0..(l._size - 1) THEN l
  ELSE [Got(l, index) EXCEPT !.nodes[getNode(l, index)].data = t]

\* The list without its last node, for the most part; as mutant of pop, last
\* stays where it was.
Unlinked(l) ==
  LET uncached == [l EXCEPT !.isCached = FALSE]
      end == getNode(uncached, l._size - 2)
  IN  IF l._size = 0 THEN l
      ELSE IF l._size = 1
        THEN [uncached EXCEPT !.nodes[l.root] = Freed, !.root = NULL, !._size = 0]
      ELSE [Got(uncached, l._size - 2) EXCEPT
              !.nodes[l.nodes[end].next] = Freed, !.nodes[end].next = NULL,
              !._size = @ - 1]

\* pop searches the new last node, which thereby is the node remembered.
pop(l) ==
  [Unlinked(l) EXCEPT !.last = IF l._size < 2 THEN NULL
                               ELSE getNode([l EXCEPT !.isCached = FALSE], l._size - 2)]

shift(l) ==
  IF l._size <= 1 THEN pop(l)
  ELSE [l EXCEPT !.nodes[l.root] = Freed, !.root = l.nodes[l.root].next,
                 !._size = @ - 1, !.isCached = FALSE]

remove(l, index) ==
  LET prev == getNode(l, index - 1)
      gone == l.nodes[prev].next
  IN  IF index \notin 0..(l._size - 1) THEN l
      ELSE IF index = 0 THEN shift(l)
      ELSE IF index = l._size - 1 THEN pop(l)
      ELSE [Got(l, index - 1) EXCEPT
              !.nodes[gone] = Freed, !.nodes[prev].next = l.nodes[gone].next,
              !._size = @ - 1, !.isCached = FALSE]

\* What get, pop, shift and remove answer.
get(l, index) == Datum(l, getNode(l, index))
removed(l, index) == IF index \in 0..(l._size - 1) THEN get(l, index) ELSE T

clear(l) ==
  LET shifted[i \in 0..l._size] == IF i = 0 THEN l ELSE shift(shifted[i - 1])
  IN  shifted[l._size]

\* The elements as the sequence they stand for.
Elements(l) == [k \in 1..l._size |-> Datum(l, Walk(l, l.root, k - 1))]
=============================================================================
