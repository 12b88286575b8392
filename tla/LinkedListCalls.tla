--------------------------- MODULE LinkedListCalls ---------------------------
(***************************************************************************)
(* One LinkedList<T> and a caller of all its operations, with the indices   *)
(* from 0 up to one behind the end: nn_data_list of XpiderInfo, or one of   *)
(* its action_group_list.                                                   *)
(***************************************************************************)
EXTENDS LinkedList

CONSTANTS
  Data,              \* what is added
  MaxSize            \* bound: elements in the list

ASSUME ListAssumption == MaxSize = Cardinality(Cells) /\ T \notin Data

VARIABLES
  l,                 \* the list
  got                \* what the last call answered

callVars == <<l, got>>

ListInit == l = LinkedList /\ got = T

Indices == 0..(l._size + 1)
Room == l._size < MaxSize

Add(t) == Room /\ l' = add(l, t) /\ got' = T
AddAt(i, t) == Room /\ l' = addAt(l, i, t) /\ got' = T
Unshift(t) == Room /\ l' = unshift(l, t) /\ got' = T
SetAt(i, t) == l' = set(l, i, t) /\ got' = T
Get(i) == got' = get(l, i) /\ l' = Got(l, i)
TakeOut(i) == got' = removed(l, i) /\ l' = remove(l, i)
Pop == got' = removed(l, l._size - 1) /\ l' = pop(l)
Shift == got' = removed(l, 0) /\ l' = shift(l)
Clear == l' = clear(l) /\ got' = T

ListNext ==
  \/ \E t \in Data : Add(t) \/ Unshift(t)
  \/ \E i \in Indices, t \in Data : AddAt(i, t) \/ SetAt(i, t)
  \/ \E i \in Indices : Get(i) \/ TakeOut(i)
  \/ Pop \/ Shift \/ Clear

ListSpec == ListInit /\ [][ListNext]_callVars

-----------------------------------------------------------------------------

\* Every pointer leads to a node that was not freed, and none is forgotten: the
\* nodes on the heap are those that lead from root to last, _size of them.
WellLinked ==
  LET chain == [k \in 1..l._size |-> Walk(l, l.root, k - 1)]
  IN  /\ Range(chain) = Used(l) /\ Cardinality(Used(l)) = l._size
      /\ IF l._size = 0 THEN l.root = NULL /\ l.last = NULL
         ELSE l.last = chain[l._size] /\ l.nodes[l.last].next = NULL

\* What getNode remembers is the node at that index, or the NULL behind the end.
CacheIsRight ==
  l.isCached => /\ l.lastIndexGot \in 0..l._size
                /\ l.lastNodeGot = Walk(l, l.root, l.lastIndexGot)

\* After every call, in any order of calls.
LinksAreRight == WellLinked /\ CacheIsRight

\* Read through nodes, cache and heap, the list is the sequence that the
\* operations of ElementList make, and every call answers from it.
Sequence == INSTANCE ElementList WITH list <- Elements(l), got <- got
ImplementsSequence == Sequence!Spec
=============================================================================
