---------------------------- MODULE ElementList ----------------------------
(***************************************************************************)
(* What a caller of linked_list.h may rely on, without nodes and without a  *)
(* cache: a sequence whose elements are numbered from 0.  The operations    *)
(* are those that the header's comments name, with the results of its code  *)
(* where the two differ or the comments are silent.                         *)
(***************************************************************************)
EXTENDS Integers, Sequences, SequencesExt

CONSTANTS
  Data,              \* what may be added
  T,                 \* the answer of a call that finds nothing
  MaxSize            \* bound: elements in the list

VARIABLES
  list,              \* the elements
  got                \* what the last call answered

listVars == <<list, got>>

Init == list = <<>> /\ got = T

\* An index behind the end stands for the end.
Insert(index, t) ==
  /\ Len(list) < MaxSize
  /\ LET at == IF index > Len(list) THEN Len(list) ELSE index
     IN  list' = InsertAt(list, at + 1, t)
  /\ got' = T

\* The comment on set() says "Increment _size"; the code leaves the length alone.
Set(index, t) ==
  /\ list' = IF index < Len(list) THEN ReplaceAt(list, index + 1, t) ELSE list
  /\ got' = T

TakeOut(index) ==
  /\ list' = IF index < Len(list) THEN RemoveAt(list, index + 1) ELSE list
  /\ got' = IF index < Len(list) THEN list[index + 1] ELSE T

Get(index) ==
  /\ got' = IF index < Len(list) THEN list[index + 1] ELSE T
  /\ UNCHANGED list

Clear == list' = <<>> /\ got' = T

Next ==
  \/ \E i \in 0..MaxSize, t \in Data : Insert(i, t) \/ Set(i, t)
  \/ \E i \in 0..MaxSize : TakeOut(i) \/ Get(i)
  \/ Clear

Spec == Init /\ [][Next]_listVars
=============================================================================
