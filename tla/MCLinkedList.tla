---------------------------- MODULE MCLinkedList ----------------------------
(* Instance of LinkedListCalls for TLC. *)
EXTENDS LinkedListCalls
SomeData == {1, 2}
=============================================================================
