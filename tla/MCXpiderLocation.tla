-------------------------- MODULE MCXpiderLocation --------------------------
(* Robots on a line, the smallest metric on which markers can be confused.  *)
EXTENDS XpiderLocation, TLC

CONSTANT Length      \* points 0..Length

LinePoints == 0..Length
LineDist == [p \in LinePoints |-> [q \in LinePoints |-> IF p < q THEN q - p ELSE p - q]]
TwoPlaces == 0 :> 0 @@ 1 :> 3

=============================================================================
