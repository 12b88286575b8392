--------------------------- MODULE MCXpiderSocket ---------------------------
(***************************************************************************)
(* Two of the five robots.  The intervals keep the code's order: an attempt *)
(* may take longer than the time between attempts.  A tick stands for the  *)
(* longest wait of a connected loop, or any time that is less.             *)
(***************************************************************************)
EXTENDS XpiderSocket

\* Either of the two may be the one that starts first.
Messages == [r \in Robot |-> IF r = 0 THEN 2 ELSE 0]
=============================================================================
