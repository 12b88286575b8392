------------------------------ MODULE LossyFifo ------------------------------
(***************************************************************************)
(* What a link promises, that of the vision system and that to a robot:    *)
(* messages are numbered in the order they are sent, some may be lost, and *)
(* those that are delivered are delivered once and in the order sent.      *)
(***************************************************************************)
EXTENDS Integers, Sequences

CONSTANT MaxSent     \* bound on the number of messages

VARIABLES
  count,             \* messages sent so far
  delivered          \* the numbers of the messages delivered, oldest first

fifoVars == <<count, delivered>>

Init == count = 0 /\ delivered = <<>>

Send == count < MaxSent /\ count' = count + 1 /\ UNCHANGED delivered

\* Messages between the last one delivered and n are lost for good.
Deliver(n) ==
  /\ n \in 1..count
  /\ \A k \in DOMAIN delivered : delivered[k] < n
  /\ delivered' = Append(delivered, n)
  /\ UNCHANGED count

Next == Send \/ \E n \in 1..MaxSent : Deliver(n)

Spec == Init /\ [][Next]_fifoVars
=============================================================================
