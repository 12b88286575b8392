------------------------ MODULE MCXpiderSocketThread ------------------------
(* Instance of the robot link with the command thread for TLC.  Read on     *)
(* after two characters or three, the second text goes on at the beginning *)
(* of a line or in the middle of it; after five it is over.                *)
EXTENDS CommandChain

Line(does, from, to) == [does |-> does, from |-> from, to |-> to]

Texts ==
  {<<Line("led", 0, 2), Line("delay", 2, 3), Line("led", 3, 5)>>,
   <<Line("nothing", 0, 2), Line("led", 2, 4)>>}
=============================================================================
