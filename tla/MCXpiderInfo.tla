---------------------------- MODULE MCXpiderInfo ----------------------------
(* Instance of XpiderInfo for TLC. *)
EXTENDS XpiderInfo
Walk1 == [id |-> "idWalk", time |-> 1]
Eye3 == [id |-> "idEye", time |-> 3]
Speak == [id |-> "idSpeaker", time |-> 2]
SomeActions == {Walk1, Eye3, Speak}
SomeMessages == {<<<<Walk1, Eye3>>>>, <<<<Eye3>>, <<Speak, Walk1>>>>}
=============================================================================
