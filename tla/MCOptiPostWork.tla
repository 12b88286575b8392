--------------------------- MODULE MCOptiPostWork ---------------------------
(* Instance of OptiPostWork for TLC: constants are given in the .cfg files.  *)
EXTENDS OptiPostWork
=============================================================================
