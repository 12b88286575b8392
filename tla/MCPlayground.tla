---------------------------- MODULE MCPlayground ----------------------------
(* Instance of Playground for TLC; places are interchangeable.             *)
EXTENDS Playground, TLC

PlaceSymmetry == Permutations(Place)
=============================================================================
