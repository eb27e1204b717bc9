------------------------------ MODULE MCPhoto ------------------------------
(***************************************************************************)
(* Instances of Photo for TLC.                                             *)
(***************************************************************************)
EXTENDS Photo, TLC

Symetrie == Permutations(Pages)
=============================================================================
