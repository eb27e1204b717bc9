--------------------------- MODULE MCPublication ---------------------------
(***************************************************************************)
(* Instances of Publication for TLC.                                       *)
(***************************************************************************)
EXTENDS Publication, TLC

Symetrie ==
    Permutations(Eleves) \cup Permutations(Parents) \cup Permutations(Agents)
=============================================================================
