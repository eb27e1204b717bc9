----------------------------- MODULE MCComptes -----------------------------
(***************************************************************************)
(* Instances of Comptes for TLC: two chains of calls in flight, so that    *)
(* any two operations on the same person or class interleave.              *)
(***************************************************************************)
EXTENDS Comptes, TLC

\* Chains are alike, and so are classes and the people of one role.
Symetrie ==
    Permutations(Agents) \cup Permutations(Classes) \cup Permutations(Eleves)
=============================================================================
