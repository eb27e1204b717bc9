---------------------------- MODULE MCMessagerie ----------------------------
(***************************************************************************)
(* Messagerie for TLC.                                                     *)
(***************************************************************************)
EXTENDS Messagerie, TLC

\* Ids and families are interchangeable (no use in the liveness run).
Symetrie == Permutations(Ids) \cup Permutations(Familles)

(***************************************************************************)
(* The reading scenario of the liveness run: the teacher alone writes new  *)
(* messages and nobody edits; snapshots, batches, deletions on both sides, *)
(* closings and crashes are all there.                                     *)
(***************************************************************************)
NextLecture ==
    /\ Next
    /\ edition' = edition
    /\ \A f \in Familles : ~EnvoyerNouveau(f)

SpecLecture == Init /\ [][NextLecture]_vars /\ Equite
=============================================================================
