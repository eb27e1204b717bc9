------------------------------ MODULE MCAppel ------------------------------
(***************************************************************************)
(* Instances of Appel for TLC: the classes of the teacher.                 *)
(***************************************************************************)
EXTENDS Appel, TLC

CONSTANTS c1, c2, m1, e1, e2, e3, e4

\* A class of three pupils and a class of another one, with one subject.
DeuxClasses == {c1, c2}
MatieresDesDeux == c1 :> {m1} @@ c2 :> {m1}
InscritsDesDeux == c1 :> {e1, e2, e3} @@ c2 :> {e4}

\* The pupils of the first class are alike.
Symetrie == Permutations({e1, e2, e3})
=============================================================================
