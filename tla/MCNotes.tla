------------------------------ MODULE MCNotes ------------------------------
(***************************************************************************)
(* Instances of Notes for TLC.                                             *)
(***************************************************************************)
EXTENDS Notes, TLC

CONSTANTS c1, c2, e1, e2, p1

\* A class of two pupils, one of whom has a parent, and a class that was empty
\* when the page was opened: whoever is shown there was enrolled later.
DeuxClasses == {c1, c2}
ElevesDesClasses == c1 :> <<e1, e2>> @@ c2 :> <<>>
UnParent == e1 :> {p1} @@ e2 :> {}
=============================================================================
