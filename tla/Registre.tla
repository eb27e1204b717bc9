------------------------------ MODULE Registre ------------------------------
(***************************************************************************)
(* What "read by" promises: a document, once published, gets readers one   *)
(* at a time and keeps them.                                               *)
(***************************************************************************)
CONSTANTS Documents, Lecteurs

VARIABLES
    publics,        \* the documents published
    lecteurs        \* lecteurs[d]: who has read d

variables == <<publics, lecteurs>>

InitRegistre == publics = {} /\ lecteurs = [d \in Documents |-> {}]

Paraitre(d) ==
    /\ d \notin publics
    /\ publics' = publics \cup {d}
    /\ UNCHANGED lecteurs

Lire(d, u) ==
    /\ d \in publics
    /\ lecteurs' = [lecteurs EXCEPT ![d] = lecteurs[d] \cup {u}]
    /\ UNCHANGED publics

NextRegistre == \E d \in Documents : Paraitre(d) \/ \E u \in Lecteurs : Lire(d, u)

SpecRegistre == InitRegistre /\ [][NextRegistre]_variables
=============================================================================
