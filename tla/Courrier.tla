------------------------------ MODULE Courrier ------------------------------
(***************************************************************************)
(* What the conversations promise of a message, without a page, a copy or  *)
(* a write on its way: it appears once, between the two sides, or is lost; *)
(* it is read for good, by its recipient; whoever deletes it for himself   *)
(* takes it from the conversation of both for good; once deleted it is     *)
(* over.                                                                   *)
(***************************************************************************)
CONSTANTS Messages, Enseignants, Familles

VARIABLE
    courrier        \* courrier[m]: the message m, or what it is without one

AVenir == [etape |-> "aVenir"]

Fini == [etape |-> "fini"]

Lettre(de, a) ==
    [etape |-> "visible", de |-> de, a |-> a, lu |-> FALSE, contenu |-> "original"]

Correspondances == (Enseignants \X Familles) \cup (Familles \X Enseignants)

Presents == {m \in Messages : courrier[m].etape \in {"visible", "masque"}}

InitCourrier == courrier = [m \in Messages |-> AVenir]

Arriver(m) ==
    /\ courrier[m] = AVenir
    /\ \E c \in Correspondances : courrier' = [courrier EXCEPT ![m] = Lettre(c[1], c[2])]

\* What a user has sent and the server never got is lost.
Perdre(S) ==
    /\ \A m \in S : courrier[m] = AVenir
    /\ courrier' = [m \in Messages |-> IF m \in S THEN Fini ELSE courrier[m]]

\* A recipient reads several messages at once, hidden ones perhaps.
Lire(u, S) ==
    /\ \A m \in S : m \in Presents /\ courrier[m].a = u
    /\ courrier' = [m \in Messages |->
                      IF m \in S THEN [courrier[m] EXCEPT !.lu = TRUE] ELSE courrier[m]]

Modifier(m) ==
    /\ m \in Presents
    /\ courrier' = [courrier EXCEPT ![m].contenu = "modifie"]

Masquer(m) ==
    /\ m \in Presents
    /\ courrier' = [courrier EXCEPT ![m].etape = "masque"]

Supprimer(m) ==
    /\ m \in Presents
    /\ courrier' = [courrier EXCEPT ![m] = Fini]

NextCourrier ==
    \/ \E m \in Messages : Arriver(m) \/ Modifier(m) \/ Masquer(m) \/ Supprimer(m)
    \/ \E S \in SUBSET Messages : Perdre(S) \/ \E u \in Enseignants \cup Familles : Lire(u, S)

SpecCourrier == InitCourrier /\ [][NextCourrier]_courrier
=============================================================================
