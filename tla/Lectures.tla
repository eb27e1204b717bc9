------------------------------ MODULE Lectures ------------------------------
(***************************************************************************)
(* Who has read which homework and which announcement, and the counters of *)
(* the home pages.                                                         *)
(*                                                                         *)
(* A homework is marked by the page that lists it (eleve/vues/             *)
(* liste_devoir.dart, parent/vues/devoir_page.dart): the field "lu" is     *)
(* rewritten from the list on display, with the reader added. An           *)
(* announcement is marked by arrayUnion on "luePar" (eleve/vues/           *)
(* annonces.dart, parent/vues/annonce.dart, enseignant/vues/               *)
(* notifications_page.dart). The home pages (home_eleve, home_parent,      *)
(* home_enseignant) count what their stream shows as not read.             *)
(*                                                                         *)
(* No page deletes a homework or an announcement.                          *)
(***************************************************************************)
EXTENDS Naturals, Sequences, FiniteSets

CONSTANTS
    Lecteurs,       \* the users every document is for
    Devoirs,        \* documents of "devoirs"
    Annonces,       \* documents of "annonces"
    Aucun,          \* not on display
    MaxEnVol        \* bound: writes of one application not served yet

Documents == Devoirs \cup Annonces

ASSUME LecturesHypotheses ==
    /\ Devoirs \cap Annonces = {}
    /\ MaxEnVol \in Nat
    /\ \A S \in SUBSET Lecteurs : S # Aucun

VARIABLES
    publies,        \* the documents stored
    lu,             \* lu[d]: the field "lu" of a homework, "luePar" of an announcement
    affiche,        \* affiche[u][d]: that field in the list on u's display
    enVol,          \* enVol[u]: updates u's application has sent, in order
    servis,         \* servis[u]: the documents that an update of u has marked
    nonLus          \* nonLus[u]: the documents the home page of u counts

vars == <<publies, lu, affiche, enVol, servis, nonLus>>

RienAffiche == [d \in Documents |-> Aucun]

Init ==
    /\ publies = {} /\ lu = [d \in Documents |-> {}]
    /\ affiche = [u \in Lecteurs |-> RienAffiche]
    /\ enVol = [u \in Lecteurs |-> <<>>]
    /\ servis = [u \in Lecteurs |-> {}] /\ nonLus = [u \in Lecteurs |-> {}]

-----------------------------------------------------------------------------
Publier(d) ==
    /\ d \notin publies
    /\ publies' = publies \cup {d}
    /\ UNCHANGED <<lu, affiche, enVol, servis, nonLus>>

\* What a list shows after it is read: the documents D as they are stored.
Relire(u, D) == [d \in Documents |-> IF d \in D \cap publies THEN lu[d] ELSE affiche[u][d]]

\* A snapshot of the stream of homework.
AfficherDevoirs(u) ==
    /\ affiche' = [affiche EXCEPT ![u] = Relire(u, Devoirs)]
    /\ UNCHANGED <<publies, lu, enVol, servis, nonLus>>

\* _chargerAnnonces, once per opening of the page.
ChargerAnnonces(u) ==
    /\ affiche' = [affiche EXCEPT ![u] = Relire(u, Annonces)]
    /\ UNCHANGED <<publies, lu, enVol, servis, nonLus>>

\* d is on display without the mark of u.
Proposable(u, d) == affiche[u][d] # Aucun /\ u \notin affiche[u][d]

Envoyer(u, d, effet, qui) ==
    /\ Len(enVol[u]) < MaxEnVol
    /\ enVol' = [enVol EXCEPT ![u] = Append(@, [doc |-> d, effet |-> effet, qui |-> qui])]
    /\ UNCHANGED <<publies, lu, affiche, servis, nonLus>>

\* Variant: the users it is for are written in place of its readers.
OuvrirDevoirPourTous(u, d) ==
    /\ Proposable(u, d)
    /\ Envoyer(u, d, "remplacer", Lecteurs)

\* A tap on a homework: _marquerCommeLu.
OuvrirDevoir(u, d) ==
    /\ Proposable(u, d)
    /\ Envoyer(u, d, "remplacer", affiche[u][d] \cup {u})

\* Variant: as a homework is marked.
MarquerAnnonceParListe(u, a) ==
    /\ Proposable(u, a)
    /\ Envoyer(u, a, "remplacer", affiche[u][a] \cup {u})

\* A tap on "Marquer comme lue": _marquerCommeLue. The button goes with the
\* answer, not with the tap.
MarquerAnnonce(u, a) ==
    /\ Proposable(u, a)
    /\ Envoyer(u, a, "union", {u})

\* The database applies the first update of u; the page of announcements
\* then adds u to its copy.
Servir(u) ==
    LET e == Head(enVol[u]) IN
    /\ enVol[u] # <<>>
    /\ enVol' = [enVol EXCEPT ![u] = Tail(@)]
    /\ lu' = [lu EXCEPT ![e.doc] = IF e.effet = "union" THEN lu[e.doc] \cup e.qui ELSE e.qui]
    /\ affiche' = [affiche EXCEPT ![u] = [d \in Documents |->
            IF d = e.doc /\ d \in Annonces /\ affiche[u][d] # Aucun
              THEN affiche[u][d] \cup {u} ELSE affiche[u][d]]]
    /\ servis' = [servis EXCEPT ![u] = @ \cup {e.doc}]
    /\ UNCHANGED <<publies, nonLus>>

\* The application is killed with its updates, and opened again.
Relancer(u) ==
    /\ affiche' = [affiche EXCEPT ![u] = RienAffiche]
    /\ enVol' = [enVol EXCEPT ![u] = <<>>]
    /\ nonLus' = [nonLus EXCEPT ![u] = {}]
    /\ UNCHANGED <<publies, lu, servis>>

\* Variant: a document not published yet counts.
CompterTout(u) ==
    LET n == {d \in Documents : u \notin lu[d]} IN
    /\ nonLus[u] # n
    /\ nonLus' = [nonLus EXCEPT ![u] = n]
    /\ UNCHANGED <<publies, lu, affiche, enVol, servis>>

\* Variant: what is counted once stays counted.
CompterEnPlus(u) ==
    LET n == nonLus[u] \cup {d \in publies : u \notin lu[d]} IN
    /\ nonLus[u] # n
    /\ nonLus' = [nonLus EXCEPT ![u] = n]
    /\ UNCHANGED <<publies, lu, affiche, enVol, servis>>

\* The streams of the home page bring something new.
Compter(u) ==
    LET n == {d \in publies : u \notin lu[d]} IN
    /\ nonLus[u] # n
    /\ nonLus' = [nonLus EXCEPT ![u] = n]
    /\ UNCHANGED <<publies, lu, affiche, enVol, servis>>

-----------------------------------------------------------------------------
Next ==
    \/ \E d \in Documents : Publier(d)
    \/ \E u \in Lecteurs :
        \/ AfficherDevoirs(u) \/ ChargerAnnonces(u)
        \/ \E d \in Devoirs : OuvrirDevoir(u, d)
        \/ \E a \in Annonces : MarquerAnnonce(u, a)
        \/ Servir(u)
        \/ Relancer(u)
        \/ Compter(u)

Spec == Init /\ [][Next]_vars

\* The streams of a home page keep bringing what is stored.
SpecEquitable == Spec /\ \A u \in Lecteurs : WF_vars(Compter(u))

-----------------------------------------------------------------------------
(***************************************************************************)
(* Type invariant; updates and counters are about published documents.     *)
(***************************************************************************)
TypeOK ==
    /\ publies \subseteq Documents
    /\ lu \in [Documents -> SUBSET Lecteurs]
    /\ affiche \in [Lecteurs -> [Documents -> {Aucun} \cup SUBSET Lecteurs]]
    /\ enVol \in [Lecteurs -> Seq([doc : publies, effet : {"union", "remplacer"}, qui : SUBSET Lecteurs])]
    /\ servis \in [Lecteurs -> SUBSET publies] /\ nonLus \in [Lecteurs -> SUBSET publies]

(***************************************************************************)
(* Nobody is stored as a reader of a document that no update of his has    *)
(* marked: an update that carries the others' names only carries those of  *)
(* readers, however old the list it was made from.                         *)
(***************************************************************************)
LecteursReels == \A d \in Documents, u \in Lecteurs : u \in lu[d] => d \in servis[u]

RegistreDesAnnonces == INSTANCE Registre WITH
    Documents <- Annonces, publics <- publies \cap Annonces, lecteurs <- [a \in Annonces |-> lu[a]]

(***************************************************************************)
(* The announcements implement Registre: whatever is marked at the same    *)
(* time, whichever application is killed, a reader stays a reader.         *)
(***************************************************************************)
AnnoncesTenues == RegistreDesAnnonces!SpecRegistre

(***************************************************************************)
(* The counter of the home page forgets for good an announcement whose     *)
(* mark has been stored.                                                   *)
(***************************************************************************)
CompteurVide ==
    \A u \in Lecteurs, a \in Annonces : u \in lu[a] ~> [](a \notin nonLus[u])
=============================================================================
