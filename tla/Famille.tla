------------------------------ MODULE Famille ------------------------------
(***************************************************************************)
(* The collection "famille": which parents are linked to which pupils      *)
(* (lib/donnees/depots/depos_famille.dart), filled from the page           *)
(* lib/modules/admin/vues/lier_parent_enfant.dart and read by the roll     *)
(* call, the marks and the homework.                                       *)
(*                                                                         *)
(* ajouterRelation looks the link up and adds it by two calls; the button  *)
(* "Lier" stays enabled in between, so the taps of one operator interleave *)
(* like those of several. No page calls supprimerRelation.                 *)
(***************************************************************************)
EXTENDS Naturals, FiniteSets

CONSTANTS
    Agents,         \* chains of calls of ajouterRelation in flight
    Parents,        \* documents of "parents"
    Eleves,         \* documents of "eleves"
    Aucun           \* null

Liens == Parents \X Eleves

ASSUME FamilleHypotheses ==
    /\ IsFiniteSet(Agents)
    /\ Aucun \notin Liens

VARIABLES
    famille,        \* famille[l]: number of documents for the link l
    liaison         \* liaison[a]: the link a is about and the call it awaits

varsFamille == <<famille, liaison>>

EnRepos == [etape |-> "repos", lien |-> Aucun]

InitFamille ==
    /\ famille = [l \in Liens |-> 0]
    /\ liaison = [a \in Agents |-> EnRepos]

-----------------------------------------------------------------------------
\* A tap on "Lier": ajouterRelation sends its query.
Lier(a, l) ==
    /\ liaison[a] = EnRepos
    /\ liaison' = [liaison EXCEPT ![a] = [etape |-> "recherche", lien |-> l]]
    /\ UNCHANGED famille

\* Variant: adds the link whatever the query found.
ChercherSansTest(a) ==
    /\ liaison[a].etape = "recherche"
    /\ liaison' = [liaison EXCEPT ![a].etape = "ajout"]
    /\ UNCHANGED famille

\* The answer to the query: an existing link is returned, else one is added.
Chercher(a) ==
    /\ liaison[a].etape = "recherche"
    /\ liaison' = [liaison EXCEPT ![a] =
            IF famille[liaison[a].lien] > 0
              THEN EnRepos
              ELSE [etape |-> "ajout", lien |-> liaison[a].lien]]
    /\ UNCHANGED famille

Ajouter(a) ==
    /\ liaison[a].etape = "ajout"
    /\ famille' = [famille EXCEPT ![liaison[a].lien] = @ + 1]
    /\ liaison' = [liaison EXCEPT ![a] = EnRepos]

\* A call throws, or the page is left before it is sent.
Abandonner(a) ==
    /\ liaison[a] # EnRepos
    /\ liaison' = [liaison EXCEPT ![a] = EnRepos]
    /\ UNCHANGED famille

NextFamille ==
    \E a \in Agents :
        \/ \E l \in Liens : Lier(a, l)
        \/ Chercher(a)
        \/ Ajouter(a)
        \/ Abandonner(a)

SpecFamille == InitFamille /\ [][NextFamille]_varsFamille

-----------------------------------------------------------------------------
(***************************************************************************)
(* Type invariant of the links and of the chains that add them.            *)
(***************************************************************************)
TypeOKFamille ==
    /\ famille \in [Liens -> Nat]
    /\ liaison \in [Agents -> {EnRepos} \cup [etape : {"recherche", "ajout"}, lien : Liens]]

\* The chains that found no link l and are about to add it.
Ajoutent(l) == {a \in Agents : liaison[a].etape = "ajout" /\ liaison[a].lien = l}

(***************************************************************************)
(* A link is stored at most as often as there are chains of calls at the   *)
(* same time, however many times it is asked for: whoever looks it up once *)
(* it is stored adds nothing. With one chain at a time it is unique.       *)
(***************************************************************************)
LiensBornes ==
    \A l \in Liens : famille[l] + Cardinality(Ajoutent(l)) <= Cardinality(Agents)
=============================================================================
