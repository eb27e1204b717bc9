---------------------------- MODULE Publication ----------------------------
(***************************************************************************)
(* The publication of a homework (lib/modules/enseignant/vues/             *)
(* devoir_page.dart): _submit uploads the file, reads the list of the      *)
(* class, reads the links of its pupils by lots of whereIn values, and     *)
(* stores the homework with the pupils and the parents it is for, while    *)
(* administrators register pupils and link parents (module Famille).       *)
(***************************************************************************)
EXTENDS Famille, Sequences

CONSTANTS
    Fichier,        \* there is a file to upload, or not
    TailleLot,      \* batchSize
    LimiteWhereIn,  \* values that whereIn takes at most
    MaxDevoirs      \* bound: homework stored

ASSUME PublicationHypotheses ==
    /\ Fichier \in BOOLEAN
    /\ {LimiteWhereIn, MaxDevoirs} \subseteq Nat
    /\ TailleLot \in 1..LimiteWhereIn

VARIABLES
    elevesIds,      \* the list of the class
    envoi,          \* the call _submit awaits, and its local variables
    devoirs         \* collection "devoirs", in order of adding

varsPublication == <<elevesIds, envoi, devoirs>>
vars == <<varsFamille, varsPublication>>

\* "dus" and "muet" are not in the code: the links there were when the list
\* was read, and whether a catch returned an empty list instead.
EnvoiNul == [etape |-> "repos", eleves |-> <<>>, i |-> 0, parents |-> {}, dus |-> {}, muet |-> FALSE]

Init ==
    /\ InitFamille
    /\ elevesIds = <<>>
    /\ envoi = EnvoiNul
    /\ devoirs = <<>>

-----------------------------------------------------------------------------
(***************************************************************************)
(* The administrators; those who link are the actions of Famille.          *)
(***************************************************************************)
Dans(s) == {s[i] : i \in DOMAIN s}

Inscrire(e) ==
    /\ e \notin Dans(elevesIds)
    /\ elevesIds' = Append(elevesIds, e)
    /\ UNCHANGED <<varsFamille, envoi, devoirs>>

-----------------------------------------------------------------------------
(***************************************************************************)
(* _submit: the tap, then the answer of each call it awaits.               *)
(***************************************************************************)
ParentsDe(S) == {l[1] : l \in {k \in Liens : famille[k] > 0 /\ k[2] \in S}}

Soumettre ==
    /\ envoi.etape = "repos" /\ Len(devoirs) < MaxDevoirs
    /\ envoi' = [EnvoiNul EXCEPT !.etape = IF Fichier THEN "fichier" ELSE "classe"]
    /\ UNCHANGED <<varsFamille, elevesIds, devoirs>>

Televerser ==
    /\ envoi.etape = "fichier"
    /\ envoi' = [envoi EXCEPT !.etape = "classe"]
    /\ UNCHANGED <<varsFamille, elevesIds, devoirs>>

\* _chargerElevesIdsDeClasse; without a pupil no link is asked for.
LireClasse ==
    /\ envoi.etape = "classe"
    /\ envoi' = [envoi EXCEPT !.etape = IF elevesIds = <<>> THEN "ajout" ELSE "lots",
                              !.eleves = elevesIds, !.dus = ParentsDe(Dans(elevesIds))]
    /\ UNCHANGED <<varsFamille, elevesIds, devoirs>>

\* The class is gone, or the catch of _chargerElevesIdsDeClasse: an empty list.
LireClasseEnVain ==
    /\ envoi.etape = "classe"
    /\ envoi' = [envoi EXCEPT !.etape = "ajout", !.dus = ParentsDe(Dans(elevesIds)), !.muet = TRUE]
    /\ UNCHANGED <<varsFamille, elevesIds, devoirs>>

\* Variant: sublist's end is taken for the last index of the lot.
LotDecale(i) == SubSeq(envoi.eleves, i + 1,
                 IF i + TailleLot > Len(envoi.eleves) THEN Len(envoi.eleves) - 1 ELSE i + TailleLot - 1)

\* The ith lot of elevesIds, as sublist takes it.
Lot(i) == SubSeq(envoi.eleves, i + 1,
                 IF i + TailleLot > Len(envoi.eleves) THEN Len(envoi.eleves) ELSE i + TailleLot)

\* Variant: one lot too many.
LireLotDeTrop ==
    LET suite == envoi.i + TailleLot IN
    /\ envoi.etape = "lots"
    /\ envoi' = [envoi EXCEPT !.parents = @ \cup ParentsDe(Dans(Lot(envoi.i))), !.i = suite,
                              !.etape = IF suite <= Len(envoi.eleves) THEN "lots" ELSE "ajout"]
    /\ UNCHANGED <<varsFamille, elevesIds, devoirs>>

LireLot ==
    LET suite == envoi.i + TailleLot IN
    /\ envoi.etape = "lots"
    /\ envoi' = [envoi EXCEPT !.parents = @ \cup ParentsDe(Dans(Lot(envoi.i))), !.i = suite,
                              !.etape = IF suite < Len(envoi.eleves) THEN "lots" ELSE "ajout"]
    /\ UNCHANGED <<varsFamille, elevesIds, devoirs>>

\* The catch of _chargerParentsDesEleves: no parent, those already read
\* included.
LireLotEnVain ==
    /\ envoi.etape = "lots"
    /\ envoi' = [envoi EXCEPT !.parents = {}, !.etape = "ajout", !.muet = TRUE]
    /\ UNCHANGED <<varsFamille, elevesIds, devoirs>>

AjouterDevoir ==
    /\ envoi.etape = "ajout"
    /\ devoirs' = Append(devoirs, [eleveIds |-> Dans(envoi.eleves), parentIds |-> envoi.parents,
                                   dus |-> envoi.dus, muet |-> envoi.muet])
    /\ envoi' = EnvoiNul
    /\ UNCHANGED <<varsFamille, elevesIds>>

\* The upload or the last call throws: the catch of _submit reports it.
Echouer ==
    /\ envoi.etape \in {"fichier", "ajout"}
    /\ envoi' = EnvoiNul
    /\ UNCHANGED <<varsFamille, elevesIds, devoirs>>

-----------------------------------------------------------------------------
Next ==
    \/ \E e \in Eleves : Inscrire(e)
    \/ NextFamille /\ UNCHANGED varsPublication
    \/ Soumettre \/ Televerser
    \/ LireClasse \/ LireClasseEnVain
    \/ LireLot \/ LireLotEnVain
    \/ AjouterDevoir \/ Echouer

Spec == Init /\ [][Next]_vars

-----------------------------------------------------------------------------
(***************************************************************************)
(* Type invariant; a lot is only read where the list goes on.              *)
(***************************************************************************)
TypeOK ==
    /\ TypeOKFamille
    /\ elevesIds \in Seq(Eleves)
    /\ envoi \in [etape : {"repos", "fichier", "classe", "lots", "ajout"}, eleves : Seq(Eleves),
                  i : Nat, parents : SUBSET Parents, dus : SUBSET Parents, muet : BOOLEAN]
    /\ envoi.etape = "lots" => envoi.i < Len(envoi.eleves)
    /\ devoirs \in Seq([eleveIds : SUBSET Eleves, parentIds : SUBSET Parents,
                        dus : SUBSET Parents, muet : BOOLEAN])

(***************************************************************************)
(* A homework stored without a failed read is for every parent who was     *)
(* linked to a pupil of the list when it was read, and only for parents of *)
(* these pupils: the lots of _chargerParentsDesEleves leave nobody out,    *)
(* whatever is linked or registered between two of them.                   *)
(***************************************************************************)
ParentsDuDevoir ==
    \A n \in DOMAIN devoirs :
        /\ ~devoirs[n].muet => devoirs[n].dus \subseteq devoirs[n].parentIds
        /\ devoirs[n].parentIds \subseteq ParentsDe(devoirs[n].eleveIds)
=============================================================================
