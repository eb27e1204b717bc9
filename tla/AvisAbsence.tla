---------------------------- MODULE AvisAbsence ----------------------------
(***************************************************************************)
(* What the roll call promises to the families, without a page, a query or *)
(* a batch: a roll is stored once and for all, and the parents linked to   *)
(* the absent pupils are told of it by one step, or not at all.            *)
(***************************************************************************)
EXTENDS Naturals, Sequences

CONSTANTS
    Parents, Eleves,
    Aucun           \* not told

VARIABLES
    liens,          \* pairs <<parent, pupil>>
    absences,       \* absences[n]: the absent pupils of the nth roll
    attendus,       \* attendus[n]: their links when the roll was stored
    prevenus        \* prevenus[n]: the links told of it, or Aucun

variables == <<liens, absences, attendus, prevenus>>

LiensDe(S) == {l \in liens : l[2] \in S}

InitAvis ==
    /\ liens = {}
    /\ absences = <<>> /\ attendus = <<>> /\ prevenus = <<>>

Relier ==
    /\ \E l \in Parents \X Eleves : liens' = liens \cup {l}
    /\ UNCHANGED <<absences, attendus, prevenus>>

Constater ==
    \E S \in SUBSET Eleves :
        /\ absences' = Append(absences, S)
        /\ attendus' = Append(attendus, LiensDe(S))
        /\ prevenus' = Append(prevenus, Aucun)
        /\ UNCHANGED liens

\* Every parent linked when the roll was stored, and linked parents only.
Prevenir ==
    \E n \in DOMAIN absences :
        /\ prevenus[n] = Aucun
        /\ \E S \in SUBSET LiensDe(absences[n]) :
            /\ attendus[n] \subseteq S
            /\ prevenus' = [prevenus EXCEPT ![n] = S]
        /\ UNCHANGED <<liens, absences, attendus>>

NextAvis == Relier \/ Constater \/ Prevenir

SpecAvis == InitAvis /\ [][NextAvis]_variables
=============================================================================
