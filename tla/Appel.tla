------------------------------- MODULE Appel -------------------------------
(***************************************************************************)
(* The roll call of a teacher (lib/modules/enseignant/vues/appel.dart) and *)
(* the notifications to the parents of the absent pupils, while an         *)
(* administrator links parents and pupils (module Famille).                *)
(*                                                                         *)
(* The page loads the subjects and the pupils of what is chosen by calls   *)
(* whose answers come in any order, whatever is chosen by then, and        *)
(* enregistrerAppel reads the fields of the page again after its awaits:   *)
(* the chips stay enabled while it runs, only its own button does not.     *)
(***************************************************************************)
EXTENDS Famille, Sequences

CONSTANTS
    Classes,        \* classes of the teacher
    Matieres,       \* subjects
    MatieresDe,     \* MatieresDe[c]: the teacher's subjects in the class c
    InscritsDe,     \* InscritsDe[c]: the pupils of the class c
    LimiteWhereIn,  \* values that whereIn takes at most
    MaxDemandes,    \* bound: loads of the same thing awaiting their answer
    MaxAppels       \* bound: rolls stored

ASSUME AppelHypotheses ==
    /\ MatieresDe \in [Classes -> SUBSET Matieres]
    /\ InscritsDe \in [Classes -> SUBSET Eleves]
    /\ {LimiteWhereIn, MaxDemandes, MaxAppels} \subseteq Nat
    /\ Aucun \notin Classes \cup Matieres

VARIABLES
    choix,          \* classeChoisieId and matiereChoisieId
    matieres,       \* the subjects shown
    eleves,         \* the pupils shown
    presents,       \* those whose box is ticked
    demandes,       \* demandes[d]: loads of d not answered yet
    envoi,          \* the call enregistrerAppel awaits, and its local variables
    appels,         \* collection "appels", in order of storing
    avis            \* notifications of type "absence"

varsPage == <<choix, matieres, eleves, presents, demandes>>
vars == <<varsFamille, varsPage, envoi, appels, avis>>

\* What a load is about: a subject of the class, or the pupils of a class.
Demandes == ({"matiere"} \X Matieres) \cup ({"eleves"} \X Classes)

RienChoisi == [classe |-> Aucun, matiere |-> Aucun]
EnvoiNul == [etape |-> "repos", choix |-> RienChoisi, presents |-> {}, absents |-> {}, lot |-> {}]

Init ==
    /\ InitFamille
    /\ choix = RienChoisi
    /\ matieres = {} /\ eleves = {} /\ presents = {}
    /\ demandes = [d \in Demandes |-> 0]
    /\ envoi = EnvoiNul
    /\ appels = <<>>
    /\ avis = {}

-----------------------------------------------------------------------------
(***************************************************************************)
(* The choices and the loads.                                              *)
(***************************************************************************)
Demander(D) ==
    /\ \A d \in D : demandes[d] < MaxDemandes
    /\ demandes' = [d \in Demandes |-> demandes[d] + (IF d \in D THEN 1 ELSE 0)]

Recue(d) ==
    /\ demandes[d] > 0
    /\ demandes' = [demandes EXCEPT ![d] = @ - 1]

ChoisirClasse(c) ==
    /\ MatieresDe[c] # {} /\ c # choix.classe
    /\ choix' = [classe |-> c, matiere |-> Aucun]
    /\ matieres' = {} /\ eleves' = {} /\ presents' = {}
    /\ Demander({"matiere"} \X MatieresDe[c])
    /\ UNCHANGED <<varsFamille, envoi, appels, avis>>

\* _chargerMatieres cleared the list when it started and adds to it one
\* subject per answer.
RecevoirMatiere(m) ==
    /\ Recue(<<"matiere", m>>)
    /\ matieres' = matieres \cup {m}
    /\ UNCHANGED <<varsFamille, choix, eleves, presents, envoi, appels, avis>>

ChoisirMatiere(m) ==
    /\ choix.classe # Aucun /\ m \in matieres /\ m # choix.matiere
    /\ choix' = [choix EXCEPT !.matiere = m]
    /\ eleves' = {} /\ presents' = {}
    /\ Demander({<<"eleves", choix.classe>>})
    /\ UNCHANGED <<varsFamille, matieres, envoi, appels, avis>>

\* Variant: the boxes ticked before are kept.
RecevoirElevesSansEffacer(c) ==
    /\ Recue(<<"eleves", c>>)
    /\ eleves' = InscritsDe[c]
    /\ UNCHANGED <<varsFamille, choix, matieres, presents, envoi, appels, avis>>

\* _chargerEleves shows the pupils of the class it was called for.
RecevoirEleves(c) ==
    /\ Recue(<<"eleves", c>>)
    /\ eleves' = InscritsDe[c]
    /\ presents' = {}
    /\ UNCHANGED <<varsFamille, choix, matieres, envoi, appels, avis>>

Cocher(e) ==
    /\ e \in eleves
    /\ presents' = IF e \in presents THEN presents \ {e} ELSE presents \cup {e}
    /\ UNCHANGED <<varsFamille, choix, matieres, eleves, demandes, envoi, appels, avis>>

\* _toutCocher and _toutDecocher.
CocherTout ==
    /\ eleves # {}
    /\ presents' \in {eleves, {}}
    /\ UNCHANGED <<varsFamille, choix, matieres, eleves, demandes, envoi, appels, avis>>

-----------------------------------------------------------------------------
(***************************************************************************)
(* enregistrerAppel.                                                       *)
(***************************************************************************)
EnvoiEnCours == envoi.etape # "repos"

\* Variant: classeChoisieId and matiereChoisieId are not tested.
ValiderSansTest ==
    /\ eleves # {} /\ ~EnvoiEnCours
    /\ Len(appels) < MaxAppels
    /\ envoi' = [etape |-> "appel", choix |-> choix, presents |-> presents,
                 absents |-> eleves \ presents, lot |-> {}]
    /\ UNCHANGED <<varsFamille, varsPage, appels, avis>>

\* A tap on "Valider et Notifier": add() is sent with a copy of the fields.
Valider ==
    /\ eleves # {} /\ ~EnvoiEnCours
    /\ choix.classe # Aucun /\ choix.matiere # Aucun
    /\ Len(appels) < MaxAppels
    /\ envoi' = [etape |-> "appel", choix |-> choix, presents |-> presents,
                 absents |-> eleves \ presents, lot |-> {}]
    /\ UNCHANGED <<varsFamille, varsPage, appels, avis>>

\* The last statements: the page is cleared and the button enabled.
Terminer ==
    /\ envoi' = EnvoiNul
    /\ choix' = RienChoisi
    /\ matieres' = {} /\ eleves' = {} /\ presents' = {}

\* The links whose pupil is in S.
LiensDes(S) == {l \in Liens : famille[l] > 0 /\ l[2] \in S}

\* The roll is stored. "dus" is not in the document: it remembers the links
\* there were, for what the roll call owes to the parents.
StockerAppel ==
    /\ envoi.etape = "appel"
    /\ appels' = Append(appels,
            [choix |-> envoi.choix, presents |-> envoi.presents, absents |-> envoi.absents,
             dus |-> LiensDes(envoi.absents)])
    /\ \/ envoi.absents = {} /\ Terminer /\ UNCHANGED demandes
       \/ /\ envoi.absents # {}
          /\ envoi' = [envoi EXCEPT !.etape = "familles"]
          /\ UNCHANGED varsPage
    /\ UNCHANGED <<varsFamille, avis>>

\* One notification for each document of a link, with the class and the
\* subject that are chosen now.
Notifications(S) ==
    UNION {{[appel |-> Len(appels), lien |-> l, rang |-> r, choix |-> choix] :
                r \in 1..famille[l]} : l \in LiensDes(S)}

\* Variant: the absent pupils are those of the page when the answer comes.
LireFamillesDeLaPage ==
    /\ envoi.etape = "familles"
    /\ Aucun \notin {choix.classe, choix.matiere}
    /\ envoi' = [envoi EXCEPT !.etape = "lot", !.lot = Notifications(eleves \ presents)]
    /\ UNCHANGED <<varsFamille, varsPage, appels, avis>>

\* The answer to the query on "famille": too many values, and classeChoisieId!
\* or matiereChoisieId! once the choice is gone, throw. Nothing catches it and
\* the button stays disabled.
LireFamilles ==
    LET lot == Notifications(envoi.absents)
        leve == \/ Cardinality(envoi.absents) > LimiteWhereIn
                \/ lot # {} /\ Aucun \in {choix.classe, choix.matiere} IN
    /\ envoi.etape = "familles"
    /\ envoi' = IF leve THEN [envoi EXCEPT !.etape = "leve"]
                        ELSE [envoi EXCEPT !.etape = "lot", !.lot = lot]
    /\ UNCHANGED <<varsFamille, varsPage, appels, avis>>

\* Variant: the notifications are added one by one.
EcrireUnParUn ==
    /\ envoi.etape = "lot" /\ envoi.lot # {}
    /\ \E n \in envoi.lot :
        /\ avis' = avis \cup {n}
        /\ envoi' = [envoi EXCEPT !.lot = @ \ {n}]
    /\ UNCHANGED <<varsFamille, varsPage, appels>>

\* ajouterNotificationsParLot: one batch.
EcrireLot ==
    /\ envoi.etape = "lot"
    /\ avis' = avis \cup envoi.lot
    /\ Terminer
    /\ UNCHANGED <<varsFamille, demandes, appels>>

\* The call awaited fails: no try catches it either.
Echouer ==
    /\ envoi.etape \in {"appel", "familles", "lot"}
    /\ envoi' = [envoi EXCEPT !.etape = "echec"]
    /\ UNCHANGED <<varsFamille, varsPage, appels, avis>>

\* The application is killed and the page opened again.
Relancer ==
    /\ Terminer
    /\ demandes' = [d \in Demandes |-> 0]
    /\ UNCHANGED <<varsFamille, appels, avis>>

-----------------------------------------------------------------------------
Next ==
    \/ \E c \in Classes : ChoisirClasse(c) \/ RecevoirEleves(c)
    \/ \E m \in Matieres : ChoisirMatiere(m) \/ RecevoirMatiere(m)
    \/ \E e \in Eleves : Cocher(e)
    \/ CocherTout
    \/ Valider
    \/ StockerAppel
    \/ LireFamilles
    \/ EcrireLot
    \/ Echouer
    \/ Relancer
    \/ NextFamille /\ UNCHANGED <<varsPage, envoi, appels, avis>>

Spec == Init /\ [][Next]_vars

-----------------------------------------------------------------------------
Choix == [classe : Classes \cup {Aucun}, matiere : Matieres \cup {Aucun}]
ChoixFait == [classe : Classes, matiere : Matieres]
Avis == [appel : 1..Len(appels), lien : Liens, rang : Nat \ {0}, choix : ChoixFait]

(***************************************************************************)
(* Type invariant of the page, of the save and of the two collections.     *)
(***************************************************************************)
TypeOK ==
    /\ TypeOKFamille
    /\ choix \in Choix
    /\ matieres \subseteq Matieres /\ eleves \subseteq Eleves /\ presents \subseteq Eleves
    /\ demandes \in [Demandes -> 0..MaxDemandes]
    /\ envoi \in [etape : {"repos", "appel", "familles", "lot", "leve", "echec"}, choix : Choix,
                   presents : SUBSET Eleves, absents : SUBSET Eleves, lot : SUBSET Avis]
    /\ appels \in Seq([choix : ChoixFait, presents : SUBSET Eleves, absents : SUBSET Eleves, dus : SUBSET Liens])
    /\ avis \subseteq Avis

(***************************************************************************)
(* A stored roll splits the pupils of one class into present and absent:   *)
(* however the answers of the loads are ordered, a box ticked for one list *)
(* never counts in another one (setState of _chargerEleves). It may be     *)
(* another class than the roll names: an answer that comes late is shown.  *)
(***************************************************************************)
AppelHomogene ==
    \A n \in DOMAIN appels :
        /\ appels[n].presents \cap appels[n].absents = {}
        /\ \E c \in Classes : appels[n].presents \cup appels[n].absents = InscritsDe[c]

(***************************************************************************)
(* Only a parent linked to a pupil who is absent in the roll is told of an *)
(* absence, whatever is chosen, ticked or loaded while enregistrerAppel    *)
(* waits for the links.                                                    *)
(***************************************************************************)
AvisJustifie ==
    \A n \in avis : n.lien[2] \in appels[n.appel].absents /\ famille[n.lien] > 0

\* The links told of the nth roll.
PrevenusDe(n) ==
    LET P == {a.lien : a \in {b \in avis : b.appel = n}} IN
    IF P = {} THEN Aucun ELSE P

AvisAbstrait == INSTANCE AvisAbsence WITH
    liens <- {l \in Liens : famille[l] > 0},
    absences <- [n \in DOMAIN appels |-> appels[n].absents],
    attendus <- [n \in DOMAIN appels |-> appels[n].dus],
    prevenus <- [n \in DOMAIN appels |-> PrevenusDe(n)]

(***************************************************************************)
(* The roll call implements AvisAbsence: the parents of the absent pupils  *)
(* are told by one step, all those who were linked when the roll was       *)
(* stored or none, and never twice (ajouterNotificationsParLot).           *)
(***************************************************************************)
AvisEnUnPas == AvisAbstrait!SpecAvis
=============================================================================
