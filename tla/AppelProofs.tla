---------------------------- MODULE AppelProofs ----------------------------
(***************************************************************************)
(* Proofs about Appel, for any classes, subjects, pupils, links and        *)
(* bounds, and any number of operators linking parents meanwhile.          *)
(***************************************************************************)
EXTENDS Appel, SequenceTheorems, TLAPS

\* The record of a roll.
Rolls == [choix : ChoixFait, presents : SUBSET Eleves, absents : SUBSET Eleves, dus : SUBSET Liens]

\* What TypeOK leaves out: the choice is complete once the save has begun, and
\* a roll is stored before its families are looked up.
TypeOKFort ==
    /\ TypeOK
    /\ envoi.etape = "appel" => envoi.choix \in ChoixFait
    /\ envoi.etape \in {"familles", "lot"} => appels # <<>>

\* S and T are the pupils of one class, cut in two.
Partage(S, T) ==
    /\ S \cap T = {}
    /\ \E c \in Classes : S \cup T = InscritsDe[c]

\* The boxes are those of the list, and the list is that of a class.
PageJuste ==
    /\ presents \subseteq eleves
    /\ eleves = {} \/ \E c \in Classes : eleves = InscritsDe[c]

\* The save that waits for the links or for the batch is about the last roll,
\* of which nobody is told; the batch tells every family that the roll owes
\* a notification, and only those of its absent pupils.
EnvoiJuste ==
    /\ envoi.etape = "appel" => Partage(envoi.presents, envoi.absents)
    /\ envoi.etape \in {"familles", "lot"} =>
        /\ envoi.absents = appels[Len(appels)].absents
        /\ \A n \in avis : n.appel # Len(appels)
    /\ envoi.etape = "lot" =>
        /\ \A n \in envoi.lot : /\ n.appel = Len(appels)
                                /\ n.lien[2] \in envoi.absents /\ famille[n.lien] > 0
        /\ \A l \in appels[Len(appels)].dus : \E n \in envoi.lot : n.lien = l

\* What a roll owes is owed to linked parents of its absent pupils.
DusLies == \A n \in DOMAIN appels : appels[n].dus \subseteq LiensDes(appels[n].absents)

Inv == AppelHomogene /\ AvisJustifie /\ PageJuste /\ EnvoiJuste /\ DusLies

-----------------------------------------------------------------------------
(***************************************************************************)
(* Type correctness.                                                       *)
(***************************************************************************)
\* The links keep their types and are only added to.
LEMMA FamillePas ==
  ASSUME TypeOKFamille, [NextFamille]_varsFamille
  PROVE  /\ TypeOKFamille'
         /\ \A l \in Liens : famille[l] > 0 => famille'[l] > 0
  <1> USE DEF TypeOKFamille
  <1>1. ASSUME NEW a \in Agents, NEW l \in Liens, Lier(a, l)
        PROVE  TypeOKFamille' /\ famille' = famille
    BY <1>1 DEF Lier
  <1>2. ASSUME NEW a \in Agents, Chercher(a)
        PROVE  TypeOKFamille' /\ famille' = famille
    <2>1. liaison[a] \in [etape : {"recherche", "ajout"}, lien : Liens]
      BY <1>2 DEF Chercher, EnRepos
    <2> QED
      BY <1>2, <2>1 DEF Chercher
  <1>3. ASSUME NEW a \in Agents, Ajouter(a)
        PROVE  TypeOKFamille' /\ \A l \in Liens : famille[l] > 0 => famille'[l] > 0
    <2>1. liaison[a].lien \in Liens
      BY <1>3 DEF Ajouter, EnRepos
    <2> QED
      BY <1>3, <2>1 DEF Ajouter
  <1>4. ASSUME NEW a \in Agents, Abandonner(a)
        PROVE  TypeOKFamille' /\ famille' = famille
    BY <1>4 DEF Abandonner
  <1>5. CASE UNCHANGED varsFamille
    BY <1>5 DEF varsFamille
  <1> QED
    BY <1>1, <1>2, <1>3, <1>4, <1>5 DEF NextFamille

\* The types of the page, and of the save while the notifications are in A.
TypePage ==
    /\ choix \in Choix
    /\ matieres \subseteq Matieres /\ eleves \subseteq Eleves /\ presents \subseteq Eleves
    /\ demandes \in [Demandes -> 0..MaxDemandes]

Envois(A) == [etape : {"repos", "appel", "familles", "lot", "leve", "echec"}, choix : Choix,
              presents : SUBSET Eleves, absents : SUBSET Eleves, lot : SUBSET A]

TypeEnvoi ==
    /\ envoi \in Envois(Avis)
    /\ envoi.etape = "appel" => envoi.choix \in ChoixFait
    /\ envoi.etape \in {"familles", "lot"} => appels # <<>>

LEMMA TypeDecoupe ==
  TypeOKFort <=> TypeOKFamille /\ TypePage /\ TypeEnvoi /\ appels \in Seq(Rolls) /\ avis \subseteq Avis
  BY DEF TypeOKFort, TypeOK, TypePage, TypeEnvoi, Envois, Rolls

LEMMA TypeDecoupeApres ==
  TypeOKFort' <=> TypeOKFamille' /\ TypePage' /\ TypeEnvoi' /\ appels' \in Seq(Rolls) /\ avis' \subseteq Avis'
  BY DEF TypeOKFort, TypeOK, TypePage, TypeEnvoi, Envois, Rolls

\* Nothing is chosen, nothing is under way.
LEMMA TypeRepos ==
  RienChoisi \in Choix /\ \A A : EnvoiNul \in Envois(A) /\ EnvoiNul.etape = "repos"
  BY DEF RienChoisi, EnvoiNul, Choix, Envois

LEMMA TypeInit == Init => TypeOKFort
  <1> SUFFICES ASSUME Init
               PROVE  TypeOKFort
    OBVIOUS
  <1>1. TypeOKFamille
    BY DEF Init, InitFamille, TypeOKFamille
  <1>2. TypePage
    BY TypeRepos, AppelHypotheses DEF Init, TypePage
  <1>3. TypeEnvoi
    BY TypeRepos DEF Init, TypeEnvoi
  <1>4. appels \in Seq(Rolls) /\ avis \subseteq Avis
    BY EmptySeq DEF Init
  <1> QED
    BY <1>1, <1>2, <1>3, <1>4, TypeDecoupe

\* A load that is asked for, or answered.
LEMMA DemanderTypee ==
  ASSUME TypePage, NEW D, Demander(D)
  PROVE  demandes' \in [Demandes -> 0..MaxDemandes]
  <1>1. \A d \in Demandes : demandes[d] \in Nat /\ demandes[d] <= MaxDemandes /\ MaxDemandes \in Nat
    BY AppelHypotheses DEF TypePage
  <1>2. \A d \in Demandes : demandes[d] + (IF d \in D THEN 1 ELSE 0) \in 0..MaxDemandes
    BY <1>1 DEF Demander
  <1> QED
    BY <1>2 DEF Demander

LEMMA RecueTypee ==
  ASSUME TypePage, NEW d, Recue(d)
  PROVE  demandes' \in [Demandes -> 0..MaxDemandes]
  <1>1. demandes \in [Demandes -> 0..MaxDemandes] /\ MaxDemandes \in Nat
    BY AppelHypotheses DEF TypePage
  <1>2. demandes' = [demandes EXCEPT ![d] = demandes[d] - 1] /\ demandes[d] > 0
    BY DEF Recue
  <1>3. d \in Demandes => demandes[d] - 1 \in 0..MaxDemandes
    BY <1>1, <1>2
  <1> QED
    BY <1>1, <1>2, <1>3

\* Steps of the page alone.
LEMMA PageTypee ==
  ASSUME TypeOKFort, TypePage', UNCHANGED <<varsFamille, envoi, appels, avis>>
  PROVE  TypeOKFort'
  BY TypeDecoupe, TypeDecoupeApres DEF TypeOKFamille, varsFamille, TypeEnvoi, Avis, Envois

LEMMA TerminerTypee ==
  ASSUME TypeOKFort, Terminer, demandes' \in [Demandes -> 0..MaxDemandes]
  PROVE  TypePage' /\ TypeEnvoi'
  <1>1. TypePage'
    BY TypeRepos DEF Terminer, TypePage
  <1>2. TypeEnvoi'
    BY TypeRepos DEF Terminer, TypeEnvoi
  <1> QED
    BY <1>1, <1>2

\* The notifications that the answer to the query on the links makes.
LEMMA NotificationsTypees ==
  ASSUME TypeOKFort, appels # <<>>, Aucun \notin {choix.classe, choix.matiere}, NEW S
  PROVE  Notifications(S) \subseteq Avis
  <1>1. choix \in ChoixFait
    BY DEF TypeOKFort, TypeOK, Choix, ChoixFait
  <1>2. Len(appels) \in 1..Len(appels)
    <2>1. appels \in Seq(Rolls)
      BY TypeDecoupe
    <2> QED
      BY <2>1, EmptySeq
  <1>3. ASSUME NEW l \in LiensDes(S), NEW r \in 1..famille[l]
        PROVE  [appel |-> Len(appels), lien |-> l, rang |-> r, choix |-> choix] \in Avis
    <2>1. l \in Liens /\ famille[l] \in Nat
      BY DEF LiensDes, TypeOKFort, TypeOK, TypeOKFamille
    <2>2. r \in Nat \ {0}
      BY <2>1
    <2> QED
      BY <1>1, <1>2, <2>1, <2>2 DEF Avis
  <1> QED
    BY <1>3 DEF Notifications

\* The notifications that the page sends, whatever it has chosen by then.
LEMMA LotTypee ==
  ASSUME TypeOKFort, LireFamilles, envoi'.etape = "lot"
  PROVE  /\ envoi' = [envoi EXCEPT !.etape = "lot", !.lot = Notifications(envoi.absents)]
         /\ Notifications(envoi.absents) \subseteq Avis
         /\ Notifications(envoi.absents) = {} \/ Aucun \notin {choix.classe, choix.matiere}
  <1>1. envoi \in Envois(Avis)
    BY TypeDecoupe DEF TypeEnvoi
  <1>2. /\ envoi' = [envoi EXCEPT !.etape = "lot", !.lot = Notifications(envoi.absents)]
        /\ Notifications(envoi.absents) = {} \/ Aucun \notin {choix.classe, choix.matiere}
    BY <1>1 DEF LireFamilles, Envois
  <1>3. appels # <<>>
    BY DEF LireFamilles, TypeOKFort
  <1> QED
    BY <1>2, <1>3, NotificationsTypees

LEMMA TypePas == TypeOKFort /\ [Next]_vars => TypeOKFort'
  <1> SUFFICES ASSUME TypeOKFort, [Next]_vars
               PROVE  TypeOKFort'
    OBVIOUS
  <1>t. TypeOKFamille /\ TypePage /\ TypeEnvoi /\ appels \in Seq(Rolls) /\ avis \subseteq Avis
    BY TypeDecoupe
  <1>1. ASSUME NEW c \in Classes, ChoisirClasse(c)
        PROVE  TypeOKFort'
    <2>1. [classe |-> c, matiere |-> Aucun] \in Choix
      BY DEF Choix
    <2>2. TypePage'
      BY <1>1, <1>t, <2>1, DemanderTypee DEF ChoisirClasse, TypePage
    <2> QED
      BY <1>1, <2>2, PageTypee DEF ChoisirClasse
  <1>2. ASSUME NEW c \in Classes, RecevoirEleves(c)
        PROVE  TypeOKFort'
    <2>1. InscritsDe[c] \subseteq Eleves
      BY AppelHypotheses
    <2>2. demandes' \in [Demandes -> 0..MaxDemandes]
      BY <1>2, <1>t, RecueTypee DEF RecevoirEleves
    <2>3. TypePage'
      BY <1>2, <1>t, <2>1, <2>2 DEF RecevoirEleves, TypePage
    <2> QED
      BY <1>2, <2>3, PageTypee DEF RecevoirEleves
  <1>3. ASSUME NEW m \in Matieres, ChoisirMatiere(m)
        PROVE  TypeOKFort'
    <2>1. [choix EXCEPT !.matiere = m] \in Choix
      BY <1>t DEF TypePage, Choix
    <2>2. demandes' \in [Demandes -> 0..MaxDemandes]
      BY <1>3, <1>t, DemanderTypee DEF ChoisirMatiere
    <2>3. TypePage'
      BY <1>3, <1>t, <2>1, <2>2 DEF ChoisirMatiere, TypePage
    <2> QED
      BY <1>3, <2>3, PageTypee DEF ChoisirMatiere
  <1>4. ASSUME NEW m \in Matieres, RecevoirMatiere(m)
        PROVE  TypeOKFort'
    <2>1. demandes' \in [Demandes -> 0..MaxDemandes]
      BY <1>4, <1>t, RecueTypee DEF RecevoirMatiere
    <2>2. TypePage'
      BY <1>4, <1>t, <2>1 DEF RecevoirMatiere, TypePage
    <2> QED
      BY <1>4, <2>2, PageTypee DEF RecevoirMatiere
  <1>5. ASSUME NEW e \in Eleves, Cocher(e)
        PROVE  TypeOKFort'
    <2>1. TypePage'
      BY <1>5, <1>t DEF Cocher, TypePage
    <2> QED
      BY <1>5, <2>1, PageTypee DEF Cocher
  <1>6. ASSUME CocherTout
        PROVE  TypeOKFort'
    <2>1. TypePage'
      BY <1>6, <1>t DEF CocherTout, TypePage
    <2> QED
      BY <1>6, <2>1, PageTypee DEF CocherTout
  <1>7. ASSUME Valider
        PROVE  TypeOKFort'
    <2>1. choix \in ChoixFait
      BY <1>7, <1>t DEF Valider, TypePage, Choix, ChoixFait
    <2>2. envoi' \in Envois(Avis) /\ envoi'.etape = "appel" /\ envoi'.choix = choix
      BY <1>7, <1>t DEF Valider, Envois, TypePage
    <2>3. TypeEnvoi'
      BY <1>7, <2>1, <2>2 DEF Valider, TypeEnvoi, Envois, Avis
    <2> QED
      BY <1>7, <1>t, <2>3, TypeDecoupeApres
      DEF Valider, varsFamille, varsPage, TypePage, TypeOKFamille, Avis
  <1>8. ASSUME StockerAppel
        PROVE  TypeOKFort'
    <2> DEFINE r == [choix |-> envoi.choix, presents |-> envoi.presents, absents |-> envoi.absents,
                     dus |-> LiensDes(envoi.absents)]
    <2>1. r \in Rolls
      BY <1>8, <1>t DEF StockerAppel, TypeEnvoi, Envois, Rolls, LiensDes
    <2>2. appels' = Append(appels, r)
      BY <1>8 DEF StockerAppel
    <2> HIDE DEF r
    <2>3. appels' \in Seq(Rolls) /\ Len(appels') = Len(appels) + 1 /\ Len(appels) \in Nat /\ appels' # <<>>
      BY <1>t, <2>1, <2>2, AppendProperties, LenProperties, EmptySeq
    <2>4. Avis \subseteq Avis'
      BY <2>3 DEF Avis
    <2>5. TypePage' /\ TypeEnvoi'
      <3>1. CASE Terminer /\ UNCHANGED demandes
        BY <1>t, <3>1, TerminerTypee DEF TypePage
      <3>2. CASE envoi' = [envoi EXCEPT !.etape = "familles"] /\ UNCHANGED varsPage
        <4>1. TypePage'
          BY <1>t, <3>2 DEF TypePage, varsPage
        <4>2. envoi' \in Envois(Avis') /\ envoi'.etape = "familles"
          BY <1>t, <3>2, <2>4 DEF TypeEnvoi, Envois
        <4> QED
          BY <2>3, <4>1, <4>2 DEF TypeEnvoi, Envois
      <3> QED
        BY <1>8, <3>1, <3>2 DEF StockerAppel
    <2>6. TypeOKFamille' /\ avis' \subseteq Avis'
      BY <1>8, <1>t, <2>4 DEF StockerAppel, varsFamille, TypeOKFamille
    <2> QED
      BY <2>3, <2>5, <2>6, TypeDecoupeApres
  <1>9. ASSUME LireFamilles
        PROVE  TypeOKFort'
    <2>1. /\ UNCHANGED <<varsFamille, varsPage, appels, avis>> /\ appels # <<>>
          /\ envoi' = [envoi EXCEPT !.etape = "leve"] \/ envoi'.etape = "lot"
      BY <1>9, <1>t DEF LireFamilles, TypeEnvoi, Envois
    <2>2. CASE envoi' = [envoi EXCEPT !.etape = "leve"]
      <3>1. envoi' \in Envois(Avis) /\ envoi'.etape = "leve"
        BY <1>t, <2>2 DEF TypeEnvoi, Envois
      <3> QED
        BY <1>t, <2>1, <3>1, TypeDecoupeApres
        DEF varsFamille, varsPage, TypePage, TypeOKFamille, TypeEnvoi, Envois, Avis
    <2>3. CASE envoi'.etape = "lot"
      <3>1. envoi' \in Envois(Avis)
        BY <1>9, <1>t, <2>3, LotTypee DEF TypeEnvoi, Envois
      <3> QED
        BY <1>t, <2>1, <2>3, <3>1, TypeDecoupeApres
        DEF varsFamille, varsPage, TypePage, TypeOKFamille, TypeEnvoi, Envois, Avis
    <2> QED
      BY <2>1, <2>2, <2>3
  <1>10. ASSUME EcrireLot
        PROVE  TypeOKFort'
    <2>1. TypePage' /\ TypeEnvoi'
      BY <1>10, <1>t, TerminerTypee DEF EcrireLot, TypePage
    <2>2. avis' \subseteq Avis' /\ appels' = appels
      BY <1>10, <1>t DEF EcrireLot, Avis, TypeEnvoi, Envois
    <2> QED
      BY <1>10, <1>t, <2>1, <2>2, TypeDecoupeApres DEF EcrireLot, varsFamille, TypeOKFamille
  <1>11. ASSUME Echouer
        PROVE  TypeOKFort'
    <2>1. envoi' \in Envois(Avis) /\ envoi'.etape = "echec"
      BY <1>11, <1>t DEF Echouer, TypeEnvoi, Envois
    <2> QED
      BY <1>11, <1>t, <2>1, TypeDecoupeApres
      DEF Echouer, varsFamille, varsPage, TypePage, TypeOKFamille, TypeEnvoi, Envois, Avis
  <1>12. ASSUME Relancer
        PROVE  TypeOKFort'
    <2>1. TypePage' /\ TypeEnvoi'
      BY <1>12, AppelHypotheses, TerminerTypee DEF Relancer
    <2> QED
      BY <1>12, <1>t, <2>1, TypeDecoupeApres DEF Relancer, varsFamille, TypeOKFamille, Avis
  <1>13. ASSUME NextFamille, UNCHANGED <<varsPage, envoi, appels, avis>>
        PROVE  TypeOKFort'
    <2>1. TypeOKFamille'
      BY <1>13, <1>t, FamillePas
    <2> QED
      BY <1>13, <1>t, <2>1, TypeDecoupeApres DEF varsPage, TypePage, TypeEnvoi, Envois, Avis
  <1>14. CASE UNCHANGED vars
    BY <1>14, <1>t, TypeDecoupeApres
    DEF vars, varsFamille, varsPage, TypePage, TypeOKFamille, TypeEnvoi, Envois, Avis
  <1> QED
    BY <1>1, <1>2, <1>3, <1>4, <1>5, <1>6, <1>7, <1>8, <1>9, <1>10, <1>11, <1>12, <1>13, <1>14
    DEF Next

LEMMA TypeFort == Spec => []TypeOKFort
  BY TypeInit, TypePas, PTL DEF Spec

(***************************************************************************)
(* The page, the save, the rolls and the notifications keep their types: a *)
(* notification always names a stored roll, a class and a subject.         *)
(***************************************************************************)
THEOREM TypeCorrect == Spec => []TypeOK
  <1>1. TypeOKFort => TypeOK
    BY DEF TypeOKFort
  <1> QED
    BY <1>1, TypeFort, PTL

-----------------------------------------------------------------------------
(***************************************************************************)
(* Rolls of one class, and notifications to the families of the absent.    *)
(***************************************************************************)
LEMMA InvInit == Init => Inv
  BY TypeRepos DEF Init, Inv, AppelHomogene, AvisJustifie, PageJuste, EnvoiJuste, DusLies

\* Only the page changes.
LEMMA InvSiPage ==
  ASSUME Inv, PageJuste', UNCHANGED <<famille, envoi, appels, avis>>
  PROVE  Inv'
  BY DEF Inv, AppelHomogene, AvisJustifie, EnvoiJuste, DusLies, LiensDes

\* The save is over, has failed or stays where it was.
LEMMA InvSansEnvoi ==
  ASSUME Inv, PageJuste', UNCHANGED <<famille, appels, avis>>,
         envoi'.etape \in {"repos", "leve", "echec"}
  PROVE  Inv'
  BY DEF Inv, AppelHomogene, AvisJustifie, EnvoiJuste, DusLies, LiensDes

LEMMA PageApresTerminer == Terminer => PageJuste' /\ envoi'.etape = "repos"
  BY DEF Terminer, PageJuste, EnvoiNul

\* The pupils of a tap on the button are those of one class.
LEMMA InvValider ==
  ASSUME TypeOKFort, Inv, Valider
  PROVE  Inv'
  <1>1. /\ envoi' = [etape |-> "appel", choix |-> choix, presents |-> presents,
                     absents |-> eleves \ presents, lot |-> {}]
        /\ eleves # {} /\ UNCHANGED <<famille, presents, eleves, appels, avis>>
    BY DEF Valider, varsFamille, varsPage
  <1>2. Partage(envoi'.presents, envoi'.absents)
    <2>1. PICK c \in Classes : eleves = InscritsDe[c]
      BY <1>1 DEF Inv, PageJuste
    <2>2. presents \cup (eleves \ presents) = InscritsDe[c] /\ presents \cap (eleves \ presents) = {}
      BY <2>1 DEF Inv, PageJuste
    <2> QED
      BY <1>1, <2>2 DEF Partage
  <1>3. EnvoiJuste'
    BY <1>1, <1>2 DEF EnvoiJuste, Partage
  <1> QED
    BY <1>1, <1>3 DEF Inv, AppelHomogene, AvisJustifie, PageJuste, DusLies, LiensDes

\* What a roll adds to the collection.
LEMMA AppelStocke ==
  ASSUME TypeOKFort, StockerAppel
  PROVE  LET r == [choix |-> envoi.choix, presents |-> envoi.presents, absents |-> envoi.absents,
                   dus |-> LiensDes(envoi.absents)] IN
         /\ r \in Rolls /\ appels' = Append(appels, r)
         /\ Len(appels) \in Nat /\ appels \in Seq(Rolls) /\ appels' \in Seq(Rolls)
         /\ DOMAIN appels = 1..Len(appels) /\ DOMAIN appels' = 1..(Len(appels) + 1)
         /\ Len(appels') = Len(appels) + 1 /\ appels'[Len(appels) + 1] = r
         /\ \A n \in 1..Len(appels) : appels'[n] = appels[n]
         /\ \A n \in avis : n.appel \in 1..Len(appels) /\ n.lien \in Liens
         /\ UNCHANGED <<famille, avis>>
  <1> DEFINE r == [choix |-> envoi.choix, presents |-> envoi.presents, absents |-> envoi.absents,
                   dus |-> LiensDes(envoi.absents)]
  <1>1. appels' = Append(appels, r) /\ UNCHANGED <<famille, avis>>
    BY DEF StockerAppel, varsFamille
  <1>2. r \in Rolls /\ appels \in Seq(Rolls) /\ avis \subseteq Avis
    BY TypeDecoupe DEF StockerAppel, TypeEnvoi, Envois, Rolls, LiensDes
  <1> HIDE DEF r
  <1>3. /\ appels' \in Seq(Rolls) /\ Len(appels) \in Nat /\ Len(appels') = Len(appels) + 1
        /\ appels'[Len(appels) + 1] = r
        /\ \A n \in 1..Len(appels) : appels'[n] = appels[n]
    BY <1>1, <1>2, AppendProperties, LenProperties
  <1>4. DOMAIN appels = 1..Len(appels) /\ DOMAIN appels' = 1..(Len(appels) + 1)
    BY <1>2, <1>3, LenProperties
  <1>5. \A n \in avis : n.appel \in 1..Len(appels) /\ n.lien \in Liens
    BY <1>2 DEF Avis
  <1> QED
    BY <1>1, <1>2, <1>3, <1>4, <1>5 DEF r

LEMMA InvStockerAppel ==
  ASSUME TypeOKFort, Inv, StockerAppel
  PROVE  Inv'
  <1> DEFINE r == [choix |-> envoi.choix, presents |-> envoi.presents, absents |-> envoi.absents,
                   dus |-> LiensDes(envoi.absents)]
  <1>1. /\ r \in Rolls /\ Len(appels) \in Nat
        /\ DOMAIN appels = 1..Len(appels) /\ DOMAIN appels' = 1..(Len(appels) + 1)
        /\ Len(appels') = Len(appels) + 1 /\ appels'[Len(appels) + 1] = r
        /\ \A n \in 1..Len(appels) : appels'[n] = appels[n]
        /\ \A n \in avis : n.appel \in 1..Len(appels) /\ n.lien \in Liens
        /\ UNCHANGED <<famille, avis>>
    BY AppelStocke
  <1>2. r.presents = envoi.presents /\ r.absents = envoi.absents /\ r.dus = LiensDes(envoi.absents)
    OBVIOUS
  <1> HIDE DEF r
  <1>3. \A n \in DOMAIN appels' : n \in DOMAIN appels \/ n = Len(appels) + 1
    BY <1>1
  <1>4. AppelHomogene'
    <2>1. Partage(r.presents, r.absents)
      BY <1>2 DEF StockerAppel, Inv, EnvoiJuste
    <2> QED
      BY <1>1, <1>3, <2>1 DEF Inv, AppelHomogene, Partage
  <1>5. AvisJustifie'
    BY <1>1 DEF Inv, AvisJustifie
  <1>6. DusLies'
    BY <1>1, <1>2, <1>3 DEF Inv, DusLies, LiensDes
  <1>7. PageJuste'
    BY PageApresTerminer DEF StockerAppel, varsPage, Inv, PageJuste
  <1>8. EnvoiJuste'
    <2>1. CASE envoi' = [envoi EXCEPT !.etape = "familles"]
      <3>1. envoi'.etape = "familles" /\ envoi'.absents = r.absents
        BY <2>1, <1>2, TypeDecoupe DEF TypeEnvoi, Envois
      <3>2. \A n \in avis : n.appel # Len(appels) + 1
        BY <1>1
      <3> QED
        BY <1>1, <3>1, <3>2 DEF EnvoiJuste
    <2>2. CASE Terminer
      BY <2>2, PageApresTerminer DEF EnvoiJuste
    <2> QED
      BY <2>1, <2>2 DEF StockerAppel
  <1> QED
    BY <1>4, <1>5, <1>6, <1>7, <1>8 DEF Inv

LEMMA InvLireFamilles ==
  ASSUME TypeOKFort, Inv, LireFamilles
  PROVE  Inv'
  <1>1. /\ UNCHANGED <<famille, presents, eleves, appels, avis>> /\ envoi.etape = "familles"
        /\ envoi' = [envoi EXCEPT !.etape = "leve"] \/ envoi'.etape = "lot"
    BY TypeDecoupe DEF LireFamilles, varsFamille, varsPage, TypeEnvoi, Envois
  <1>2. PageJuste'
    BY <1>1 DEF Inv, PageJuste
  <1>3. CASE envoi' = [envoi EXCEPT !.etape = "leve"]
    <2>1. envoi'.etape = "leve"
      BY <1>3, TypeDecoupe DEF TypeEnvoi, Envois
    <2> QED
      BY <1>1, <1>2, <2>1, InvSansEnvoi
  <1>4. CASE envoi'.etape = "lot"
    <2>1. envoi' = [envoi EXCEPT !.etape = "lot", !.lot = Notifications(envoi.absents)]
      BY <1>4, LotTypee
    <2>2. envoi'.absents = envoi.absents /\ envoi'.lot = Notifications(envoi.absents)
      BY <2>1, TypeDecoupe DEF TypeEnvoi, Envois
    <2>3. ASSUME NEW n \in Notifications(envoi.absents)
          PROVE  n.appel = Len(appels) /\ n.lien[2] \in envoi.absents /\ famille[n.lien] > 0
      BY <2>3 DEF Notifications, LiensDes
    <2>4. ASSUME NEW l \in appels[Len(appels)].dus
          PROVE  \E n \in Notifications(envoi.absents) : n.lien = l
      <3>1. appels # <<>> /\ appels \in Seq(Rolls)
        BY <1>1, TypeDecoupe DEF TypeOKFort
      <3>2. Len(appels) \in DOMAIN appels
        BY <3>1, EmptySeq, LenProperties
      <3>3. l \in LiensDes(envoi.absents)
        BY <1>1, <2>4, <3>2 DEF Inv, DusLies, EnvoiJuste
      <3>4. famille[l] \in Nat /\ famille[l] > 0
        BY <3>3 DEF LiensDes, TypeOKFort, TypeOK, TypeOKFamille
      <3>5. 1 \in 1..famille[l]
        BY <3>4
      <3>6. [appel |-> Len(appels), lien |-> l, rang |-> 1, choix |-> choix] \in Notifications(envoi.absents)
        BY <3>3, <3>5 DEF Notifications
      <3> QED
        BY <3>6
    <2>5. EnvoiJuste'
      BY <1>1, <1>4, <2>2, <2>3, <2>4 DEF Inv, EnvoiJuste
    <2> QED
      BY <1>1, <1>2, <2>5 DEF Inv, AppelHomogene, AvisJustifie, DusLies, LiensDes
  <1> QED
    BY <1>1, <1>3, <1>4

LEMMA InvEcrireLot ==
  ASSUME TypeOKFort, Inv, EcrireLot
  PROVE  Inv'
  <1>1. /\ UNCHANGED <<famille, appels>> /\ avis' = avis \cup envoi.lot /\ envoi.etape = "lot" /\ Terminer
    BY DEF EcrireLot, varsFamille
  <1>2. AvisJustifie'
    BY <1>1 DEF Inv, AvisJustifie, EnvoiJuste
  <1>3. PageJuste' /\ EnvoiJuste'
    BY <1>1, PageApresTerminer DEF EnvoiJuste
  <1> QED
    BY <1>1, <1>2, <1>3 DEF Inv, AppelHomogene, DusLies, LiensDes

LEMMA InvFamille ==
  ASSUME TypeOKFort, Inv, NextFamille, UNCHANGED <<varsPage, envoi, appels, avis>>
  PROVE  Inv'
  <1>1. \A l \in Liens : famille[l] > 0 => famille'[l] > 0
    BY FamillePas DEF TypeOKFort, TypeOK
  <1>2. avis \subseteq Avis /\ envoi.lot \subseteq Avis
    BY TypeDecoupe DEF TypeEnvoi, Envois
  <1>3. \A n \in avis \cup envoi.lot : n.lien \in Liens
    BY <1>2 DEF Avis
  <1>4. AvisJustifie' /\ DusLies'
    BY <1>1, <1>3 DEF Inv, AvisJustifie, DusLies, LiensDes
  <1>5. EnvoiJuste'
    BY <1>1, <1>3 DEF Inv, EnvoiJuste
  <1> QED
    BY <1>4, <1>5 DEF Inv, AppelHomogene, PageJuste, varsPage

LEMMA InvPas == TypeOKFort /\ Inv /\ [Next]_vars => Inv'
  <1> SUFFICES ASSUME TypeOKFort, Inv, [Next]_vars
               PROVE  Inv'
    OBVIOUS
  <1>1. ASSUME NEW c \in Classes, ChoisirClasse(c) \/ RecevoirEleves(c)
        PROVE  Inv'
    <2>1. PageJuste'
      BY <1>1 DEF ChoisirClasse, RecevoirEleves, PageJuste
    <2> QED
      BY <1>1, <2>1, InvSiPage DEF ChoisirClasse, RecevoirEleves, varsFamille
  <1>2. ASSUME NEW m \in Matieres, ChoisirMatiere(m) \/ RecevoirMatiere(m)
        PROVE  Inv'
    <2>1. PageJuste'
      BY <1>2 DEF ChoisirMatiere, RecevoirMatiere, Inv, PageJuste
    <2> QED
      BY <1>2, <2>1, InvSiPage DEF ChoisirMatiere, RecevoirMatiere, varsFamille
  <1>3. ASSUME NEW e \in Eleves, Cocher(e)
        PROVE  Inv'
    <2>1. PageJuste'
      BY <1>3 DEF Cocher, Inv, PageJuste
    <2> QED
      BY <1>3, <2>1, InvSiPage DEF Cocher, varsFamille
  <1>4. ASSUME CocherTout
        PROVE  Inv'
    <2>1. PageJuste'
      BY <1>4 DEF CocherTout, Inv, PageJuste
    <2> QED
      BY <1>4, <2>1, InvSiPage DEF CocherTout, varsFamille
  <1>5. ASSUME Echouer
        PROVE  Inv'
    <2>1. envoi'.etape = "echec"
      BY <1>5, TypeDecoupe DEF Echouer, TypeEnvoi, Envois
    <2>2. PageJuste' /\ UNCHANGED <<famille, appels, avis>>
      BY <1>5 DEF Echouer, varsFamille, varsPage, Inv, PageJuste
    <2> QED
      BY <2>1, <2>2, InvSansEnvoi
  <1>6. ASSUME Relancer
        PROVE  Inv'
    BY <1>6, PageApresTerminer, InvSansEnvoi DEF Relancer, varsFamille
  <1>7. CASE UNCHANGED vars
    BY <1>7, InvSiPage DEF vars, varsFamille, varsPage, Inv, PageJuste
  <1> QED
    BY <1>1, <1>2, <1>3, <1>4, <1>5, <1>6, <1>7,
       InvValider, InvStockerAppel, InvLireFamilles, InvEcrireLot, InvFamille DEF Next

(***************************************************************************)
(* The inductive invariant: the page shows the pupils of one class, the    *)
(* save under way is about the last roll, of which nobody has been told,   *)
(* and its batch holds a notification for every family it owes one.        *)
(***************************************************************************)
THEOREM Inductif == Spec => []Inv
  BY InvInit, InvPas, TypeFort, PTL DEF Spec

(***************************************************************************)
(* A stored roll splits the pupils of one class into present and absent,   *)
(* in whatever order the loads of the page are answered.                   *)
(***************************************************************************)
THEOREM AppelHomogeneTenu == Spec => []AppelHomogene
  <1>1. Inv => AppelHomogene
    BY DEF Inv
  <1> QED
    BY <1>1, Inductif, PTL

(***************************************************************************)
(* Only a parent linked to a pupil who is absent in the roll is told of an *)
(* absence, whatever changes on the page while enregistrerAppel awaits.    *)
(***************************************************************************)
THEOREM AvisJustifieTenu == Spec => []AvisJustifie
  <1>1. Inv => AvisJustifie
    BY DEF Inv
  <1> QED
    BY <1>1, Inductif, PTL

-----------------------------------------------------------------------------
(***************************************************************************)
(* The roll call implements AvisAbsence.                                   *)
(***************************************************************************)
\* A function on 1..n + 1 that extends one on 1..n appends its last value.
LEMMA SuiteProlongee ==
  ASSUME NEW S, NEW n \in Nat, NEW f \in [1..n -> S], NEW g \in [1..(n + 1) -> S],
         \A i \in 1..n : g[i] = f[i]
  PROVE  g = Append(f, g[n + 1])
  <1>1. f \in Seq(S) /\ Len(f) = n /\ g \in Seq(S) /\ Len(g) = n + 1
    OBVIOUS
  <1>2. g[n + 1] \in S
    OBVIOUS
  <1>3. /\ Append(f, g[n + 1]) \in Seq(S) /\ Len(Append(f, g[n + 1])) = n + 1
        /\ \A i \in 1..n : Append(f, g[n + 1])[i] = f[i]
        /\ Append(f, g[n + 1])[n + 1] = g[n + 1]
    BY <1>1, <1>2, AppendProperties
  <1>4. \A i \in 1..(n + 1) : i \in 1..n \/ i = n + 1
    OBVIOUS
  <1>5. \A i \in 1..(n + 1) : g[i] = Append(f, g[n + 1])[i]
    BY <1>3, <1>4
  <1> QED
    BY <1>1, <1>3, <1>5, SeqEqual

\* The links told of the nth roll, in the terms of AvisAbsence.
LEMMA PrevenusTypes ==
  ASSUME TypeOKFort, NEW n
  PROVE  PrevenusDe(n) \in {Aucun} \cup SUBSET Liens
  BY DEF PrevenusDe, TypeOKFort, TypeOK, Avis

LEMMA AvisInit == Init => AvisAbstrait!InitAvis
  <1> SUFFICES ASSUME Init
               PROVE  AvisAbstrait!InitAvis
    OBVIOUS
  <1>1. {l \in Liens : famille[l] > 0} = {}
    BY DEF Init, InitFamille
  <1>2. appels = <<>> /\ DOMAIN appels = {}
    BY DEF Init
  <1>3. /\ [n \in DOMAIN appels |-> appels[n].absents] = <<>>
        /\ [n \in DOMAIN appels |-> appels[n].dus] = <<>>
        /\ [n \in DOMAIN appels |-> PrevenusDe(n)] = <<>>
    BY <1>2
  <1> QED
    BY <1>1, <1>3 DEF AvisAbstrait!InitAvis

\* A stored roll is an observed absence.
LEMMA StockerConstate ==
  ASSUME TypeOKFort, StockerAppel
  PROVE  AvisAbstrait!Constater
  <1> DEFINE N == Len(appels)
             r == [choix |-> envoi.choix, presents |-> envoi.presents, absents |-> envoi.absents,
                   dus |-> LiensDes(envoi.absents)]
             abs == [n \in DOMAIN appels |-> appels[n].absents]
             dus == [n \in DOMAIN appels |-> appels[n].dus]
             prev == [n \in DOMAIN appels |-> PrevenusDe(n)]
  <1>1. /\ r \in Rolls /\ N \in Nat /\ appels \in Seq(Rolls) /\ appels' \in Seq(Rolls)
        /\ DOMAIN appels = 1..N /\ DOMAIN appels' = 1..(N + 1)
        /\ appels'[N + 1] = r
        /\ \A n \in 1..N : appels'[n] = appels[n]
        /\ \A n \in avis : n.appel \in 1..N
        /\ UNCHANGED <<famille, avis>>
    BY AppelStocke
  <1>2. r.absents = envoi.absents /\ r.dus = LiensDes(envoi.absents) /\ r.absents \subseteq Eleves
    BY <1>1 DEF Rolls
  <1> HIDE DEF r
  <1>3. \A i \in 1..N : appels[i] \in Rolls
    BY <1>1, ElementOfSeq
  <1>4. \A i \in 1..(N + 1) : appels'[i] \in Rolls
    BY <1>1, <1>3
  <1>5. /\ abs \in [1..N -> SUBSET Eleves] /\ abs' \in [1..(N + 1) -> SUBSET Eleves]
        /\ \A i \in 1..N : abs'[i] = abs[i]
        /\ abs'[N + 1] = envoi.absents
    BY <1>1, <1>2, <1>3, <1>4 DEF Rolls
  <1>6. /\ dus \in [1..N -> SUBSET Liens] /\ dus' \in [1..(N + 1) -> SUBSET Liens]
        /\ \A i \in 1..N : dus'[i] = dus[i]
        /\ dus'[N + 1] = LiensDes(envoi.absents)
    BY <1>1, <1>2, <1>3, <1>4 DEF Rolls
  <1>7. \A n : PrevenusDe(n)' = PrevenusDe(n)
    BY <1>1 DEF PrevenusDe
  <1>8. PrevenusDe(N + 1) = Aucun
    <2>1. {b \in avis : b.appel = N + 1} = {}
      BY <1>1
    <2> QED
      BY <2>1 DEF PrevenusDe
  <1>9. /\ prev \in [1..N -> {Aucun} \cup SUBSET Liens]
        /\ prev' \in [1..(N + 1) -> {Aucun} \cup SUBSET Liens]
        /\ \A i \in 1..N : prev'[i] = prev[i]
        /\ prev'[N + 1] = Aucun
    BY <1>1, <1>7, <1>8, PrevenusTypes
  <1> HIDE DEF abs, dus, prev, N
  <1>10. abs' = Append(abs, envoi.absents)
    BY <1>1, <1>5, SuiteProlongee
  <1>11. dus' = Append(dus, LiensDes(envoi.absents))
    BY <1>1, <1>6, SuiteProlongee
  <1>12. prev' = Append(prev, Aucun)
    BY <1>1, <1>9, SuiteProlongee
  <1>13. LiensDes(envoi.absents) = AvisAbstrait!LiensDe(envoi.absents)
    BY DEF LiensDes, AvisAbstrait!LiensDe
  <1> QED
    BY <1>1, <1>2, <1>10, <1>11, <1>12, <1>13 DEF AvisAbstrait!Constater, abs, dus, prev

\* A batch tells the families of the last roll, or nobody.
LEMMA EcrirePrevient ==
  ASSUME TypeOKFort, Inv, EcrireLot, envoi.lot # {}
  PROVE  AvisAbstrait!Prevenir
  <1> DEFINE N == Len(appels)
             S == {n.lien : n \in envoi.lot}
             prev == [n \in DOMAIN appels |-> PrevenusDe(n)]
  <1>1. /\ UNCHANGED <<famille, appels>> /\ avis' = avis \cup envoi.lot /\ envoi.etape = "lot"
        /\ envoi.lot \subseteq Avis /\ appels \in Seq(Rolls) /\ appels # <<>>
    BY TypeDecoupe DEF EcrireLot, varsFamille, TypeEnvoi, Envois
  <1>2. N \in DOMAIN appels
    BY <1>1, EmptySeq, LenProperties
  <1>3. /\ \A n \in avis : n.appel # N
        /\ \A n \in envoi.lot : /\ n.appel = N /\ n.lien \in Liens
                                /\ n.lien[2] \in appels[N].absents /\ famille[n.lien] > 0
        /\ \A l \in appels[N].dus : \E n \in envoi.lot : n.lien = l
    BY <1>1 DEF Inv, EnvoiJuste, Avis
  <1>4. prev[N] = Aucun
    <2>1. {b \in avis : b.appel = N} = {}
      BY <1>3
    <2> QED
      BY <1>2, <2>1 DEF PrevenusDe
  <1>5. PrevenusDe(N)' = S
    <2>1. {b \in avis' : b.appel = N} = envoi.lot
      BY <1>1, <1>3
    <2>2. S # {}
      OBVIOUS
    <2> QED
      BY <1>1, <2>1, <2>2 DEF PrevenusDe
  <1>6. \A n \in DOMAIN appels : n # N => PrevenusDe(n)' = PrevenusDe(n)
    <2> SUFFICES ASSUME NEW n \in DOMAIN appels, n # N
                 PROVE  PrevenusDe(n)' = PrevenusDe(n)
      OBVIOUS
    <2>1. {b \in avis' : b.appel = n} = {b \in avis : b.appel = n}
      BY <1>1, <1>3
    <2> QED
      BY <2>1 DEF PrevenusDe
  <1>7. prev' = [prev EXCEPT ![N] = S]
    BY <1>1, <1>2, <1>5, <1>6
  <1>8. S \subseteq AvisAbstrait!LiensDe([n \in DOMAIN appels |-> appels[n].absents][N])
    BY <1>2, <1>3 DEF AvisAbstrait!LiensDe
  <1>9. [n \in DOMAIN appels |-> appels[n].dus][N] \subseteq S
    BY <1>2, <1>3
  <1> HIDE DEF S
  <1> QED
    BY <1>1, <1>2, <1>4, <1>7, <1>8, <1>9 DEF AvisAbstrait!Prevenir

\* An operator adds a link, or nothing that AvisAbsence sees.
LEMMA FamilleRelie ==
  ASSUME TypeOKFort, NextFamille, UNCHANGED <<varsPage, envoi, appels, avis>>
  PROVE  [AvisAbstrait!NextAvis]_(AvisAbstrait!variables)
  <1>p. UNCHANGED <<[n \in DOMAIN appels |-> appels[n].absents], [n \in DOMAIN appels |-> appels[n].dus],
                    [n \in DOMAIN appels |-> PrevenusDe(n)]>>
    BY DEF PrevenusDe
  <1>1. CASE UNCHANGED famille
    BY <1>1, <1>p DEF AvisAbstrait!variables
  <1>2. ASSUME NEW a \in Agents, Ajouter(a)
        PROVE  AvisAbstrait!Relier
    <2> DEFINE l == liaison[a].lien
    <2>1. l \in Liens /\ famille \in [Liens -> Nat] /\ famille' = [famille EXCEPT ![l] = famille[l] + 1]
      BY <1>2 DEF Ajouter, EnRepos, TypeOKFort, TypeOK, TypeOKFamille
    <2> HIDE DEF l
    <2>2. {k \in Liens : famille'[k] > 0} = {k \in Liens : famille[k] > 0} \cup {l}
      BY <2>1
    <2> QED
      BY <1>p, <2>1, <2>2 DEF AvisAbstrait!Relier, Liens
  <1> QED
    BY <1>1, <1>2 DEF NextFamille, Lier, Chercher, Abandonner, AvisAbstrait!NextAvis

LEMMA AvisPas == TypeOKFort /\ Inv /\ [Next]_vars => [AvisAbstrait!NextAvis]_(AvisAbstrait!variables)
  <1> SUFFICES ASSUME TypeOKFort, Inv, [Next]_vars
               PROVE  [AvisAbstrait!NextAvis]_(AvisAbstrait!variables)
    OBVIOUS
  <1>1. CASE UNCHANGED <<famille, appels, avis>>
    BY <1>1 DEF AvisAbstrait!variables, PrevenusDe
  <1>2. CASE StockerAppel
    BY <1>2, StockerConstate DEF AvisAbstrait!NextAvis
  <1>3. CASE EcrireLot
    <2>1. CASE envoi.lot = {}
      BY <1>1, <1>3, <2>1 DEF EcrireLot, varsFamille
    <2>2. CASE envoi.lot # {}
      BY <1>3, <2>2, EcrirePrevient DEF AvisAbstrait!NextAvis
    <2> QED
      BY <2>1, <2>2
  <1>4. CASE NextFamille /\ UNCHANGED <<varsPage, envoi, appels, avis>>
    BY <1>4, FamilleRelie
  <1>5. ASSUME \/ \E c \in Classes : ChoisirClasse(c) \/ RecevoirEleves(c)
               \/ \E m \in Matieres : ChoisirMatiere(m) \/ RecevoirMatiere(m)
               \/ \E e \in Eleves : Cocher(e)
               \/ CocherTout \/ Valider \/ LireFamilles \/ Echouer \/ Relancer
               \/ UNCHANGED vars
        PROVE  UNCHANGED <<famille, appels, avis>>
    BY <1>5 DEF ChoisirClasse, RecevoirEleves, ChoisirMatiere, RecevoirMatiere, Cocher, CocherTout,
                Valider, LireFamilles, Echouer, Relancer, vars, varsFamille
  <1> QED
    BY <1>1, <1>2, <1>3, <1>4, <1>5 DEF Next

(***************************************************************************)
(* The roll call implements AvisAbsence: a save tells all the families it  *)
(* owes a notification by one step, or none of them, and once only.        *)
(***************************************************************************)
THEOREM AvisEnUnPasTenu == Spec => AvisEnUnPas
  BY AvisInit, AvisPas, TypeFort, Inductif, PTL DEF Spec, AvisEnUnPas, AvisAbstrait!SpecAvis

-----------------------------------------------------------------------------
(***************************************************************************)
(* What the teachers do leaves the links to the operators: the roll call   *)
(* implements Famille too.                                                 *)
(***************************************************************************)
THEOREM FamilleSuivie == Spec => SpecFamille
  <1>1. Init => InitFamille
    BY DEF Init
  <1>2. [Next]_vars => [NextFamille]_varsFamille
    BY DEF Next, vars, varsFamille, ChoisirClasse, RecevoirEleves, ChoisirMatiere, RecevoirMatiere,
           Cocher, CocherTout, Valider, StockerAppel, LireFamilles, EcrireLot, Echouer, Relancer
  <1> QED
    BY <1>1, <1>2, PTL DEF Spec, SpecFamille
=============================================================================
