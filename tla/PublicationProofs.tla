-------------------------- MODULE PublicationProofs --------------------------
(***************************************************************************)
(* Proofs about Famille and about Publication, for any parents, pupils,    *)
(* size of a lot and finite number of chains of calls that link them.      *)
(***************************************************************************)
EXTENDS Publication, SequenceTheorems, FiniteSetTheorems, TLAPS

-----------------------------------------------------------------------------
(***************************************************************************)
(* The links and the chains of ajouterRelation.                            *)
(***************************************************************************)
LEMMA TypeFamilleInit == InitFamille => TypeOKFamille
  BY DEF InitFamille, TypeOKFamille

LEMMA TypeFamillePas == TypeOKFamille /\ [NextFamille]_varsFamille => TypeOKFamille'
  <1> SUFFICES ASSUME TypeOKFamille, [NextFamille]_varsFamille
               PROVE  TypeOKFamille'
    OBVIOUS
  <1> USE DEF TypeOKFamille
  <1>1. ASSUME NEW a \in Agents, NEW l \in Liens, Lier(a, l)
        PROVE  TypeOKFamille'
    BY <1>1 DEF Lier
  <1>2. ASSUME NEW a \in Agents, Chercher(a)
        PROVE  TypeOKFamille'
    <2>1. liaison[a] \in [etape : {"recherche", "ajout"}, lien : Liens]
      BY <1>2 DEF Chercher, EnRepos
    <2> QED
      BY <1>2, <2>1 DEF Chercher
  <1>3. ASSUME NEW a \in Agents, Ajouter(a)
        PROVE  TypeOKFamille'
    <2>1. liaison[a].lien \in Liens
      BY <1>3 DEF Ajouter, EnRepos
    <2> QED
      BY <1>3, <2>1 DEF Ajouter
  <1>4. ASSUME NEW a \in Agents, Abandonner(a)
        PROVE  TypeOKFamille'
    BY <1>4 DEF Abandonner
  <1>5. CASE UNCHANGED varsFamille
    BY <1>5 DEF varsFamille
  <1> QED
    BY <1>1, <1>2, <1>3, <1>4, <1>5 DEF NextFamille

\* The chains about to add a link are a finite set, no larger than Agents.
LEMMA AjoutentFini ==
  ASSUME NEW l \in Liens
  PROVE  /\ IsFiniteSet(Ajoutent(l))
         /\ Cardinality(Ajoutent(l)) \in Nat
         /\ Cardinality(Agents) \in Nat
         /\ Cardinality(Ajoutent(l)) <= Cardinality(Agents)
  <1>1. IsFiniteSet(Agents) /\ Ajoutent(l) \subseteq Agents
    BY FamilleHypotheses DEF Ajoutent
  <1>2. IsFiniteSet(Ajoutent(l)) /\ Cardinality(Ajoutent(l)) <= Cardinality(Agents)
    BY <1>1, FS_Subset
  <1> QED
    BY <1>1, <1>2, FS_CardinalityType

\* The same of the next state.
LEMMA AjoutentFiniApres ==
  ASSUME NEW l \in Liens
  PROVE  /\ IsFiniteSet(Ajoutent(l)')
         /\ Cardinality(Ajoutent(l)') \in Nat
         /\ Cardinality(Ajoutent(l)') <= Cardinality(Agents)
  <1>1. IsFiniteSet(Agents) /\ Ajoutent(l)' \subseteq Agents
    BY FamilleHypotheses DEF Ajoutent
  <1>2. IsFiniteSet(Ajoutent(l)') /\ Cardinality(Ajoutent(l)') <= Cardinality(Agents)
    BY <1>1, FS_Subset
  <1> QED
    BY <1>2, FS_CardinalityType

\* Fewer chains about to add a link that is stored as often as before.
LEMMA BorneSiMoins ==
  ASSUME TypeOKFamille, LiensBornes, famille' = famille,
         NEW l \in Liens, Ajoutent(l)' \subseteq Ajoutent(l)
  PROVE  famille'[l] + Cardinality(Ajoutent(l)') <= Cardinality(Agents)
  <1>1. Cardinality(Ajoutent(l)') <= Cardinality(Ajoutent(l))
    BY AjoutentFini, FS_Subset
  <1>2. famille[l] \in Nat
    BY DEF TypeOKFamille
  <1>3. famille[l] + Cardinality(Ajoutent(l)) <= Cardinality(Agents)
    BY DEF LiensBornes
  <1> QED
    BY <1>1, <1>2, <1>3, AjoutentFini, AjoutentFiniApres

\* A step of ajouterRelation keeps the bound: a chain joins those that add
\* only while nothing is stored, and leaves them when it has added.
LEMMA PasBorne ==
  ASSUME TypeOKFamille, LiensBornes, [NextFamille]_varsFamille, NEW l \in Liens
  PROVE  famille'[l] + Cardinality(Ajoutent(l)') <= Cardinality(Agents)
  <1>t. famille[l] \in Nat /\ famille[l] + Cardinality(Ajoutent(l)) <= Cardinality(Agents)
    BY DEF TypeOKFamille, LiensBornes
  <1>1. ASSUME NEW a \in Agents, NEW k \in Liens, Lier(a, k)
        PROVE  famille' = famille /\ Ajoutent(l)' \subseteq Ajoutent(l)
    BY <1>1 DEF Lier, Ajoutent, TypeOKFamille
  <1>2. ASSUME NEW a \in Agents, Chercher(a)
        PROVE  famille'[l] + Cardinality(Ajoutent(l)') <= Cardinality(Agents)
    <2>1. CASE famille[liaison[a].lien] > 0 \/ liaison[a].lien # l
      <3>1. famille' = famille /\ Ajoutent(l)' \subseteq Ajoutent(l)
        BY <1>2, <2>1 DEF Chercher, Ajoutent, TypeOKFamille, EnRepos
      <3> QED
        BY <3>1, BorneSiMoins
    <2>2. CASE ~(famille[liaison[a].lien] > 0) /\ liaison[a].lien = l
      <3>1. famille'[l] = 0
        BY <1>2, <2>2, <1>t DEF Chercher
      <3> QED
        BY <3>1, AjoutentFiniApres
    <2> QED
      BY <2>1, <2>2
  <1>3. ASSUME NEW a \in Agents, Ajouter(a)
        PROVE  famille'[l] + Cardinality(Ajoutent(l)') <= Cardinality(Agents)
    <2>1. CASE liaison[a].lien = l
      <3>1. a \in Ajoutent(l) /\ Ajoutent(l)' = Ajoutent(l) \ {a}
        BY <1>3, <2>1 DEF Ajouter, Ajoutent, TypeOKFamille, EnRepos
      <3>2. Cardinality(Ajoutent(l)') = Cardinality(Ajoutent(l)) - 1
        BY <3>1, AjoutentFini, FS_RemoveElement
      <3>3. famille'[l] = famille[l] + 1
        BY <1>3, <2>1 DEF Ajouter, TypeOKFamille
      <3> QED
        BY <3>2, <3>3, <1>t, AjoutentFini
    <2>2. CASE liaison[a].lien # l
      <3>1. Ajoutent(l)' = Ajoutent(l)
        BY <1>3, <2>2 DEF Ajouter, Ajoutent, TypeOKFamille, EnRepos
      <3>2. famille'[l] = famille[l]
        BY <1>3, <2>2 DEF Ajouter, TypeOKFamille
      <3> QED
        BY <3>1, <3>2, <1>t
    <2> QED
      BY <2>1, <2>2
  <1>4. ASSUME NEW a \in Agents, Abandonner(a)
        PROVE  famille' = famille /\ Ajoutent(l)' \subseteq Ajoutent(l)
    BY <1>4 DEF Abandonner, Ajoutent, TypeOKFamille, EnRepos
  <1>5. CASE UNCHANGED varsFamille
    <2>1. famille' = famille /\ Ajoutent(l)' \subseteq Ajoutent(l)
      BY <1>5 DEF varsFamille, Ajoutent
    <2> QED
      BY <2>1, BorneSiMoins
  <1>6. CASE NextFamille
    BY <1>6, <1>1, <1>2, <1>3, <1>4, BorneSiMoins DEF NextFamille
  <1> QED
    BY <1>5, <1>6

LEMMA BorneInit == InitFamille => LiensBornes
  <1> SUFFICES ASSUME InitFamille, NEW l \in Liens
               PROVE  famille[l] + Cardinality(Ajoutent(l)) <= Cardinality(Agents)
    BY DEF LiensBornes
  <1>1. famille[l] = 0
    BY DEF InitFamille
  <1> QED
    BY <1>1, AjoutentFini

(***************************************************************************)
(* The collection and the chains of ajouterRelation keep their types.      *)
(***************************************************************************)
THEOREM TypeFamille == SpecFamille => []TypeOKFamille
  BY TypeFamilleInit, TypeFamillePas, PTL DEF SpecFamille

(***************************************************************************)
(* A link between a parent and a pupil is stored at most as often as there *)
(* are calls of ajouterRelation at the same time.                          *)
(***************************************************************************)
THEOREM LiensBornesFamille == SpecFamille => []LiensBornes
  <1>1. TypeOKFamille /\ LiensBornes /\ [NextFamille]_varsFamille => LiensBornes'
    BY PasBorne DEF LiensBornes
  <1> QED
    BY <1>1, BorneInit, TypeFamille, PTL DEF SpecFamille

(***************************************************************************)
(* What the teachers do leaves the links to the operators: the publication *)
(* implements Famille.                                                     *)
(***************************************************************************)
THEOREM FamilleSuivie == Spec => SpecFamille
  <1>1. Init => InitFamille
    BY DEF Init
  <1>2. [Next]_vars => [NextFamille]_varsFamille
    BY DEF Next, vars, varsFamille, Inscrire, Soumettre, Televerser, LireClasse, LireClasseEnVain,
           LireLot, LireLotEnVain, AjouterDevoir, Echouer
  <1> QED
    BY <1>1, <1>2, PTL DEF Spec, SpecFamille

(***************************************************************************)
(* The bound on the links, while homework is published from them.          *)
(***************************************************************************)
THEOREM LiensBornesTenus == Spec => []LiensBornes
  BY FamilleSuivie, LiensBornesFamille, PTL

-----------------------------------------------------------------------------
(***************************************************************************)
(* Type correctness of the publication.                                    *)
(***************************************************************************)
\* What was read of the list and of the links, once _submit asks for lots.
Envois == [etape : {"repos", "fichier", "classe", "lots", "ajout"}, eleves : Seq(Eleves),
           i : Nat, parents : SUBSET Parents, dus : SUBSET Parents, muet : BOOLEAN]

Contenus == [eleveIds : SUBSET Eleves, parentIds : SUBSET Parents,
             dus : SUBSET Parents, muet : BOOLEAN]

\* Before the list is read, the local variables are as they were created.
TypeOKFort ==
    /\ TypeOK
    /\ envoi.etape \in {"repos", "fichier", "classe"} => envoi = [EnvoiNul EXCEPT !.etape = envoi.etape]

\* Whoever is owed the homework has been read, or has a child in a lot that
\* has not been read; whoever has been read has a child in the list.
Restant == {envoi.eleves[j] : j \in {k \in DOMAIN envoi.eleves : k > envoi.i}}

EnvoiJuste ==
    /\ envoi.etape = "lots" => envoi.dus \subseteq envoi.parents \cup ParentsDe(Restant)
    /\ envoi.etape = "ajout" /\ ~envoi.muet => envoi.dus \subseteq envoi.parents
    /\ envoi.parents \subseteq ParentsDe(Dans(envoi.eleves))

Inv == ParentsDuDevoir /\ EnvoiJuste

LEMMA TypeInit == Init => TypeOKFort
  <1> SUFFICES ASSUME Init
               PROVE  TypeOKFort
    OBVIOUS
  <1>1. TypeOKFamille
    BY TypeFamilleInit DEF Init
  <1>2. elevesIds \in Seq(Eleves) /\ EnvoiNul \in Envois /\ devoirs \in Seq(Contenus)
    BY EmptySeq DEF Init, EnvoiNul, Envois
  <1> QED
    BY <1>1, <1>2 DEF Init, TypeOKFort, TypeOK, Envois, Contenus, EnvoiNul

\* Steps of _submit that leave the class and the homework.
LEMMA EnvoiTypee ==
  ASSUME TypeOKFort, UNCHANGED <<varsFamille, elevesIds, devoirs>>, envoi' \in Envois,
         envoi'.etape = "lots" => envoi'.i < Len(envoi'.eleves),
         envoi'.etape \in {"repos", "fichier", "classe"} => envoi' = [EnvoiNul EXCEPT !.etape = envoi'.etape]
  PROVE  TypeOKFort'
  BY DEF TypeOKFort, TypeOK, TypeOKFamille, varsFamille, Envois

\* The parents of any pupils are parents.
LEMMA ParentsTypes == \A S : ParentsDe(S) \subseteq Parents
  BY DEF ParentsDe, Liens

LEMMA NulTypee == EnvoiNul \in Envois /\ EnvoiNul.etape = "repos"
  BY EmptySeq DEF EnvoiNul, Envois

LEMMA TypePas == TypeOKFort /\ [Next]_vars => TypeOKFort'
  <1> SUFFICES ASSUME TypeOKFort, [Next]_vars
               PROVE  TypeOKFort'
    OBVIOUS
  <1>t. envoi \in Envois /\ elevesIds \in Seq(Eleves) /\ devoirs \in Seq(Contenus)
    BY DEF TypeOKFort, TypeOK, Envois, Contenus
  <1>p. TailleLot \in Nat \ {0}
    BY PublicationHypotheses
  <1>1. ASSUME NEW e \in Eleves, Inscrire(e)
        PROVE  TypeOKFort'
    <2>1. elevesIds' \in Seq(Eleves)
      BY <1>1, <1>t, AppendProperties DEF Inscrire
    <2> QED
      BY <1>1, <2>1 DEF Inscrire, TypeOKFort, TypeOK, TypeOKFamille, varsFamille
  <1>2. ASSUME NextFamille, UNCHANGED varsPublication
        PROVE  TypeOKFort'
    <2>1. TypeOKFamille'
      BY <1>2, TypeFamillePas DEF TypeOKFort, TypeOK
    <2> QED
      BY <1>2, <2>1 DEF varsPublication, TypeOKFort, TypeOK
  <1>3. ASSUME Soumettre
        PROVE  TypeOKFort'
    BY <1>3, NulTypee, EnvoiTypee DEF Soumettre, EnvoiNul, Envois
  <1>4. ASSUME Televerser
        PROVE  TypeOKFort'
    <2>1. envoi = [EnvoiNul EXCEPT !.etape = "fichier"] /\ envoi' = [envoi EXCEPT !.etape = "classe"]
      BY <1>4 DEF Televerser, TypeOKFort
    <2>2. envoi' \in Envois /\ envoi' = [EnvoiNul EXCEPT !.etape = "classe"]
      BY <2>1, NulTypee DEF EnvoiNul, Envois
    <2> QED
      BY <1>4, <2>2, EnvoiTypee DEF Televerser, EnvoiNul
  <1>5. ASSUME LireClasse
        PROVE  TypeOKFort'
    <2>1. /\ envoi' = [envoi EXCEPT !.etape = IF elevesIds = <<>> THEN "ajout" ELSE "lots",
                                    !.eleves = elevesIds, !.dus = ParentsDe(Dans(elevesIds))]
          /\ envoi.i = 0
      BY <1>5 DEF LireClasse, TypeOKFort, EnvoiNul
    <2>2. envoi' \in Envois
      BY <1>t, <2>1, ParentsTypes DEF Envois
    <2>3. elevesIds # <<>> => Len(elevesIds) > 0
      BY <1>t, EmptySeq
    <2>4. envoi'.etape \in {"lots", "ajout"} /\ (envoi'.etape = "lots" => envoi'.i < Len(envoi'.eleves))
      BY <1>t, <2>1, <2>3 DEF Envois
    <2> QED
      BY <1>5, <2>2, <2>4, EnvoiTypee DEF LireClasse
  <1>6. ASSUME LireClasseEnVain
        PROVE  TypeOKFort'
    <2>1. envoi' \in Envois /\ envoi'.etape = "ajout"
      BY <1>6, <1>t, ParentsTypes DEF LireClasseEnVain, Envois
    <2> QED
      BY <1>6, <2>1, EnvoiTypee DEF LireClasseEnVain
  <1>7. ASSUME LireLot
        PROVE  TypeOKFort'
    <2> DEFINE suite == envoi.i + TailleLot
               luDuLot == ParentsDe(Dans(Lot(envoi.i)))
    <2>1. envoi' = [envoi EXCEPT !.parents = envoi.parents \cup luDuLot, !.i = suite,
                                 !.etape = IF suite < Len(envoi.eleves) THEN "lots" ELSE "ajout"]
      BY <1>7 DEF LireLot
    <2>2. luDuLot \subseteq Parents /\ suite \in Nat
      BY <1>t, <1>p, ParentsTypes DEF Envois
    <2> HIDE DEF luDuLot, suite
    <2>3. /\ envoi' \in Envois /\ envoi'.etape \in {"lots", "ajout"}
          /\ envoi'.etape = "lots" => envoi'.i < Len(envoi'.eleves)
      BY <1>t, <2>1, <2>2 DEF Envois
    <2> QED
      BY <1>7, <2>3, EnvoiTypee DEF LireLot
  <1>8. ASSUME LireLotEnVain
        PROVE  TypeOKFort'
    <2>1. envoi' \in Envois /\ envoi'.etape = "ajout"
      BY <1>8, <1>t DEF LireLotEnVain, Envois
    <2> QED
      BY <1>8, <2>1, EnvoiTypee DEF LireLotEnVain
  <1>9. ASSUME AjouterDevoir
        PROVE  TypeOKFort'
    <2> DEFINE c == [eleveIds |-> Dans(envoi.eleves), parentIds |-> envoi.parents,
                     dus |-> envoi.dus, muet |-> envoi.muet]
    <2>1. Dans(envoi.eleves) \subseteq Eleves
      BY <1>t, ElementOfSeq, LenProperties DEF Dans, Envois
    <2>2. c \in Contenus
      BY <1>t, <2>1 DEF Contenus, Envois
    <2>3. devoirs' = Append(devoirs, c) /\ envoi' = EnvoiNul
      BY <1>9 DEF AjouterDevoir
    <2> HIDE DEF c
    <2>4. devoirs' \in Seq(Contenus)
      BY <1>t, <2>2, <2>3, AppendProperties
    <2>5. envoi' \in Envois /\ envoi'.etape = "repos" /\ envoi' = [EnvoiNul EXCEPT !.etape = envoi'.etape]
      BY <2>3, NulTypee DEF EnvoiNul
    <2> QED
      BY <1>9, <2>4, <2>5
      DEF AjouterDevoir, TypeOKFort, TypeOK, TypeOKFamille, varsFamille, Envois, Contenus
  <1>10. ASSUME Echouer
        PROVE  TypeOKFort'
    <2>1. envoi' \in Envois /\ envoi'.etape = "repos" /\ envoi' = [EnvoiNul EXCEPT !.etape = envoi'.etape]
      BY <1>10, NulTypee DEF Echouer, EnvoiNul
    <2> QED
      BY <1>10, <2>1, EnvoiTypee DEF Echouer
  <1>11. CASE UNCHANGED vars
    BY <1>11 DEF vars, varsFamille, varsPublication, TypeOKFort, TypeOK, TypeOKFamille
  <1> QED
    BY <1>1, <1>2, <1>3, <1>4, <1>5, <1>6, <1>7, <1>8, <1>9, <1>10, <1>11 DEF Next

LEMMA TypeFort == Spec => []TypeOKFort
  BY TypeInit, TypePas, PTL DEF Spec

(***************************************************************************)
(* The list, the variables of _submit and the homework keep their types,   *)
(* and no lot begins past the end of the list (sublist would throw).       *)
(***************************************************************************)
THEOREM TypeCorrect == Spec => []TypeOK
  <1>1. TypeOKFort => TypeOK
    BY DEF TypeOKFort
  <1> QED
    BY <1>1, TypeFort, PTL

-----------------------------------------------------------------------------
(***************************************************************************)
(* A homework is for the parents of its pupils.                            *)
(***************************************************************************)
\* A parent of S is one of a larger set of pupils, and of two sets together.
LEMMA ParentsCroit ==
  ASSUME NEW S, NEW T, S \subseteq T
  PROVE  ParentsDe(S) \subseteq ParentsDe(T)
  BY DEF ParentsDe

LEMMA ParentsUnion ==
  ASSUME NEW S, NEW T
  PROVE  ParentsDe(S \cup T) = ParentsDe(S) \cup ParentsDe(T)
  BY DEF ParentsDe

\* No link is taken away.
LEMMA LiensGardes ==
  ASSUME TypeOKFamille, [NextFamille]_varsFamille
  PROVE  \A S : ParentsDe(S) \subseteq ParentsDe(S)'
  <1>1. \A l \in Liens : famille[l] > 0 => famille'[l] > 0
    <2>1. ASSUME NEW a \in Agents, Ajouter(a), NEW l \in Liens, famille[l] > 0
          PROVE  famille'[l] > 0
      <3>1. liaison[a].lien \in Liens /\ famille \in [Liens -> Nat]
        BY <2>1 DEF Ajouter, EnRepos, TypeOKFamille
      <3>2. famille' = [famille EXCEPT ![liaison[a].lien] = famille[liaison[a].lien] + 1]
        BY <2>1 DEF Ajouter
      <3> QED
        BY <2>1, <3>1, <3>2
    <2> QED
      BY <2>1 DEF NextFamille, varsFamille, Lier, Chercher, Abandonner
  <1> QED
    BY <1>1 DEF ParentsDe

\* A lot holds the next TailleLot pupils of the list, or the last ones.
LEMMA LotPris ==
  ASSUME TypeOKFort, envoi.etape = "lots"
  PROVE  Dans(Lot(envoi.i)) =
            {envoi.eleves[j] : j \in {k \in DOMAIN envoi.eleves :
                                        k > envoi.i /\ k <= envoi.i + TailleLot}}
  <1> DEFINE s == envoi.eleves
             i == envoi.i
             n == IF i + TailleLot > Len(s) THEN Len(s) ELSE i + TailleLot
  <1>1. s \in Seq(Eleves) /\ i \in Nat /\ i < Len(s) /\ TailleLot \in Nat \ {0}
    BY PublicationHypotheses DEF TypeOKFort, TypeOK
  <1>2. DOMAIN s = 1..Len(s) /\ Len(s) \in Nat
    BY <1>1, LenProperties
  <1> HIDE DEF s, i
  <1>3. n \in Nat /\ n >= i + 1 /\ n <= Len(s)
    BY <1>1, <1>2
  <1>4. {k \in DOMAIN s : k > i /\ k <= i + TailleLot} = (i + 1)..n
    BY <1>1, <1>2
  <1>5. \A k \in (i + 1)..n : s[k] \in Eleves
    <2>1. \A k \in (i + 1)..n : k \in 1..Len(s)
      BY <1>1, <1>2, <1>3
    <2> QED
      BY <1>1, <2>1, ElementOfSeq
  <1>6. i + 1 \in Int /\ n \in Int
    BY <1>1, <1>3
  <1> DEFINE t == SubSeq(s, i + 1, n)
  <1> HIDE DEF n
  <1>7. /\ t \in Seq(Eleves) /\ Len(t) = n - i
        /\ \A k \in 1..(n - i) : t[k] = s[k + i]
    <2>1. /\ t \in Seq(Eleves) /\ Len(t) = IF i + 1 <= n THEN n - (i + 1) + 1 ELSE 0
          /\ \A k \in 1..(n - (i + 1) + 1) : t[k] = s[(i + 1) + k - 1]
      BY <1>5, <1>6, SubSeqProperties
    <2>2. n - (i + 1) + 1 = n - i /\ \A k \in 1..(n - i) : (i + 1) + k - 1 = k + i
      BY <1>1, <1>3
    <2> QED
      BY <1>3, <2>1, <2>2
  <1> HIDE DEF t
  <1>8. DOMAIN t = 1..(n - i)
    BY <1>7, LenProperties
  <1>9. {t[k] : k \in 1..(n - i)} = {s[j] : j \in (i + 1)..n}
    <2>1. \A k \in 1..(n - i) : k + i \in (i + 1)..n
      BY <1>1, <1>3
    <2>2. \A j \in (i + 1)..n : j - i \in 1..(n - i) /\ s[(j - i) + i] = s[j]
      BY <1>1, <1>3
    <2>3. ASSUME NEW j \in (i + 1)..n
          PROVE  t[j - i] = s[j]
      BY <2>2, <1>7
    <2> QED
      BY <1>7, <2>1, <2>2, <2>3
  <1>10. Lot(envoi.i) = t
    BY DEF Lot, t, n, s, i
  <1> QED
    BY <1>4, <1>8, <1>9, <1>10 DEF Dans, s, i

LEMMA InvInit == Init => Inv
  BY DEF Init, Inv, ParentsDuDevoir, EnvoiJuste, EnvoiNul

\* The last lot leaves nobody to be read; another one leaves who comes next.
LEMMA InvLireLot ==
  ASSUME TypeOKFort, Inv, LireLot
  PROVE  EnvoiJuste'
  <1> DEFINE suite == envoi.i + TailleLot
             lot == Dans(Lot(envoi.i))
             reste == {envoi.eleves[j] : j \in {k \in DOMAIN envoi.eleves : k > suite}}
  <1>t. /\ envoi \in Envois /\ envoi.etape = "lots" /\ TailleLot \in Nat \ {0}
        /\ envoi.eleves \in Seq(Eleves) /\ envoi.i \in Nat
        /\ DOMAIN envoi.eleves = 1..Len(envoi.eleves) /\ Len(envoi.eleves) \in Nat
    BY PublicationHypotheses, LenProperties DEF LireLot, TypeOKFort, TypeOK, Envois
  <1>1. /\ envoi' = [envoi EXCEPT !.parents = envoi.parents \cup ParentsDe(lot), !.i = suite,
                                  !.etape = IF suite < Len(envoi.eleves) THEN "lots" ELSE "ajout"]
        /\ UNCHANGED famille
    BY DEF LireLot, varsFamille
  <1>2. lot = {envoi.eleves[j] : j \in {k \in DOMAIN envoi.eleves : k > envoi.i /\ k <= suite}}
    BY <1>t, LotPris
  <1>3. Restant = lot \cup reste /\ lot \subseteq Dans(envoi.eleves)
    <2>1. {k \in DOMAIN envoi.eleves : k > envoi.i} =
            {k \in DOMAIN envoi.eleves : k > envoi.i /\ k <= suite}
              \cup {k \in DOMAIN envoi.eleves : k > suite}
      BY <1>t
    <2> HIDE DEF suite
    <2> QED
      BY <1>2, <2>1 DEF Restant, Dans
  <1>4. suite \in Nat
    BY <1>t
  <1> HIDE DEF suite, lot
  <1>5. /\ envoi'.eleves = envoi.eleves /\ envoi'.i = suite /\ envoi'.dus = envoi.dus
        /\ envoi'.parents = envoi.parents \cup ParentsDe(lot)
        /\ envoi'.etape = IF suite < Len(envoi.eleves) THEN "lots" ELSE "ajout"
    BY <1>t, <1>1 DEF Envois
  <1>6. envoi.dus \subseteq envoi'.parents \cup ParentsDe(reste)
    <2>1. ParentsDe(lot \cup reste) = ParentsDe(lot) \cup ParentsDe(reste)
      BY ParentsUnion
    <2> QED
      BY <1>t, <1>3, <1>5, <2>1 DEF Inv, EnvoiJuste
  <1>7. ParentsDe(lot) \subseteq ParentsDe(Dans(envoi.eleves))
    BY <1>3, ParentsCroit
  <1>8. ParentsDe(Restant)' = ParentsDe(reste)
    <2>1. Restant' = reste
      BY <1>5 DEF Restant
    <2> QED
      BY <1>1, <2>1 DEF ParentsDe
  <1>9. ParentsDe(Dans(envoi.eleves))' = ParentsDe(Dans(envoi.eleves))
    BY <1>1, <1>5 DEF ParentsDe, Dans
  <1>10. envoi'.parents \subseteq ParentsDe(Dans(envoi.eleves))'
    BY <1>5, <1>7, <1>9 DEF Inv, EnvoiJuste
  <1>11. ~(suite < Len(envoi.eleves)) => ParentsDe(reste) = {}
    <2>1. ~(suite < Len(envoi.eleves)) => {k \in DOMAIN envoi.eleves : k > suite} = {}
      BY <1>t, <1>4
    <2> QED
      BY <2>1 DEF ParentsDe
  <1> QED
    BY <1>5, <1>6, <1>8, <1>10, <1>11 DEF EnvoiJuste

LEMMA EnvoiJustePas == TypeOKFort /\ Inv /\ [Next]_vars => EnvoiJuste'
  <1> SUFFICES ASSUME TypeOKFort, Inv, [Next]_vars
               PROVE  EnvoiJuste'
    OBVIOUS
  <1>t. envoi \in Envois
    BY DEF TypeOKFort, TypeOK, Envois
  <1>1. CASE envoi' = envoi /\ [NextFamille]_varsFamille
    <2>1. \A S : ParentsDe(S) \subseteq ParentsDe(S)'
      BY <1>1, LiensGardes DEF TypeOKFort, TypeOK
    <2>2. ParentsDe(Restant) \subseteq ParentsDe(Restant)'
      <3>1. Restant' = Restant
        BY <1>1 DEF Restant
      <3> QED
        BY <2>1, <3>1 DEF ParentsDe
    <2>3. ParentsDe(Dans(envoi.eleves)) \subseteq ParentsDe(Dans(envoi.eleves))'
      BY <1>1, <2>1 DEF ParentsDe, Dans
    <2> QED
      BY <1>1, <2>2, <2>3 DEF Inv, EnvoiJuste
  <1>2. CASE envoi'.etape \in {"repos", "fichier", "classe"} /\ envoi'.parents = {}
    BY <1>2 DEF EnvoiJuste
  <1>3. CASE Soumettre
    BY <1>2, <1>3 DEF Soumettre, EnvoiNul
  <1>4. CASE Televerser
    BY <1>2, <1>4, <1>t DEF Televerser, TypeOKFort, EnvoiNul, Envois
  <1>5. CASE LireClasse
    <2>1. /\ envoi'.eleves = elevesIds /\ envoi'.dus = ParentsDe(Dans(elevesIds))
          /\ envoi'.i = 0 /\ envoi'.parents = {} /\ famille' = famille
          /\ envoi'.etape = IF elevesIds = <<>> THEN "ajout" ELSE "lots"
      BY <1>5, <1>t DEF LireClasse, TypeOKFort, EnvoiNul, Envois, varsFamille
    <2>2. Restant' = Dans(elevesIds)
      <3>1. DOMAIN elevesIds \subseteq Nat \ {0}
        <4>1. elevesIds \in Seq(Eleves)
          BY DEF TypeOKFort, TypeOK
        <4> QED
          BY <4>1, LenProperties
      <3> QED
        BY <2>1, <3>1 DEF Restant, Dans
    <2>3. elevesIds = <<>> => ParentsDe(Dans(elevesIds)) = {}
      BY DEF ParentsDe, Dans
    <2> QED
      BY <2>1, <2>2, <2>3 DEF EnvoiJuste, ParentsDe
  <1>6. CASE LireClasseEnVain
    BY <1>6, <1>t DEF LireClasseEnVain, TypeOKFort, EnvoiNul, Envois, EnvoiJuste
  <1>7. CASE LireLotEnVain
    BY <1>7, <1>t DEF LireLotEnVain, Envois, EnvoiJuste
  <1>8. CASE AjouterDevoir \/ Echouer
    BY <1>2, <1>8 DEF AjouterDevoir, Echouer, EnvoiNul
  <1>9. CASE LireLot
    BY <1>9, InvLireLot
  <1>10. CASE NextFamille /\ UNCHANGED varsPublication
    BY <1>1, <1>10 DEF varsPublication
  <1>11. ASSUME NEW e \in Eleves, Inscrire(e)
         PROVE  EnvoiJuste'
    BY <1>1, <1>11 DEF Inscrire
  <1>12. CASE UNCHANGED vars
    BY <1>1, <1>12 DEF vars, varsPublication
  <1> QED
    BY <1>3, <1>4, <1>5, <1>6, <1>7, <1>8, <1>9, <1>10, <1>11, <1>12 DEF Next

LEMMA DevoirsPas == TypeOKFort /\ Inv /\ [Next]_vars => ParentsDuDevoir'
  <1> SUFFICES ASSUME TypeOKFort, Inv, [Next]_vars
               PROVE  ParentsDuDevoir'
    OBVIOUS
  <1>1. \A S : ParentsDe(S) \subseteq ParentsDe(S)'
    <2>1. [NextFamille]_varsFamille
      BY DEF Next, vars, varsFamille, Inscrire, Soumettre, Televerser, LireClasse, LireClasseEnVain,
             LireLot, LireLotEnVain, AjouterDevoir, Echouer
    <2> QED
      BY <2>1, LiensGardes DEF TypeOKFort, TypeOK
  <1>2. CASE UNCHANGED devoirs
    BY <1>1, <1>2 DEF Inv, ParentsDuDevoir, ParentsDe
  <1>3. CASE AjouterDevoir
    <2> DEFINE c == [eleveIds |-> Dans(envoi.eleves), parentIds |-> envoi.parents,
                     dus |-> envoi.dus, muet |-> envoi.muet]
    <2>1. /\ ~c.muet => c.dus \subseteq c.parentIds
          /\ c.parentIds \subseteq ParentsDe(c.eleveIds)
          /\ famille' = famille
      BY <1>3 DEF AjouterDevoir, Inv, EnvoiJuste, varsFamille
    <2>2. c \in Contenus
      <3>1. Dans(envoi.eleves) \subseteq Eleves
        BY ElementOfSeq, LenProperties DEF Dans, TypeOKFort, TypeOK
      <3> QED
        BY <3>1 DEF Contenus, TypeOKFort, TypeOK
    <2>3. devoirs' = Append(devoirs, c) /\ devoirs \in Seq(Contenus)
      BY <1>3 DEF AjouterDevoir, TypeOKFort, TypeOK, Contenus
    <2> HIDE DEF c
    <2>4. /\ DOMAIN devoirs' = 1..(Len(devoirs) + 1) /\ DOMAIN devoirs = 1..Len(devoirs)
          /\ devoirs'[Len(devoirs) + 1] = c /\ Len(devoirs) \in Nat
          /\ \A n \in 1..Len(devoirs) : devoirs'[n] = devoirs[n]
      BY <2>2, <2>3, AppendProperties, LenProperties
    <2>5. \A n \in DOMAIN devoirs' : n \in DOMAIN devoirs \/ n = Len(devoirs) + 1
      BY <2>4
    <2> QED
      BY <2>1, <2>4, <2>5 DEF Inv, ParentsDuDevoir, ParentsDe
  <1> QED
    BY <1>2, <1>3
    DEF Next, vars, varsPublication, Inscrire, Soumettre, Televerser, LireClasse, LireClasseEnVain,
        LireLot, LireLotEnVain, Echouer

(***************************************************************************)
(* The inductive invariant: at every turn of the loop over the lots, a     *)
(* parent who is owed the homework has been read or has a child among the  *)
(* pupils still to be asked for.                                           *)
(***************************************************************************)
THEOREM Inductif == Spec => []Inv
  <1>1. TypeOKFort /\ Inv /\ [Next]_vars => Inv'
    BY EnvoiJustePas, DevoirsPas DEF Inv
  <1> QED
    BY <1>1, InvInit, TypeFort, PTL DEF Spec

(***************************************************************************)
(* A homework stored without a failed read is for every parent linked to a *)
(* pupil of its list when the list was read, and only for parents of these *)
(* pupils, for any size of a lot.                                          *)
(***************************************************************************)
THEOREM ParentsDuDevoirTenus == Spec => []ParentsDuDevoir
  <1>1. Inv => ParentsDuDevoir
    BY DEF Inv
  <1> QED
    BY <1>1, Inductif, PTL
=============================================================================
