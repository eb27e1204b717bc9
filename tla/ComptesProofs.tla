---------------------------- MODULE ComptesProofs ----------------------------
(***************************************************************************)
(* Proofs about Comptes, for any people, classes and number of chains of   *)
(* calls in flight.                                                        *)
(***************************************************************************)
EXTENDS Comptes, TLAPS

-----------------------------------------------------------------------------
(***************************************************************************)
(* The chains of calls: which suffixes of a chain a task can be left with. *)
(***************************************************************************)
InscriptionOK(t) ==
    /\ t.operation = "inscrire"
    /\ \/ /\ t.sujet \in Eleves
          /\ t.classe \in Classes
          /\ \/ t.reste = <<"compte", "utilisateur", "profil", "lireClasse", "inscrireClasse">>
             \/ t.reste = <<"utilisateur", "profil", "lireClasse", "inscrireClasse">>
             \/ t.reste = <<"profil", "lireClasse", "inscrireClasse">>
             \/ t.reste = <<"lireClasse", "inscrireClasse">>
             \/ t.reste = <<"inscrireClasse">>
       \/ /\ t.sujet \in SuperAdmins
          /\ \/ t.reste = <<"compte", "profil", "utilisateur">>
             \/ t.reste = <<"profil", "utilisateur">>
             \/ t.reste = <<"utilisateur">>
       \/ /\ t.sujet \in Parents \cup Enseignants \cup Administrateurs
          /\ \/ t.reste = <<"compte", "utilisateur", "profil">>
             \/ t.reste = <<"utilisateur", "profil">>
             \/ t.reste = <<"profil">>

SuppressionOK(t) ==
    /\ t.operation = "supprimer"
    /\ \/ /\ t.sujet \in Eleves \cup Parents
          /\ \/ t.reste = <<"oterProfil", "oterUtilisateur">>
             \/ t.reste = <<"oterUtilisateur">>
       \/ /\ t.sujet \in Enseignants
          /\ \/ t.reste = <<"chercherProfil", "oterUtilisateur", "oterProfil">>
             \/ t.reste = <<"oterUtilisateur", "oterProfil">>
             \/ t.reste = <<"oterUtilisateur">>
             \/ t.reste = <<"oterProfil">>
       \/ /\ t.sujet \in Administrateurs
          /\ \/ t.reste = <<"oterUtilisateur", "chercherProfil", "oterProfil">>
             \/ t.reste = <<"chercherProfil", "oterProfil">>
             \/ t.reste = <<"oterProfil">>

RetraitOK(t) ==
    /\ t.operation = "retirer"
    /\ t.sujet \in Personnes
    /\ t.reste = <<"oterUtilisateur">>

ModificationOK(t) ==
    /\ t.operation = "modifier"
    /\ \/ /\ t.sujet \in Eleves
          /\ t.classe \in Classes
          /\ t.reste = <<"majProfil", "majUtilisateur">> \/ t.reste = <<"majUtilisateur">>
       \/ /\ t.sujet \in Parents \cup Enseignants \cup Administrateurs
          /\ t.reste = <<"majUtilisateur">>

RenommageOK(t) ==
    /\ t.operation = "renommer"
    /\ t.classe \in Classes
    /\ t.reste = <<"lireClasse", "reecrireClasse">> \/ t.reste = <<"reecrireClasse">>

AffectationOK(t) ==
    /\ t.operation = "affecter"
    /\ t.sujet \in Enseignants
    /\ t.classe \in Classes
    /\ t.reste = <<"affecterEnseignant">>

TacheOK(t) ==
    \/ t = Repos
    \/ InscriptionOK(t)
    \/ SuppressionOK(t)
    \/ RetraitOK(t)
    \/ ModificationOK(t)
    \/ RenommageOK(t)
    \/ AffectationOK(t)

InvTache == \A a \in Agents : tache[a] \in Taches /\ TacheOK(tache[a])

\* The next call of a task.
Prochain(t) == IF t.reste = <<>> THEN "fin" ELSE Head(t.reste)

\* n is the operation of t, further on.
Poursuit(t, n) ==
    /\ n.operation = t.operation
    /\ n.sujet = t.sujet
    /\ n.classe = t.classe
    /\ n.copie = t.copie

-----------------------------------------------------------------------------
\* A task with no call left is at rest, and a task at rest has none left.
LEMMA ReposFaits ==
  /\ Repos \in Taches
  /\ Repos.operation = Aucun
  /\ Repos.copie = Inconnue
  /\ Repos.reste = <<>>
  /\ Prochain(Repos) = "fin"
  BY DEF Repos, Tache, Taches, Inconnue, ClasseModele, Prochain

\* The last call of a chain.
LEMMA Avance1 ==
  ASSUME NEW t \in Taches, NEW e, t.reste = <<e>>
  PROVE  Prochain(t) = e /\ Avance(t) = Repos
  BY DEF Avance, Prochain

\* Any other call of a chain.
LEMMA AvancePas ==
  ASSUME NEW t \in Taches, NEW r \in Seq(Etapes), r # <<>>,
         t.reste # <<>>, Len(t.reste) # 1, Tail(t.reste) = r
  PROVE  /\ Prochain(t) = Head(t.reste)
         /\ Avance(t) \in Taches
         /\ Poursuit(t, Avance(t))
         /\ Avance(t).reste = r
         /\ Prochain(Avance(t)) = Head(r)
  <1>1. Avance(t) = [t EXCEPT !.reste = r]
    BY DEF Avance
  <1>2. Avance(t) \in Taches /\ Avance(t).reste = r
    BY <1>1 DEF Taches
  <1>3. Poursuit(t, Avance(t))
    BY <1>1 DEF Poursuit, Taches
  <1> QED
    BY <1>2, <1>3 DEF Prochain

\* Two calls left.
LEMMA Avance2 ==
  ASSUME NEW t \in Taches, NEW e \in Etapes, NEW f \in Etapes,
         t.reste = <<e, f>>
  PROVE  /\ Prochain(t) = e
         /\ Avance(t) \in Taches
         /\ Poursuit(t, Avance(t))
         /\ Avance(t).reste = <<f>>
         /\ Prochain(Avance(t)) = f
  <1> DEFINE r == <<f>>
  <1>1. Len(t.reste) # 1 /\ Tail(t.reste) = r /\ r \in Seq(Etapes)
    OBVIOUS
  <1>2. t.reste # <<>> /\ r # <<>> /\ Head(t.reste) = e /\ Head(r) = f
    OBVIOUS
  <1> HIDE DEF r
  <1>3. /\ Prochain(t) = Head(t.reste)
        /\ Avance(t) \in Taches
        /\ Poursuit(t, Avance(t))
        /\ Avance(t).reste = r
        /\ Prochain(Avance(t)) = Head(r)
    BY <1>1, <1>2, AvancePas
  <1> QED
    BY <1>2, <1>3 DEF r

-----------------------------------------------------------------------------
(***************************************************************************)
(* What a call of each kind belongs to, and which call follows it.         *)
(***************************************************************************)
SuiteInscription(t, n) ==
    \/ /\ Prochain(t) = "compte"
       /\ Poursuit(t, n)
       /\ Prochain(n) = IF t.sujet \in SuperAdmins THEN "profil" ELSE "utilisateur"
    \/ /\ Prochain(t) = "utilisateur"
       /\ \/ t.sujet \in SuperAdmins /\ n = Repos
          \/ t.sujet \notin SuperAdmins /\ Poursuit(t, n) /\ Prochain(n) = "profil"
    \/ /\ Prochain(t) = "profil"
       /\ \/ t.sujet \in SuperAdmins /\ Poursuit(t, n) /\ Prochain(n) = "utilisateur"
          \/ t.sujet \in Eleves /\ Poursuit(t, n) /\ Prochain(n) = "lireClasse"
          \/ t.sujet \notin SuperAdmins /\ n = Repos
    \/ /\ Prochain(t) = "lireClasse"
       /\ Poursuit(t, n)
       /\ Prochain(n) = "inscrireClasse"
    \/ /\ Prochain(t) = "inscrireClasse"
       /\ n = Repos

SuiteSuppression(t, n) ==
    \/ /\ Prochain(t) = "oterProfil"
       /\ \/ t.sujet \in Eleves \cup Parents /\ Poursuit(t, n) /\ Prochain(n) = "oterUtilisateur"
          \/ t.sujet \notin Eleves \cup Parents /\ n = Repos
    \/ /\ Prochain(t) = "oterUtilisateur"
       /\ \/ n = Repos
          \/ /\ t.sujet \notin Eleves \cup Parents
             /\ Poursuit(t, n)
             /\ Prochain(n) \in {"oterProfil", "chercherProfil"}
    \/ /\ Prochain(t) = "chercherProfil"
       /\ t.sujet \notin Eleves \cup Parents
       /\ Poursuit(t, n)
       /\ Prochain(n) \in {"oterProfil", "oterUtilisateur"}

\* The chain of a registration.
LEMMA ChaineInscription ==
  ASSUME NEW t \in Taches, InscriptionOK(t)
  PROVE  /\ Avance(t) \in Taches
         /\ TacheOK(Avance(t))
         /\ SuiteInscription(t, Avance(t))
         /\ t.sujet \in Personnes
         /\ Prochain(t) \in {"lireClasse", "inscrireClasse"} => t.sujet \in Eleves /\ t.classe \in Classes
         /\ t.sujet \in Eleves => t.classe \in Classes
  <1> USE ComptesHypotheses DEF Etapes, InscriptionOK, SuiteInscription, Personnes
  <1>r. Repos \in Taches /\ TacheOK(Repos)
    BY ReposFaits DEF TacheOK
  <1>p. ASSUME Avance(t) \in Taches, InscriptionOK(Avance(t)) PROVE TacheOK(Avance(t))
    BY <1>p DEF TacheOK
  <1>1. CASE t.sujet \in Eleves /\ t.reste = <<"compte", "utilisateur", "profil", "lireClasse", "inscrireClasse">>
    <2> DEFINE r == <<"utilisateur", "profil", "lireClasse", "inscrireClasse">>
    <2>0. r \in Seq(Etapes) /\ r # <<>> /\ t.reste # <<>> /\ Len(t.reste) # 1 /\ Tail(t.reste) = r
      BY <1>1
    <2>h. Head(t.reste) = "compte" /\ Head(r) = "utilisateur"
      BY <1>1
    <2> HIDE DEF r
    <2>1. /\ Prochain(t) = Head(t.reste)
          /\ Avance(t) \in Taches
          /\ Poursuit(t, Avance(t))
          /\ Avance(t).reste = r
          /\ Prochain(Avance(t)) = Head(r)
      BY ONLY t \in Taches, <2>0, AvancePas
    <2> QED
      BY <1>1, <2>h, <2>1, <1>p DEF Poursuit, r
  <1>2. CASE t.sujet \in Eleves /\ t.reste = <<"utilisateur", "profil", "lireClasse", "inscrireClasse">>
    <2> DEFINE r == <<"profil", "lireClasse", "inscrireClasse">>
    <2>0. r \in Seq(Etapes) /\ r # <<>> /\ t.reste # <<>> /\ Len(t.reste) # 1 /\ Tail(t.reste) = r
      BY <1>2
    <2>h. Head(t.reste) = "utilisateur" /\ Head(r) = "profil"
      BY <1>2
    <2> HIDE DEF r
    <2>1. /\ Prochain(t) = Head(t.reste)
          /\ Avance(t) \in Taches
          /\ Poursuit(t, Avance(t))
          /\ Avance(t).reste = r
          /\ Prochain(Avance(t)) = Head(r)
      BY ONLY t \in Taches, <2>0, AvancePas
    <2> QED
      BY <1>2, <2>h, <2>1, <1>p DEF Poursuit, r
  <1>3. CASE t.sujet \in Eleves /\ t.reste = <<"profil", "lireClasse", "inscrireClasse">>
    <2> DEFINE r == <<"lireClasse", "inscrireClasse">>
    <2>0. r \in Seq(Etapes) /\ r # <<>> /\ t.reste # <<>> /\ Len(t.reste) # 1 /\ Tail(t.reste) = r
      BY <1>3
    <2>h. Head(t.reste) = "profil" /\ Head(r) = "lireClasse"
      BY <1>3
    <2> HIDE DEF r
    <2>1. /\ Prochain(t) = Head(t.reste)
          /\ Avance(t) \in Taches
          /\ Poursuit(t, Avance(t))
          /\ Avance(t).reste = r
          /\ Prochain(Avance(t)) = Head(r)
      BY ONLY t \in Taches, <2>0, AvancePas
    <2> QED
      BY <1>3, <2>h, <2>1, <1>p DEF Poursuit, r
  <1>4. CASE t.sujet \in Eleves /\ t.reste = <<"lireClasse", "inscrireClasse">>
    <2>1. /\ Prochain(t) = "lireClasse"
          /\ Avance(t) \in Taches
          /\ Poursuit(t, Avance(t))
          /\ Avance(t).reste = <<"inscrireClasse">>
          /\ Prochain(Avance(t)) = "inscrireClasse"
      BY <1>4, Avance2
    <2> QED
      BY <1>4, <2>1, <1>p DEF Poursuit
  <1>5. CASE t.sujet \in Eleves /\ t.reste = <<"inscrireClasse">>
    BY <1>5, <1>r, Avance1
  <1>6. CASE t.sujet \in SuperAdmins /\ t.reste = <<"compte", "profil", "utilisateur">>
    <2> DEFINE r == <<"profil", "utilisateur">>
    <2>0. r \in Seq(Etapes) /\ r # <<>> /\ t.reste # <<>> /\ Len(t.reste) # 1 /\ Tail(t.reste) = r
      BY <1>6
    <2>h. Head(t.reste) = "compte" /\ Head(r) = "profil"
      BY <1>6
    <2> HIDE DEF r
    <2>1. /\ Prochain(t) = Head(t.reste)
          /\ Avance(t) \in Taches
          /\ Poursuit(t, Avance(t))
          /\ Avance(t).reste = r
          /\ Prochain(Avance(t)) = Head(r)
      BY ONLY t \in Taches, <2>0, AvancePas
    <2> QED
      BY <1>6, <2>h, <2>1, <1>p DEF Poursuit, r
  <1>7. CASE t.sujet \in SuperAdmins /\ t.reste = <<"profil", "utilisateur">>
    <2>1. /\ Prochain(t) = "profil"
          /\ Avance(t) \in Taches
          /\ Poursuit(t, Avance(t))
          /\ Avance(t).reste = <<"utilisateur">>
          /\ Prochain(Avance(t)) = "utilisateur"
      BY <1>7, Avance2
    <2> QED
      BY <1>7, <2>1, <1>p DEF Poursuit
  <1>8. CASE t.sujet \in SuperAdmins /\ t.reste = <<"utilisateur">>
    BY <1>8, <1>r, Avance1
  <1>9. CASE t.sujet \in Parents \cup Enseignants \cup Administrateurs /\ t.reste = <<"compte", "utilisateur", "profil">>
    <2> DEFINE r == <<"utilisateur", "profil">>
    <2>0. r \in Seq(Etapes) /\ r # <<>> /\ t.reste # <<>> /\ Len(t.reste) # 1 /\ Tail(t.reste) = r
      BY <1>9
    <2>h. Head(t.reste) = "compte" /\ Head(r) = "utilisateur"
      BY <1>9
    <2> HIDE DEF r
    <2>1. /\ Prochain(t) = Head(t.reste)
          /\ Avance(t) \in Taches
          /\ Poursuit(t, Avance(t))
          /\ Avance(t).reste = r
          /\ Prochain(Avance(t)) = Head(r)
      BY ONLY t \in Taches, <2>0, AvancePas
    <2> QED
      BY <1>9, <2>h, <2>1, <1>p DEF Poursuit, r
  <1>10. CASE t.sujet \in Parents \cup Enseignants \cup Administrateurs /\ t.reste = <<"utilisateur", "profil">>
    <2>1. /\ Prochain(t) = "utilisateur"
          /\ Avance(t) \in Taches
          /\ Poursuit(t, Avance(t))
          /\ Avance(t).reste = <<"profil">>
          /\ Prochain(Avance(t)) = "profil"
      BY <1>10, Avance2
    <2> QED
      BY <1>10, <2>1, <1>p DEF Poursuit
  <1>11. CASE t.sujet \in Parents \cup Enseignants \cup Administrateurs /\ t.reste = <<"profil">>
    BY <1>11, <1>r, Avance1
  <1> QED
    BY <1>1, <1>2, <1>3, <1>4, <1>5, <1>6, <1>7, <1>8, <1>9, <1>10, <1>11

\* The chain of a deletion.
LEMMA ChaineSuppression ==
  ASSUME NEW t \in Taches, SuppressionOK(t)
  PROVE  /\ Avance(t) \in Taches
         /\ TacheOK(Avance(t))
         /\ SuiteSuppression(t, Avance(t))
         /\ t.sujet \in Personnes \ SuperAdmins
  <1> USE ComptesHypotheses DEF Etapes, SuppressionOK, SuiteSuppression, Personnes
  <1>r. Repos \in Taches /\ TacheOK(Repos)
    BY ReposFaits DEF TacheOK
  <1>p. ASSUME Avance(t) \in Taches, SuppressionOK(Avance(t)) PROVE TacheOK(Avance(t))
    BY <1>p DEF TacheOK
  <1>1. CASE t.sujet \in Eleves \cup Parents /\ t.reste = <<"oterProfil", "oterUtilisateur">>
    <2>1. /\ Prochain(t) = "oterProfil"
          /\ Avance(t) \in Taches
          /\ Poursuit(t, Avance(t))
          /\ Avance(t).reste = <<"oterUtilisateur">>
          /\ Prochain(Avance(t)) = "oterUtilisateur"
      BY <1>1, Avance2
    <2> QED
      BY <1>1, <2>1, <1>p DEF Poursuit
  <1>2. CASE t.sujet \in Eleves \cup Parents /\ t.reste = <<"oterUtilisateur">>
    BY <1>2, <1>r, Avance1
  <1>3. CASE t.sujet \in Enseignants /\ t.reste = <<"chercherProfil", "oterUtilisateur", "oterProfil">>
    <2> DEFINE r == <<"oterUtilisateur", "oterProfil">>
    <2>0. r \in Seq(Etapes) /\ r # <<>> /\ t.reste # <<>> /\ Len(t.reste) # 1 /\ Tail(t.reste) = r
      BY <1>3
    <2>h. Head(t.reste) = "chercherProfil" /\ Head(r) = "oterUtilisateur"
      BY <1>3
    <2> HIDE DEF r
    <2>1. /\ Prochain(t) = Head(t.reste)
          /\ Avance(t) \in Taches
          /\ Poursuit(t, Avance(t))
          /\ Avance(t).reste = r
          /\ Prochain(Avance(t)) = Head(r)
      BY ONLY t \in Taches, <2>0, AvancePas
    <2> QED
      BY <1>3, <2>h, <2>1, <1>p DEF Poursuit, r
  <1>4. CASE t.sujet \in Enseignants /\ t.reste = <<"oterUtilisateur", "oterProfil">>
    <2>1. /\ Prochain(t) = "oterUtilisateur"
          /\ Avance(t) \in Taches
          /\ Poursuit(t, Avance(t))
          /\ Avance(t).reste = <<"oterProfil">>
          /\ Prochain(Avance(t)) = "oterProfil"
      BY <1>4, Avance2
    <2> QED
      BY <1>4, <2>1, <1>p DEF Poursuit
  <1>5. CASE t.sujet \in Enseignants /\ t.reste = <<"oterUtilisateur">>
    BY <1>5, <1>r, Avance1
  <1>6. CASE t.sujet \in Enseignants /\ t.reste = <<"oterProfil">>
    BY <1>6, <1>r, Avance1
  <1>7. CASE t.sujet \in Administrateurs /\ t.reste = <<"oterUtilisateur", "chercherProfil", "oterProfil">>
    <2> DEFINE r == <<"chercherProfil", "oterProfil">>
    <2>0. r \in Seq(Etapes) /\ r # <<>> /\ t.reste # <<>> /\ Len(t.reste) # 1 /\ Tail(t.reste) = r
      BY <1>7
    <2>h. Head(t.reste) = "oterUtilisateur" /\ Head(r) = "chercherProfil"
      BY <1>7
    <2> HIDE DEF r
    <2>1. /\ Prochain(t) = Head(t.reste)
          /\ Avance(t) \in Taches
          /\ Poursuit(t, Avance(t))
          /\ Avance(t).reste = r
          /\ Prochain(Avance(t)) = Head(r)
      BY ONLY t \in Taches, <2>0, AvancePas
    <2> QED
      BY <1>7, <2>h, <2>1, <1>p DEF Poursuit, r
  <1>8. CASE t.sujet \in Administrateurs /\ t.reste = <<"chercherProfil", "oterProfil">>
    <2>1. /\ Prochain(t) = "chercherProfil"
          /\ Avance(t) \in Taches
          /\ Poursuit(t, Avance(t))
          /\ Avance(t).reste = <<"oterProfil">>
          /\ Prochain(Avance(t)) = "oterProfil"
      BY <1>8, Avance2
    <2> QED
      BY <1>8, <2>1, <1>p DEF Poursuit
  <1>9. CASE t.sujet \in Administrateurs /\ t.reste = <<"oterProfil">>
    BY <1>9, <1>r, Avance1
  <1> QED
    BY <1>1, <1>2, <1>3, <1>4, <1>5, <1>6, <1>7, <1>8, <1>9

\* The other chains.
LEMMA ChaineAutre ==
  ASSUME NEW t \in Taches,
         RetraitOK(t) \/ ModificationOK(t) \/ RenommageOK(t) \/ AffectationOK(t)
  PROVE  /\ Avance(t) \in Taches
         /\ TacheOK(Avance(t))
         /\ t.operation \notin {"inscrire", "supprimer"}
         /\ Avance(t) = Repos \/ Poursuit(t, Avance(t))
         /\ \/ /\ t.operation = "retirer" /\ t.sujet \in Personnes
               /\ Prochain(t) = "oterUtilisateur"
            \/ /\ t.operation = "modifier" /\ t.sujet \in Personnes
               /\ Prochain(t) = "majUtilisateur"
            \/ /\ t.operation = "modifier" /\ t.sujet \in Eleves /\ t.classe \in Classes
               /\ Prochain(t) = "majProfil"
            \/ /\ t.operation = "renommer" /\ t.classe \in Classes
               /\ Prochain(t) \in {"lireClasse", "reecrireClasse"}
            \/ /\ t.operation = "affecter" /\ t.classe \in Classes /\ t.sujet \in Enseignants
               /\ Prochain(t) = "affecterEnseignant"
  <1> USE ComptesHypotheses DEF Etapes, RetraitOK, ModificationOK, RenommageOK, AffectationOK, Personnes
  <1>r. Repos \in Taches /\ TacheOK(Repos)
    BY ReposFaits DEF TacheOK
  <1>1. CASE RetraitOK(t)
    BY <1>1, <1>r, Avance1
  <1>2. CASE ModificationOK(t) /\ t.reste = <<"majUtilisateur">>
    BY <1>2, <1>r, Avance1
  <1>3. CASE ModificationOK(t) /\ t.reste = <<"majProfil", "majUtilisateur">>
    <2>1. /\ Prochain(t) = "majProfil"
          /\ Avance(t) \in Taches
          /\ Poursuit(t, Avance(t))
          /\ Avance(t).reste = <<"majUtilisateur">>
      BY <1>3, Avance2
    <2>2. t.sujet \in Eleves /\ t.classe \in Classes
      BY <1>3
    <2>3. TacheOK(Avance(t))
      BY <1>3, <2>1, <2>2 DEF Poursuit, TacheOK
    <2> QED
      BY <1>3, <2>1, <2>2, <2>3
  <1>4. CASE RenommageOK(t) /\ t.reste = <<"lireClasse", "reecrireClasse">>
    <2>1. /\ Prochain(t) = "lireClasse"
          /\ Avance(t) \in Taches
          /\ Poursuit(t, Avance(t))
          /\ Avance(t).reste = <<"reecrireClasse">>
      BY <1>4, Avance2
    <2>2. TacheOK(Avance(t))
      BY <1>4, <2>1 DEF Poursuit, TacheOK
    <2> QED
      BY <1>4, <2>1, <2>2
  <1>5. CASE RenommageOK(t) /\ t.reste = <<"reecrireClasse">>
    BY <1>5, <1>r, Avance1
  <1>6. CASE AffectationOK(t)
    BY <1>6, <1>r, Avance1
  <1> QED
    BY <1>1, <1>2, <1>3, <1>4, <1>5, <1>6

-----------------------------------------------------------------------------
(***************************************************************************)
(* The operation a task belongs to, from the call it is about to make.     *)
(***************************************************************************)
LEMMA QuelleTache ==
  ASSUME NEW t \in Taches, TacheOK(t)
  PROVE  /\ t.reste = <<>> => t = Repos
         /\ Prochain(t) \in {"compte", "utilisateur", "profil", "inscrireClasse"} => InscriptionOK(t)
         /\ Prochain(t) = "lireClasse" => InscriptionOK(t) \/ RenommageOK(t)
         /\ Prochain(t) \in {"oterProfil", "chercherProfil"} => SuppressionOK(t)
         /\ Prochain(t) = "oterUtilisateur" => SuppressionOK(t) \/ RetraitOK(t)
         /\ Prochain(t) \in {"majProfil", "majUtilisateur"} => ModificationOK(t)
         /\ Prochain(t) = "reecrireClasse" => RenommageOK(t)
         /\ Prochain(t) = "affecterEnseignant" => AffectationOK(t)
  <1>0. CASE t = Repos
    BY <1>0, ReposFaits
  <1>1. CASE InscriptionOK(t)
    <2>2. Prochain(t) \in {"compte", "utilisateur", "profil", "lireClasse", "inscrireClasse"}
      BY <1>1, ChaineInscription DEF SuiteInscription
    <2>4. t.reste # <<>>
      BY <2>2 DEF Prochain
    <2> QED
      BY <1>1, <2>2, <2>4
  <1>2. CASE SuppressionOK(t)
    <2>2. Prochain(t) \in {"oterProfil", "oterUtilisateur", "chercherProfil"}
      BY <1>2, ChaineSuppression DEF SuiteSuppression
    <2>4. t.reste # <<>>
      BY <2>2 DEF Prochain
    <2> QED
      BY <1>2, <2>2, <2>4
  <1>3. CASE RetraitOK(t)
    BY <1>3, Avance1 DEF RetraitOK
  <1>4. CASE ModificationOK(t)
    <2>2. t.operation = "modifier"
      BY <1>4 DEF ModificationOK
    <2>3. Prochain(t) \in {"majProfil", "majUtilisateur"}
      BY <1>4, <2>2, ChaineAutre
    <2>4. t.reste # <<>>
      BY <2>3 DEF Prochain
    <2> QED
      BY <1>4, <2>3, <2>4
  <1>5. CASE RenommageOK(t)
    <2>2. t.operation = "renommer"
      BY <1>5 DEF RenommageOK
    <2>3. Prochain(t) \in {"lireClasse", "reecrireClasse"}
      BY <1>5, <2>2, ChaineAutre
    <2>4. t.reste # <<>>
      BY <2>3 DEF Prochain
    <2> QED
      BY <1>5, <2>3, <2>4
  <1>6. CASE AffectationOK(t)
    BY <1>6, Avance1 DEF AffectationOK
  <1> QED
    BY <1>0, <1>1, <1>2, <1>3, <1>4, <1>5, <1>6 DEF TacheOK

\* A class read is kept, whatever the operation that read it.
LEMMA LectureFaits ==
  ASSUME NEW t \in Taches, TacheOK(t), Prochain(t) = "lireClasse", NEW k \in ClasseModele
  PROVE  /\ AvecCopie(t, k) \in Taches
         /\ TacheOK(AvecCopie(t, k))
         /\ AvecCopie(t, k).operation = t.operation
         /\ AvecCopie(t, k).sujet = t.sujet
         /\ AvecCopie(t, k).classe = t.classe
         /\ AvecCopie(t, k).copie = k
         /\ t.operation = "inscrire" => Prochain(AvecCopie(t, k)) = "inscrireClasse"
         /\ t.operation \in {"inscrire", "renommer"}
         /\ t.classe \in Classes
  <1> DEFINE n == AvecCopie(t, k)
  <1>1. \/ InscriptionOK(t) /\ t.sujet \in Eleves /\ t.reste = <<"lireClasse", "inscrireClasse">>
        \/ RenommageOK(t) /\ t.reste = <<"lireClasse", "reecrireClasse">>
    <2>1. InscriptionOK(t) \/ RenommageOK(t)
      BY QuelleTache
    <2>2. CASE InscriptionOK(t)
      BY <2>2, ComptesHypotheses DEF InscriptionOK, Prochain
    <2>3. CASE RenommageOK(t)
      BY <2>3 DEF RenommageOK, Prochain
    <2> QED
      BY <2>1, <2>2, <2>3
  <1>2. Tail(t.reste) \in Seq(Etapes)
    <2>1. {"inscrireClasse", "reecrireClasse"} \subseteq Etapes
      BY DEF Etapes
    <2>2. \A e \in Etapes : <<e>> \in Seq(Etapes)
      OBVIOUS
    <2>3. CASE t.reste = <<"lireClasse", "inscrireClasse">>
      BY <2>1, <2>2, <2>3
    <2>4. CASE t.reste = <<"lireClasse", "reecrireClasse">>
      BY <2>1, <2>2, <2>4
    <2> QED
      BY <1>1, <2>3, <2>4
  <1>3. /\ n \in Taches
        /\ n.operation = t.operation /\ n.sujet = t.sujet /\ n.classe = t.classe /\ n.copie = k
        /\ n.reste = Tail(t.reste)
    BY <1>2 DEF AvecCopie, Taches
  <1>4. CASE InscriptionOK(t) /\ t.sujet \in Eleves /\ t.reste = <<"lireClasse", "inscrireClasse">>
    <2>1. n.reste = <<"inscrireClasse">>
      BY <1>3, <1>4
    <2>2. InscriptionOK(n)
      BY <1>3, <1>4, <2>1, ComptesHypotheses DEF InscriptionOK
    <2>3. Prochain(n) = "inscrireClasse"
      BY <1>3, <2>1, Avance1
    <2>4. t.operation = "inscrire" /\ t.classe \in Classes
      BY <1>4, ComptesHypotheses DEF InscriptionOK
    <2> QED
      BY <1>3, <2>2, <2>3, <2>4 DEF TacheOK
  <1>5. CASE RenommageOK(t) /\ t.reste = <<"lireClasse", "reecrireClasse">>
    <2>1. n.reste = <<"reecrireClasse">>
      BY <1>3, <1>5
    <2>2. RenommageOK(n)
      BY <1>3, <1>5, <2>1 DEF RenommageOK
    <2>3. t.operation = "renommer" /\ t.classe \in Classes
      BY <1>5 DEF RenommageOK
    <2> QED
      BY <1>3, <2>2, <2>3 DEF TacheOK
  <1> QED
    BY <1>1, <1>4, <1>5

\* The query for the profile ends the chain of an administrator, and leaves
\* one call to the chain of a teacher.
LEMMA RechercheFaits ==
  ASSUME NEW t \in Taches, TacheOK(t), Prochain(t) = "chercherProfil"
  PROVE  /\ [t EXCEPT !.reste = <<"oterUtilisateur">>] \in Taches
         /\ Poursuit(t, [t EXCEPT !.reste = <<"oterUtilisateur">>])
         /\ Len(t.reste) # 2 => TacheOK([t EXCEPT !.reste = <<"oterUtilisateur">>])
         /\ SuppressionOK(t)
         /\ t.sujet \notin Eleves \cup Parents
  <1> DEFINE n == [t EXCEPT !.reste = <<"oterUtilisateur">>]
  <1>1. SuppressionOK(t)
    BY QuelleTache
  <1>2. t.sujet \notin Eleves \cup Parents
    BY <1>1, ChaineSuppression DEF SuiteSuppression
  <1>3. n \in Taches /\ Poursuit(t, n) /\ n.reste = <<"oterUtilisateur">>
    <2>1. <<"oterUtilisateur">> \in Seq(Etapes)
      BY DEF Etapes
    <2> QED
      BY <2>1 DEF Taches, Poursuit
  <1>4. ASSUME Len(t.reste) # 2 PROVE TacheOK(n)
    <2>1. t.sujet \in Enseignants
      <3>1. ASSUME t.sujet \in Administrateurs, t.reste = <<"chercherProfil", "oterProfil">> PROVE FALSE
        BY <1>4, <3>1
      <3>2. ASSUME t.reste = <<"oterUtilisateur", "chercherProfil", "oterProfil">> PROVE FALSE
        BY <3>2 DEF Prochain
      <3>3. ASSUME t.reste = <<"oterProfil">> PROVE FALSE
        BY <3>3 DEF Prochain
      <3> QED
        BY ONLY <1>1, <1>2, <3>1, <3>2, <3>3 DEF SuppressionOK
    <2>2. SuppressionOK(n)
      BY <1>1, <1>3, <2>1 DEF SuppressionOK, Poursuit
    <2> QED
      BY <2>2 DEF TacheOK
  <1> QED
    BY <1>1, <1>2, <1>3, <1>4

-----------------------------------------------------------------------------
(***************************************************************************)
(* The type invariant, and the steps seen as the change of one task.       *)
(***************************************************************************)
Socle == TypeOK /\ InvTache

Change(a, n) ==
    /\ n \in Taches
    /\ TacheOK(n)
    /\ tache' = [tache EXCEPT ![a] = n]

\* A changed task keeps the tasks well formed.
LEMMA ChangeFaits ==
  ASSUME Socle, NEW a \in Agents, NEW n, Change(a, n)
  PROVE  /\ tache' \in [Agents -> Taches]
         /\ InvTache'
         /\ tache'[a] = n
         /\ \A b \in Agents : b # a => tache'[b] = tache[b]
  BY DEF Change, Socle, TypeOK, InvTache

\* A page about to make a call is in an operation; the call that returned
\* and the call that ended the operation change its task.
LEMMA AppelFaits ==
  ASSUME Socle, NEW a \in Agents
  PROVE  /\ tache[a] \in Taches /\ TacheOK(tache[a])
         /\ Libre(a) <=> tache[a] = Repos
         /\ \A e : A(a, e) => Prochain(tache[a]) = e
         /\ Suite(a) => tache' = [tache EXCEPT ![a] = Avance(tache[a])]
         /\ Fin(a) => Change(a, Repos)
  <1>1. tache[a] \in Taches /\ TacheOK(tache[a])
    BY DEF Socle, InvTache
  <1>2. Libre(a) <=> tache[a] = Repos
    BY <1>1, QuelleTache, ReposFaits DEF Libre
  <1>3. \A e : A(a, e) => Prochain(tache[a]) = e
    BY DEF A, Prochain
  <1>4. Suite(a) => tache' = [tache EXCEPT ![a] = Avance(tache[a])]
    BY DEF Suite
  <1>5. Fin(a) => Change(a, Repos)
    BY ReposFaits DEF Fin, Change, TacheOK
  <1> QED
    BY <1>1, <1>2, <1>3, <1>4, <1>5

(***************************************************************************)
(* The steps that start an operation.                                      *)
(***************************************************************************)
\* A registration that holds the account of its person.
Tient(t) == t.operation = "inscrire" /\ Prochain(t) # "compte"

\* The sequences of calls the pages start with.
LEMMA EtapesFaits ==
  /\ \A x \in Personnes : EtapesInscription(x) \in Seq(Etapes)
  /\ \A x \in Personnes : EtapesSuppression(x) \in Seq(Etapes)
  /\ \A x \in Personnes : EtapesModification(x) \in Seq(Etapes)
  /\ <<"oterUtilisateur">> \in Seq(Etapes)
  /\ <<"lireClasse", "reecrireClasse">> \in Seq(Etapes)
  /\ <<"affecterEnseignant">> \in Seq(Etapes)
  <1> USE DEF Etapes
  <1>1. /\ <<"oterUtilisateur">> \in Seq(Etapes)
        /\ <<"lireClasse", "reecrireClasse">> \in Seq(Etapes)
        /\ <<"affecterEnseignant">> \in Seq(Etapes)
    OBVIOUS
  <1>2. ASSUME NEW x \in Personnes PROVE EtapesInscription(x) \in Seq(Etapes)
    <2>1. <<"compte", "utilisateur", "profil", "lireClasse", "inscrireClasse">> \in Seq(Etapes)
      OBVIOUS
    <2>2. <<"compte", "profil", "utilisateur">> \in Seq(Etapes)
      OBVIOUS
    <2>3. <<"compte", "utilisateur", "profil">> \in Seq(Etapes)
      OBVIOUS
    <2> QED
      BY ONLY <2>1, <2>2, <2>3, Zenon DEF EtapesInscription
  <1>3. ASSUME NEW x \in Personnes PROVE EtapesSuppression(x) \in Seq(Etapes)
    <2>1. <<"oterProfil", "oterUtilisateur">> \in Seq(Etapes)
      OBVIOUS
    <2>2. <<"chercherProfil", "oterUtilisateur", "oterProfil">> \in Seq(Etapes)
      OBVIOUS
    <2>3. <<"oterUtilisateur", "chercherProfil", "oterProfil">> \in Seq(Etapes)
      OBVIOUS
    <2> QED
      BY ONLY <2>1, <2>2, <2>3, Zenon DEF EtapesSuppression
  <1>4. ASSUME NEW x \in Personnes PROVE EtapesModification(x) \in Seq(Etapes)
    <2>1. <<"majProfil", "majUtilisateur">> \in Seq(Etapes)
      OBVIOUS
    <2>2. <<"majUtilisateur">> \in Seq(Etapes)
      OBVIOUS
    <2> QED
      BY ONLY <2>1, <2>2, Zenon DEF EtapesModification
  <1> QED
    BY <1>1, <1>2, <1>3, <1>4

\* A task that starts.
LEMMA TacheFaits ==
  ASSUME NEW op \in Operations, NEW x \in Personnes \cup {Aucun}, NEW c \in Classes \cup {Aucun},
         NEW e \in Seq(Etapes)
  PROVE  /\ Tache(op, x, c, e) \in Taches
         /\ Tache(op, x, c, e).operation = op
         /\ Tache(op, x, c, e).sujet = x
         /\ Tache(op, x, c, e).classe = c
         /\ Tache(op, x, c, e).copie = Inconnue
         /\ Tache(op, x, c, e).reste = e
  <1>1. Inconnue \in ClasseModele
    BY DEF Inconnue, ClasseModele
  <1> QED
    BY <1>1 DEF Tache, Taches

\* The tasks the pages start with are well formed; a registration starts
\* with the account, and the deletion of a pupil or a parent with the profile.
LEMMA DebutFaits ==
  /\ \A x \in Personnes \ Eleves : LET n == Tache("inscrire", x, Aucun, EtapesInscription(x))
                                  IN  TacheOK(n) /\ Prochain(n) = "compte"
  /\ \A x \in Eleves, c \in Classes : LET n == Tache("inscrire", x, c, EtapesInscription(x))
                                      IN  TacheOK(n) /\ Prochain(n) = "compte"
  /\ \A x \in Personnes \ SuperAdmins : LET n == Tache("supprimer", x, Aucun, EtapesSuppression(x))
                                        IN  TacheOK(n) /\ (x \in Eleves \cup Parents => Prochain(n) = "oterProfil")
  /\ \A x \in Personnes : TacheOK(Tache("retirer", x, Aucun, <<"oterUtilisateur">>))
  /\ \A x \in Eleves, c \in Classes : TacheOK(Tache("modifier", x, c, EtapesModification(x)))
  /\ \A x \in Parents \cup Enseignants \cup Administrateurs :
        TacheOK(Tache("modifier", x, Aucun, EtapesModification(x)))
  /\ \A c \in Classes : TacheOK(Tache("renommer", Aucun, c, <<"lireClasse", "reecrireClasse">>))
  /\ \A x \in Enseignants, c \in Classes : TacheOK(Tache("affecter", x, c, <<"affecterEnseignant">>))
  <1> USE ComptesHypotheses DEF Personnes, Operations
  <1>1. ASSUME NEW x \in Personnes \ Eleves
        PROVE  LET n == Tache("inscrire", x, Aucun, EtapesInscription(x))
               IN  TacheOK(n) /\ Prochain(n) = "compte"
    <2> DEFINE n == Tache("inscrire", x, Aucun, EtapesInscription(x))
    <2>1. n.operation = "inscrire" /\ n.sujet = x /\ n.reste = EtapesInscription(x)
      BY EtapesFaits, TacheFaits
    <2> HIDE DEF n
    <2>2. InscriptionOK(n)
      BY <2>1 DEF InscriptionOK, EtapesInscription
    <2>3. Prochain(n) = "compte"
      BY <2>1 DEF Prochain, EtapesInscription
    <2> QED
      BY <2>2, <2>3 DEF TacheOK, n
  <1>2. ASSUME NEW x \in Eleves, NEW c \in Classes
        PROVE  LET n == Tache("inscrire", x, c, EtapesInscription(x))
               IN  TacheOK(n) /\ Prochain(n) = "compte"
    <2> DEFINE n == Tache("inscrire", x, c, EtapesInscription(x))
    <2>1. n.operation = "inscrire" /\ n.sujet = x /\ n.classe = c /\ n.reste = EtapesInscription(x)
      BY EtapesFaits, TacheFaits
    <2> HIDE DEF n
    <2>2. InscriptionOK(n)
      BY <2>1 DEF InscriptionOK, EtapesInscription
    <2>3. Prochain(n) = "compte"
      BY <2>1 DEF Prochain, EtapesInscription
    <2> QED
      BY <2>2, <2>3 DEF TacheOK, n
  <1>3. ASSUME NEW x \in Personnes \ SuperAdmins
        PROVE  LET n == Tache("supprimer", x, Aucun, EtapesSuppression(x))
               IN  TacheOK(n) /\ (x \in Eleves \cup Parents => Prochain(n) = "oterProfil")
    <2> DEFINE n == Tache("supprimer", x, Aucun, EtapesSuppression(x))
    <2>1. n.operation = "supprimer" /\ n.sujet = x /\ n.reste = EtapesSuppression(x)
      BY EtapesFaits, TacheFaits
    <2> HIDE DEF n
    <2>2. SuppressionOK(n)
      BY <2>1 DEF SuppressionOK, EtapesSuppression
    <2>3. x \in Eleves \cup Parents => Prochain(n) = "oterProfil"
      BY <2>1 DEF Prochain, EtapesSuppression
    <2> QED
      BY <2>2, <2>3 DEF TacheOK, n
  <1>4. ASSUME NEW x \in Personnes PROVE TacheOK(Tache("retirer", x, Aucun, <<"oterUtilisateur">>))
    <2> DEFINE n == Tache("retirer", x, Aucun, <<"oterUtilisateur">>)
    <2>1. n.operation = "retirer" /\ n.sujet = x /\ n.reste = <<"oterUtilisateur">>
      BY DEF Tache
    <2>2. RetraitOK(n)
      BY <2>1 DEF RetraitOK
    <2> QED
      BY <2>2 DEF TacheOK, n
  <1>5. ASSUME NEW x \in Eleves, NEW c \in Classes
        PROVE  TacheOK(Tache("modifier", x, c, EtapesModification(x)))
    <2> DEFINE n == Tache("modifier", x, c, EtapesModification(x))
    <2>1. n.operation = "modifier" /\ n.sujet = x /\ n.classe = c /\ n.reste = EtapesModification(x)
      BY EtapesFaits, TacheFaits
    <2> HIDE DEF n
    <2>2. ModificationOK(n)
      BY <2>1 DEF ModificationOK, EtapesModification
    <2> QED
      BY <2>2 DEF TacheOK, n
  <1>6. ASSUME NEW x \in Parents \cup Enseignants \cup Administrateurs
        PROVE  TacheOK(Tache("modifier", x, Aucun, EtapesModification(x)))
    <2> DEFINE n == Tache("modifier", x, Aucun, EtapesModification(x))
    <2>1. n.operation = "modifier" /\ n.sujet = x /\ n.reste = EtapesModification(x)
      BY EtapesFaits, TacheFaits
    <2> HIDE DEF n
    <2>2. ModificationOK(n)
      BY <2>1 DEF ModificationOK, EtapesModification
    <2> QED
      BY <2>2 DEF TacheOK, n
  <1>7. ASSUME NEW c \in Classes
        PROVE  TacheOK(Tache("renommer", Aucun, c, <<"lireClasse", "reecrireClasse">>))
    BY EtapesFaits, TacheFaits DEF RenommageOK, TacheOK
  <1>8. ASSUME NEW x \in Enseignants, NEW c \in Classes
        PROVE  TacheOK(Tache("affecter", x, c, <<"affecterEnseignant">>))
    <2> DEFINE n == Tache("affecter", x, c, <<"affecterEnseignant">>)
    <2>1. n.operation = "affecter" /\ n.sujet = x /\ n.classe = c /\ n.reste = <<"affecterEnseignant">>
      BY DEF Tache
    <2> HIDE DEF n
    <2>2. AffectationOK(n)
      BY <2>1 DEF AffectationOK
    <2> QED
      BY <2>2 DEF TacheOK, n
  <1> QED
    BY <1>1, <1>2, <1>3, <1>4, <1>5, <1>6, <1>7, <1>8

-----------------------------------------------------------------------------
(***************************************************************************)
(* What a step does to the registers, to the lists of pupils and to the    *)
(* task of one page. Several actions have the same effect.                 *)
(***************************************************************************)
registres == <<comptes, utilisateurs, profils, supprimes, retires>>

\* An operation starts, or ends.
EffetNeuf(a, n) ==
    /\ Change(a, n)
    /\ UNCHANGED <<registres, classes>>
    /\ n.copie = Inconnue
    /\ ~Tient(n)
    /\ n.operation \in {"supprimer", "retirer"} => n.sujet \in utilisateurs \cup supprimes
    /\ n.operation = "supprimer" /\ n.sujet \in Eleves \cup Parents =>
         n.sujet \in profils /\ Prochain(n) = "oterProfil"

\* A call that changes none of the registers returned.
EffetSuite(a, n) ==
    /\ Change(a, n)
    /\ UNCHANGED <<registres, classes>>
    /\ Poursuit(tache[a], n)
    /\ tache[a].operation # "inscrire"
    /\ tache[a].operation = "supprimer" => tache[a].sujet \notin Eleves \cup Parents

\* The account is created.
EffetCompte(a, n) ==
    /\ Change(a, n)
    /\ Poursuit(tache[a], n)
    /\ tache[a].operation = "inscrire"
    /\ Prochain(tache[a]) = "compte"
    /\ Prochain(n) = IF tache[a].sujet \in SuperAdmins THEN "profil" ELSE "utilisateur"
    /\ tache[a].sujet \in Personnes \ comptes
    /\ comptes' = comptes \cup {tache[a].sujet}
    /\ UNCHANGED <<utilisateurs, profils, supprimes, retires, classes>>

\* The user's document is written.
EffetUtilisateur(a, n) ==
    /\ Change(a, n)
    /\ tache[a].operation = "inscrire"
    /\ Prochain(tache[a]) = "utilisateur"
    /\ \/ tache[a].sujet \in SuperAdmins /\ n = Repos
       \/ tache[a].sujet \notin SuperAdmins /\ Poursuit(tache[a], n) /\ Prochain(n) = "profil"
    /\ tache[a].sujet \in Personnes
    /\ utilisateurs' = utilisateurs \cup {tache[a].sujet}
    /\ UNCHANGED <<comptes, profils, supprimes, retires, classes>>

\* The profile is written.
EffetProfil(a, n) ==
    /\ Change(a, n)
    /\ tache[a].operation = "inscrire"
    /\ Prochain(tache[a]) = "profil"
    /\ \/ tache[a].sujet \in SuperAdmins /\ Poursuit(tache[a], n) /\ Prochain(n) = "utilisateur"
       \/ tache[a].sujet \in Eleves /\ Poursuit(tache[a], n) /\ Prochain(n) = "lireClasse"
       \/ tache[a].sujet \notin SuperAdmins /\ n = Repos
    /\ tache[a].sujet \in Personnes
    /\ profils' = profils \cup {tache[a].sujet}
    /\ UNCHANGED <<comptes, utilisateurs, supprimes, retires, classes>>

\* The class is read.
EffetLecture(a, n) ==
    /\ Change(a, n)
    /\ n.operation = tache[a].operation
    /\ n.sujet = tache[a].sujet
    /\ n.classe = tache[a].classe
    /\ tache[a].operation \in {"inscrire", "renommer"}
    /\ tache[a].operation = "inscrire" => Prochain(n) = "inscrireClasse" /\ Prochain(tache[a]) = "lireClasse"
    /\ tache[a].classe \in Classes
    /\ n.copie = classes[tache[a].classe]
    /\ UNCHANGED <<registres, classes>>

\* A class is written, at the end of an operation: nobody enters its list
\* but from the copy of the task, or as its subject.
EffetEcriture(a) ==
    /\ Change(a, Repos)
    /\ UNCHANGED registres
    /\ \A c \in Classes : \A x \in classes'[c].elevesIds :
         \/ x \in classes[c].elevesIds
         \/ c = tache[a].classe /\ x \in tache[a].copie.elevesIds
         \/ c = tache[a].classe /\ x = tache[a].sujet /\ Tient(tache[a])

\* The profile is deleted.
EffetOterProfil(a, n) ==
    /\ Change(a, n)
    /\ tache[a].operation = "supprimer"
    /\ \/ n = Repos
       \/ Poursuit(tache[a], n) /\ Prochain(n) = "oterUtilisateur"
    /\ profils' = profils \ {tache[a].sujet}
    /\ UNCHANGED <<comptes, utilisateurs, supprimes, retires, classes>>

\* The user's document is deleted.
EffetOterUtilisateur(a, n) ==
    /\ Change(a, n)
    /\ Prochain(tache[a]) = "oterUtilisateur"
    /\ \/ tache[a].operation = "supprimer" /\ UNCHANGED retires
       \/ tache[a].operation = "retirer" /\ retires' = retires \cup {tache[a].sujet}
    /\ \/ n = Repos
       \/ Poursuit(tache[a], n) /\ tache[a].operation = "supprimer" /\ tache[a].sujet \notin Eleves \cup Parents
    /\ tache[a].sujet \in Personnes
    /\ utilisateurs' = utilisateurs \ {tache[a].sujet}
    /\ supprimes' = supprimes \cup {tache[a].sujet}
    /\ UNCHANGED <<comptes, profils, classes>>

\* A class appears, is deleted or is emptied: nobody enters its list.
EffetClasse ==
    /\ UNCHANGED <<registres, tache>>
    /\ \A c \in Classes : classes'[c].elevesIds \subseteq classes[c].elevesIds

-----------------------------------------------------------------------------
\* The end of an operation.
LEMMA FinEffet ==
  ASSUME Socle, NEW a \in Agents, Fin(a), UNCHANGED <<registres, classes>>
  PROVE  EffetNeuf(a, Repos)
  BY AppelFaits, ReposFaits, ComptesHypotheses DEF EffetNeuf, Tient, Operations

\* A step that changes no collection but classeDe keeps the types.
LEMMA TypeSiChange ==
  ASSUME Socle, NEW a \in Agents, NEW n, Change(a, n), UNCHANGED <<registres, classes>>,
         classeDe' \in [Eleves -> Classes \cup {Aucun}]
  PROVE  Socle'
  <1>1. tache' \in [Agents -> Taches] /\ InvTache'
    BY ChangeFaits
  <1> QED
    BY <1>1 DEF Socle, TypeOK, registres

\* A registration starts.
LEMMA InscrireEffet ==
  ASSUME Socle, NEW a \in Agents, NEW x \in Personnes, Inscrire(a, x)
  PROVE  Socle' /\ \E n : EffetNeuf(a, n)
  <1>1. PICK c \in Classes \cup {Aucun} :
          LET n == Tache("inscrire", x, c, EtapesInscription(x))
          IN  tache' = [tache EXCEPT ![a] = n] /\ TacheOK(n) /\ Prochain(n) = "compte"
    BY DebutFaits DEF Inscrire, Debut
  <1> DEFINE n == Tache("inscrire", x, c, EtapesInscription(x))
  <1>e. "inscrire" \in Operations /\ EtapesInscription(x) \in Seq(Etapes)
    BY EtapesFaits DEF Operations, Personnes
  <1>2. n \in Taches /\ n.operation = "inscrire" /\ n.copie = Inconnue
    BY <1>e, TacheFaits
  <1>3. Change(a, n) /\ Prochain(n) = "compte"
    BY <1>1, <1>2 DEF Change
  <1> HIDE DEF n
  <1>4. UNCHANGED <<registres, classes>> /\ classeDe' = classeDe
    BY DEF Inscrire, registres, historique
  <1>5. EffetNeuf(a, n)
    BY <1>2, <1>3, <1>4 DEF EffetNeuf, Tient
  <1> QED
    BY <1>3, <1>4, <1>5, TypeSiChange DEF Socle, TypeOK

\* A deletion starts.
LEMMA SupprimerEffet ==
  ASSUME Socle, NEW a \in Agents, NEW x \in Personnes, Supprimer(a, x)
  PROVE  Socle' /\ \E n : EffetNeuf(a, n)
  <1> DEFINE n == Tache("supprimer", x, Aucun, EtapesSuppression(x))
  <1>1. x \notin SuperAdmins
    BY ComptesHypotheses DEF Supprimer
  <1>2. TacheOK(n) /\ (x \in Eleves \cup Parents => Prochain(n) = "oterProfil")
    BY <1>1, DebutFaits
  <1>e. "supprimer" \in Operations /\ EtapesSuppression(x) \in Seq(Etapes)
    BY EtapesFaits DEF Operations, Personnes
  <1>3. n \in Taches /\ n.operation = "supprimer" /\ n.copie = Inconnue /\ n.sujet = x
    BY <1>e, TacheFaits
  <1>4. tache' = [tache EXCEPT ![a] = n]
    BY DEF Supprimer, Debut
  <1>5. x \in utilisateurs \cup supprimes /\ (x \in Eleves \cup Parents => x \in profils)
    BY ComptesHypotheses DEF Supprimer
  <1> HIDE DEF n
  <1>6. Change(a, n)
    BY <1>2, <1>3, <1>4 DEF Change
  <1>7. UNCHANGED <<registres, classes>> /\ classeDe' = classeDe
    BY DEF Supprimer, registres, historique
  <1>8. EffetNeuf(a, n)
    BY <1>2, <1>3, <1>5, <1>6, <1>7 DEF EffetNeuf, Tient
  <1> QED
    BY <1>6, <1>7, <1>8, TypeSiChange DEF Socle, TypeOK

\* A deletion from the list of all users starts.
LEMMA RetirerEffet ==
  ASSUME Socle, NEW a \in Agents, NEW x \in Personnes, Retirer(a, x)
  PROVE  Socle' /\ \E n : EffetNeuf(a, n)
  <1> DEFINE n == Tache("retirer", x, Aucun, <<"oterUtilisateur">>)
  <1>2. TacheOK(n)
    BY DebutFaits
  <1>e. "retirer" \in Operations /\ <<"oterUtilisateur">> \in Seq(Etapes) /\ Inconnue \in ClasseModele
    BY EtapesFaits DEF Operations, Personnes, Inconnue, ClasseModele
  <1>3. n \in Taches /\ n.operation = "retirer" /\ n.copie = Inconnue /\ n.sujet = x
    BY <1>e DEF Tache, Taches
  <1>4. tache' = [tache EXCEPT ![a] = n] /\ x \in utilisateurs
    BY DEF Retirer, Debut
  <1> HIDE DEF n
  <1>6. Change(a, n)
    BY <1>2, <1>3, <1>4 DEF Change
  <1>7. UNCHANGED <<registres, classes>> /\ classeDe' = classeDe
    BY DEF Retirer, registres, historique
  <1>8. EffetNeuf(a, n)
    BY <1>3, <1>4, <1>6, <1>7 DEF EffetNeuf, Tient
  <1> QED
    BY <1>6, <1>7, <1>8, TypeSiChange DEF Socle, TypeOK

\* A modification starts.
LEMMA ModifierEffet ==
  ASSUME Socle, NEW a \in Agents, NEW x \in Personnes, Modifier(a, x)
  PROVE  Socle' /\ \E n : EffetNeuf(a, n)
  <1>1. PICK c \in Classes \cup {Aucun} :
          LET n == Tache("modifier", x, c, EtapesModification(x))
          IN  tache' = [tache EXCEPT ![a] = n] /\ TacheOK(n)
    BY DebutFaits DEF Modifier, Debut
  <1> DEFINE n == Tache("modifier", x, c, EtapesModification(x))
  <1>e. "modifier" \in Operations /\ EtapesModification(x) \in Seq(Etapes)
    BY EtapesFaits DEF Operations, Personnes
  <1>2. n \in Taches /\ n.operation = "modifier" /\ n.copie = Inconnue
    BY <1>e, TacheFaits
  <1>3. Change(a, n)
    BY <1>1, <1>2 DEF Change
  <1> HIDE DEF n
  <1>4. UNCHANGED <<registres, classes>> /\ classeDe' = classeDe
    BY DEF Modifier, registres, historique
  <1>5. EffetNeuf(a, n)
    BY <1>2, <1>3, <1>4 DEF EffetNeuf, Tient
  <1> QED
    BY <1>3, <1>4, <1>5, TypeSiChange DEF Socle, TypeOK

\* The page of a class is opened.
LEMMA RenommerEffet ==
  ASSUME Socle, NEW a \in Agents, NEW c \in Classes, Renommer(a, c)
  PROVE  Socle' /\ \E n : EffetNeuf(a, n)
  <1> DEFINE n == Tache("renommer", Aucun, c, <<"lireClasse", "reecrireClasse">>)
  <1>1. TacheOK(n)
    BY DebutFaits
  <1>e. "renommer" \in Operations /\ <<"lireClasse", "reecrireClasse">> \in Seq(Etapes) /\ Inconnue \in ClasseModele
    BY EtapesFaits DEF Operations, Personnes, Inconnue, ClasseModele
  <1>2. n \in Taches /\ n.operation = "renommer" /\ n.copie = Inconnue
    BY <1>e DEF Tache, Taches
  <1>3. Change(a, n)
    BY <1>1, <1>2 DEF Change, Renommer, Debut
  <1> HIDE DEF n
  <1>4. UNCHANGED <<registres, classes>> /\ classeDe' = classeDe
    BY DEF Renommer, registres, historique
  <1>5. EffetNeuf(a, n)
    BY <1>2, <1>3, <1>4 DEF EffetNeuf, Tient
  <1> QED
    BY <1>3, <1>4, <1>5, TypeSiChange DEF Socle, TypeOK

\* A teacher is chosen for a class.
LEMMA AffecterEffet ==
  ASSUME Socle, NEW a \in Agents, NEW c \in Classes, NEW e \in Enseignants, Affecter(a, c, e)
  PROVE  Socle' /\ \E n : EffetNeuf(a, n)
  <1> DEFINE n == Tache("affecter", e, c, <<"affecterEnseignant">>)
  <1>1. TacheOK(n)
    BY DebutFaits
  <1>e. "affecter" \in Operations /\ <<"affecterEnseignant">> \in Seq(Etapes) /\ e \in Personnes /\ Inconnue \in ClasseModele
    BY EtapesFaits DEF Operations, Personnes, Inconnue, ClasseModele
  <1>2. n \in Taches /\ n.operation = "affecter" /\ n.copie = Inconnue
    BY <1>e DEF Tache, Taches
  <1>3. Change(a, n)
    BY <1>1, <1>2 DEF Change, Affecter, Debut
  <1> HIDE DEF n
  <1>4. UNCHANGED <<registres, classes>> /\ classeDe' = classeDe
    BY DEF Affecter, registres, historique
  <1>5. EffetNeuf(a, n)
    BY <1>2, <1>3, <1>4 DEF EffetNeuf, Tient
  <1> QED
    BY <1>3, <1>4, <1>5, TypeSiChange DEF Socle, TypeOK

-----------------------------------------------------------------------------
(***************************************************************************)
(* The steps that make the next call of an operation.                      *)
(***************************************************************************)
\* What the call of a registration is followed by.
LEMMA InscriptionFaits ==
  ASSUME Socle, NEW a \in Agents, InscriptionOK(tache[a]), Suite(a)
  PROVE  /\ Change(a, Avance(tache[a]))
         /\ SuiteInscription(tache[a], Avance(tache[a]))
         /\ tache[a].operation = "inscrire"
         /\ tache[a].sujet \in Personnes
         /\ tache[a].sujet \in Eleves => tache[a].classe \in Classes
  <1>1. tache[a] \in Taches /\ tache' = [tache EXCEPT ![a] = Avance(tache[a])]
    BY AppelFaits
  <1>2. tache[a].operation = "inscrire"
    BY DEF InscriptionOK
  <1> QED
    BY <1>1, <1>2, ChaineInscription DEF Change

\* What the call of a deletion is followed by.
LEMMA SuppressionFaits ==
  ASSUME Socle, NEW a \in Agents, SuppressionOK(tache[a]), Suite(a)
  PROVE  /\ Change(a, Avance(tache[a]))
         /\ SuiteSuppression(tache[a], Avance(tache[a]))
         /\ tache[a].operation = "supprimer"
         /\ tache[a].sujet \in Personnes
  <1>1. tache[a] \in Taches /\ tache' = [tache EXCEPT ![a] = Avance(tache[a])]
    BY AppelFaits
  <1>2. tache[a].operation = "supprimer"
    BY DEF SuppressionOK
  <1> QED
    BY <1>1, <1>2, ChaineSuppression DEF Change

\* The account: created, or the operation is over.
LEMMA CreerCompteEffet ==
  ASSUME Socle, NEW a \in Agents, CreerCompte(a)
  PROVE  Socle' /\ \E n : EffetNeuf(a, n) \/ EffetCompte(a, n)
  <1>1. tache[a] \in Taches /\ TacheOK(tache[a]) /\ Prochain(tache[a]) = "compte"
    BY AppelFaits DEF CreerCompte
  <1>2. InscriptionOK(tache[a])
    BY <1>1, QuelleTache
  <1>3. CASE tache[a].sujet \notin comptes /\ comptes' = comptes \cup {tache[a].sujet} /\ Suite(a)
    <2> DEFINE n == Avance(tache[a])
    <2>1. /\ Change(a, n)
          /\ SuiteInscription(tache[a], n)
          /\ tache[a].operation = "inscrire"
          /\ tache[a].sujet \in Personnes
      BY <1>2, <1>3, InscriptionFaits
    <2> HIDE DEF n
    <2>2. UNCHANGED <<utilisateurs, profils, supprimes, retires, classes, classeDe>>
      BY DEF CreerCompte, historique
    <2>3. /\ Poursuit(tache[a], n)
          /\ Prochain(n) = IF tache[a].sujet \in SuperAdmins THEN "profil" ELSE "utilisateur"
      BY <1>1, <2>1 DEF SuiteInscription
    <2>4. EffetCompte(a, n)
      BY <1>1, <1>3, <2>1, <2>2, <2>3 DEF EffetCompte
    <2>5. tache' \in [Agents -> Taches] /\ InvTache'
      BY <2>1, ChangeFaits
    <2>6. Socle'
      BY <1>3, <2>1, <2>2, <2>5 DEF Socle, TypeOK
    <2> QED
      BY <2>4, <2>6
  <1>4. CASE Fin(a) /\ UNCHANGED comptes
    <2>1. UNCHANGED <<registres, classes>> /\ classeDe' = classeDe
      BY <1>4 DEF CreerCompte, registres, historique
    <2>2. EffetNeuf(a, Repos) /\ Change(a, Repos)
      BY <1>4, <2>1, FinEffet, AppelFaits
    <2> QED
      BY <2>1, <2>2, TypeSiChange DEF Socle, TypeOK
  <1> QED
    BY <1>3, <1>4 DEF CreerCompte

\* The user's document of a registration.
LEMMA EcrireUtilisateurEffet ==
  ASSUME Socle, NEW a \in Agents, EcrireUtilisateur(a)
  PROVE  Socle' /\ \E n : EffetUtilisateur(a, n)
  <1> DEFINE n == Avance(tache[a])
  <1>1. tache[a] \in Taches /\ TacheOK(tache[a]) /\ Prochain(tache[a]) = "utilisateur"
    BY AppelFaits DEF EcrireUtilisateur
  <1>2. InscriptionOK(tache[a]) /\ Suite(a)
    BY <1>1, QuelleTache DEF EcrireUtilisateur
  <1>3. /\ Change(a, n)
        /\ SuiteInscription(tache[a], n)
        /\ tache[a].operation = "inscrire"
        /\ tache[a].sujet \in Personnes
    BY <1>2, InscriptionFaits
  <1> HIDE DEF n
  <1>4. /\ utilisateurs' = utilisateurs \cup {tache[a].sujet}
        /\ UNCHANGED <<comptes, profils, supprimes, retires, classes, classeDe>>
    BY DEF EcrireUtilisateur, historique
  <1>5. \/ tache[a].sujet \in SuperAdmins /\ n = Repos
        \/ tache[a].sujet \notin SuperAdmins /\ Poursuit(tache[a], n) /\ Prochain(n) = "profil"
    BY <1>1, <1>3 DEF SuiteInscription
  <1>6. EffetUtilisateur(a, n)
    BY <1>1, <1>3, <1>4, <1>5 DEF EffetUtilisateur
  <1>7. tache' \in [Agents -> Taches] /\ InvTache'
    BY <1>3, ChangeFaits
  <1>8. Socle'
    BY <1>3, <1>4, <1>7 DEF Socle, TypeOK
  <1> QED
    BY <1>6, <1>8

\* The profile of a registration.
LEMMA EcrireProfilEffet ==
  ASSUME Socle, NEW a \in Agents, EcrireProfil(a)
  PROVE  Socle' /\ \E n : EffetProfil(a, n)
  <1> DEFINE n == Avance(tache[a])
  <1>1. tache[a] \in Taches /\ TacheOK(tache[a]) /\ Prochain(tache[a]) = "profil"
    BY AppelFaits DEF EcrireProfil
  <1>2. InscriptionOK(tache[a]) /\ Suite(a)
    BY <1>1, QuelleTache DEF EcrireProfil
  <1>3. /\ Change(a, n)
        /\ SuiteInscription(tache[a], n)
        /\ tache[a].operation = "inscrire"
        /\ tache[a].sujet \in Personnes
        /\ tache[a].sujet \in Eleves => tache[a].classe \in Classes
    BY <1>2, InscriptionFaits
  <1> HIDE DEF n
  <1>4. /\ profils' = profils \cup {tache[a].sujet}
        /\ UNCHANGED <<comptes, utilisateurs, supprimes, retires, classes>>
    BY DEF EcrireProfil, historique
  <1>5. \/ tache[a].sujet \in SuperAdmins /\ Poursuit(tache[a], n) /\ Prochain(n) = "utilisateur"
        \/ tache[a].sujet \in Eleves /\ Poursuit(tache[a], n) /\ Prochain(n) = "lireClasse"
        \/ tache[a].sujet \notin SuperAdmins /\ n = Repos
    BY <1>1, <1>3 DEF SuiteInscription
  <1>6. EffetProfil(a, n)
    BY <1>1, <1>3, <1>4, <1>5 DEF EffetProfil
  <1>7. tache' \in [Agents -> Taches] /\ InvTache'
    BY <1>3, ChangeFaits
  <1>8. classeDe' \in [Eleves -> Classes \cup {Aucun}]
    BY <1>3 DEF EcrireProfil, Socle, TypeOK
  <1>9. Socle'
    BY <1>3, <1>4, <1>7, <1>8 DEF Socle, TypeOK
  <1> QED
    BY <1>6, <1>9

\* The class is read, or gone.
LEMMA LireClasseEffet ==
  ASSUME Socle, NEW a \in Agents, LireClasse(a)
  PROVE  Socle' /\ \E n : EffetNeuf(a, n) \/ EffetLecture(a, n)
  <1> DEFINE k == classes[tache[a].classe]
             n == AvecCopie(tache[a], k)
  <1>1. tache[a] \in Taches /\ TacheOK(tache[a]) /\ Prochain(tache[a]) = "lireClasse"
    BY AppelFaits DEF LireClasse
  <1>2. UNCHANGED <<registres, classes>> /\ classeDe' = classeDe
    BY DEF LireClasse, registres, historique
  <1>3. CASE tache' = [tache EXCEPT ![a] = n]
    <2>1. tache[a].classe \in Classes
      <3>1. InscriptionOK(tache[a]) \/ RenommageOK(tache[a])
        BY <1>1, QuelleTache
      <3>2. CASE InscriptionOK(tache[a])
        BY <1>1, <3>2, ChaineInscription
      <3> QED
        BY <3>1, <3>2 DEF RenommageOK
    <2>2. k \in ClasseModele
      BY <2>1 DEF Socle, TypeOK
    <2> HIDE DEF k
    <2>3. /\ n \in Taches
          /\ TacheOK(n)
          /\ n.operation = tache[a].operation
          /\ n.sujet = tache[a].sujet
          /\ n.classe = tache[a].classe
          /\ n.copie = k
          /\ tache[a].operation = "inscrire" => Prochain(n) = "inscrireClasse"
          /\ tache[a].operation \in {"inscrire", "renommer"}
      BY <1>1, <2>2, LectureFaits
    <2> HIDE DEF n
    <2>4. Change(a, n)
      BY <1>3, <2>3 DEF Change
    <2>5. EffetLecture(a, n)
      BY <1>1, <1>2, <2>1, <2>3, <2>4 DEF EffetLecture, k
    <2> QED
      BY <1>2, <2>4, <2>5, TypeSiChange DEF Socle, TypeOK
  <1>4. CASE Fin(a)
    <2>2. EffetNeuf(a, Repos) /\ Change(a, Repos)
      BY <1>2, <1>4, FinEffet, AppelFaits
    <2> QED
      BY <1>2, <2>2, TypeSiChange DEF Socle, TypeOK
  <1> QED
    BY <1>3, <1>4 DEF LireClasse

\* A step that changes the classes and ends an operation keeps the types.
LEMMA TypeSiEcriture ==
  ASSUME Socle, NEW a \in Agents, Fin(a), UNCHANGED <<registres, classeDe>>,
         classes' \in [Classes -> ClasseModele]
  PROVE  Socle'
  <1>1. tache' \in [Agents -> Taches] /\ InvTache'
    BY AppelFaits, ChangeFaits
  <1> QED
    BY <1>1 DEF Socle, TypeOK, registres

\* The list read is written back, with the pupil.
LEMMA InscrireClasseEffet ==
  ASSUME Socle, NEW a \in Agents, InscrireClasse(a)
  PROVE  Socle' /\ EffetEcriture(a)
  <1> DEFINE t == tache[a]
  <1>1. t \in Taches /\ TacheOK(t) /\ Prochain(t) = "inscrireClasse"
    BY AppelFaits DEF InscrireClasse
  <1>2. InscriptionOK(t)
    BY <1>1, QuelleTache
  <1>3. t.sujet \in Eleves /\ t.classe \in Classes /\ t.operation = "inscrire"
    BY <1>1, <1>2, ChaineInscription DEF InscriptionOK
  <1>4. t.copie \in ClasseModele
    BY <1>1 DEF Taches
  <1>5. Tient(t)
    BY <1>1, <1>3 DEF Tient
  <1>6. Fin(a) /\ UNCHANGED <<registres, classeDe>>
    BY DEF InscrireClasse, registres, historique
  <1>7. Change(a, Repos)
    BY <1>6, AppelFaits
  <1>8. classes \in [Classes -> ClasseModele]
    BY DEF Socle, TypeOK
  <1>9. CASE classes' = [classes EXCEPT ![t.classe].elevesIds = t.copie.elevesIds \cup {t.sujet}]
    <2> HIDE DEF t
    <2>1. classes' \in [Classes -> ClasseModele]
      BY <1>3, <1>4, <1>8, <1>9 DEF ClasseModele
    <2>2. \A c \in Classes :
            classes'[c].elevesIds = IF c = t.classe THEN t.copie.elevesIds \cup {t.sujet} ELSE classes[c].elevesIds
      BY <1>3, <1>8, <1>9 DEF ClasseModele
    <2>3. EffetEcriture(a)
      BY <1>5, <1>6, <1>7, <2>2 DEF EffetEcriture, t
    <2> QED
      BY <1>6, <2>1, <2>3, TypeSiEcriture
  <1>10. CASE UNCHANGED classes
    BY <1>6, <1>7, <1>8, <1>10, TypeSiEcriture DEF EffetEcriture
  <1> QED
    BY <1>9, <1>10 DEF InscrireClasse

\* The copy of the class is written back.
LEMMA ReecrireClasseEffet ==
  ASSUME Socle, NEW a \in Agents, ReecrireClasse(a)
  PROVE  Socle' /\ EffetEcriture(a)
  <1> DEFINE t == tache[a]
  <1>1. t \in Taches /\ TacheOK(t) /\ Prochain(t) = "reecrireClasse"
    BY AppelFaits DEF ReecrireClasse
  <1>2. t.classe \in Classes
    BY <1>1, QuelleTache DEF RenommageOK
  <1>3. t.copie \in ClasseModele
    BY <1>1 DEF Taches
  <1>4. Fin(a) /\ UNCHANGED <<registres, classeDe>> /\ classes' = [classes EXCEPT ![t.classe] = t.copie]
    BY DEF ReecrireClasse, registres, historique
  <1>5. Change(a, Repos)
    BY <1>4, AppelFaits
  <1>6. classes \in [Classes -> ClasseModele]
    BY DEF Socle, TypeOK
  <1> HIDE DEF t
  <1>7. /\ classes' \in [Classes -> ClasseModele]
        /\ \A c \in Classes : classes'[c] = IF c = t.classe THEN t.copie ELSE classes[c]
    BY <1>2, <1>3, <1>4, <1>6
  <1>8. EffetEcriture(a)
    BY <1>4, <1>5, <1>7 DEF EffetEcriture, t
  <1> QED
    BY <1>4, <1>7, <1>8, TypeSiEcriture

\* A teacher enters the list of a class.
LEMMA AffecterEnseignantEffet ==
  ASSUME Socle, NEW a \in Agents, AffecterEnseignant(a)
  PROVE  Socle' /\ EffetEcriture(a)
  <1> DEFINE t == tache[a]
  <1>1. t \in Taches /\ TacheOK(t) /\ Prochain(t) = "affecterEnseignant"
    BY AppelFaits DEF AffecterEnseignant
  <1>2. t.classe \in Classes /\ t.sujet \in Enseignants
    BY <1>1, QuelleTache DEF AffectationOK
  <1>3. Fin(a) /\ UNCHANGED <<registres, classeDe>>
    BY DEF AffecterEnseignant, registres, historique
  <1>4. Change(a, Repos)
    BY <1>3, AppelFaits
  <1>5. classes \in [Classes -> ClasseModele]
    BY DEF Socle, TypeOK
  <1>6. CASE classes' = [classes EXCEPT ![t.classe].enseignantsIds = @ \cup {t.sujet}]
    <2> HIDE DEF t
    <2>1. classes' \in [Classes -> ClasseModele]
      BY <1>2, <1>5, <1>6 DEF ClasseModele
    <2>2. \A c \in Classes : classes'[c].elevesIds = classes[c].elevesIds
      BY <1>2, <1>5, <1>6 DEF ClasseModele
    <2> QED
      BY <1>3, <1>4, <2>1, <2>2, TypeSiEcriture DEF EffetEcriture
  <1>7. CASE UNCHANGED classes
    BY <1>3, <1>4, <1>5, <1>7, TypeSiEcriture DEF EffetEcriture
  <1> QED
    BY <1>6, <1>7 DEF AffecterEnseignant

\* A profile is deleted.
LEMMA OterProfilEffet ==
  ASSUME Socle, NEW a \in Agents, OterProfil(a)
  PROVE  Socle' /\ \E n : EffetOterProfil(a, n)
  <1> DEFINE n == Avance(tache[a])
  <1>1. tache[a] \in Taches /\ TacheOK(tache[a]) /\ Prochain(tache[a]) = "oterProfil"
    BY AppelFaits DEF OterProfil
  <1>2. SuppressionOK(tache[a]) /\ Suite(a)
    BY <1>1, QuelleTache DEF OterProfil
  <1>3. /\ Change(a, n)
        /\ SuiteSuppression(tache[a], n)
        /\ tache[a].operation = "supprimer"
        /\ tache[a].sujet \in Personnes
    BY <1>2, SuppressionFaits
  <1> HIDE DEF n
  <1>4. /\ profils' = profils \ {tache[a].sujet}
        /\ UNCHANGED <<comptes, utilisateurs, supprimes, retires, classes, classeDe>>
    BY DEF OterProfil, historique
  <1>5. n = Repos \/ (Poursuit(tache[a], n) /\ Prochain(n) = "oterUtilisateur")
    BY <1>1, <1>3 DEF SuiteSuppression
  <1>6. EffetOterProfil(a, n)
    BY <1>3, <1>4, <1>5 DEF EffetOterProfil
  <1>7. tache' \in [Agents -> Taches] /\ InvTache'
    BY <1>3, ChangeFaits
  <1>8. Socle'
    BY <1>3, <1>4, <1>7 DEF Socle, TypeOK
  <1> QED
    BY <1>6, <1>8

\* A user's document is deleted.
LEMMA OterUtilisateurEffet ==
  ASSUME Socle, NEW a \in Agents, OterUtilisateur(a)
  PROVE  Socle' /\ \E n : EffetOterUtilisateur(a, n)
  <1> DEFINE n == Avance(tache[a])
  <1>1. tache[a] \in Taches /\ TacheOK(tache[a]) /\ Prochain(tache[a]) = "oterUtilisateur"
    BY AppelFaits DEF OterUtilisateur
  <1>2. /\ utilisateurs' = utilisateurs \ {tache[a].sujet}
        /\ supprimes' = supprimes \cup {tache[a].sujet}
        /\ retires' = IF tache[a].operation = "retirer" THEN retires \cup {tache[a].sujet} ELSE retires
        /\ Suite(a)
        /\ UNCHANGED <<comptes, profils, classes, classeDe>>
    BY DEF OterUtilisateur
  <1>3. CASE SuppressionOK(tache[a])
    <2>1. /\ Change(a, n)
          /\ SuiteSuppression(tache[a], n)
          /\ tache[a].operation = "supprimer"
          /\ tache[a].sujet \in Personnes
      BY <1>2, <1>3, SuppressionFaits
    <2> HIDE DEF n
    <2>2. n = Repos \/ (Poursuit(tache[a], n) /\ tache[a].sujet \notin Eleves \cup Parents)
      BY <1>1, <2>1 DEF SuiteSuppression
    <2>3. retires' = retires
      BY <1>2, <2>1
    <2>4. EffetOterUtilisateur(a, n)
      BY <1>1, <1>2, <2>1, <2>2, <2>3 DEF EffetOterUtilisateur
    <2>5. tache' \in [Agents -> Taches] /\ InvTache'
      BY <2>1, ChangeFaits
    <2>6. Socle'
      BY <1>2, <2>1, <2>3, <2>5 DEF Socle, TypeOK
    <2> QED
      BY <2>4, <2>6
  <1>4. CASE RetraitOK(tache[a])
    <2>1. tache[a].operation = "retirer" /\ tache[a].sujet \in Personnes
      BY <1>4 DEF RetraitOK
    <2>2. n = Repos
      BY <1>1, <1>4, Avance1 DEF RetraitOK
    <2>3. Change(a, n)
      <3>1. tache' = [tache EXCEPT ![a] = n]
        BY <1>2, AppelFaits
      <3>2. n \in Taches /\ TacheOK(n)
        BY <2>2, ReposFaits DEF TacheOK
      <3> QED
        BY <3>1, <3>2 DEF Change
    <2> HIDE DEF n
    <2>4. EffetOterUtilisateur(a, n)
      BY <1>1, <1>2, <2>1, <2>2, <2>3 DEF EffetOterUtilisateur
    <2>5. tache' \in [Agents -> Taches] /\ InvTache'
      BY <2>3, ChangeFaits
    <2>6. Socle'
      BY <1>2, <2>1, <2>5 DEF Socle, TypeOK
    <2> QED
      BY <2>4, <2>6
  <1> QED
    BY <1>1, <1>3, <1>4, QuelleTache

\* The profile is looked up.
LEMMA ChercherProfilEffet ==
  ASSUME Socle, NEW a \in Agents, ChercherProfil(a)
  PROVE  Socle' /\ \E n : EffetNeuf(a, n) \/ EffetSuite(a, n)
  <1> DEFINE m == [tache[a] EXCEPT !.reste = <<"oterUtilisateur">>]
  <1>1. tache[a] \in Taches /\ TacheOK(tache[a]) /\ Prochain(tache[a]) = "chercherProfil"
    BY AppelFaits DEF ChercherProfil
  <1>2. UNCHANGED <<registres, classes>> /\ classeDe' = classeDe
    BY DEF ChercherProfil, registres, historique
  <1>3. /\ m \in Taches
        /\ Poursuit(tache[a], m)
        /\ Len(tache[a].reste) # 2 => TacheOK(m)
        /\ SuppressionOK(tache[a])
        /\ tache[a].sujet \notin Eleves \cup Parents
    BY <1>1, RechercheFaits
  <1>4. tache[a].operation = "supprimer"
    BY <1>3 DEF SuppressionOK
  <1>5. ASSUME NEW n, Change(a, n), Poursuit(tache[a], n) PROVE Socle' /\ EffetSuite(a, n)
    <2>1. EffetSuite(a, n)
      BY <1>2, <1>3, <1>4, <1>5 DEF EffetSuite
    <2>2. Socle'
      BY <1>2, <1>5, TypeSiChange DEF Socle, TypeOK
    <2> QED
      BY <2>1, <2>2
  <1>6. CASE Suite(a)
    <2>1. Change(a, Avance(tache[a])) /\ SuiteSuppression(tache[a], Avance(tache[a]))
      BY <1>3, <1>6, SuppressionFaits
    <2>2. Poursuit(tache[a], Avance(tache[a]))
      BY <1>1, <2>1 DEF SuiteSuppression
    <2> QED
      BY <1>5, <2>1, <2>2
  <1>7. CASE Fin(a)
    <2>2. EffetNeuf(a, Repos) /\ Change(a, Repos)
      BY <1>2, <1>7, FinEffet, AppelFaits
    <2> QED
      BY <1>2, <2>2, TypeSiChange DEF Socle, TypeOK
  <1>8. CASE Len(tache[a].reste) # 2 /\ tache' = [tache EXCEPT ![a] = m]
    <2>1. Change(a, m)
      BY <1>3, <1>8 DEF Change
    <2> QED
      BY <1>3, <1>5, <2>1
  <1> QED
    BY <1>6, <1>7, <1>8 DEF ChercherProfil

\* The pupil's document is updated, or gone.
LEMMA MajProfilEffet ==
  ASSUME Socle, NEW a \in Agents, MajProfil(a)
  PROVE  Socle' /\ \E n : EffetNeuf(a, n) \/ EffetSuite(a, n)
  <1> DEFINE n == Avance(tache[a])
  <1>1. tache[a] \in Taches /\ TacheOK(tache[a]) /\ Prochain(tache[a]) = "majProfil"
    BY AppelFaits DEF MajProfil
  <1>2. UNCHANGED <<registres, classes>>
    BY DEF MajProfil, registres, historique
  <1>3. ModificationOK(tache[a])
    BY <1>1, QuelleTache
  <1>4. tache[a].operation = "modifier"
    BY <1>3 DEF ModificationOK
  <1>5. /\ n \in Taches /\ TacheOK(n)
        /\ n = Repos \/ Poursuit(tache[a], n)
        /\ tache[a].sujet \in Eleves /\ tache[a].classe \in Classes
    BY <1>1, <1>3, <1>4, ChaineAutre
  <1>6. CASE Suite(a) /\ classeDe' = [classeDe EXCEPT ![tache[a].sujet] = tache[a].classe]
    <2>1. Change(a, n)
      BY <1>5, <1>6, AppelFaits DEF Change
    <2> HIDE DEF n
    <2>2. classeDe' \in [Eleves -> Classes \cup {Aucun}]
      BY <1>5, <1>6 DEF Socle, TypeOK
    <2>3. Socle'
      BY <1>2, <2>1, <2>2, TypeSiChange
    <2>4. CASE Poursuit(tache[a], n)
      BY <1>2, <1>4, <2>1, <2>3, <2>4 DEF EffetSuite
    <2>5. CASE n = Repos
      <3>1. EffetNeuf(a, n)
        BY <1>2, <2>1, <2>5, ReposFaits, ComptesHypotheses DEF EffetNeuf, Tient, Operations
      <3> QED
        BY <2>3, <3>1
    <2> QED
      BY <1>5, <2>4, <2>5
  <1>7. CASE Fin(a) /\ UNCHANGED classeDe
    <2>2. EffetNeuf(a, Repos) /\ Change(a, Repos)
      BY <1>2, <1>7, FinEffet, AppelFaits
    <2> QED
      BY <1>2, <1>7, <2>2, TypeSiChange DEF Socle, TypeOK
  <1> QED
    BY <1>6, <1>7 DEF MajProfil

\* The user's document is updated, and the operation is over; an operation
\* is interrupted.
LEMMA FinSeuleEffet ==
  ASSUME Socle, NEW a \in Agents, MajUtilisateur(a) \/ Interrompre(a)
  PROVE  Socle' /\ EffetNeuf(a, Repos)
  <1>1. Fin(a) /\ UNCHANGED <<registres, classes>> /\ classeDe' = classeDe
    BY DEF MajUtilisateur, Interrompre, registres, historique
  <1>2. EffetNeuf(a, Repos) /\ Change(a, Repos)
    BY <1>1, FinEffet, AppelFaits
  <1> QED
    BY <1>1, <1>2, TypeSiChange DEF Socle, TypeOK

\* The steps of a single call, on a class.
LEMMA ClasseEffet ==
  ASSUME Socle, NEW c \in Classes, AjouterClasse(c) \/ SupprimerClasse(c) \/ ResetClasse(c)
  PROVE  Socle' /\ EffetClasse
  <1>1. UNCHANGED <<registres, tache, classeDe>>
    BY DEF AjouterClasse, SupprimerClasse, ResetClasse, registres, historique
  <1>2. classes \in [Classes -> ClasseModele]
    BY DEF Socle, TypeOK
  <1>3. /\ classes' \in [Classes -> ClasseModele]
        /\ \A d \in Classes : classes'[d].elevesIds \subseteq classes[d].elevesIds
    <2>1. CASE AjouterClasse(c)
      BY <1>2, <2>1 DEF AjouterClasse, ClasseModele
    <2>2. CASE SupprimerClasse(c)
      BY <1>2, <2>2 DEF SupprimerClasse, ClasseModele, Inconnue
    <2>3. CASE ResetClasse(c)
      BY <1>2, <2>3 DEF ResetClasse, ClasseModele
    <2> QED
      BY <2>1, <2>2, <2>3
  <1>4. Socle'
    BY <1>1, <1>3 DEF Socle, TypeOK, InvTache, registres
  <1> QED
    BY <1>1, <1>3, <1>4 DEF EffetClasse

-----------------------------------------------------------------------------
(***************************************************************************)
(* The inductive invariant.                                                *)
(***************************************************************************)
\* Everybody the collections, the copies and the registrations under way
\* mention has an account.
InvComptes ==
    /\ utilisateurs \cup supprimes \cup profils \subseteq comptes
    /\ \A c \in Classes : classes[c].elevesIds \subseteq comptes
    /\ \A a \in Agents : tache[a].copie.elevesIds \subseteq comptes
    /\ \A a \in Agents : Tient(tache[a]) => tache[a].sujet \in comptes

\* The account is a lock: one registration at a time goes beyond it.
InvVerrou ==
    \A a, b \in Agents :
        Tient(tache[a]) /\ Tient(tache[b]) /\ tache[a].sujet = tache[b].sujet => a = b

\* A user deleted, or about to be, was written.
InvConnus ==
    \A a \in Agents :
        tache[a].operation \in {"supprimer", "retirer"} => tache[a].sujet \in utilisateurs \cup supprimes

\* The user's document that a registration is still to write was never there.
AvantUtilisateur(t) == Tient(t) /\ (Prochain(t) = "utilisateur" \/ t.sujet \in SuperAdmins)

InvAvant ==
    \A a \in Agents :
        AvantUtilisateur(tache[a]) => tache[a].sujet \notin utilisateurs \cup supprimes

\* The same of the profile of a pupil or a parent, whose user was written.
AvantProfil(t) ==
    Tient(t) /\ t.sujet \in Eleves \cup Parents /\ Prochain(t) \in {"utilisateur", "profil"}

InvProfil ==
    \A a \in Agents :
        AvantProfil(tache[a]) =>
            /\ tache[a].sujet \notin profils
            /\ Prochain(tache[a]) = "profil" => tache[a].sujet \in utilisateurs \cup retires

\* The deletion of a pupil or a parent meets no profile still to be written,
\* and leaves none when it comes to the user.
SupprimeEleve(t) == t.operation = "supprimer" /\ t.sujet \in Eleves \cup Parents

InvSuppression ==
    \A a \in Agents :
        SupprimeEleve(tache[a]) =>
            /\ \A b \in Agents : AvantProfil(tache[b]) => tache[b].sujet # tache[a].sujet
            /\ Prochain(tache[a]) = "oterUtilisateur" => tache[a].sujet \notin profils

\* A pupil is tied to one class by the lists, their copies and the
\* registration under way.
Mention(x, c) ==
    \/ x \in classes[c].elevesIds
    \/ \E a \in Agents : tache[a].classe = c /\ x \in tache[a].copie.elevesIds
    \/ \E a \in Agents : tache[a].classe = c /\ Tient(tache[a]) /\ tache[a].sujet = x

InvClasse == \A x \in Eleves, c, d \in Classes : Mention(x, c) /\ Mention(x, d) => c = d

Inv ==
    /\ InvComptes
    /\ InvVerrou
    /\ InvConnus
    /\ InvAvant
    /\ InvProfil
    /\ InvSuppression
    /\ InvClasse
    /\ PasDeRetour
    /\ SansOrphelin

-----------------------------------------------------------------------------
\* A page at rest holds nothing.
LEMMA ReposInactif ==
  /\ Repos.operation \notin {"inscrire", "supprimer", "retirer"}
  /\ Repos.copie.elevesIds = {}
  /\ Inconnue.elevesIds = {}
  BY ReposFaits, ComptesHypotheses DEF Operations, Inconnue

\* Nothing new ties a pupil to a class.
LEMMA ClasseTenue ==
  ASSUME InvClasse, \A x \in Eleves, c \in Classes : Mention(x, c)' => Mention(x, c)
  PROVE  InvClasse'
  BY DEF InvClasse

\* An operation starts, or ends.
LEMMA NeufInv ==
  ASSUME Socle, Inv, NEW a \in Agents, NEW n, EffetNeuf(a, n)
  PROVE  Inv'
  <1>1. /\ tache'[a] = n
        /\ \A b \in Agents : b # a => tache'[b] = tache[b]
    BY ChangeFaits DEF EffetNeuf
  <1>2. /\ UNCHANGED registres
        /\ classes' = classes
        /\ n.copie.elevesIds = {}
        /\ ~Tient(n)
        /\ n.operation \in {"supprimer", "retirer"} => n.sujet \in utilisateurs \cup supprimes
        /\ n.operation = "supprimer" /\ n.sujet \in Eleves \cup Parents =>
             n.sujet \in profils /\ Prochain(n) = "oterProfil"
    BY ReposInactif DEF EffetNeuf
  <1>3. InvComptes'
    BY <1>1, <1>2 DEF Inv, InvComptes, registres
  <1>4. InvVerrou'
    BY <1>1, <1>2 DEF Inv, InvVerrou
  <1>5. InvConnus'
    BY <1>1, <1>2 DEF Inv, InvConnus, registres
  <1>6. InvAvant'
    BY <1>1, <1>2 DEF Inv, InvAvant, AvantUtilisateur, registres
  <1>7. InvProfil'
    BY <1>1, <1>2 DEF Inv, InvProfil, AvantProfil, registres
  <1>8. InvSuppression'
    BY <1>1, <1>2 DEF Inv, InvSuppression, InvProfil, AvantProfil, SupprimeEleve, registres
  <1>9. InvClasse'
    <2>1. \A x \in Eleves, c \in Classes : Mention(x, c)' => Mention(x, c)
      BY <1>1, <1>2 DEF Mention
    <2> QED
      BY <2>1, ClasseTenue DEF Inv
  <1>10. PasDeRetour' /\ SansOrphelin'
    BY <1>2 DEF Inv, PasDeRetour, SansOrphelin, registres
  <1> QED
    BY <1>3, <1>4, <1>5, <1>6, <1>7, <1>8, <1>9, <1>10 DEF Inv

\* A call that changes none of the registers returned.
LEMMA SuiteInv ==
  ASSUME Socle, Inv, NEW a \in Agents, NEW n, EffetSuite(a, n)
  PROVE  Inv'
  <1>1. /\ tache'[a] = n
        /\ \A b \in Agents : b # a => tache'[b] = tache[b]
    BY ChangeFaits DEF EffetSuite
  <1>2. /\ UNCHANGED registres
        /\ classes' = classes
        /\ n.operation = tache[a].operation
        /\ n.sujet = tache[a].sujet
        /\ n.classe = tache[a].classe
        /\ n.copie = tache[a].copie
        /\ tache[a].operation # "inscrire"
        /\ ~SupprimeEleve(tache[a])
    BY DEF EffetSuite, Poursuit, SupprimeEleve
  <1>3. InvComptes'
    BY <1>1, <1>2 DEF Inv, InvComptes, Tient, registres
  <1>4. InvVerrou'
    BY <1>1, <1>2 DEF Inv, InvVerrou, InvComptes, Tient
  <1>5. InvConnus'
    BY <1>1, <1>2 DEF Inv, InvConnus, registres
  <1>6. InvAvant'
    BY <1>1, <1>2 DEF Inv, InvAvant, AvantUtilisateur, Tient, registres
  <1>7. InvProfil'
    BY <1>1, <1>2 DEF Inv, InvProfil, AvantProfil, Tient, registres
  <1>8. InvSuppression'
    BY <1>1, <1>2 DEF Inv, InvSuppression, InvProfil, AvantProfil, SupprimeEleve, Tient, registres
  <1>9. InvClasse'
    <2>1. \A x \in Eleves, c \in Classes : Mention(x, c)' => Mention(x, c)
      BY <1>1, <1>2 DEF Mention, Tient
    <2> QED
      BY <2>1, ClasseTenue DEF Inv
  <1>10. PasDeRetour'
    BY <1>1, <1>2 DEF Inv, PasDeRetour, registres
  <1>11. SansOrphelin'
    BY <1>1, <1>2 DEF Inv, SansOrphelin, registres
  <1> QED
    BY <1>3, <1>4, <1>5, <1>6, <1>7, <1>8, <1>9, <1>10, <1>11 DEF Inv

\* The account is created: nobody else holds it, and nothing mentioned it.
LEMMA CompteInv ==
  ASSUME Socle, Inv, NEW a \in Agents, NEW n, EffetCompte(a, n)
  PROVE  Inv'
  <1>1. /\ tache'[a] = n
        /\ \A b \in Agents : b # a => tache'[b] = tache[b]
    BY ChangeFaits DEF EffetCompte
  <1>2. /\ n.operation = tache[a].operation
        /\ n.sujet = tache[a].sujet
        /\ n.classe = tache[a].classe
        /\ n.copie = tache[a].copie
        /\ tache[a].operation = "inscrire"
        /\ Prochain(tache[a]) = "compte"
        /\ Prochain(n) = IF tache[a].sujet \in SuperAdmins THEN "profil" ELSE "utilisateur"
        /\ tache[a].sujet \in Personnes \ comptes
        /\ comptes' = comptes \cup {tache[a].sujet}
        /\ UNCHANGED <<utilisateurs, profils, supprimes, retires, classes>>
    BY DEF EffetCompte, Poursuit
  <1>3. InvComptes'
    BY <1>1, <1>2 DEF Inv, InvComptes, Tient
  <1>4. InvVerrou'
    BY <1>1, <1>2 DEF Inv, InvVerrou, InvComptes, Tient
  <1>5. InvConnus'
    BY <1>1, <1>2 DEF Inv, InvConnus
  <1>6. InvAvant'
    BY <1>1, <1>2 DEF Inv, InvAvant, InvComptes, AvantUtilisateur, Tient
  <1>7. InvProfil'
    BY <1>1, <1>2, ComptesHypotheses DEF Inv, InvProfil, InvComptes, AvantProfil, Tient
  <1>8. InvSuppression'
    BY <1>1, <1>2 DEF Inv, InvSuppression, InvConnus, InvComptes, AvantProfil, SupprimeEleve, Tient
  <1>9. InvClasse'
    <2>1. ASSUME NEW x \in Eleves, NEW c \in Classes, Mention(x, c)'
          PROVE  Mention(x, c) \/ (x = tache[a].sujet /\ c = tache[a].classe)
      BY <1>1, <1>2, <2>1 DEF Mention, Tient
    <2>2. \A c \in Classes : ~Mention(tache[a].sujet, c)
      BY <1>2 DEF Inv, InvComptes, Mention
    <2> QED
      BY <2>1, <2>2 DEF Inv, InvClasse
  <1>10. PasDeRetour'
    BY <1>1, <1>2 DEF Inv, PasDeRetour
  <1>11. SansOrphelin'
    BY <1>1, <1>2 DEF Inv, SansOrphelin
  <1> QED
    BY <1>3, <1>4, <1>5, <1>6, <1>7, <1>8, <1>9, <1>10, <1>11 DEF Inv

\* The user's document is written, for the first time.
LEMMA UtilisateurInv ==
  ASSUME Socle, Inv, NEW a \in Agents, NEW n, EffetUtilisateur(a, n)
  PROVE  Inv'
  <1>1. /\ tache'[a] = n
        /\ \A b \in Agents : b # a => tache'[b] = tache[b]
    BY ChangeFaits DEF EffetUtilisateur
  <1>2. /\ tache[a].operation = "inscrire"
        /\ Prochain(tache[a]) = "utilisateur"
        /\ \/ tache[a].sujet \in SuperAdmins /\ n.operation \notin {"inscrire", "supprimer", "retirer"} /\ n.copie.elevesIds = {}
           \/ /\ n.operation = "inscrire" /\ n.sujet = tache[a].sujet /\ n.classe = tache[a].classe
              /\ n.copie = tache[a].copie /\ Prochain(n) = "profil" /\ tache[a].sujet \notin SuperAdmins
        /\ utilisateurs' = utilisateurs \cup {tache[a].sujet}
        /\ UNCHANGED <<comptes, profils, supprimes, retires, classes>>
    BY ReposInactif DEF EffetUtilisateur, Poursuit
  <1>3. InvComptes'
    BY <1>1, <1>2 DEF Inv, InvComptes, Tient
  <1>4. InvVerrou'
    BY <1>1, <1>2 DEF Inv, InvVerrou, InvComptes, Tient
  <1>5. InvConnus'
    BY <1>1, <1>2 DEF Inv, InvConnus
  <1>6. InvAvant'
    BY <1>1, <1>2 DEF Inv, InvAvant, InvVerrou, AvantUtilisateur, Tient
  <1>7. InvProfil'
    BY <1>1, <1>2 DEF Inv, InvProfil, AvantProfil, Tient
  <1>8. InvSuppression'
    BY <1>1, <1>2 DEF Inv, InvSuppression, InvProfil, AvantProfil, SupprimeEleve, Tient
  <1>9. InvClasse'
    <2>1. \A x \in Eleves, c \in Classes : Mention(x, c)' => Mention(x, c)
      BY <1>1, <1>2 DEF Mention, Tient
    <2> QED
      BY <2>1, ClasseTenue DEF Inv
  <1>10. PasDeRetour'
    BY <1>1, <1>2 DEF Inv, PasDeRetour, InvAvant, AvantUtilisateur, Tient
  <1>11. SansOrphelin'
    BY <1>1, <1>2 DEF Inv, SansOrphelin
  <1> QED
    BY <1>3, <1>4, <1>5, <1>6, <1>7, <1>8, <1>9, <1>10, <1>11 DEF Inv

\* The profile is written.
LEMMA ProfilInv ==
  ASSUME Socle, Inv, NEW a \in Agents, NEW n, EffetProfil(a, n)
  PROVE  Inv'
  <1>1. /\ tache'[a] = n
        /\ \A b \in Agents : b # a => tache'[b] = tache[b]
    BY ChangeFaits DEF EffetProfil
  <1>2. /\ tache[a].operation = "inscrire"
        /\ Prochain(tache[a]) = "profil"
        /\ \/ n.operation \notin {"inscrire", "supprimer", "retirer"} /\ n.copie.elevesIds = {}
           \/ /\ n.operation = "inscrire" /\ n.sujet = tache[a].sujet /\ n.classe = tache[a].classe
              /\ n.copie = tache[a].copie
              /\ \/ Prochain(n) = "utilisateur" /\ tache[a].sujet \in SuperAdmins
                 \/ Prochain(n) = "lireClasse" /\ tache[a].sujet \in Eleves
        /\ profils' = profils \cup {tache[a].sujet}
        /\ UNCHANGED <<comptes, utilisateurs, supprimes, retires, classes>>
    BY ReposInactif DEF EffetProfil, Poursuit
  <1>3. InvComptes'
    BY <1>1, <1>2 DEF Inv, InvComptes, Tient
  <1>4. InvVerrou'
    BY <1>1, <1>2 DEF Inv, InvVerrou, InvComptes, Tient
  <1>5. InvConnus'
    BY <1>1, <1>2 DEF Inv, InvConnus
  <1>6. InvAvant'
    BY <1>1, <1>2, ComptesHypotheses DEF Inv, InvAvant, AvantUtilisateur, Tient
  <1>7. InvProfil'
    BY <1>1, <1>2, ComptesHypotheses DEF Inv, InvProfil, InvVerrou, AvantProfil, Tient
  <1>8. InvSuppression'
    BY <1>1, <1>2, ComptesHypotheses DEF Inv, InvSuppression, AvantProfil, SupprimeEleve, Tient
  <1>9. InvClasse'
    <2>1. \A x \in Eleves, c \in Classes : Mention(x, c)' => Mention(x, c)
      BY <1>1, <1>2 DEF Mention, Tient
    <2> QED
      BY <2>1, ClasseTenue DEF Inv
  <1>10. PasDeRetour'
    BY <1>1, <1>2 DEF Inv, PasDeRetour
  <1>11. SansOrphelin'
    BY <1>1, <1>2 DEF Inv, SansOrphelin, InvProfil, AvantProfil, Tient
  <1> QED
    BY <1>3, <1>4, <1>5, <1>6, <1>7, <1>8, <1>9, <1>10, <1>11 DEF Inv

\* The class is read.
LEMMA LectureInv ==
  ASSUME Socle, Inv, NEW a \in Agents, NEW n, EffetLecture(a, n)
  PROVE  Inv'
  <1>1. /\ tache'[a] = n
        /\ \A b \in Agents : b # a => tache'[b] = tache[b]
    BY ChangeFaits DEF EffetLecture
  <1>2. /\ n.operation = tache[a].operation
        /\ n.sujet = tache[a].sujet
        /\ n.classe = tache[a].classe
        /\ tache[a].operation \in {"inscrire", "renommer"}
        /\ tache[a].operation = "inscrire" => Prochain(n) = "inscrireClasse" /\ Prochain(tache[a]) = "lireClasse"
        /\ tache[a].classe \in Classes
        /\ n.copie = classes[tache[a].classe]
        /\ UNCHANGED registres
        /\ classes' = classes
    BY DEF EffetLecture
  <1>3. InvComptes'
    BY <1>1, <1>2 DEF Inv, InvComptes, Tient, registres
  <1>4. InvVerrou'
    BY <1>1, <1>2 DEF Inv, InvVerrou, InvComptes, Tient
  <1>5. InvConnus'
    BY <1>1, <1>2 DEF Inv, InvConnus, registres
  <1>6. InvAvant'
    BY <1>1, <1>2 DEF Inv, InvAvant, AvantUtilisateur, Tient, registres
  <1>7. InvProfil'
    BY <1>1, <1>2 DEF Inv, InvProfil, AvantProfil, Tient, registres
  <1>8. InvSuppression'
    BY <1>1, <1>2 DEF Inv, InvSuppression, InvProfil, AvantProfil, SupprimeEleve, Tient, registres
  <1>9. InvClasse'
    <2>1. \A x \in Eleves, c \in Classes : Mention(x, c)' => Mention(x, c)
      BY <1>1, <1>2 DEF Mention, Tient
    <2> QED
      BY <2>1, ClasseTenue DEF Inv
  <1>10. PasDeRetour'
    BY <1>1, <1>2 DEF Inv, PasDeRetour, registres
  <1>11. SansOrphelin'
    BY <1>1, <1>2 DEF Inv, SansOrphelin, registres
  <1> QED
    BY <1>3, <1>4, <1>5, <1>6, <1>7, <1>8, <1>9, <1>10, <1>11 DEF Inv

\* A class is written.
LEMMA EcritureInv ==
  ASSUME Socle, Inv, NEW a \in Agents, EffetEcriture(a)
  PROVE  Inv'
  <1>1. /\ tache'[a] = Repos
        /\ \A b \in Agents : b # a => tache'[b] = tache[b]
    BY ChangeFaits DEF EffetEcriture
  <1>2. /\ Repos.operation \notin {"inscrire", "supprimer", "retirer"}
        /\ Repos.copie.elevesIds = {}
        /\ UNCHANGED registres
        /\ \A c \in Classes : \A x \in classes'[c].elevesIds :
             \/ x \in classes[c].elevesIds
             \/ c = tache[a].classe /\ x \in tache[a].copie.elevesIds
             \/ c = tache[a].classe /\ x = tache[a].sujet /\ Tient(tache[a])
    BY ReposInactif DEF EffetEcriture
  <1>3. InvComptes'
    BY <1>1, <1>2 DEF Inv, InvComptes, Tient, registres
  <1>4. InvVerrou'
    BY <1>1, <1>2 DEF Inv, InvVerrou, InvComptes, Tient
  <1>5. InvConnus'
    BY <1>1, <1>2 DEF Inv, InvConnus, registres
  <1>6. InvAvant'
    BY <1>1, <1>2 DEF Inv, InvAvant, AvantUtilisateur, Tient, registres
  <1>7. InvProfil'
    BY <1>1, <1>2 DEF Inv, InvProfil, AvantProfil, Tient, registres
  <1>8. InvSuppression'
    BY <1>1, <1>2 DEF Inv, InvSuppression, InvProfil, AvantProfil, SupprimeEleve, Tient, registres
  <1>9. InvClasse'
    <2>1. \A x \in Eleves, c \in Classes : Mention(x, c)' => Mention(x, c)
      BY <1>1, <1>2 DEF Mention, Tient
    <2> QED
      BY <2>1, ClasseTenue DEF Inv
  <1>10. PasDeRetour'
    BY <1>1, <1>2 DEF Inv, PasDeRetour, registres
  <1>11. SansOrphelin'
    BY <1>1, <1>2 DEF Inv, SansOrphelin, registres
  <1> QED
    BY <1>3, <1>4, <1>5, <1>6, <1>7, <1>8, <1>9, <1>10, <1>11 DEF Inv

\* The profile is deleted.
LEMMA OterProfilInv ==
  ASSUME Socle, Inv, NEW a \in Agents, NEW n, EffetOterProfil(a, n)
  PROVE  Inv'
  <1>1. /\ tache'[a] = n
        /\ \A b \in Agents : b # a => tache'[b] = tache[b]
    BY ChangeFaits DEF EffetOterProfil
  <1>2. /\ tache[a].operation = "supprimer"
        /\ \/ n.operation \notin {"inscrire", "supprimer", "retirer"} /\ n.copie.elevesIds = {}
           \/ /\ n.operation = "supprimer" /\ n.sujet = tache[a].sujet /\ n.classe = tache[a].classe
              /\ n.copie = tache[a].copie /\ Prochain(n) = "oterUtilisateur"
        /\ profils' = profils \ {tache[a].sujet}
        /\ UNCHANGED <<comptes, utilisateurs, supprimes, retires, classes>>
    BY ReposInactif DEF EffetOterProfil, Poursuit
  <1>3. InvComptes'
    BY <1>1, <1>2 DEF Inv, InvComptes, Tient
  <1>4. InvVerrou'
    BY <1>1, <1>2 DEF Inv, InvVerrou, InvComptes, Tient
  <1>5. InvConnus'
    BY <1>1, <1>2 DEF Inv, InvConnus
  <1>6. InvAvant'
    BY <1>1, <1>2 DEF Inv, InvAvant, AvantUtilisateur, Tient
  <1>7. InvProfil'
    BY <1>1, <1>2 DEF Inv, InvProfil, AvantProfil, Tient
  <1>8. InvSuppression'
    BY <1>1, <1>2 DEF Inv, InvSuppression, InvProfil, AvantProfil, SupprimeEleve, Tient
  <1>9. InvClasse'
    <2>1. \A x \in Eleves, c \in Classes : Mention(x, c)' => Mention(x, c)
      BY <1>1, <1>2 DEF Mention, Tient
    <2> QED
      BY <2>1, ClasseTenue DEF Inv
  <1>10. PasDeRetour'
    BY <1>1, <1>2 DEF Inv, PasDeRetour
  <1>11. SansOrphelin'
    BY <1>1, <1>2 DEF Inv, SansOrphelin
  <1> QED
    BY <1>3, <1>4, <1>5, <1>6, <1>7, <1>8, <1>9, <1>10, <1>11 DEF Inv

\* The user's document is deleted.
LEMMA OterUtilisateurInv ==
  ASSUME Socle, Inv, NEW a \in Agents, NEW n, EffetOterUtilisateur(a, n)
  PROVE  Inv'
  <1>1. /\ tache'[a] = n
        /\ \A b \in Agents : b # a => tache'[b] = tache[b]
    BY ChangeFaits DEF EffetOterUtilisateur
  <1>2. /\ Prochain(tache[a]) = "oterUtilisateur"
        /\ \/ tache[a].operation = "supprimer" /\ retires' = retires
           \/ tache[a].operation = "retirer" /\ retires' = retires \cup {tache[a].sujet}
        /\ \/ n.operation \notin {"inscrire", "supprimer", "retirer"} /\ n.copie.elevesIds = {}
           \/ /\ n.operation = "supprimer" /\ n.sujet = tache[a].sujet /\ n.classe = tache[a].classe
              /\ n.copie = tache[a].copie /\ tache[a].sujet \notin Eleves \cup Parents
        /\ utilisateurs' = utilisateurs \ {tache[a].sujet}
        /\ supprimes' = supprimes \cup {tache[a].sujet}
        /\ UNCHANGED <<comptes, profils, classes>>
    BY ReposInactif DEF EffetOterUtilisateur, Poursuit
  <1>3. InvComptes'
    BY <1>1, <1>2 DEF Inv, InvComptes, InvConnus, Tient
  <1>4. InvVerrou'
    BY <1>1, <1>2 DEF Inv, InvVerrou, InvComptes, Tient
  <1>5. InvConnus'
    BY <1>1, <1>2 DEF Inv, InvConnus
  <1>6. InvAvant'
    BY <1>1, <1>2 DEF Inv, InvAvant, InvConnus, AvantUtilisateur, Tient
  <1>7. InvProfil'
    BY <1>1, <1>2 DEF Inv, InvProfil, InvSuppression, SupprimeEleve, AvantProfil, Tient
  <1>8. InvSuppression'
    BY <1>1, <1>2 DEF Inv, InvSuppression, InvProfil, AvantProfil, SupprimeEleve, Tient
  <1>9. InvClasse'
    <2>1. \A x \in Eleves, c \in Classes : Mention(x, c)' => Mention(x, c)
      BY <1>1, <1>2 DEF Mention, Tient
    <2> QED
      BY <2>1, ClasseTenue DEF Inv
  <1>10. PasDeRetour'
    BY <1>1, <1>2 DEF Inv, PasDeRetour
  <1>11. SansOrphelin'
    BY <1>1, <1>2 DEF Inv, SansOrphelin, InvSuppression, SupprimeEleve
  <1> QED
    BY <1>3, <1>4, <1>5, <1>6, <1>7, <1>8, <1>9, <1>10, <1>11 DEF Inv

\* A class appears, is deleted or is emptied; or nothing happens.
LEMMA ClasseInv ==
  ASSUME Socle, Inv, EffetClasse
  PROVE  Inv'
  <1>1. UNCHANGED <<registres, tache>> /\ \A c \in Classes : classes'[c].elevesIds \subseteq classes[c].elevesIds
    BY DEF EffetClasse
  <1>2. InvComptes'
    BY <1>1 DEF Inv, InvComptes, registres
  <1>3. InvVerrou' /\ InvConnus' /\ InvAvant'
    BY <1>1 DEF Inv, InvVerrou, InvConnus, InvAvant, registres
  <1>4. InvProfil' /\ InvSuppression'
    BY <1>1 DEF Inv, InvProfil, InvSuppression, registres
  <1>5. InvClasse'
    <2>1. \A x \in Eleves, c \in Classes : Mention(x, c)' => Mention(x, c)
      BY <1>1 DEF Mention
    <2> QED
      BY <2>1, ClasseTenue DEF Inv
  <1>6. PasDeRetour' /\ SansOrphelin'
    BY <1>1 DEF Inv, PasDeRetour, SansOrphelin, registres
  <1> QED
    BY <1>2, <1>3, <1>4, <1>5, <1>6 DEF Inv

-----------------------------------------------------------------------------
(***************************************************************************)
(* The collections start empty and every page at rest.                     *)
(***************************************************************************)
LEMMA Depart ==
  ASSUME Init
  PROVE  Socle /\ Inv
  <1>1. Repos \in Taches /\ TacheOK(Repos) /\ ~Tient(Repos) /\ Inconnue \in ClasseModele
    BY ReposFaits, ReposInactif DEF TacheOK, Tient, Inconnue, ClasseModele
  <1>2. TypeOK
    BY <1>1 DEF Init, TypeOK
  <1>3. \A a \in Agents : tache[a] = Repos
    BY DEF Init
  <1>4. \A c \in Classes : classes[c].elevesIds = {}
    BY DEF Init, Inconnue
  <1>5. InvTache
    BY <1>1, <1>3 DEF InvTache
  <1>6. InvComptes
    BY <1>1, <1>3, <1>4, ReposInactif DEF Init, InvComptes
  <1>7. InvVerrou /\ InvAvant /\ InvProfil
    BY <1>1, <1>3 DEF InvVerrou, InvAvant, AvantUtilisateur, InvProfil, AvantProfil
  <1>8. InvConnus /\ InvSuppression
    BY <1>3, ReposInactif DEF InvConnus, InvSuppression, SupprimeEleve
  <1>9. InvClasse
    BY <1>1, <1>3, <1>4, ReposInactif DEF InvClasse, Mention
  <1>10. PasDeRetour /\ SansOrphelin
    BY DEF Init, PasDeRetour, SansOrphelin
  <1> QED
    BY <1>2, <1>5, <1>6, <1>7, <1>8, <1>9, <1>10 DEF Socle, Inv

(***************************************************************************)
(* Every step of every page keeps the types and the invariant.             *)
(***************************************************************************)
LEMMA Pas ==
  ASSUME Socle, Inv, [Next]_vars
  PROVE  Socle' /\ Inv'
  <1>1. ASSUME NEW a \in Agents, NEW x \in Personnes,
               Inscrire(a, x) \/ Supprimer(a, x) \/ Retirer(a, x) \/ Modifier(a, x)
        PROVE  Socle' /\ Inv'
    BY <1>1, InscrireEffet, SupprimerEffet, RetirerEffet, ModifierEffet, NeufInv
  <1>2. ASSUME NEW a \in Agents, NEW c \in Classes, Renommer(a, c)
        PROVE  Socle' /\ Inv'
    BY <1>2, RenommerEffet, NeufInv
  <1>3. ASSUME NEW a \in Agents, NEW c \in Classes, NEW e \in Enseignants, Affecter(a, c, e)
        PROVE  Socle' /\ Inv'
    BY <1>3, AffecterEffet, NeufInv
  <1>4. ASSUME NEW a \in Agents, Appel(a)
        PROVE  Socle' /\ Inv'
    <2>1. CASE CreerCompte(a)
      BY <2>1, CreerCompteEffet, NeufInv, CompteInv
    <2>2. CASE EcrireUtilisateur(a)
      BY <2>2, EcrireUtilisateurEffet, UtilisateurInv
    <2>3. CASE EcrireProfil(a)
      BY <2>3, EcrireProfilEffet, ProfilInv
    <2>4. CASE LireClasse(a)
      BY <2>4, LireClasseEffet, NeufInv, LectureInv
    <2>5. CASE InscrireClasse(a)
      BY <2>5, InscrireClasseEffet, EcritureInv
    <2>6. CASE ReecrireClasse(a)
      BY <2>6, ReecrireClasseEffet, EcritureInv
    <2>7. CASE AffecterEnseignant(a)
      BY <2>7, AffecterEnseignantEffet, EcritureInv
    <2>8. CASE OterProfil(a)
      BY <2>8, OterProfilEffet, OterProfilInv
    <2>9. CASE OterUtilisateur(a)
      BY <2>9, OterUtilisateurEffet, OterUtilisateurInv
    <2>10. CASE ChercherProfil(a)
      BY <2>10, ChercherProfilEffet, NeufInv, SuiteInv
    <2>11. CASE MajProfil(a)
      BY <2>11, MajProfilEffet, NeufInv, SuiteInv
    <2>12. CASE MajUtilisateur(a)
      BY <2>12, FinSeuleEffet, NeufInv
    <2> QED
      BY <1>4, <2>1, <2>2, <2>3, <2>4, <2>5, <2>6, <2>7, <2>8, <2>9, <2>10, <2>11, <2>12 DEF Appel
  <1>5. ASSUME NEW a \in Agents, Interrompre(a)
        PROVE  Socle' /\ Inv'
    BY <1>5, FinSeuleEffet, NeufInv
  <1>6. ASSUME NEW c \in Classes, AjouterClasse(c) \/ SupprimerClasse(c) \/ ResetClasse(c)
        PROVE  Socle' /\ Inv'
    BY <1>6, ClasseEffet, ClasseInv
  <1>7. CASE UNCHANGED vars
    <2>1. UNCHANGED <<registres, tache, classes, classeDe>>
      BY <1>7 DEF vars, registres
    <2>2. Socle'
      BY <2>1 DEF Socle, TypeOK, InvTache, registres
    <2>3. EffetClasse
      BY <2>1 DEF EffetClasse
    <2> QED
      BY <2>2, <2>3, ClasseInv
  <1>8. CASE Next
    BY <1>8, <1>1, <1>2, <1>3, <1>4, <1>5, <1>6 DEF Next
  <1> QED
    BY <1>7, <1>8

(***************************************************************************)
(* The invariant of the chains of calls: types, shape of the tasks, and    *)
(* the account as the lock of a registration.                              *)
(***************************************************************************)
THEOREM Inductif == Spec => [](Socle /\ Inv)
  <1>1. Init => Socle /\ Inv
    BY Depart
  <1>2. Socle /\ Inv /\ [Next]_vars => (Socle /\ Inv)'
    BY Pas
  <1> QED
    BY <1>1, <1>2, PTL DEF Spec

(***************************************************************************)
(* The collections and the chains of calls keep their types.               *)
(***************************************************************************)
THEOREM TypeCorrect == Spec => []TypeOK
  <1>1. Socle /\ Inv => TypeOK
    BY DEF Socle
  <1> QED
    BY <1>1, Inductif, PTL

(***************************************************************************)
(* A pupil is in the list of at most one class, for any number of pages    *)
(* that register and rename at the same time (_enregistrerEleve,           *)
(* _modifierClasse).                                                       *)
(***************************************************************************)
THEOREM UneSeuleClasseTenue == Spec => []UneSeuleClasse
  <1>1. Socle /\ Inv => UneSeuleClasse
    BY DEF Inv, InvClasse, Mention, UneSeuleClasse
  <1> QED
    BY <1>1, Inductif, PTL

(***************************************************************************)
(* No deletion of a pupil or a parent leaves a profile without a user      *)
(* (_supprimerParent and its twins), wherever it stops.                    *)
(***************************************************************************)
THEOREM SansOrphelinTenue == Spec => []SansOrphelin
  <1>1. Socle /\ Inv => SansOrphelin
    BY DEF Inv
  <1> QED
    BY <1>1, Inductif, PTL

(***************************************************************************)
(* A user once deleted is never written again.                             *)
(***************************************************************************)
THEOREM PasDeRetourTenue == Spec => []PasDeRetour
  <1>1. Socle /\ Inv => PasDeRetour
    BY DEF Inv
  <1> QED
    BY <1>1, Inductif, PTL

-----------------------------------------------------------------------------
(***************************************************************************)
(* An account is spent by one registration.                                *)
(***************************************************************************)
\* What CompteBrule asks of a step.
Brule ==
    \A x \in comptes :
        ~EnInscription(x) => ~EnInscription(x)' /\ (x \in utilisateurs' => x \in utilisateurs)

\* A registration under way is a task that holds the account, in any state.
LEMMA InscriptionTient ==
  /\ \A x : EnInscription(x) <=> \E a \in Agents : Tient(tache[a]) /\ tache[a].sujet = x
  /\ \A x : EnInscription(x)' <=> \E a \in Agents : Tient(tache'[a]) /\ tache'[a].sujet = x
  BY DEF EnInscription, A, Tient, Prochain

\* A step of one page that takes no account that exists, and writes the user
\* of a registration under way at most.
LEMMA BruleSi ==
  ASSUME Socle, NEW a \in Agents, NEW n, Change(a, n),
         Tient(n) => \/ n.sujet \notin comptes
                     \/ Tient(tache[a]) /\ n.sujet = tache[a].sujet,
         \/ utilisateurs' \subseteq utilisateurs
         \/ Tient(tache[a]) /\ utilisateurs' = utilisateurs \cup {tache[a].sujet}
  PROVE  Brule
  <1>1. /\ tache'[a] = n
        /\ \A b \in Agents : b # a => tache'[b] = tache[b]
    BY ChangeFaits
  <1>2. SUFFICES ASSUME NEW x \in comptes, ~EnInscription(x)
                 PROVE  ~EnInscription(x)' /\ (x \in utilisateurs' => x \in utilisateurs)
    BY DEF Brule
  <1>3. \A b \in Agents : ~(Tient(tache[b]) /\ tache[b].sujet = x)
    BY <1>2, InscriptionTient
  <1>4. \A b \in Agents : ~(Tient(tache'[b]) /\ tache'[b].sujet = x)
    BY <1>1, <1>3
  <1> QED
    BY <1>3, <1>4, InscriptionTient

\* The effects of the calls.
LEMMA EffetsBrule ==
  ASSUME Socle, NEW a \in Agents, NEW n
  PROVE  /\ EffetNeuf(a, n) => Brule
         /\ EffetSuite(a, n) => Brule
         /\ EffetCompte(a, n) => Brule
         /\ EffetUtilisateur(a, n) => Brule
         /\ EffetProfil(a, n) => Brule
         /\ EffetLecture(a, n) => Brule
         /\ EffetEcriture(a) => Brule
         /\ EffetOterProfil(a, n) => Brule
         /\ EffetOterUtilisateur(a, n) => Brule
  <1>r. ~Tient(Repos)
    BY ReposInactif DEF Tient
  <1>1. EffetNeuf(a, n) => Brule
    BY BruleSi DEF EffetNeuf, registres
  <1>2. EffetSuite(a, n) => Brule
    BY BruleSi DEF EffetSuite, Poursuit, Tient, registres
  <1>3. EffetCompte(a, n) => Brule
    BY BruleSi DEF EffetCompte, Poursuit
  <1>4. EffetUtilisateur(a, n) => Brule
    BY BruleSi, <1>r DEF EffetUtilisateur, Poursuit, Tient
  <1>5. EffetProfil(a, n) => Brule
    BY BruleSi, <1>r DEF EffetProfil, Poursuit, Tient
  <1>6. EffetLecture(a, n) => Brule
    BY BruleSi DEF EffetLecture, Tient, registres
  <1>7. EffetEcriture(a) => Brule
    BY BruleSi, <1>r DEF EffetEcriture, registres
  <1>8. EffetOterProfil(a, n) => Brule
    BY BruleSi, <1>r DEF EffetOterProfil, Poursuit, Tient
  <1>9. EffetOterUtilisateur(a, n) => Brule
    BY BruleSi, <1>r DEF EffetOterUtilisateur, Poursuit, Tient
  <1> QED
    BY <1>1, <1>2, <1>3, <1>4, <1>5, <1>6, <1>7, <1>8, <1>9

\* A step that leaves the tasks and the users alone.
LEMMA BruleSansTache ==
  ASSUME UNCHANGED <<tache, utilisateurs>>
  PROVE  Brule
  <1>1. \A x : EnInscription(x)' <=> EnInscription(x)
    BY InscriptionTient
  <1> QED
    BY <1>1 DEF Brule

\* Every step, from the effects of its action.
LEMMA PasBrule ==
  ASSUME Socle, Inv, [Next]_vars
  PROVE  Brule
  <1>1. ASSUME NEW a \in Agents, NEW x \in Personnes,
               Inscrire(a, x) \/ Supprimer(a, x) \/ Retirer(a, x) \/ Modifier(a, x)
        PROVE  Brule
    BY <1>1, InscrireEffet, SupprimerEffet, RetirerEffet, ModifierEffet, EffetsBrule
  <1>2. ASSUME NEW a \in Agents, NEW c \in Classes, Renommer(a, c)
        PROVE  Brule
    BY <1>2, RenommerEffet, EffetsBrule
  <1>3. ASSUME NEW a \in Agents, NEW c \in Classes, NEW e \in Enseignants, Affecter(a, c, e)
        PROVE  Brule
    BY <1>3, AffecterEffet, EffetsBrule
  <1>4. ASSUME NEW a \in Agents, Appel(a)
        PROVE  Brule
    <2>1. CASE CreerCompte(a)
      BY <2>1, CreerCompteEffet, EffetsBrule
    <2>2. CASE EcrireUtilisateur(a)
      BY <2>2, EcrireUtilisateurEffet, EffetsBrule
    <2>3. CASE EcrireProfil(a)
      BY <2>3, EcrireProfilEffet, EffetsBrule
    <2>4. CASE LireClasse(a)
      BY <2>4, LireClasseEffet, EffetsBrule
    <2>5. CASE InscrireClasse(a)
      BY <2>5, InscrireClasseEffet, EffetsBrule
    <2>6. CASE ReecrireClasse(a)
      BY <2>6, ReecrireClasseEffet, EffetsBrule
    <2>7. CASE AffecterEnseignant(a)
      BY <2>7, AffecterEnseignantEffet, EffetsBrule
    <2>8. CASE OterProfil(a)
      BY <2>8, OterProfilEffet, EffetsBrule
    <2>9. CASE OterUtilisateur(a)
      BY <2>9, OterUtilisateurEffet, EffetsBrule
    <2>10. CASE ChercherProfil(a)
      BY <2>10, ChercherProfilEffet, EffetsBrule
    <2>11. CASE MajProfil(a)
      BY <2>11, MajProfilEffet, EffetsBrule
    <2>12. CASE MajUtilisateur(a)
      BY <2>12, FinSeuleEffet, EffetsBrule
    <2> QED
      BY <1>4, <2>1, <2>2, <2>3, <2>4, <2>5, <2>6, <2>7, <2>8, <2>9, <2>10, <2>11, <2>12 DEF Appel
  <1>5. ASSUME NEW a \in Agents, Interrompre(a)
        PROVE  Brule
    BY <1>5, FinSeuleEffet, EffetsBrule
  <1>6. ASSUME NEW c \in Classes, AjouterClasse(c) \/ SupprimerClasse(c) \/ ResetClasse(c)
        PROVE  Brule
    BY <1>6, BruleSansTache DEF AjouterClasse, SupprimerClasse, ResetClasse
  <1>7. CASE UNCHANGED vars
    BY <1>7, BruleSansTache DEF vars
  <1>8. CASE Next
    BY <1>8, <1>1, <1>2, <1>3, <1>4, <1>5, <1>6 DEF Next
  <1> QED
    BY <1>7, <1>8

(***************************************************************************)
(* A registration that stopped after createUserWithEmailAndPassword is     *)
(* never resumed, and no user is written for its account any more.         *)
(***************************************************************************)
THEOREM CompteBruleTenu == Spec => CompteBrule
  <1>1. Socle /\ Inv /\ [Next]_vars => Brule
    BY PasBrule
  <1> QED
    BY <1>1, Inductif, PTL DEF Spec, CompteBrule, Brule

-----------------------------------------------------------------------------
(***************************************************************************)
(* A registration writes the user before the profile.                      *)
(***************************************************************************)
\* The profile comes next, and the role is one whose user comes first.
AvantProfilSeul(t) == Tient(t) /\ Prochain(t) = "profil" /\ t.sujet \notin SuperAdmins

Ecrits == utilisateurs \cup supprimes

InvEcrit ==
    /\ \A a \in Agents : AvantProfilSeul(tache[a]) => tache[a].sujet \in Ecrits
    /\ OrphelinSupprime

\* A step of one page: the users once written stay written, and the only
\* profile it may add is that of a task about to write it.
LEMMA EcritSi ==
  ASSUME Socle, InvEcrit, NEW a \in Agents, NEW n, Change(a, n),
         Ecrits \subseteq Ecrits',
         AvantProfilSeul(n) => n.sujet \in Ecrits',
         \/ profils' \subseteq profils
         \/ /\ profils' = profils \cup {tache[a].sujet}
            /\ AvantProfilSeul(tache[a]) \/ tache[a].sujet \in SuperAdmins
  PROVE  InvEcrit'
  <1>1. /\ tache'[a] = n
        /\ \A b \in Agents : b # a => tache'[b] = tache[b]
    BY ChangeFaits
  <1>2. ASSUME NEW b \in Agents, AvantProfilSeul(tache'[b])
        PROVE  tache'[b].sujet \in Ecrits'
    <2>1. CASE b = a
      BY <1>1, <1>2, <2>1
    <2>2. CASE b # a
      BY <1>1, <1>2, <2>2 DEF InvEcrit
    <2> QED
      BY <2>1, <2>2
  <1>3. profils' \ SuperAdmins \subseteq Ecrits'
    BY DEF InvEcrit, OrphelinSupprime, Ecrits
  <1> QED
    BY <1>2, <1>3 DEF InvEcrit, OrphelinSupprime, Ecrits, AvantProfilSeul, Tient, Prochain

\* The effects of the calls.
LEMMA EffetsEcrit ==
  ASSUME Socle, InvEcrit, NEW a \in Agents, NEW n
  PROVE  /\ EffetNeuf(a, n) => InvEcrit'
         /\ EffetSuite(a, n) => InvEcrit'
         /\ EffetCompte(a, n) => InvEcrit'
         /\ EffetUtilisateur(a, n) => InvEcrit'
         /\ EffetProfil(a, n) => InvEcrit'
         /\ EffetLecture(a, n) => InvEcrit'
         /\ EffetEcriture(a) => InvEcrit'
         /\ EffetOterProfil(a, n) => InvEcrit'
         /\ EffetOterUtilisateur(a, n) => InvEcrit'
  <1>r. ~AvantProfilSeul(Repos)
    BY ReposInactif DEF AvantProfilSeul, Tient
  <1>1. EffetNeuf(a, n) => InvEcrit'
    BY EcritSi DEF EffetNeuf, AvantProfilSeul, Ecrits, registres
  <1>2. EffetSuite(a, n) => InvEcrit'
    BY EcritSi DEF EffetSuite, Poursuit, AvantProfilSeul, Tient, Ecrits, registres
  <1>3. EffetCompte(a, n) => InvEcrit'
    BY EcritSi DEF EffetCompte, Poursuit, AvantProfilSeul, Ecrits
  <1>4. EffetUtilisateur(a, n) => InvEcrit'
    BY EcritSi, <1>r DEF EffetUtilisateur, Poursuit, Ecrits
  <1>5. EffetProfil(a, n) => InvEcrit'
    BY EcritSi, <1>r DEF EffetProfil, Poursuit, AvantProfilSeul, Tient, Ecrits
  <1>6. EffetLecture(a, n) => InvEcrit'
    BY EcritSi DEF EffetLecture, AvantProfilSeul, Tient, Ecrits, registres
  <1>7. EffetEcriture(a) => InvEcrit'
    BY EcritSi, <1>r DEF EffetEcriture, Ecrits, registres
  <1>8. EffetOterProfil(a, n) => InvEcrit'
    BY EcritSi, <1>r DEF EffetOterProfil, AvantProfilSeul, Ecrits
  <1>9. EffetOterUtilisateur(a, n) => InvEcrit'
    BY EcritSi, <1>r DEF EffetOterUtilisateur, Poursuit, AvantProfilSeul, Tient, Ecrits
  <1> QED
    BY <1>1, <1>2, <1>3, <1>4, <1>5, <1>6, <1>7, <1>8, <1>9

\* A step that leaves the tasks and the registers alone.
LEMMA EcritSansTache ==
  ASSUME InvEcrit, UNCHANGED <<registres, tache>>
  PROVE  InvEcrit'
  BY DEF InvEcrit, OrphelinSupprime, Ecrits, AvantProfilSeul, Tient, Prochain, registres

\* Every step, from the effects of its action.
LEMMA PasEcrit ==
  ASSUME Socle, InvEcrit, [Next]_vars
  PROVE  InvEcrit'
  <1>1. ASSUME NEW a \in Agents, NEW x \in Personnes,
               Inscrire(a, x) \/ Supprimer(a, x) \/ Retirer(a, x) \/ Modifier(a, x)
        PROVE  InvEcrit'
    BY <1>1, InscrireEffet, SupprimerEffet, RetirerEffet, ModifierEffet, EffetsEcrit
  <1>2. ASSUME NEW a \in Agents, NEW c \in Classes, Renommer(a, c)
        PROVE  InvEcrit'
    BY <1>2, RenommerEffet, EffetsEcrit
  <1>3. ASSUME NEW a \in Agents, NEW c \in Classes, NEW e \in Enseignants, Affecter(a, c, e)
        PROVE  InvEcrit'
    BY <1>3, AffecterEffet, EffetsEcrit
  <1>4. ASSUME NEW a \in Agents, Appel(a)
        PROVE  InvEcrit'
    <2>1. CASE CreerCompte(a)
      BY <2>1, CreerCompteEffet, EffetsEcrit
    <2>2. CASE EcrireUtilisateur(a)
      BY <2>2, EcrireUtilisateurEffet, EffetsEcrit
    <2>3. CASE EcrireProfil(a)
      BY <2>3, EcrireProfilEffet, EffetsEcrit
    <2>4. CASE LireClasse(a)
      BY <2>4, LireClasseEffet, EffetsEcrit
    <2>5. CASE InscrireClasse(a)
      BY <2>5, InscrireClasseEffet, EffetsEcrit
    <2>6. CASE ReecrireClasse(a)
      BY <2>6, ReecrireClasseEffet, EffetsEcrit
    <2>7. CASE AffecterEnseignant(a)
      BY <2>7, AffecterEnseignantEffet, EffetsEcrit
    <2>8. CASE OterProfil(a)
      BY <2>8, OterProfilEffet, EffetsEcrit
    <2>9. CASE OterUtilisateur(a)
      BY <2>9, OterUtilisateurEffet, EffetsEcrit
    <2>10. CASE ChercherProfil(a)
      BY <2>10, ChercherProfilEffet, EffetsEcrit
    <2>11. CASE MajProfil(a)
      BY <2>11, MajProfilEffet, EffetsEcrit
    <2>12. CASE MajUtilisateur(a)
      BY <2>12, FinSeuleEffet, EffetsEcrit
    <2> QED
      BY <1>4, <2>1, <2>2, <2>3, <2>4, <2>5, <2>6, <2>7, <2>8, <2>9, <2>10, <2>11, <2>12 DEF Appel
  <1>5. ASSUME NEW a \in Agents, Interrompre(a)
        PROVE  InvEcrit'
    BY <1>5, FinSeuleEffet, EffetsEcrit
  <1>6. ASSUME NEW c \in Classes, AjouterClasse(c) \/ SupprimerClasse(c) \/ ResetClasse(c)
        PROVE  InvEcrit'
    BY <1>6, ClasseEffet, EcritSansTache DEF EffetClasse
  <1>7. CASE UNCHANGED vars
    BY <1>7, EcritSansTache DEF vars, registres
  <1>8. CASE Next
    BY <1>8, <1>1, <1>2, <1>3, <1>4, <1>5, <1>6 DEF Next
  <1> QED
    BY <1>7, <1>8

(***************************************************************************)
(* A profile without a user is what a deletion left behind, never a        *)
(* registration that stopped (_enregistrerEnseignant and its twins).       *)
(***************************************************************************)
THEOREM OrphelinSupprimeTenu == Spec => []OrphelinSupprime
  <1>1. Init => InvEcrit
    <2>1. ASSUME Init PROVE \A a \in Agents : tache[a] = Repos
      BY <2>1 DEF Init
    <2> QED
      BY <2>1, ReposInactif DEF Init, InvEcrit, AvantProfilSeul, Tient, OrphelinSupprime
  <1>2. InvEcrit /\ Socle /\ [Next]_vars => InvEcrit'
    BY PasEcrit
  <1>3. InvEcrit => OrphelinSupprime
    BY DEF InvEcrit
  <1> QED
    BY <1>1, <1>2, <1>3, Inductif, PTL DEF Spec
=============================================================================
