------------------------------ MODULE Comptes ------------------------------
(***************************************************************************)
(* People and classes of a school, as the administration pages write them  *)
(* (lib/modules/admin/vues, lib/modules/superadmin/vues).                  *)
(*                                                                         *)
(* Every operation of a page is a chain of awaited calls to Firebase Auth  *)
(* and Firestore, without a transaction: the calls of several operators    *)
(* interleave, and a chain may stop after any of them (an exception, a     *)
(* closed browser). A task below is what is left of such a chain.          *)
(***************************************************************************)
EXTENDS Naturals, Sequences, FiniteSets

CONSTANTS
    Agents,             \* chains of calls in flight, of one or several operators
    Eleves, Parents, Enseignants, Administrateurs, SuperAdmins,
                        \* people, by role; a person is an e-mail and its uid
    Classes,            \* ids of classes, each given out once (uuid)
    Aucun               \* null

Personnes == Eleves \cup Parents \cup Enseignants \cup Administrateurs \cup SuperAdmins

Operations == {"inscrire", "supprimer", "retirer", "modifier", "renommer", "affecter"}

\* Everybody has one role, and null is nobody's value.
ASSUME ComptesHypotheses ==
    /\ Eleves \cap (Parents \cup Enseignants \cup Administrateurs \cup SuperAdmins) = {}
    /\ Parents \cap (Enseignants \cup Administrateurs \cup SuperAdmins) = {}
    /\ Enseignants \cap (Administrateurs \cup SuperAdmins) = {}
    /\ Administrateurs \cap SuperAdmins = {}
    /\ Aucun \notin Personnes \cup Classes \cup Operations

VARIABLES
    comptes,        \* accounts of Firebase Auth (the application deletes none)
    utilisateurs,   \* documents of "utilisateurs"
    profils,        \* documents of "eleves", "parents", "enseignants", ...
    classeDe,       \* classeDe[x]: classeId of the pupil's document
    classes,        \* documents of "classes"
    tache,          \* tache[a]: the operation a's page is in, or Repos
    supprimes,      \* history: people whose user document was deleted
    retires         \* history: those among them the list of all users deleted

vars == <<comptes, utilisateurs, profils, classeDe, classes, tache, supprimes, retires>>

historique == <<supprimes, retires>>

(***************************************************************************)
(* ClasseModele, as far as the other collections refer to it (matieresIds  *)
(* is written with, and like, enseignantsIds).                             *)
(***************************************************************************)
ClasseModele ==
    [etat : {"inconnue", "presente", "supprimee"},
     elevesIds : SUBSET Eleves, enseignantsIds : SUBSET Enseignants]

Inconnue == [etat |-> "inconnue", elevesIds |-> {}, enseignantsIds |-> {}]

-----------------------------------------------------------------------------
(***************************************************************************)
(* The chains of calls.                                                    *)
(***************************************************************************)
\* Variant: the profile of all the staff goes first.
EtapesInscriptionParProfil(x) ==
    IF x \in Parents
      THEN <<"compte", "utilisateur", "profil">>
      ELSE <<"compte", "profil", "utilisateur">>

\* _enregistrerEleve, _enregistrerParent, _enregistrerEnseignant,
\* _enregistrerAdministrateur; the super administrator's in its own order
\* (its last call writes a collection that nothing reads).
EtapesInscription(x) ==
    IF x \in Eleves
      THEN <<"compte", "utilisateur", "profil", "lireClasse", "inscrireClasse">>
      ELSE IF x \in SuperAdmins
        THEN <<"compte", "profil", "utilisateur">>
        ELSE <<"compte", "utilisateur", "profil">>

\* Variant: the user's document goes first, whatever the role.
EtapesSuppressionInversees(x) == <<"oterUtilisateur", "chercherProfil", "oterProfil">>

\* The delete buttons: pupils and parents lose their profile first; the
\* teacher's profile is looked up before the confirmation, the
\* administrator's after the deletion of the user.
EtapesSuppression(x) ==
    IF x \in Eleves \cup Parents
      THEN <<"oterProfil", "oterUtilisateur">>
      ELSE IF x \in Enseignants
        THEN <<"chercherProfil", "oterUtilisateur", "oterProfil">>
        ELSE <<"oterUtilisateur", "chercherProfil", "oterProfil">>

\* _modifierEleve updates both documents, the other forms the user only.
EtapesModification(x) ==
    IF x \in Eleves THEN <<"majProfil", "majUtilisateur">> ELSE <<"majUtilisateur">>

Etapes == {"compte", "utilisateur", "profil", "lireClasse", "inscrireClasse", "oterProfil",
           "oterUtilisateur", "chercherProfil", "majProfil", "majUtilisateur", "reecrireClasse",
           "affecterEnseignant"}

Taches ==
    [operation : Operations \cup {Aucun}, sujet : Personnes \cup {Aucun},
     classe : Classes \cup {Aucun}, copie : ClasseModele, reste : Seq(Etapes)]

Tache(op, x, c, etapes) ==
    [operation |-> op, sujet |-> x, classe |-> c, copie |-> Inconnue, reste |-> etapes]

Repos == Tache(Aucun, Aucun, Aucun, <<>>)

Libre(a) == tache[a].reste = <<>>

\* a's page is about to make the call e.
A(a, e) == tache[a].reste # <<>> /\ Head(tache[a].reste) = e

Debut(a, t) == Libre(a) /\ tache' = [tache EXCEPT ![a] = t]

\* The awaited call returned: on to the next one.
Avance(t) == IF Len(t.reste) = 1 THEN Repos ELSE [t EXCEPT !.reste = Tail(@)]

Suite(a) == tache' = [tache EXCEPT ![a] = Avance(@)]

\* The same, with the class that the call returned.
AvecCopie(t, classe) == [t EXCEPT !.copie = classe, !.reste = Tail(@)]

\* The call threw, or an early return was taken: nothing more is done.
Fin(a) == tache' = [tache EXCEPT ![a] = Repos]

-----------------------------------------------------------------------------
Init ==
    /\ comptes = {}
    /\ utilisateurs = {}
    /\ profils = {}
    /\ classeDe = [x \in Eleves |-> Aucun]
    /\ classes = [c \in Classes |-> Inconnue]
    /\ tache = [a \in Agents |-> Repos]
    /\ supprimes = {}
    /\ retires = {}

\* A registration form is submitted; a pupil's names a class of its list.
Inscrire(a, x) ==
    /\ \/ x \notin Eleves /\ Debut(a, Tache("inscrire", x, Aucun, EtapesInscription(x)))
       \/ /\ x \in Eleves
          /\ \E c \in Classes :
               /\ classes[c].etat = "presente"
               /\ Debut(a, Tache("inscrire", x, c, EtapesInscription(x)))
    /\ UNCHANGED <<comptes, utilisateurs, profils, classeDe, classes, historique>>

(***************************************************************************)
(* A delete button of a list that shows x. The pupils' and the parents'    *)
(* lists join the users with the profiles, read after them: the user may   *)
(* be gone by then. The other lists show the users. Any list may be old    *)
(* when the calls are made.                                                *)
(***************************************************************************)
Supprimer(a, x) ==
    /\ \/ x \in Eleves \cup Parents /\ x \in profils /\ x \in utilisateurs \cup supprimes
       \/ x \in Enseignants \cup Administrateurs /\ x \in utilisateurs
    /\ Debut(a, Tache("supprimer", x, Aucun, EtapesSuppression(x)))
    /\ UNCHANGED <<comptes, utilisateurs, profils, classeDe, classes, historique>>

\* The super admin's list of all users deletes the user's document alone.
Retirer(a, x) ==
    /\ x \in utilisateurs
    /\ Debut(a, Tache("retirer", x, Aucun, <<"oterUtilisateur">>))
    /\ UNCHANGED <<comptes, utilisateurs, profils, classeDe, classes, historique>>

\* A form is submitted. A pupil's was loaded from both documents, and names
\* a class of the list or the one the pupil is in, deleted or not.
Modifier(a, x) ==
    /\ x \in utilisateurs
    /\ \/ /\ x \in Eleves \cap profils
          /\ \E c \in Classes :
               /\ classes[c].etat = "presente" \/ c = classeDe[x]
               /\ Debut(a, Tache("modifier", x, c, EtapesModification(x)))
       \/ /\ x \in Parents \cup Enseignants \cup Administrateurs
          /\ Debut(a, Tache("modifier", x, Aucun, EtapesModification(x)))
    /\ UNCHANGED <<comptes, utilisateurs, profils, classeDe, classes, historique>>

\* The page of modifier_classe.dart is opened from the list of classes.
Renommer(a, c) ==
    /\ classes[c].etat = "presente"
    /\ Debut(a, Tache("renommer", Aucun, c, <<"lireClasse", "reecrireClasse">>))
    /\ UNCHANGED <<comptes, utilisateurs, profils, classeDe, classes, historique>>

\* The dialog of calsse_detail.dart offers the teachers that have a profile.
Affecter(a, c, e) ==
    /\ classes[c].etat = "presente"
    /\ e \in profils
    /\ Debut(a, Tache("affecter", e, c, <<"affecterEnseignant">>))
    /\ UNCHANGED <<comptes, utilisateurs, profils, classeDe, classes, historique>>

-----------------------------------------------------------------------------
\* Variant: signs in to an account that exists already and goes on.
CreerCompteTolerant(a) ==
    /\ A(a, "compte")
    /\ comptes' = comptes \cup {tache[a].sujet}
    /\ Suite(a)
    /\ UNCHANGED <<utilisateurs, profils, classeDe, classes, historique>>

\* createUserWithEmailAndPassword: email-already-in-use ends the operation.
CreerCompte(a) ==
    LET x == tache[a].sujet
    IN  /\ A(a, "compte")
        /\ \/ x \notin comptes /\ comptes' = comptes \cup {x} /\ Suite(a)
           \/ x \in comptes /\ Fin(a) /\ UNCHANGED comptes
        /\ UNCHANGED <<utilisateurs, profils, classeDe, classes, historique>>

EcrireUtilisateur(a) ==
    /\ A(a, "utilisateur")
    /\ utilisateurs' = utilisateurs \cup {tache[a].sujet}
    /\ Suite(a)
    /\ UNCHANGED <<comptes, profils, classeDe, classes, historique>>

\* Variant: the class and the user are swapped in eleveData.
EcrireProfilInverse(a) ==
    LET x == tache[a].sujet
    IN  /\ A(a, "profil")
        /\ profils' = profils \cup {x}
        /\ classeDe' = IF x \in Eleves THEN [classeDe EXCEPT ![x] = x] ELSE classeDe
        /\ Suite(a)
        /\ UNCHANGED <<comptes, utilisateurs, classes, historique>>

EcrireProfil(a) ==
    LET x == tache[a].sujet
    IN  /\ A(a, "profil")
        /\ profils' = profils \cup {x}
        /\ classeDe' = IF x \in Eleves THEN [classeDe EXCEPT ![x] = tache[a].classe] ELSE classeDe
        /\ Suite(a)
        /\ UNCHANGED <<comptes, utilisateurs, classes, historique>>

\* classeRef.get(), or _chargerClasse: without a document there is no more to do.
LireClasse(a) ==
    LET classe == classes[tache[a].classe]
    IN  /\ A(a, "lireClasse")
        /\ \/ /\ classe.etat = "presente"
              /\ tache' = [tache EXCEPT ![a] = AvecCopie(@, classe)]
           \/ classe.etat # "presente" /\ Fin(a)
        /\ UNCHANGED <<comptes, utilisateurs, profils, classeDe, classes, historique>>

\* The list that was read, with the pupil, is written back by update().
InscrireClasse(a) ==
    LET x == tache[a].sujet
        c == tache[a].classe
        elevesIds == tache[a].copie.elevesIds
    IN  /\ A(a, "inscrireClasse")
        /\ Fin(a)
        /\ \/ /\ x \notin elevesIds
              /\ classes[c].etat = "presente"
              /\ classes' = [classes EXCEPT ![c].elevesIds = elevesIds \cup {x}]
           \/ (x \in elevesIds \/ classes[c].etat # "presente") /\ UNCHANGED classes
        /\ UNCHANGED <<comptes, utilisateurs, profils, classeDe, historique>>

\* _modifierClasse: set() of the whole document, lists included, from the copy.
ReecrireClasse(a) ==
    /\ A(a, "reecrireClasse")
    /\ classes' = [classes EXCEPT ![tache[a].classe] = tache[a].copie]
    /\ Fin(a)
    /\ UNCHANGED <<comptes, utilisateurs, profils, classeDe, historique>>

OterProfil(a) ==
    /\ A(a, "oterProfil")
    /\ profils' = profils \ {tache[a].sujet}
    /\ Suite(a)
    /\ UNCHANGED <<comptes, utilisateurs, classeDe, classes, historique>>

OterUtilisateur(a) ==
    /\ A(a, "oterUtilisateur")
    /\ utilisateurs' = utilisateurs \ {tache[a].sujet}
    /\ supprimes' = supprimes \cup {tache[a].sujet}
    /\ retires' = IF tache[a].operation = "retirer" THEN retires \cup {tache[a].sujet} ELSE retires
    /\ Suite(a)
    /\ UNCHANGED <<comptes, profils, classeDe, classes>>

\* update() with arrayUnion: it throws when the class is gone.
AffecterEnseignant(a) ==
    LET c == tache[a].classe
    IN  /\ A(a, "affecterEnseignant")
        /\ \/ /\ classes[c].etat = "presente"
              /\ classes' = [classes EXCEPT ![c].enseignantsIds = @ \cup {tache[a].sujet}]
           \/ classes[c].etat # "presente" /\ UNCHANGED classes
        /\ Fin(a)
        /\ UNCHANGED <<comptes, utilisateurs, profils, classeDe, historique>>

\* The query for the profile: one that is not there is not deleted later.
ChercherProfil(a) ==
    /\ A(a, "chercherProfil")
    /\ \/ tache[a].sujet \in profils /\ Suite(a)
       \/ /\ tache[a].sujet \notin profils
          /\ IF Len(tache[a].reste) = 2
               THEN Fin(a)
               ELSE tache' = [tache EXCEPT ![a] = [@ EXCEPT !.reste = <<"oterUtilisateur">>]]
    /\ UNCHANGED <<comptes, utilisateurs, profils, classeDe, classes, historique>>

\* update() of a document that is gone throws and ends the operation.
MajProfil(a) ==
    LET x == tache[a].sujet
    IN  /\ A(a, "majProfil")
        /\ \/ x \in profils /\ Suite(a) /\ classeDe' = [classeDe EXCEPT ![x] = tache[a].classe]
           \/ x \notin profils /\ Fin(a) /\ UNCHANGED classeDe
        /\ UNCHANGED <<comptes, utilisateurs, profils, classes, historique>>

\* Variant: the modified user is written by set(), not by update().
MajUtilisateurParSet(a) ==
    /\ A(a, "majUtilisateur")
    /\ utilisateurs' = utilisateurs \cup {tache[a].sujet}
    /\ Suite(a)
    /\ UNCHANGED <<comptes, profils, classeDe, classes, historique>>

\* update() of the user: it exists, or the call throws; either way the last one.
MajUtilisateur(a) ==
    /\ A(a, "majUtilisateur")
    /\ Fin(a)
    /\ UNCHANGED <<comptes, utilisateurs, profils, classeDe, classes, historique>>

\* An awaited call throws, or the browser goes, between two calls.
Interrompre(a) ==
    /\ ~Libre(a)
    /\ Fin(a)
    /\ UNCHANGED <<comptes, utilisateurs, profils, classeDe, classes, historique>>

-----------------------------------------------------------------------------
\* The operations of a single call: _ajouterClasse, _supprimerClasse and
\* resetClasse.
AjouterClasse(c) ==
    /\ classes[c].etat = "inconnue"
    /\ classes' = [classes EXCEPT ![c].etat = "presente"]
    /\ UNCHANGED <<comptes, utilisateurs, profils, classeDe, tache, historique>>

SupprimerClasse(c) ==
    /\ classes[c].etat = "presente"
    /\ classes' = [classes EXCEPT ![c] = [Inconnue EXCEPT !.etat = "supprimee"]]
    /\ UNCHANGED <<comptes, utilisateurs, profils, classeDe, tache, historique>>

ResetClasse(c) ==
    /\ classes[c].etat = "presente"
    /\ classes' = [classes EXCEPT ![c].elevesIds = {}, ![c].enseignantsIds = {}]
    /\ UNCHANGED <<comptes, utilisateurs, profils, classeDe, tache, historique>>

Appel(a) ==
    \/ CreerCompte(a)
    \/ EcrireUtilisateur(a)
    \/ EcrireProfil(a)
    \/ LireClasse(a)
    \/ InscrireClasse(a)
    \/ ReecrireClasse(a)
    \/ AffecterEnseignant(a)
    \/ OterProfil(a)
    \/ OterUtilisateur(a)
    \/ ChercherProfil(a)
    \/ MajProfil(a)
    \/ MajUtilisateur(a)

Next ==
    \/ \E a \in Agents :
        \/ \E x \in Personnes : Inscrire(a, x) \/ Supprimer(a, x) \/ Retirer(a, x) \/ Modifier(a, x)
        \/ \E c \in Classes : Renommer(a, c) \/ \E e \in Enseignants : Affecter(a, c, e)
        \/ Appel(a)
        \/ Interrompre(a)
    \/ \E c \in Classes :
        \/ AjouterClasse(c)
        \/ SupprimerClasse(c)
        \/ ResetClasse(c)

Spec == Init /\ [][Next]_vars

-----------------------------------------------------------------------------
(***************************************************************************)
(* Type invariant of the collections and of the chains of calls.           *)
(***************************************************************************)
TypeOK ==
    /\ comptes \subseteq Personnes
    /\ utilisateurs \subseteq Personnes
    /\ profils \subseteq Personnes
    /\ classeDe \in [Eleves -> Classes \cup {Aucun}]
    /\ classes \in [Classes -> ClasseModele]
    /\ tache \in [Agents -> Taches]
    /\ supprimes \subseteq Personnes
    /\ retires \subseteq supprimes

(***************************************************************************)
(* No pupil is ever in the elevesIds of two classes, whatever copies of a  *)
(* class _enregistrerEleve and _modifierClasse write back and when: the    *)
(* account of Firebase Auth is the only lock of a registration, and it is  *)
(* never released.                                                         *)
(***************************************************************************)
UneSeuleClasse ==
    \A x \in Eleves, c, d \in Classes :
        x \in classes[c].elevesIds /\ x \in classes[d].elevesIds => c = d

(***************************************************************************)
(* A pupil or a parent with a profile has a user document too, unless the  *)
(* list of all users (page_utilisateur.dart) deleted it: _supprimerParent  *)
(* and its twin may stop after any call, and race with each other and with *)
(* a registration, without leaving an orphan that no list shows.           *)
(***************************************************************************)
SansOrphelin == (Eleves \cup Parents) \cap profils \subseteq utilisateurs \cup retires

(***************************************************************************)
(* The staff's lists delete the user before the profile, or stop between   *)
(* the two, so a profile may stay behind; but a registration that stops    *)
(* never leaves one, since the user's document is written first. (A super  *)
(* administrator's is written last.)                                       *)
(***************************************************************************)
OrphelinSupprime == profils \ SuperAdmins \subseteq utilisateurs \cup supprimes

(***************************************************************************)
(* A deleted user does not come back: a form submitted late, or by someone *)
(* else, updates a document that is there or fails, and nobody registers   *)
(* twice.                                                                  *)
(***************************************************************************)
PasDeRetour == utilisateurs \cap supprimes = {}

\* A registration of x is under way that created the account of x.
EnInscription(x) ==
    \E a \in Agents :
        tache[a].operation = "inscrire" /\ tache[a].sujet = x /\ ~A(a, "compte")

(***************************************************************************)
(* An account is spent by one registration. Once that has stopped, at any  *)
(* of its calls, nothing resumes it: each further submission of the form   *)
(* ends in email-already-in-use, and a user that was not written by then   *)
(* never is.                                                               *)
(***************************************************************************)
CompteBrule ==
    [][\A x \in comptes :
         ~EnInscription(x) => ~EnInscription(x)' /\ (x \in utilisateurs' => x \in utilisateurs)]_vars

(***************************************************************************)
(* What the comment of _enregistrerEleve says: the pupil's id is added to  *)
(* the list of the class; nobody leaves the list. The list written is the  *)
(* one read two calls before, so the code does not keep this.              *)
(***************************************************************************)
AjouterSansRetirer ==
    [][\A a \in Agents, c \in Classes :
         InscrireClasse(a) => classes[c].elevesIds \subseteq classes'[c].elevesIds]_vars
=============================================================================
