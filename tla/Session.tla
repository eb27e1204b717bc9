------------------------------ MODULE Session ------------------------------
(***************************************************************************)
(* Who is signed in, which home page is shown and who is shown online      *)
(* (lib/controleurs/controleur_auth.dart, lib/vues/commun/login.dart,      *)
(* lib/vues/commun/deconnexion.dart, lib/routes/routes_application.dart).  *)
(*                                                                         *)
(* A browser keeps three copies of "the user": FirebaseAuth.currentUser,   *)
(* which createUserWithEmailAndPassword of a registration form replaces;   *)
(* ControleurAuth, which a logout does not clear; and the arguments of the *)
(* home page. Every action below is the answer to one awaited call and the *)
(* statements up to the next one. Every call may throw, and then the       *)
(* statements of the catch follow, if there is one. A chain of calls goes  *)
(* on when the page that started it is left, and dies with the             *)
(* application.                                                            *)
(***************************************************************************)
EXTENDS Naturals, FiniteSets

CONSTANTS
    Postes,         \* browsers (or installed applications)
    Personnes,      \* people, each with an e-mail address
    Inscrits,       \* those registered at the start
    RoleDe,         \* RoleDe[u]: the role chosen for u by the form that registers u
    MaxFiches,      \* bound: modification forms open at once
    Aucun           \* null

\* The roles that _handleLogin knows a home page for.
RolesConnus == {"superadmin", "administrateur", "enseignant", "parent", "eleve"}

ASSUME SessionHypotheses ==
    /\ Inscrits \subseteq Personnes
    /\ RoleDe \in [Personnes -> RolesConnus \cup {"autre"}]
    /\ MaxFiches \in Nat
    /\ Aucun \notin Personnes

VARIABLES
    comptes,        \* accounts of Firebase Auth
    utilisateurs,   \* documents of "utilisateurs", by id
    enLigne,        \* those whose field statut is true
    roles,          \* documents of "roles" (those somebody has), by name
    courant,        \* courant[p]: FirebaseAuth.currentUser, kept over restarts
    controleur,     \* controleur[p]: utilisateurFirebase and role of ControleurAuth
    page,           \* page[p]: the route shown and its utilisateurId
    connexion,      \* connexion[p]: the call _handleLogin awaits
    sortie,         \* sortie[p]: the call logoutUser awaits
    inscription,    \* inscription[p]: the call a registration form awaits
    fiche           \* fiche[p]: the user a modification form was opened on

vars == <<comptes, utilisateurs, enLigne, roles, courant, controleur, page,
          connexion, sortie, inscription, fiche>>

serveur == <<comptes, utilisateurs, enLigne, roles>>
chaines == <<connexion, sortie, inscription, fiche>>

\* A chain of calls: the call awaited, and the user it is about.
Repos == [etape |-> "repos", qui |-> Aucun]
Attend(e, u) == [etape |-> e, qui |-> u]

Connexion == [route |-> "connexion", uid |-> Aucun]
Deconnecte == [utilisateur |-> Aucun, role |-> Aucun]
PasDeFiche == [qui |-> Aucun, statut |-> FALSE]

Init ==
    /\ comptes = Inscrits
    /\ utilisateurs = Inscrits
    /\ enLigne = {}
    /\ roles = {RoleDe[u] : u \in Personnes}
    /\ courant = [p \in Postes |-> Aucun]
    /\ controleur = [p \in Postes |-> Deconnecte]
    /\ page = [p \in Postes |-> Connexion]
    /\ connexion = [p \in Postes |-> Repos]
    /\ sortie = [p \in Postes |-> Repos]
    /\ inscription = [p \in Postes |-> Repos]
    /\ fiche = [p \in Postes |-> PasDeFiche]

-----------------------------------------------------------------------------
(***************************************************************************)
(* Login: _handleLogin and ControleurAuth.connecter.                       *)
(***************************************************************************)
\* isLoading: from the tap on the button to the last setState.
Charge(p) == connexion[p].etape # "repos"

SuiteConnexion(p, e, u) == connexion' = [connexion EXCEPT ![p] = Attend(e, u)]

\* _handleLogin has returned: isLoading is false again.
FinConnexion(p) == connexion' = [connexion EXCEPT ![p] = Repos]

DemanderConnexion(p, u) ==
    /\ page[p].route = "connexion" /\ ~Charge(p)
    /\ SuiteConnexion(p, "identifiants", u)
    /\ UNCHANGED <<serveur, courant, controleur, page, sortie, inscription, fiche>>

\* signInWithEmailAndPassword succeeds.
Identifier(p) ==
    LET u == connexion[p].qui IN
    /\ connexion[p].etape = "identifiants" /\ u \in comptes
    /\ courant' = [courant EXCEPT ![p] = u]
    /\ controleur' = [controleur EXCEPT ![p].utilisateur = u]
    /\ SuiteConnexion(p, "statut", u)
    /\ UNCHANGED <<serveur, page, sortie, inscription, fiche>>

\* connecter returns false, and _handleLogin writes the SharedPreferences.
Echouer(p) == SuiteConnexion(p, "echec", connexion[p].qui)

\* It throws: ServiceAuth answers null, and connecter returns false before
\* it reaches the statements that clear utilisateurFirebase and role.
RefuserIdentifiants(p) ==
    /\ connexion[p].etape = "identifiants"
    /\ Echouer(p)
    /\ UNCHANGED <<serveur, courant, controleur, page, sortie, inscription, fiche>>

\* The catch of connecter, whichever of its calls has thrown or found no
\* document.
EchecConnexion(p) ==
    /\ controleur' = [controleur EXCEPT ![p] = Deconnecte]
    /\ Echouer(p)
    /\ UNCHANGED enLigne

\* Variant: set() with merge instead of update().
PasserEnLigneParSet(p) ==
    /\ connexion[p].etape = "statut"
    /\ enLigne' = enLigne \cup {connexion[p].qui}
    /\ SuiteConnexion(p, "document", connexion[p].qui)
    /\ UNCHANGED <<comptes, utilisateurs, roles, courant, controleur, page, sortie, inscription, fiche>>

\* update({'statut': true}) of connecter.
PasserEnLigne(p) ==
    LET u == connexion[p].qui IN
    /\ connexion[p].etape = "statut"
    /\ \/ /\ u \in utilisateurs
          /\ enLigne' = enLigne \cup {u}
          /\ SuiteConnexion(p, "document", u)
          /\ UNCHANGED controleur
       \/ EchecConnexion(p)
    /\ UNCHANGED <<comptes, utilisateurs, roles, courant, page, sortie, inscription, fiche>>

LireDocument(p) ==
    LET u == connexion[p].qui IN
    /\ connexion[p].etape = "document"
    /\ \/ /\ u \in utilisateurs
          /\ SuiteConnexion(p, "role", u)
          /\ UNCHANGED <<controleur, enLigne>>
       \/ EchecConnexion(p)
    /\ UNCHANGED <<comptes, utilisateurs, roles, courant, page, sortie, inscription, fiche>>

\* Variant: the role is read when there is none yet.
LireRoleUneFois(p) ==
    LET u == connexion[p].qui IN
    /\ connexion[p].etape = "role" /\ RoleDe[u] \in roles
    /\ controleur' = [controleur EXCEPT ![p].role = IF @ = Aucun THEN RoleDe[u] ELSE @]
    /\ SuiteConnexion(p, "preferences", u)
    /\ UNCHANGED <<serveur, courant, page, sortie, inscription, fiche>>

LireRole(p) ==
    LET u == connexion[p].qui IN
    /\ connexion[p].etape = "role"
    /\ \/ /\ RoleDe[u] \in roles
          /\ controleur' = [controleur EXCEPT ![p].role = RoleDe[u]]
          /\ SuiteConnexion(p, "preferences", u)
          /\ UNCHANGED enLigne
       \/ EchecConnexion(p)
    /\ UNCHANGED <<comptes, utilisateurs, roles, courant, page, sortie, inscription, fiche>>

\* SharedPreferences are written, whatever connecter returned; after true
\* _handleLogin goes on with currentUser, which need not be the user of
\* connecter any more.
EcrirePreferences(p) ==
    /\ \/ connexion[p].etape = "echec" /\ FinConnexion(p)
       \/ connexion[p].etape = "preferences" /\ SuiteConnexion(p, "confirmation", courant[p])
    /\ UNCHANGED <<serveur, courant, controleur, page, sortie, inscription, fiche>>

\* The calls that _handleLogin awaits outside any try: SharedPreferences, the
\* second update() of statut, the get() of the document.
HorsTry == {"echec", "preferences", "confirmation", "etablissement"}

\* One of them throws, the document being there or not: no other statement
\* runs, and isLoading stays true.
Jeter(p) ==
    /\ connexion[p].etape \in HorsTry
    /\ SuiteConnexion(p, "jetee", connexion[p].qui)
    /\ UNCHANGED <<serveur, courant, controleur, page, sortie, inscription, fiche>>

\* pushReplacementNamed with the arguments; the builder of /home_admin takes
\* the current user instead.
Afficher(p, r, u) ==
    page' = [page EXCEPT ![p] =
        [route |-> r, uid |-> IF r = "administrateur" THEN courant[p] ELSE u]]

\* Variant: isLoading is not reset by the branch of the super administrator.
ConfirmerStatutSansFin(p) ==
    LET u == connexion[p].qui IN
    /\ connexion[p].etape = "confirmation"
    /\ u \in utilisateurs
    /\ enLigne' = enLigne \cup {u}
    /\ SuiteConnexion(p, IF controleur[p].role = "superadmin" THEN "bloquee" ELSE "etablissement", u)
    /\ UNCHANGED <<comptes, utilisateurs, roles, courant, controleur, page, sortie, inscription, fiche>>

\* update({'statut': true}) of _handleLogin is accepted; without a document it
\* can only throw (Jeter).
ConfirmerStatut(p) ==
    LET u == connexion[p].qui IN
    /\ connexion[p].etape = "confirmation"
    /\ u \in utilisateurs
    /\ enLigne' = enLigne \cup {u}
    /\ \/ /\ controleur[p].role = "superadmin"
          /\ Afficher(p, "superadmin", u)
          /\ FinConnexion(p)
       \/ /\ controleur[p].role # "superadmin"
          /\ SuiteConnexion(p, "etablissement", u)
          /\ UNCHANGED page
    /\ UNCHANGED <<comptes, utilisateurs, roles, courant, controleur, sortie, inscription, fiche>>

\* The document is read for its school, which a super administrator has not,
\* then the home page of the role is pushed. The default case pushes
\* "/login", a route that does not exist: pushReplacementNamed throws.
LireEtablissement(p) ==
    LET u == connexion[p].qui
        r == controleur[p].role
        trouve == u \in utilisateurs /\ RoleDe[u] # "superadmin" IN
    /\ connexion[p].etape = "etablissement"
    /\ \/ ~trouve /\ FinConnexion(p) /\ UNCHANGED page
       \/ trouve /\ r \in RolesConnus /\ Afficher(p, r, u) /\ FinConnexion(p)
       \/ /\ trouve /\ r \notin RolesConnus
          /\ SuiteConnexion(p, "bloquee", u)
          /\ UNCHANGED page
    /\ UNCHANGED <<serveur, courant, controleur, sortie, inscription, fiche>>

\* The builder of /home_admin runs again when a page above it is popped.
ReconstruireAccueil(p) ==
    /\ page[p].route = "administrateur" /\ courant[p] # Aucun
    /\ Afficher(p, "administrateur", courant[p])
    /\ UNCHANGED <<serveur, courant, controleur, chaines>>

-----------------------------------------------------------------------------
(***************************************************************************)
(* Logout: logoutUser. ControleurAuth.deconnecter is never called.         *)
(***************************************************************************)
\* The button is on the home page, under an open form; the write of a form
\* that was sent is served before those of the logout.
DemanderDeconnexion(p) ==
    /\ page[p].route # "connexion" /\ sortie[p] = Repos /\ fiche[p] = PasDeFiche
    /\ sortie' = [sortie EXCEPT ![p] =
            Attend(IF courant[p] = Aucun THEN "session" ELSE "statut", courant[p])]
    /\ UNCHANGED <<serveur, courant, controleur, page, connexion, inscription, fiche>>

PasserHorsLigne(p) ==
    LET u == sortie[p].qui IN
    /\ sortie[p].etape = "statut"
    /\ u \in utilisateurs
    /\ enLigne' = enLigne \ {u}
    /\ sortie' = [sortie EXCEPT ![p] = Attend("session", u)]
    /\ UNCHANGED <<comptes, utilisateurs, roles, courant, controleur, page,
                   connexion, inscription, fiche>>

FermerSession(p) ==
    /\ sortie[p].etape = "session"
    /\ courant' = [courant EXCEPT ![p] = Aucun]
    /\ page' = [page EXCEPT ![p] = Connexion]
    /\ sortie' = [sortie EXCEPT ![p] = Repos]
    /\ UNCHANGED <<serveur, controleur, connexion, inscription, fiche>>

\* The catch: the update or signOut has thrown, as the update does without a
\* document, and the user stays signed in.
EchouerDeconnexion(p) ==
    /\ sortie[p] # Repos
    /\ sortie' = [sortie EXCEPT ![p] = Repos]
    /\ UNCHANGED <<serveur, courant, controleur, page, connexion, inscription, fiche>>

-----------------------------------------------------------------------------
(***************************************************************************)
(* What the pages of the administrators do to it.                          *)
(***************************************************************************)
Administre(p) == page[p].route \in {"administrateur", "superadmin"}

\* A registration form is submitted.
Inscrire(p, u) ==
    /\ Administre(p) /\ inscription[p] = Repos
    /\ inscription' = [inscription EXCEPT ![p] = Attend("compte", u)]
    /\ UNCHANGED <<serveur, courant, controleur, page, connexion, sortie, fiche>>

\* createUserWithEmailAndPassword: signs the browser in as the new user.
CreerCompte(p) ==
    LET u == inscription[p].qui IN
    /\ inscription[p].etape = "compte"
    /\ u \notin comptes
    /\ comptes' = comptes \cup {u}
    /\ courant' = [courant EXCEPT ![p] = u]
    /\ inscription' = [inscription EXCEPT ![p] = Attend("document", u)]
    /\ UNCHANGED <<utilisateurs, enLigne, roles, controleur, page, connexion, sortie, fiche>>

\* set() of the document of the new user, offline.
EcrireDocument(p) ==
    LET u == inscription[p].qui IN
    /\ inscription[p].etape = "document"
    /\ utilisateurs' = utilisateurs \cup {u}
    /\ enLigne' = enLigne \ {u}
    /\ inscription' = [inscription EXCEPT ![p] = Repos]
    /\ UNCHANGED <<comptes, roles, courant, controleur, page, connexion, sortie, fiche>>

\* The account exists already, or a call throws: the registration stops there.
EchouerInscription(p) ==
    /\ inscription[p] # Repos
    /\ inscription' = [inscription EXCEPT ![p] = Repos]
    /\ UNCHANGED <<serveur, courant, controleur, page, connexion, sortie, fiche>>

\* The form of modifier_enseignant.dart holds the user it was opened on.
OuvrirFiche(p, u) ==
    /\ Administre(p) /\ fiche[p] = PasDeFiche
    /\ Cardinality({q \in Postes : fiche[q] # PasDeFiche}) < MaxFiches
    /\ u \in utilisateurs
    /\ fiche' = [fiche EXCEPT ![p] = [qui |-> u, statut |-> u \in enLigne]]
    /\ UNCHANGED <<serveur, courant, controleur, page, connexion, sortie, inscription>>

\* update() with every field of that copy, statut included, or its refusal.
EnregistrerFiche(p) ==
    LET u == fiche[p].qui IN
    /\ fiche[p] # PasDeFiche
    /\ \/ /\ u \in utilisateurs
          /\ enLigne' = IF fiche[p].statut THEN enLigne \cup {u} ELSE enLigne \ {u}
       \/ UNCHANGED enLigne
    /\ fiche' = [fiche EXCEPT ![p] = PasDeFiche]
    /\ UNCHANGED <<comptes, utilisateurs, roles, courant, controleur, page,
                   connexion, sortie, inscription>>

\* By an administrator on any device, those of Postes or another. The account
\* of Firebase Auth stays.
SupprimerUtilisateur(u) ==
    /\ u \in utilisateurs
    /\ utilisateurs' = utilisateurs \ {u}
    /\ enLigne' = enLigne \ {u}
    /\ UNCHANGED <<comptes, roles, courant, controleur, page, chaines>>

SupprimerRole(r) ==
    /\ roles' = roles \ {r}
    /\ UNCHANGED <<comptes, utilisateurs, enLigne, courant, controleur, page, chaines>>

\* The application is killed and started again: the splash page, the
\* carousel and the login page follow each other, whoever currentUser is.
Relancer(p) ==
    /\ controleur' = [controleur EXCEPT ![p] = Deconnecte]
    /\ page' = [page EXCEPT ![p] = Connexion]
    /\ connexion' = [connexion EXCEPT ![p] = Repos]
    /\ sortie' = [sortie EXCEPT ![p] = Repos]
    /\ inscription' = [inscription EXCEPT ![p] = Repos]
    /\ fiche' = [fiche EXCEPT ![p] = PasDeFiche]
    /\ UNCHANGED <<serveur, courant>>

-----------------------------------------------------------------------------
\* The answers that _handleLogin waits for.
Repondre(p) ==
    \/ Identifier(p)
    \/ RefuserIdentifiants(p)
    \/ PasserEnLigne(p)
    \/ LireDocument(p)
    \/ LireRole(p)
    \/ EcrirePreferences(p)
    \/ ConfirmerStatut(p)
    \/ LireEtablissement(p)
    \/ Jeter(p)

Next ==
    \/ \E p \in Postes :
        \/ Repondre(p)
        \/ ReconstruireAccueil(p)
        \/ DemanderDeconnexion(p)
        \/ PasserHorsLigne(p)
        \/ FermerSession(p)
        \/ EchouerDeconnexion(p)
        \/ CreerCompte(p)
        \/ EcrireDocument(p)
        \/ EchouerInscription(p)
        \/ EnregistrerFiche(p)
        \/ Relancer(p)
        \/ \E u \in Personnes : DemanderConnexion(p, u) \/ Inscrire(p, u) \/ OuvrirFiche(p, u)
    \/ \E u \in Personnes : SupprimerUtilisateur(u)
    \/ \E r \in roles : SupprimerRole(r)

Spec == Init /\ [][Next]_vars

\* A call that was sent is answered, by a result or by an error.
Equite == \A p \in Postes : WF_vars(Repondre(p))

SpecEquitable == Spec /\ Equite

-----------------------------------------------------------------------------
EtapesConnexion ==
    {"identifiants", "statut", "document", "role", "echec", "preferences", "confirmation",
     "etablissement", "jetee", "bloquee"}

(***************************************************************************)
(* Type invariant of the collections and of the browsers.                  *)
(***************************************************************************)
TypeOK ==
    /\ comptes \subseteq Personnes
    /\ utilisateurs \subseteq comptes
    /\ enLigne \subseteq utilisateurs
    /\ roles \subseteq RolesConnus \cup {"autre"}
    /\ courant \in [Postes -> Personnes \cup {Aucun}]
    /\ controleur \in [Postes -> [utilisateur : Personnes \cup {Aucun},
                                  role : RolesConnus \cup {"autre", Aucun}]]
    /\ page \in [Postes -> [route : RolesConnus \cup {"connexion"}, uid : Personnes \cup {Aucun}]]
    /\ connexion \in [Postes -> {Repos} \cup [etape : EtapesConnexion, qui : Personnes]]
    /\ sortie \in [Postes -> {Repos} \cup [etape : {"statut", "session"}, qui : Personnes \cup {Aucun}]]
    /\ inscription \in [Postes -> {Repos} \cup [etape : {"compte", "document"}, qui : Personnes]]
    /\ fiche \in [Postes -> {PasDeFiche} \cup [qui : Personnes, statut : BOOLEAN]]

(***************************************************************************)
(* A home page is the one of the role of the person whose password opened  *)
(* it, although ControleurAuth keeps the user and the role of earlier      *)
(* logins, a refused login leaves them as they are, and a registration may *)
(* change the current user in the middle of a login.                       *)
(***************************************************************************)
RouteDuRole ==
    \A p \in Postes :
        page[p].route # "connexion" =>
            /\ controleur[p].utilisateur # Aucun
            /\ page[p].route = RoleDe[controleur[p].utilisateur]

(***************************************************************************)
(* Every login whose calls are answered comes to an end (the button is     *)
(* enabled again, or a home page is shown), whichever of them throws or    *)
(* finds no document, with two exceptions: one of the calls outside any    *)
(* try has thrown (HorsTry), or the role read has no home page.            *)
(***************************************************************************)
ConnexionAboutit ==
    \A p \in Postes :
        connexion[p].etape = "identifiants" ~>
            \/ ~Charge(p)
            \/ connexion[p].etape = "jetee"
            \/ connexion[p].etape = "bloquee" /\ controleur[p].role = "autre"

(***************************************************************************)
(* What parent_detail.dart says of statut ("En ligne", "Hors ligne"):      *)
(* nobody is shown online once every application is signed out and back on *)
(* the login page. The logout clears the statut of the user Firebase holds *)
(* by then, whom a registration has replaced.                              *)
(***************************************************************************)
EnLigneEstConnecte ==
    (\A p \in Postes : courant[p] = Aucun /\ page[p] = Connexion) => enLigne = {}
=============================================================================
