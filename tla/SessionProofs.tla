--------------------------- MODULE SessionProofs ---------------------------
(***************************************************************************)
(* Proofs about Session, for any browsers, people, roles and number of     *)
(* forms.                                                                  *)
(***************************************************************************)
EXTENDS Session, TLAPS

\* A login runs on the login page, where no logout runs, so that whoever has
\* given a password is still signed in, as himself or as somebody whom a form
\* has just registered.
LoginSeul ==
    \A p \in Postes :
        /\ Charge(p) => page[p].route = "connexion"
        /\ page[p].route = "connexion" => sortie[p] = Repos
        /\ connexion[p].etape \in {"statut", "document", "role", "preferences"} => courant[p] # Aucun

\* A document is only written for an account.
CompteAvant == \A p \in Postes : inscription[p].etape = "document" => inscription[p].qui \in comptes

TypeOKFort == TypeOK /\ LoginSeul /\ CompteAvant

\* Until the role is read ControleurAuth holds the person of the login under
\* way; from then on, it holds a person with his role.
ControleurJuste ==
    \A p \in Postes :
        /\ connexion[p].etape \in {"statut", "document", "role", "preferences"} =>
              controleur[p].utilisateur = connexion[p].qui
        /\ connexion[p].etape \in {"preferences", "confirmation", "etablissement"} =>
              /\ controleur[p].utilisateur # Aucun
              /\ controleur[p].role = RoleDe[controleur[p].utilisateur]

Inv == RouteDuRole /\ ControleurJuste

-----------------------------------------------------------------------------
(***************************************************************************)
(* Type correctness.                                                       *)
(***************************************************************************)
LEMMA TypeInit == Init => TypeOKFort
  BY SessionHypotheses
  DEF Init, TypeOKFort, TypeOK, LoginSeul, CompteAvant, Repos, Connexion, Deconnecte, PasDeFiche, Charge

\* What connexion[p] may be.
Appels == {Repos} \cup [etape : EtapesConnexion, qui : Personnes]

Controleurs == [utilisateur : Personnes \cup {Aucun}, role : RolesConnus \cup {"autre", Aucun}]

\* The statements that change connexion[p] change nothing else of it.
LEMMA SuiteEffet ==
  ASSUME TypeOKFort, NEW p \in Postes, NEW e \in EtapesConnexion, NEW u \in Personnes,
         SuiteConnexion(p, e, u)
  PROVE  /\ connexion' \in [Postes -> Appels]
         /\ connexion'[p].etape = e /\ connexion'[p].qui = u
         /\ \A q \in Postes : q # p => connexion'[q] = connexion[q]
  <1>1. Attend(e, u) \in Appels /\ Attend(e, u).etape = e /\ Attend(e, u).qui = u
    BY DEF Appels, Attend
  <1>2. connexion \in [Postes -> Appels] /\ connexion' = [connexion EXCEPT ![p] = Attend(e, u)]
    BY DEF TypeOKFort, TypeOK, Appels, SuiteConnexion
  <1> QED
    BY <1>1, <1>2

LEMMA FinEffet ==
  ASSUME TypeOKFort, NEW p \in Postes, FinConnexion(p)
  PROVE  /\ connexion' \in [Postes -> Appels] /\ connexion'[p].etape = "repos"
         /\ \A q \in Postes : q # p => connexion'[q] = connexion[q]
  <1>1. Repos \in Appels /\ Repos.etape = "repos"
    BY DEF Appels, Repos
  <1>2. connexion \in [Postes -> Appels] /\ connexion' = [connexion EXCEPT ![p] = Repos]
    BY DEF TypeOKFort, TypeOK, Appels, FinConnexion
  <1> QED
    BY <1>1, <1>2

\* The login of p goes on or fails, on the login page.
LEMMA ConnexionTypee ==
  ASSUME TypeOKFort, NEW p \in Postes, connexion[p].etape # "repos",
         connexion' \in [Postes -> Appels],
         \A q \in Postes : q # p => connexion'[q] = connexion[q],
         courant' \in [Postes -> Personnes \cup {Aucun}],
         \A q \in Postes : q # p => courant'[q] = courant[q],
         connexion'[p].etape \in {"statut", "document", "role", "preferences"} => courant'[p] # Aucun,
         controleur' \in [Postes -> Controleurs], enLigne' \subseteq utilisateurs,
         UNCHANGED <<comptes, utilisateurs, roles, page, sortie, inscription, fiche>>
  PROVE  TypeOKFort'
  <1>1. TypeOK'
    BY DEF TypeOKFort, TypeOK, Appels, Controleurs
  <1>2. LoginSeul'
    BY DEF TypeOKFort, LoginSeul, Charge
  <1> QED
    BY <1>1, <1>2 DEF TypeOKFort, CompteAvant

\* The login of p ends by showing the home page of the role r.
LEMMA AccueilTypee ==
  ASSUME TypeOKFort, NEW p \in Postes, NEW r \in RolesConnus, NEW u \in Personnes,
         Afficher(p, r, u), FinConnexion(p), enLigne' \subseteq utilisateurs,
         UNCHANGED <<comptes, utilisateurs, roles, courant, controleur, sortie, inscription, fiche>>
  PROVE  TypeOKFort'
  <1> DEFINE v == [route |-> r, uid |-> IF r = "administrateur" THEN courant[p] ELSE u]
  <1>1. v \in [route : RolesConnus \cup {"connexion"}, uid : Personnes \cup {Aucun}]
    BY DEF TypeOKFort, TypeOK
  <1>2. v.route # "connexion"
    BY DEF RolesConnus
  <1>3. page' = [page EXCEPT ![p] = v] /\ connexion' = [connexion EXCEPT ![p] = Repos]
    BY DEF Afficher, FinConnexion
  <1> HIDE DEF v
  <1>4. TypeOK'
    BY <1>1, <1>3 DEF TypeOKFort, TypeOK
  <1>5. LoginSeul'
    BY <1>2, <1>3 DEF TypeOKFort, TypeOK, LoginSeul, Charge, Repos
  <1> QED
    BY <1>4, <1>5 DEF TypeOKFort, CompteAvant

\* What a step of the login of p starts from.
LEMMA ConnexionAvant ==
  ASSUME TypeOKFort, NEW p \in Postes
  PROVE  /\ controleur \in [Postes -> Controleurs] /\ courant \in [Postes -> Personnes \cup {Aucun}]
         /\ enLigne \subseteq utilisateurs /\ utilisateurs \subseteq Personnes
         /\ connexion[p].etape \in EtapesConnexion => connexion[p].qui \in Personnes
         /\ connexion[p].etape \in {"statut", "document", "role", "preferences"} => courant[p] # Aucun
  BY DEF TypeOKFort, TypeOK, LoginSeul, Controleurs, Repos, EtapesConnexion

LEMMA EchecTypee ==
  ASSUME TypeOKFort, NEW p \in Postes, connexion[p].etape \in {"statut", "document", "role"},
         EchecConnexion(p),
         UNCHANGED <<comptes, utilisateurs, roles, courant, page, sortie, inscription, fiche>>
  PROVE  TypeOKFort'
  <1>1. controleur' \in [Postes -> Controleurs]
    BY ConnexionAvant DEF EchecConnexion, Deconnecte, Controleurs
  <1>2. /\ SuiteConnexion(p, "echec", connexion[p].qui) /\ enLigne' \subseteq utilisateurs
        /\ connexion[p].qui \in Personnes /\ "echec" \in EtapesConnexion
    BY ConnexionAvant DEF EchecConnexion, Echouer, EtapesConnexion
  <1>3. /\ connexion' \in [Postes -> Appels] /\ connexion'[p].etape = "echec"
        /\ \A q \in Postes : q # p => connexion'[q] = connexion[q]
    BY <1>2, SuiteEffet
  <1> QED
    BY <1>1, <1>2, <1>3, ConnexionAvant, ConnexionTypee

\* The login of p goes on with the user u, and changes neither ControleurAuth
\* nor the current user.
LEMMA SuiteTypee ==
  ASSUME TypeOKFort, NEW p \in Postes, NEW e \in EtapesConnexion, NEW u \in Personnes,
         connexion[p].etape # "repos", SuiteConnexion(p, e, u),
         e \in {"statut", "document", "role", "preferences"} => courant[p] # Aucun,
         enLigne' \subseteq utilisateurs,
         UNCHANGED <<comptes, utilisateurs, roles, courant, controleur, page, sortie, inscription, fiche>>
  PROVE  TypeOKFort'
  <1>1. /\ connexion' \in [Postes -> Appels] /\ connexion'[p].etape = e
        /\ \A q \in Postes : q # p => connexion'[q] = connexion[q]
    BY SuiteEffet
  <1> QED
    BY <1>1, ConnexionAvant, ConnexionTypee

\* The answers of the login.
LEMMA RepondreTypee ==
  ASSUME TypeOKFort, NEW p \in Postes, Repondre(p)
  PROVE  TypeOKFort'
  <1> DEFINE u == connexion[p].qui
  <1>t. enLigne \subseteq utilisateurs /\ utilisateurs \subseteq Personnes
    BY ConnexionAvant
  <1>u. connexion[p].etape \in EtapesConnexion => u \in Personnes
    BY ConnexionAvant
  <1>c. connexion[p].etape \in {"statut", "document", "role", "preferences"} => courant[p] # Aucun
    BY ConnexionAvant
  <1> HIDE DEF u
  <1>1. CASE Identifier(p)
    <2>1. /\ connexion[p].etape = "identifiants" /\ SuiteConnexion(p, "statut", u)
          /\ courant' = [courant EXCEPT ![p] = u]
          /\ controleur' = [controleur EXCEPT ![p].utilisateur = u]
          /\ UNCHANGED <<comptes, utilisateurs, enLigne, roles, page, sortie, inscription, fiche>>
      BY <1>1 DEF Identifier, serveur, u
    <2>2. u \in Personnes /\ u # Aucun /\ "statut" \in EtapesConnexion
      BY <1>u, <2>1, SessionHypotheses DEF EtapesConnexion
    <2>3. /\ connexion' \in [Postes -> Appels]
          /\ \A q \in Postes : q # p => connexion'[q] = connexion[q]
      BY <2>1, <2>2, SuiteEffet
    <2>4. /\ courant' \in [Postes -> Personnes \cup {Aucun}] /\ courant'[p] # Aucun
          /\ \A q \in Postes : q # p => courant'[q] = courant[q]
      BY <2>1, <2>2, ConnexionAvant
    <2>5. controleur' \in [Postes -> Controleurs]
      BY <2>1, <2>2, ConnexionAvant DEF Controleurs
    <2> QED
      BY <1>t, <2>1, <2>3, <2>4, <2>5, ConnexionTypee
  <1>2. CASE RefuserIdentifiants(p)
    <2>1. /\ connexion[p].etape = "identifiants" /\ SuiteConnexion(p, "echec", u)
          /\ UNCHANGED <<comptes, utilisateurs, enLigne, roles, courant, controleur, page, sortie,
                         inscription, fiche>>
      BY <1>2 DEF RefuserIdentifiants, Echouer, serveur, u
    <2>2. u \in Personnes /\ "echec" \in EtapesConnexion
      BY <1>u, <2>1 DEF EtapesConnexion
    <2> QED
      BY <1>t, <2>1, <2>2, SuiteTypee
  <1>3. CASE PasserEnLigne(p)
    <2>1. connexion[p].etape = "statut" /\ u \in Personnes /\ "document" \in EtapesConnexion
      BY <1>3, <1>u DEF PasserEnLigne, EtapesConnexion
    <2>2. CASE EchecConnexion(p)
      BY <1>3, <2>1, <2>2, EchecTypee DEF PasserEnLigne
    <2>3. CASE ~EchecConnexion(p)
      <3>1. SuiteConnexion(p, "document", u) /\ UNCHANGED controleur /\ enLigne' \subseteq utilisateurs
        BY <1>3, <1>t, <2>3 DEF PasserEnLigne, u
      <3> QED
        BY <1>3, <1>c, <2>1, <3>1, SuiteTypee DEF PasserEnLigne
    <2> QED
      BY <2>2, <2>3
  <1>4. CASE LireDocument(p)
    <2>1. connexion[p].etape = "document" /\ u \in Personnes /\ "role" \in EtapesConnexion
      BY <1>4, <1>u DEF LireDocument, EtapesConnexion
    <2>2. CASE EchecConnexion(p)
      BY <1>4, <2>1, <2>2, EchecTypee DEF LireDocument
    <2>3. CASE ~EchecConnexion(p)
      <3>1. SuiteConnexion(p, "role", u) /\ UNCHANGED controleur /\ enLigne' \subseteq utilisateurs
        BY <1>4, <1>t, <2>3 DEF LireDocument, u
      <3> QED
        BY <1>4, <1>c, <2>1, <3>1, SuiteTypee DEF LireDocument
    <2> QED
      BY <2>2, <2>3
  <1>5. CASE LireRole(p)
    <2>1. connexion[p].etape = "role" /\ u \in Personnes /\ "preferences" \in EtapesConnexion
      BY <1>5, <1>u DEF LireRole, EtapesConnexion
    <2>2. CASE EchecConnexion(p)
      BY <1>5, <2>1, <2>2, EchecTypee DEF LireRole
    <2>3. CASE ~EchecConnexion(p)
      <3>1. /\ SuiteConnexion(p, "preferences", u) /\ enLigne' = enLigne
            /\ controleur' = [controleur EXCEPT ![p].role = RoleDe[u]]
            /\ UNCHANGED <<comptes, utilisateurs, roles, courant, page, sortie, inscription, fiche>>
        BY <1>5, <2>3 DEF LireRole, u
      <3>2. RoleDe[u] \in RolesConnus \cup {"autre"}
        BY <2>1, SessionHypotheses
      <3>3. controleur' \in [Postes -> Controleurs]
        BY <3>1, <3>2, ConnexionAvant DEF Controleurs
      <3>4. /\ connexion' \in [Postes -> Appels]
            /\ \A q \in Postes : q # p => connexion'[q] = connexion[q]
        BY <2>1, <3>1, SuiteEffet
      <3> QED
        BY <1>t, <1>c, <2>1, <3>1, <3>3, <3>4, ConnexionAvant, ConnexionTypee
    <2> QED
      BY <2>2, <2>3
  <1>6. CASE EcrirePreferences(p)
    <2>1. UNCHANGED <<comptes, utilisateurs, enLigne, roles, courant, controleur, page, sortie,
                      inscription, fiche>>
      BY <1>6 DEF EcrirePreferences, serveur
    <2>2. CASE connexion[p].etape = "echec" /\ FinConnexion(p)
      BY <1>t, <2>1, <2>2, FinEffet, ConnexionAvant, ConnexionTypee
    <2>3. CASE connexion[p].etape = "preferences" /\ SuiteConnexion(p, "confirmation", courant[p])
      <3>1. courant[p] \in Personnes /\ "confirmation" \in EtapesConnexion
        BY <1>c, <2>3, ConnexionAvant DEF EtapesConnexion
      <3> QED
        BY <1>t, <2>1, <2>3, <3>1, SuiteTypee
    <2> QED
      BY <1>6, <2>2, <2>3 DEF EcrirePreferences
  <1>7. CASE ConfirmerStatut(p)
    <2>1. /\ connexion[p].etape = "confirmation" /\ u \in Personnes
          /\ "etablissement" \in EtapesConnexion /\ "superadmin" \in RolesConnus
      BY <1>7, <1>u DEF ConfirmerStatut, EtapesConnexion, RolesConnus
    <2>2. /\ enLigne' \subseteq utilisateurs
          /\ UNCHANGED <<comptes, utilisateurs, roles, courant, controleur, sortie, inscription, fiche>>
      BY <1>7, <1>t DEF ConfirmerStatut
    <2>3. \/ Afficher(p, "superadmin", u) /\ FinConnexion(p)
          \/ UNCHANGED page /\ SuiteConnexion(p, "etablissement", u)
      BY <1>7 DEF ConfirmerStatut, u
    <2>4. CASE Afficher(p, "superadmin", u) /\ FinConnexion(p)
      BY <2>1, <2>2, <2>4, AccueilTypee
    <2>5. CASE UNCHANGED page /\ SuiteConnexion(p, "etablissement", u)
      BY <2>1, <2>2, <2>5, SuiteTypee
    <2> QED
      BY <2>3, <2>4, <2>5
  <1>8. CASE LireEtablissement(p)
    <2> DEFINE r == controleur[p].role
    <2>1. connexion[p].etape = "etablissement" /\ u \in Personnes /\ "bloquee" \in EtapesConnexion
      BY <1>8, <1>u DEF LireEtablissement, EtapesConnexion
    <2>2. UNCHANGED <<comptes, utilisateurs, enLigne, roles, courant, controleur, sortie, inscription, fiche>>
      BY <1>8 DEF LireEtablissement, serveur
    <2>3. \/ r \in RolesConnus /\ Afficher(p, r, u) /\ FinConnexion(p)
          \/ UNCHANGED page /\ FinConnexion(p)
          \/ UNCHANGED page /\ SuiteConnexion(p, "bloquee", u)
      BY <1>8 DEF LireEtablissement, u
    <2> HIDE DEF r
    <2>4. CASE r \in RolesConnus /\ Afficher(p, r, u) /\ FinConnexion(p)
      BY <1>t, <2>1, <2>2, <2>4, AccueilTypee
    <2>5. CASE UNCHANGED page /\ FinConnexion(p)
      BY <2>1, <2>2, <2>5, FinEffet, ConnexionAvant, ConnexionTypee
    <2>6. CASE UNCHANGED page /\ SuiteConnexion(p, "bloquee", u)
      BY <1>t, <2>1, <2>2, <2>6, SuiteTypee
    <2> QED
      BY <2>3, <2>4, <2>5, <2>6
  <1>9. CASE Jeter(p)
    <2>1. /\ connexion[p].etape \in HorsTry /\ SuiteConnexion(p, "jetee", u)
          /\ UNCHANGED <<comptes, utilisateurs, enLigne, roles, courant, controleur, page, sortie,
                         inscription, fiche>>
      BY <1>9 DEF Jeter, serveur, u
    <2>2. connexion[p].etape # "repos" /\ u \in Personnes /\ "jetee" \in EtapesConnexion
      BY <1>u, <2>1 DEF HorsTry, EtapesConnexion
    <2> QED
      BY <1>t, <2>1, <2>2, SuiteTypee
  <1> QED
    BY <1>1, <1>2, <1>3, <1>4, <1>5, <1>6, <1>7, <1>8, <1>9 DEF Repondre

\* The other steps.
LEMMA TypePas == TypeOKFort /\ [Next]_vars => TypeOKFort'
  <1> SUFFICES ASSUME TypeOKFort, [Next]_vars
               PROVE  TypeOKFort'
    OBVIOUS
  <1> USE DEF TypeOKFort, TypeOK, LoginSeul, CompteAvant, Charge, Repos, Attend, PasDeFiche,
              Connexion, serveur
  <1>1. ASSUME NEW p \in Postes, Repondre(p)
        PROVE  TypeOKFort'
    BY <1>1, RepondreTypee
  <1>2. ASSUME NEW p \in Postes, ReconstruireAccueil(p)
        PROVE  TypeOKFort'
    BY <1>2 DEF ReconstruireAccueil, Afficher, RolesConnus, chaines
  <1>3. ASSUME NEW p \in Postes, DemanderDeconnexion(p)
        PROVE  TypeOKFort'
    BY <1>3 DEF DemanderDeconnexion
  <1>4. ASSUME NEW p \in Postes, PasserHorsLigne(p)
        PROVE  TypeOKFort'
    BY <1>4 DEF PasserHorsLigne
  <1>5. ASSUME NEW p \in Postes, FermerSession(p)
        PROVE  TypeOKFort'
    BY <1>5 DEF FermerSession
  <1>6. ASSUME NEW p \in Postes, CreerCompte(p)
        PROVE  TypeOKFort'
    <2> DEFINE u == inscription[p].qui
    <2>1. inscription[p].etape = "compte" /\ u \in Personnes /\ u # Aucun
      BY <1>6, SessionHypotheses DEF CreerCompte
    <2>2. UNCHANGED <<utilisateurs, enLigne, roles, controleur, page, connexion, sortie, fiche>>
      BY <1>6 DEF CreerCompte
    <2>3. /\ comptes' = comptes \cup {u} /\ courant' = [courant EXCEPT ![p] = u]
          /\ inscription' = [inscription EXCEPT ![p] = [etape |-> "document", qui |-> u]]
      BY <1>6 DEF CreerCompte
    <2> HIDE DEF u
    <2>4. TypeOK'
      BY <2>1, <2>2, <2>3
    <2>5. LoginSeul'
      BY <2>1, <2>2, <2>3
    <2>6. CompteAvant'
      BY <2>1, <2>2, <2>3
    <2> QED
      BY <2>4, <2>5, <2>6
  <1>7. ASSUME NEW p \in Postes, EcrireDocument(p)
        PROVE  TypeOKFort'
    BY <1>7 DEF EcrireDocument
  <1>8. ASSUME NEW p \in Postes, EnregistrerFiche(p)
        PROVE  TypeOKFort'
    BY <1>8 DEF EnregistrerFiche
  <1>9. ASSUME NEW p \in Postes, Relancer(p)
        PROVE  TypeOKFort'
    BY <1>9 DEF Relancer, Deconnecte
  <1>10. ASSUME NEW p \in Postes, NEW u \in Personnes, DemanderConnexion(p, u)
        PROVE  TypeOKFort'
    <2>1. "identifiants" \in EtapesConnexion /\ SuiteConnexion(p, "identifiants", u)
      BY <1>10 DEF DemanderConnexion, EtapesConnexion
    <2>2. /\ connexion' \in [Postes -> Appels] /\ connexion'[p].etape = "identifiants"
          /\ \A q \in Postes : q # p => connexion'[q] = connexion[q]
      BY <2>1, SuiteEffet
    <2>3. TypeOK' /\ CompteAvant'
      BY <1>10, <2>2 DEF DemanderConnexion, Appels
    <2>4. LoginSeul'
      BY <1>10, <2>2 DEF DemanderConnexion
    <2> QED
      BY <2>3, <2>4
  <1>11. ASSUME NEW p \in Postes, NEW u \in Personnes, Inscrire(p, u)
        PROVE  TypeOKFort'
    BY <1>11 DEF Inscrire
  <1>12. ASSUME NEW p \in Postes, NEW u \in Personnes, OuvrirFiche(p, u)
        PROVE  TypeOKFort'
    BY <1>12 DEF OuvrirFiche
  <1>13. ASSUME NEW u \in Personnes, SupprimerUtilisateur(u)
        PROVE  TypeOKFort'
    BY <1>13 DEF SupprimerUtilisateur, chaines
  <1>14. ASSUME NEW r \in roles, SupprimerRole(r)
        PROVE  TypeOKFort'
    BY <1>14 DEF SupprimerRole, chaines
  <1>15. ASSUME NEW p \in Postes, EchouerDeconnexion(p)
        PROVE  TypeOKFort'
    BY <1>15 DEF EchouerDeconnexion
  <1>16. ASSUME NEW p \in Postes, EchouerInscription(p)
        PROVE  TypeOKFort'
    BY <1>16 DEF EchouerInscription
  <1>17. CASE UNCHANGED vars
    BY <1>17 DEF vars
  <1> QED
    BY <1>1, <1>2, <1>3, <1>4, <1>5, <1>6, <1>7, <1>8, <1>9, <1>10, <1>11, <1>12, <1>13, <1>14, <1>15,
       <1>16, <1>17
    DEF Next

LEMMA TypeFort == Spec => []TypeOKFort
  BY TypeInit, TypePas, PTL DEF Spec

(***************************************************************************)
(* The collections and the browsers keep their types: a document of        *)
(* "utilisateurs" always has an account, whoever is online a document, and *)
(* _handleLogin never goes on without a current user.                      *)
(***************************************************************************)
THEOREM TypeCorrect == Spec => []TypeOK
  <1>1. TypeOKFort => TypeOK
    BY DEF TypeOKFort
  <1> QED
    BY <1>1, TypeFort, PTL

-----------------------------------------------------------------------------
(***************************************************************************)
(* The home page shown is that of the role.                                *)
(***************************************************************************)
LEMMA InvInit == Init => Inv
  BY DEF Init, Inv, RouteDuRole, ControleurJuste, Connexion, Repos

\* What Inv says of one browser.
JusteEn(p) ==
    /\ page[p].route # "connexion" =>
          controleur[p].utilisateur # Aucun /\ page[p].route = RoleDe[controleur[p].utilisateur]
    /\ connexion[p].etape \in {"statut", "document", "role", "preferences"} =>
          controleur[p].utilisateur = connexion[p].qui
    /\ connexion[p].etape \in {"preferences", "confirmation", "etablissement"} =>
          /\ controleur[p].utilisateur # Aucun
          /\ controleur[p].role = RoleDe[controleur[p].utilisateur]

\* A step of one browser leaves the others as they are.
LEMMA InvEn ==
  ASSUME Inv, NEW p \in Postes, JusteEn(p)',
         \A q \in Postes : q # p =>
            page'[q] = page[q] /\ connexion'[q] = connexion[q] /\ controleur'[q] = controleur[q]
  PROVE  Inv'
  BY DEF Inv, RouteDuRole, ControleurJuste, JusteEn

LEMMA InvSiEgal ==
  ASSUME Inv, UNCHANGED <<page, connexion, controleur>>
  PROVE  Inv'
  BY DEF Inv, RouteDuRole, ControleurJuste

LEMMA InvEchec ==
  ASSUME TypeOKFort, Inv, NEW p \in Postes, connexion[p].etape \in {"statut", "document", "role"},
         EchecConnexion(p), UNCHANGED page
  PROVE  Inv'
  <1>1. controleur' = [controleur EXCEPT ![p] = Deconnecte]
    BY DEF EchecConnexion
  <1>2. connexion'[p].etape = "echec" /\ \A q \in Postes : q # p => connexion'[q] = connexion[q]
    BY ConnexionAvant, SuiteEffet DEF EchecConnexion, Echouer, EtapesConnexion
  <1>3. page'[p].route = "connexion" /\ \A q \in Postes : q # p => controleur'[q] = controleur[q]
    BY <1>1, ConnexionAvant DEF TypeOKFort, LoginSeul, Charge
  <1> QED
    BY <1>2, <1>3, InvEn DEF JusteEn

LEMMA InvRepondre ==
  ASSUME TypeOKFort, Inv, NEW p \in Postes, Repondre(p)
  PROVE  Inv'
  <1> DEFINE u == connexion[p].qui
  <1>j. JusteEn(p)
    BY DEF Inv, RouteDuRole, ControleurJuste, JusteEn
  <1>t. /\ connexion[p].etape \in EtapesConnexion => u \in Personnes
        /\ controleur \in [Postes -> Controleurs]
    BY ConnexionAvant
  <1>r. connexion[p].etape # "repos" => page[p].route = "connexion"
    BY DEF TypeOKFort, LoginSeul, Charge
  <1>a. page \in [Postes -> [route : RolesConnus \cup {"connexion"}, uid : Personnes \cup {Aucun}]]
    BY DEF TypeOKFort, TypeOK
  <1> HIDE DEF u
  <1>1. CASE Identifier(p)
    <2>1. /\ connexion[p].etape = "identifiants" /\ SuiteConnexion(p, "statut", u)
          /\ controleur' = [controleur EXCEPT ![p].utilisateur = u] /\ page' = page
      BY <1>1 DEF Identifier, u
    <2>2. u \in Personnes /\ "statut" \in EtapesConnexion
      BY <1>t, <2>1 DEF EtapesConnexion
    <2>3. /\ connexion'[p].etape = "statut" /\ connexion'[p].qui = u
          /\ \A q \in Postes : q # p => connexion'[q] = connexion[q]
      BY <2>1, <2>2, SuiteEffet
    <2>4. /\ controleur'[p].utilisateur = u
          /\ \A q \in Postes : q # p => controleur'[q] = controleur[q]
      BY <1>t, <2>1 DEF Controleurs
    <2> QED
      BY <1>r, <2>1, <2>3, <2>4, InvEn DEF JusteEn
  <1>2. CASE RefuserIdentifiants(p)
    <2>1. connexion[p].etape = "identifiants" /\ SuiteConnexion(p, "echec", u)
      BY <1>2 DEF RefuserIdentifiants, Echouer, u
    <2>2. connexion'[p].etape = "echec" /\ \A q \in Postes : q # p => connexion'[q] = connexion[q]
      BY <1>t, <2>1, SuiteEffet DEF EtapesConnexion
    <2> QED
      BY <1>2, <1>j, <2>2, InvEn DEF RefuserIdentifiants, JusteEn
  <1>3. CASE PasserEnLigne(p) \/ LireDocument(p)
    <2>1. connexion[p].etape \in {"statut", "document"} /\ u \in Personnes /\ page' = page
      BY <1>3, <1>t DEF PasserEnLigne, LireDocument, EtapesConnexion
    <2>2. CASE EchecConnexion(p)
      BY <2>1, <2>2, InvEchec
    <2>3. ASSUME NEW e \in {"document", "role"}, SuiteConnexion(p, e, u), UNCHANGED controleur
          PROVE  Inv'
      <3>1. /\ connexion'[p].etape = e /\ connexion'[p].qui = u
            /\ \A q \in Postes : q # p => connexion'[q] = connexion[q]
        BY <2>1, <2>3, SuiteEffet DEF EtapesConnexion
      <3> QED
        BY <1>j, <2>1, <2>3, <3>1, InvEn DEF JusteEn, u
    <2> QED
      BY <1>3, <2>2, <2>3 DEF PasserEnLigne, LireDocument, u
  <1>4. CASE LireRole(p)
    <2>1. connexion[p].etape = "role" /\ u \in Personnes /\ page' = page /\ "preferences" \in EtapesConnexion
      BY <1>4, <1>t DEF LireRole, EtapesConnexion
    <2>2. CASE EchecConnexion(p)
      BY <2>1, <2>2, InvEchec
    <2>3. CASE ~EchecConnexion(p)
      <3>1. /\ SuiteConnexion(p, "preferences", u)
            /\ controleur' = [controleur EXCEPT ![p].role = RoleDe[u]]
        BY <1>4, <2>3 DEF LireRole, u
      <3>2. /\ connexion'[p].etape = "preferences" /\ connexion'[p].qui = u
            /\ \A q \in Postes : q # p => connexion'[q] = connexion[q]
        BY <2>1, <3>1, SuiteEffet
      <3>3. /\ controleur'[p].utilisateur = u /\ controleur'[p].role = RoleDe[u]
            /\ \A q \in Postes : q # p => controleur'[q] = controleur[q]
        BY <1>j, <1>t, <2>1, <3>1 DEF JusteEn, Controleurs, u
      <3> QED
        BY <1>r, <2>1, <3>2, <3>3, SessionHypotheses, InvEn DEF JusteEn
    <2> QED
      BY <2>2, <2>3
  <1>5. CASE EcrirePreferences(p)
    <2>1. UNCHANGED <<page, controleur>>
      BY <1>5 DEF EcrirePreferences
    <2>2. CASE connexion[p].etape = "echec" /\ FinConnexion(p)
      <3>1. connexion'[p].etape = "repos" /\ \A q \in Postes : q # p => connexion'[q] = connexion[q]
        BY <2>2, FinEffet
      <3> QED
        BY <1>j, <2>1, <3>1, InvEn DEF JusteEn
    <2>3. CASE connexion[p].etape = "preferences" /\ SuiteConnexion(p, "confirmation", courant[p])
      <3>1. courant[p] \in Personnes /\ "confirmation" \in EtapesConnexion
        BY <2>3, ConnexionAvant DEF EtapesConnexion
      <3>2. /\ connexion'[p].etape = "confirmation"
            /\ \A q \in Postes : q # p => connexion'[q] = connexion[q]
        BY <2>3, <3>1, SuiteEffet
      <3> QED
        BY <1>j, <2>1, <2>3, <3>2, InvEn DEF JusteEn
    <2> QED
      BY <1>5, <2>2, <2>3 DEF EcrirePreferences
  \* The page of the role that the login has read, or nothing new.
  <1>6. ASSUME connexion[p].etape \in {"confirmation", "etablissement"}, u \in Personnes,
               UNCHANGED controleur,
               \/ /\ controleur[p].role \in RolesConnus
                  /\ Afficher(p, controleur[p].role, u) /\ FinConnexion(p)
               \/ page' = page /\ FinConnexion(p)
               \/ page' = page /\ \E e \in {"etablissement", "bloquee"} : SuiteConnexion(p, e, u)
        PROVE  Inv'
    <2>1. CASE /\ controleur[p].role \in RolesConnus
               /\ Afficher(p, controleur[p].role, u) /\ FinConnexion(p)
      <3>1. connexion'[p].etape = "repos" /\ \A q \in Postes : q # p => connexion'[q] = connexion[q]
        BY <2>1, FinEffet
      <3>2. page'[p].route = controleur[p].role /\ \A q \in Postes : q # p => page'[q] = page[q]
        BY <1>a, <2>1 DEF Afficher
      <3> QED
        BY <1>6, <1>j, <3>1, <3>2, InvEn DEF JusteEn
    <2>2. CASE page' = page /\ FinConnexion(p)
      <3>1. connexion'[p].etape = "repos" /\ \A q \in Postes : q # p => connexion'[q] = connexion[q]
        BY <2>2, FinEffet
      <3> QED
        BY <1>6, <1>j, <2>2, <3>1, InvEn DEF JusteEn
    <2>3. ASSUME page' = page, NEW e \in {"etablissement", "bloquee"}, SuiteConnexion(p, e, u)
          PROVE  Inv'
      <3>1. connexion'[p].etape = e /\ \A q \in Postes : q # p => connexion'[q] = connexion[q]
        BY <1>6, <2>3, SuiteEffet DEF EtapesConnexion
      <3> QED
        BY <1>6, <1>j, <2>3, <3>1, InvEn DEF JusteEn
    <2> QED
      BY <1>6, <2>1, <2>2, <2>3
  <1>7. CASE ConfirmerStatut(p)
    <2>1. connexion[p].etape = "confirmation" /\ u \in Personnes /\ "superadmin" \in RolesConnus
      BY <1>7, <1>t DEF ConfirmerStatut, EtapesConnexion, RolesConnus
    <2> QED
      BY <1>6, <1>7, <2>1 DEF ConfirmerStatut, u
  <1>8. CASE LireEtablissement(p)
    <2>1. connexion[p].etape = "etablissement" /\ u \in Personnes
      BY <1>8, <1>t DEF LireEtablissement, EtapesConnexion
    <2> QED
      BY <1>6, <1>8, <2>1 DEF LireEtablissement, u
  <1>9. CASE Jeter(p)
    <2>1. connexion[p].etape \in HorsTry /\ SuiteConnexion(p, "jetee", u) /\ UNCHANGED <<page, controleur>>
      BY <1>9 DEF Jeter, u
    <2>2. connexion'[p].etape = "jetee" /\ \A q \in Postes : q # p => connexion'[q] = connexion[q]
      BY <1>t, <2>1, SuiteEffet DEF HorsTry, EtapesConnexion
    <2> QED
      BY <1>j, <2>1, <2>2, InvEn DEF JusteEn
  <1> QED
    BY <1>1, <1>2, <1>3, <1>4, <1>5, <1>7, <1>8, <1>9 DEF Repondre

LEMMA InvPas == TypeOKFort /\ Inv /\ [Next]_vars => Inv'
  <1> SUFFICES ASSUME TypeOKFort, Inv, [Next]_vars
               PROVE  Inv'
    OBVIOUS
  <1>j. \A p \in Postes : JusteEn(p)
    BY DEF Inv, RouteDuRole, ControleurJuste, JusteEn
  <1>t. /\ page \in [Postes -> [route : RolesConnus \cup {"connexion"}, uid : Personnes \cup {Aucun}]]
        /\ controleur \in [Postes -> Controleurs] /\ connexion \in [Postes -> Appels]
    BY DEF TypeOKFort, TypeOK, Controleurs, Appels
  <1>1. ASSUME NEW p \in Postes, Repondre(p)
        PROVE  Inv'
    BY <1>1, InvRepondre
  <1>2. ASSUME NEW p \in Postes, ReconstruireAccueil(p)
        PROVE  Inv'
    <2>1. page'[p].route = page[p].route /\ \A q \in Postes : q # p => page'[q] = page[q]
      BY <1>2, <1>t DEF ReconstruireAccueil, Afficher
    <2> QED
      BY <1>2, <1>j, <2>1, InvEn DEF ReconstruireAccueil, chaines, JusteEn
  <1>3. ASSUME NEW p \in Postes, FermerSession(p)
        PROVE  Inv'
    <2>1. page'[p].route = "connexion" /\ \A q \in Postes : q # p => page'[q] = page[q]
      BY <1>3, <1>t DEF FermerSession, Connexion
    <2> QED
      BY <1>3, <1>j, <2>1, InvEn DEF FermerSession, JusteEn
  <1>4. ASSUME NEW p \in Postes, Relancer(p)
        PROVE  Inv'
    <2>1. /\ page'[p].route = "connexion" /\ connexion'[p].etape = "repos"
          /\ \A q \in Postes : q # p =>
                page'[q] = page[q] /\ connexion'[q] = connexion[q] /\ controleur'[q] = controleur[q]
      BY <1>4, <1>t DEF Relancer, Connexion, Repos
    <2> QED
      BY <2>1, InvEn DEF JusteEn
  <1>5. ASSUME NEW p \in Postes, NEW u \in Personnes, DemanderConnexion(p, u)
        PROVE  Inv'
    <2>1. /\ connexion'[p].etape = "identifiants"
          /\ \A q \in Postes : q # p => connexion'[q] = connexion[q]
      BY <1>5, SuiteEffet DEF DemanderConnexion, EtapesConnexion
    <2> QED
      BY <1>5, <1>j, <2>1, InvEn DEF DemanderConnexion, JusteEn
  <1>6. ASSUME \/ \E p \in Postes :
                    \/ DemanderDeconnexion(p) \/ PasserHorsLigne(p) \/ EchouerDeconnexion(p)
                    \/ CreerCompte(p) \/ EcrireDocument(p) \/ EchouerInscription(p)
                    \/ EnregistrerFiche(p)
                    \/ \E u \in Personnes : Inscrire(p, u) \/ OuvrirFiche(p, u)
               \/ \E u \in Personnes : SupprimerUtilisateur(u)
               \/ \E r \in roles : SupprimerRole(r)
               \/ UNCHANGED vars
        PROVE  UNCHANGED <<page, connexion, controleur>>
    BY <1>6 DEF DemanderDeconnexion, PasserHorsLigne, EchouerDeconnexion, CreerCompte, EcrireDocument,
                EchouerInscription, EnregistrerFiche, Inscrire, OuvrirFiche, SupprimerUtilisateur, SupprimerRole, vars, chaines
  <1> QED
    BY <1>1, <1>2, <1>3, <1>4, <1>5, <1>6, InvSiEgal DEF Next

(***************************************************************************)
(* The inductive invariant: ControleurAuth holds the person of the login   *)
(* under way until the role is read, and a person with his role from then  *)
(* on.                                                                     *)
(***************************************************************************)
THEOREM Inductif == Spec => []Inv
  BY InvInit, InvPas, TypeFort, PTL DEF Spec

(***************************************************************************)
(* A home page is the one of the role of the person whose password opened  *)
(* it, whatever earlier logins, logouts and registrations have left.       *)
(***************************************************************************)
THEOREM RouteDuRoleTenue == Spec => []RouteDuRole
  <1>1. Inv => RouteDuRole
    BY DEF Inv
  <1> QED
    BY <1>1, Inductif, PTL
=============================================================================
