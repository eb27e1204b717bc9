------------------------ MODULE HorsFirestoreProofs ------------------------
(***************************************************************************)
(* Proofs about the two components whose state is outside Firestore:       *)
(* Photo, with its files in the storage service, for any pages and any     *)
(* number of files; and the process of the Windows runner, with the        *)
(* arguments and the window, for any command line and any width of an      *)
(* unsigned int.                                                           *)
(***************************************************************************)
EXTENDS Photo, Processus, FiniteSetTheorems, SequenceTheorems, TLAPS

-----------------------------------------------------------------------------
(***************************************************************************)
(* The photo.                                                              *)
(***************************************************************************)

\* What a page may name: a file that was stored, or nothing.
Noms == 1..dernier \cup {Aucun}

ChainesPhoto == [etape : {"repos", "suppression", "creation", "maj"}, ancien : Noms, nouveau : Noms]

-----------------------------------------------------------------------------
(***************************************************************************)
(* Type correctness.                                                       *)
(***************************************************************************)
\* A change of the chain of p alone keeps the type.
LEMMA ChaineTypee ==
  ASSUME TypeOK, NEW p \in Pages, NEW c \in ChainesPhoto,
         c.etape = "maj" => c.nouveau # Aucun,
         chaine' = [chaine EXCEPT ![p] = c],
         UNCHANGED <<dernier, photo, vu>>, fichiers' \subseteq fichiers
  PROVE  TypeOK'
  BY DEF TypeOK, ChainesPhoto, Noms

LEMMA TypeInit == Init => TypeOK
  BY PhotoHypotheses DEF Init, TypeOK, EnRepos

LEMMA TypePas == TypeOK /\ [Next]_vars => TypeOK'
  <1> SUFFICES ASSUME TypeOK, [Next]_vars
               PROVE  TypeOK'
    OBVIOUS
  <1>r. EnRepos \in ChainesPhoto /\ EnRepos.etape # "maj"
    BY DEF EnRepos, ChainesPhoto, Noms
  <1>c. \A p \in Pages : chaine[p] \in ChainesPhoto
    BY DEF TypeOK, ChainesPhoto, Noms
  <1>1. ASSUME NEW p \in Pages, Charger(p)
        PROVE  TypeOK'
    BY <1>1 DEF Charger, TypeOK
  <1>2. ASSUME NEW p \in Pages, Choisir(p)
        PROVE  TypeOK'
    <2> DEFINE c == [EnRepos EXCEPT !.etape = IF vu[p] = Aucun THEN "creation" ELSE "suppression",
                                    !.ancien = vu[p]]
    <2>1. c \in ChainesPhoto /\ c.etape # "maj"
      BY <1>r DEF TypeOK, ChainesPhoto, Noms, EnRepos
    <2>2. chaine' = [chaine EXCEPT ![p] = c]
      BY <1>2 DEF Choisir
    <2> HIDE DEF c
    <2> QED
      BY <1>2, <2>1, <2>2, ChaineTypee DEF Choisir
  <1>3. ASSUME NEW p \in Pages, Supprimer(p)
        PROVE  TypeOK'
    <2> DEFINE c == IF chaine[p].ancien \in fichiers
                      THEN [chaine[p] EXCEPT !.etape = "creation"] ELSE EnRepos
    <2>1. c \in ChainesPhoto /\ c.etape # "maj"
      BY <1>c, <1>r DEF ChainesPhoto
    <2>2. chaine' = [chaine EXCEPT ![p] = c] /\ fichiers' \subseteq fichiers
      BY <1>3 DEF Supprimer
    <2> HIDE DEF c
    <2> QED
      BY <1>3, <2>1, <2>2, ChaineTypee DEF Supprimer
  <1>4. ASSUME NEW p \in Pages, Creer(p)
        PROVE  TypeOK'
    <2>1. dernier' = dernier + 1 /\ dernier' \in 1..MaxFichiers /\ 1..dernier \subseteq 1..dernier'
      BY <1>4, PhotoHypotheses DEF Creer, TypeOK
    <2>2. dernier' # Aucun
      BY <2>1, PhotoHypotheses DEF Fichiers
    <2>3. fichiers' \subseteq 1..dernier'
      BY <1>4, <2>1 DEF Creer, TypeOK
    <2>4. photo' \in 1..dernier' \cup {Aucun} /\ vu' \in [Pages -> 1..dernier' \cup {Aucun}]
      BY <1>4, <2>1 DEF Creer, TypeOK
    <2>5. \A q \in Pages : /\ chaine'[q] \in ChainesPhoto'
                           /\ chaine'[q].etape = "maj" => chaine'[q].nouveau # Aucun
      BY <1>4, <1>c, <2>1, <2>2 DEF Creer, TypeOK, ChainesPhoto, Noms
    <2>6. chaine' \in [Pages -> ChainesPhoto']
      BY <1>4, <2>5 DEF Creer, TypeOK
    <2> QED
      BY <2>1, <2>3, <2>4, <2>5, <2>6 DEF TypeOK, ChainesPhoto, Noms
  <1>5. ASSUME NEW p \in Pages, MettreAJour(p)
        PROVE  TypeOK'
    BY <1>5, <1>r DEF MettreAJour, TypeOK, ChainesPhoto, Noms
  <1>6. ASSUME NEW p \in Pages, Echouer(p)
        PROVE  TypeOK'
    BY <1>6, <1>r, ChaineTypee DEF Echouer
  <1>7. CASE UNCHANGED vars
    BY <1>7 DEF vars, TypeOK
  <1> QED
    BY <1>1, <1>2, <1>3, <1>4, <1>5, <1>6, <1>7 DEF Next

(***************************************************************************)
(* The bucket, the document and the pages keep their types, and no file is *)
(* named before it is stored.                                              *)
(***************************************************************************)
THEOREM TypePhoto == Spec => []TypeOK
  BY TypeInit, TypePas, PTL DEF Spec

-----------------------------------------------------------------------------
(***************************************************************************)
(* One replacement at most.                                                *)
(***************************************************************************)
\* The chain of p replaces a photo, whose file it has deleted.
Remplace(p) == p \in EnRemplacement /\ chaine[p].ancien # Aucun

\* A file is deleted by one chain and is not there for another: the deletion
\* is what tells two pages apart.
Inv ==
    /\ \A p \in Pages : Remplace(p) => chaine[p].ancien \notin fichiers
    /\ UnSeulRemplace

\* What leaves no new chain with a replacement and no old file stored again
\* keeps the invariant.
LEMMA InvSiMoins ==
  ASSUME Inv, TypeOK, fichiers' \subseteq fichiers,
         \A p \in Pages : p \in EnRemplacement' /\ chaine'[p].ancien # Aucun =>
            p \in EnRemplacement /\ chaine'[p].ancien = chaine[p].ancien
  PROVE  Inv'
  BY DEF Inv, UnSeulRemplace, EnRemplacement, Remplace

LEMMA InvPas == TypeOK /\ Inv /\ [Next]_vars => Inv'
  <1> SUFFICES ASSUME TypeOK, Inv, [Next]_vars
               PROVE  Inv'
    OBVIOUS
  <1>1. ASSUME NEW p \in Pages, Charger(p)
        PROVE  Inv'
    BY <1>1, InvSiMoins DEF Charger, EnRemplacement
  <1>2. ASSUME NEW p \in Pages, Choisir(p)
        PROVE  Inv'
    <2>1. \A q \in Pages : q # p => chaine'[q] = chaine[q]
      BY <1>2 DEF Choisir, TypeOK
    <2>2. vu[p] # Aucun => chaine'[p].etape = "suppression"
      BY <1>2 DEF Choisir, TypeOK, EnRepos
    <2>3. chaine'[p].ancien = vu[p]
      BY <1>2 DEF Choisir, TypeOK, EnRepos
    <2> QED
      BY <1>2, <2>1, <2>2, <2>3, InvSiMoins DEF Choisir, EnRemplacement
  <1>3. ASSUME NEW p \in Pages, Supprimer(p)
        PROVE  Inv'
    <2>1. \A q \in Pages : q # p => chaine'[q] = chaine[q]
      BY <1>3 DEF Supprimer, TypeOK
    <2>2. CASE chaine[p].ancien \in fichiers
      <3>1. chaine'[p].ancien = chaine[p].ancien /\ chaine'[p].etape = "creation"
        BY <1>3, <2>2 DEF Supprimer, TypeOK
      <3>2. \A q \in Pages : Remplace(q) => chaine[q].ancien # chaine[p].ancien
        BY <2>2 DEF Inv
      <3>3. chaine[p].ancien \notin fichiers' /\ fichiers' \subseteq fichiers
        BY <1>3 DEF Supprimer
      <3>4. \A q \in Pages : q # p => (Remplace(q)' <=> Remplace(q)) /\ chaine'[q] = chaine[q]
        BY <2>1 DEF Remplace, EnRemplacement
      <3>5. \A q \in Pages : Remplace(q)' => chaine'[q].ancien \notin fichiers'
        BY <3>1, <3>3, <3>4 DEF Inv
      <3>6. UnSeulRemplace'
        BY <3>1, <3>2, <3>4 DEF Inv, UnSeulRemplace, Remplace, EnRemplacement
      <3> QED
        BY <3>5, <3>6 DEF Inv
    <2>3. CASE chaine[p].ancien \notin fichiers
      <3>1. chaine'[p] = EnRepos
        BY <1>3, <2>3 DEF Supprimer, TypeOK
      <3>2. fichiers' \subseteq fichiers
        BY <1>3 DEF Supprimer
      <3> QED
        BY <2>1, <3>1, <3>2, InvSiMoins DEF EnRemplacement, EnRepos
    <2> QED
      BY <2>2, <2>3
  <1>4. ASSUME NEW p \in Pages, Creer(p)
        PROVE  Inv'
    <2>1. \A q \in Pages : chaine'[q].ancien = chaine[q].ancien
      BY <1>4 DEF Creer, TypeOK
    <2>2. EnRemplacement' = EnRemplacement
      BY <1>4 DEF Creer, TypeOK, EnRemplacement
    <2>3. fichiers' = fichiers \cup {dernier + 1} /\ dernier + 1 \notin 1..dernier
      BY <1>4 DEF Creer, TypeOK
    <2>4. \A q \in Pages : chaine[q].ancien \in 1..dernier \cup {Aucun}
      BY DEF TypeOK
    <2>5. \A q \in Pages : Remplace(q)' => Remplace(q) /\ chaine'[q].ancien \notin fichiers'
      BY <2>1, <2>2, <2>3, <2>4 DEF Inv, Remplace
    <2>6. UnSeulRemplace'
      BY <2>1, <2>2 DEF Inv, UnSeulRemplace, EnRemplacement
    <2> QED
      BY <2>5, <2>6 DEF Inv
  <1>5. ASSUME NEW p \in Pages, MettreAJour(p)
        PROVE  Inv'
    BY <1>5, InvSiMoins DEF MettreAJour, EnRemplacement, TypeOK, EnRepos
  <1>6. ASSUME NEW p \in Pages, Echouer(p)
        PROVE  Inv'
    BY <1>6, InvSiMoins DEF Echouer, EnRemplacement, TypeOK, EnRepos
  <1>7. CASE UNCHANGED vars
    BY <1>7, InvSiMoins DEF vars, EnRemplacement
  <1> QED
    BY <1>1, <1>2, <1>3, <1>4, <1>5, <1>6, <1>7 DEF Next

(***************************************************************************)
(* The deletion of a file succeeds once: of the pages that show a photo,   *)
(* one at most replaces it, however many are tapped at the same time.      *)
(***************************************************************************)
THEOREM UnSeulRemplaceTenu == Spec => []UnSeulRemplace
  <1>1. Init => Inv
    BY DEF Init, Inv, UnSeulRemplace, Remplace, EnRemplacement, EnRepos
  <1>2. Inv => UnSeulRemplace
    BY DEF Inv
  <1> QED
    BY <1>1, <1>2, InvPas, TypePhoto, PTL DEF Spec

-----------------------------------------------------------------------------
(***************************************************************************)
(* A lost photo.                                                           *)
(***************************************************************************)
\* Every page shows the lost photo and no chain is past its deletion.
Perdue ==
    /\ photo \notin fichiers \cup {Aucun}
    /\ EnRemplacement = {}
    /\ \A p \in Pages : vu[p] = photo /\ chaine[p].ancien \in {photo, Aucun}

LEMMA PerduePas ==
  ASSUME TypeOK, [Next]_vars, Perdue
  PROVE  photo' = photo /\ \A p \in Pages : chaine'[p].etape \in {"repos", "suppression"}
  <1>e. \A p \in Pages : chaine[p].etape \in {"repos", "suppression"}
    BY DEF Perdue, EnRemplacement, TypeOK
  <1>a. Aucun \notin fichiers
    <2>1. fichiers \subseteq Fichiers
      BY PhotoHypotheses DEF TypeOK, Fichiers
    <2> QED
      BY <2>1, PhotoHypotheses
  <1>1. ASSUME NEW p \in Pages, Charger(p)
        PROVE  photo' = photo /\ chaine' = chaine
    BY <1>1 DEF Charger
  <1>2. ASSUME NEW p \in Pages, Choisir(p)
        PROVE  /\ photo' = photo
               /\ chaine'[p].etape = "suppression"
               /\ \A q \in Pages : q # p => chaine'[q] = chaine[q]
    BY <1>2 DEF Choisir, TypeOK, Perdue, EnRepos
  <1>3. ASSUME NEW p \in Pages, Supprimer(p)
        PROVE  /\ photo' = photo
               /\ chaine'[p].etape = "repos"
               /\ \A q \in Pages : q # p => chaine'[q] = chaine[q]
    <2>1. chaine[p].ancien \notin fichiers
      BY <1>a DEF Perdue
    <2> QED
      BY <1>3, <2>1 DEF Supprimer, TypeOK, EnRepos
  <1>4. ASSUME NEW p \in Pages
        PROVE  ~Creer(p) /\ ~MettreAJour(p)
    BY <1>e DEF Creer, MettreAJour
  <1>5. ASSUME NEW p \in Pages, Echouer(p)
        PROVE  /\ photo' = photo
               /\ chaine'[p].etape = "repos"
               /\ \A q \in Pages : q # p => chaine'[q] = chaine[q]
    BY <1>5 DEF Echouer, TypeOK, EnRepos
  <1>6. CASE UNCHANGED vars
    BY <1>6, <1>e DEF vars
  <1> QED
    BY <1>e, <1>1, <1>2, <1>3, <1>4, <1>5, <1>6 DEF Next

(***************************************************************************)
(* Once the file of the photo is gone, the chain that deleted it has ended *)
(* and the pages show it, no step changes the photo of the user: every     *)
(* attempt ends at deleteFile.                                             *)
(***************************************************************************)
THEOREM PerduePourToujoursTenu == Spec => PerduePourToujours
  <1>1. TypeOK /\ [Next]_vars =>
        [Perdue => photo' = photo /\ \A p \in Pages : chaine'[p].etape \in {"repos", "suppression"}]_vars
    BY PerduePas
  <1>2. TypeOK /\ [Next]_vars =>
        [/\ photo \notin fichiers \cup {Aucun}
         /\ EnRemplacement = {}
         /\ \A p \in Pages : vu[p] = photo /\ chaine[p].ancien \in {photo, Aucun}
         => photo' = photo /\ \A p \in Pages : chaine'[p].etape \in {"repos", "suppression"}]_vars
    BY <1>1 DEF Perdue
  <1> QED
    BY <1>2, TypePhoto, PTL DEF Spec, PerduePourToujours

-----------------------------------------------------------------------------
(***************************************************************************)
(* The window of the runner.                                               *)
(***************************************************************************)
\* OnCreate, called by main, has not returned.
Creation == {"creation", "moteur", "rappel", "redessin"}

\* What main has done tells what there is of the window; SansInstance is its
\* part about the class. quit_on_close tells, in the destructor, a window that
\* was closed from one that was never completed.
FenetreCoherente ==
    /\ window_handle <=> hwnd = "ouverte"
    /\ trame # "arret" => hwnd = "ouverte"
    /\ quit => hwnd = "detruite"
    /\ fenetres = IF main \in {"liberation", "fin"} THEN 0 ELSE 1
    /\ main \in Creation => ~quit_on_close /\ ~classe.precoce
    /\ IF main = "creation" THEN hwnd = "aucune" ELSE main \in Creation => hwnd = "ouverte"
    /\ main \in {"rappel", "redessin"} => controleur
    /\ main = "boucle" => (controleur <=> hwnd = "ouverte")
    /\ main = "destructeur" /\ quit_on_close => hwnd = "detruite"
    /\ main \in {"liberation", "fin"} => hwnd # "ouverte"

InvFenetre == TypeOKFenetre /\ FenetreCoherente /\ ThemeSuivi /\ SansInstance

LEMMA InvFenetreInit == InitFenetre => InvFenetre
  <1> SUFFICES ASSUME InitFenetre
               PROVE  InvFenetre
    OBVIOUS
  <1>1. TypeOKFenetre
    <2>1. classe \in [enregistree : BOOLEAN, precoce : BOOLEAN]
      BY DEF InitFenetre
    <2>2. /\ window_handle \in BOOLEAN /\ controleur \in BOOLEAN /\ quit_on_close \in BOOLEAN
          /\ quit \in BOOLEAN /\ visible \in BOOLEAN /\ avis \in BOOLEAN
      BY DEF InitFenetre
    <2>3. main = "creation" /\ hwnd = "aucune" /\ trame = "arret" /\ rappel = "aucun"
      BY DEF InitFenetre
    <2>4. registre \in Themes /\ cadre \in {"clair", "sombre"} /\ fenetres \in 0..1
      BY FenetreHypotheses DEF InitFenetre
    <2> QED
      BY <2>1, <2>2, <2>3, <2>4 DEF TypeOKFenetre
  <1>2. FenetreCoherente
    BY DEF InitFenetre, FenetreCoherente, Creation
  <1>3. ThemeSuivi /\ SansInstance
    BY DEF InitFenetre, ThemeSuivi, SansInstance
  <1> QED
    BY <1>1, <1>2, <1>3 DEF InvFenetre

\* UpdateTheme leaves a theme, and the one of the registry if there is one.
LEMMA UpdateThemeType ==
  ASSUME registre \in Themes, cadre \in {"clair", "sombre"}, UpdateTheme
  PROVE  cadre' \in {"clair", "sombre"} /\ (registre # "absent" => cadre' = registre)
  BY DEF UpdateTheme, Themes

\* The class is unregistered under a window only when no window is counted
\* while one is there.
LEMMA LibererType ==
  ASSUME classe \in [enregistree : BOOLEAN, precoce : BOOLEAN], NEW n, Liberer(n)
  PROVE  /\ classe' \in [enregistree : BOOLEAN, precoce : BOOLEAN]
         /\ classe'.precoce => \/ classe.precoce
                               \/ n = 0 /\ hwnd = "ouverte"
  <1> DEFINE b == classe.precoce \/ hwnd = "ouverte"
  <1>1. CASE n = 0
    <2>1. classe' = [enregistree |-> FALSE, precoce |-> b]
      BY <1>1 DEF Liberer
    <2>2. b \in BOOLEAN /\ (b => classe.precoce \/ hwnd = "ouverte")
      OBVIOUS
    <2> HIDE DEF b
    <2> QED
      BY <1>1, <2>1, <2>2
  <1>2. CASE n # 0
    BY <1>2 DEF Liberer
  <1> QED
    BY <1>1, <1>2

LEMMA InvFenetreFil == InvFenetre /\ Fil => InvFenetre'
  <1> SUFFICES ASSUME InvFenetre, Fil
               PROVE  InvFenetre'
    OBVIOUS
  <1> USE DEF InvFenetre, TypeOKFenetre, FenetreCoherente, ThemeSuivi, SansInstance, Creation,
              varsMoteur, varsTheme
  <1>1. CASE CreerFenetre
    BY <1>1, UpdateThemeType DEF CreerFenetre
  <1>2. CASE EchouerFenetre
    BY <1>2 DEF EchouerFenetre
  <1>3. CASE DemarrerMoteur
    BY <1>3 DEF DemarrerMoteur
  <1>4. CASE EchouerMoteur
    BY <1>4 DEF EchouerMoteur
  <1>5. CASE ArmerRappel
    BY <1>5 DEF ArmerRappel
  <1>6. CASE Redessiner
    BY <1>6 DEF Redessiner
  <1>7. CASE Quitter
    BY <1>7 DEF Quitter
  <1>8. CASE DetruireFenetre
    <2>0. classe' \in [enregistree : BOOLEAN, precoce : BOOLEAN] /\ fenetres' = 0
      BY <1>8, LibererType DEF DetruireFenetre
    <2>1. TypeOKFenetre'
      <3>1. hwnd' \in {"aucune", "detruite"} /\ main' = "liberation" /\ trame' = "arret" /\ rappel' = "aucun"
        BY <1>8 DEF DetruireFenetre
      <3>2. /\ window_handle' = FALSE /\ controleur' = FALSE
            /\ UNCHANGED <<quit_on_close, quit, visible, registre, cadre, avis>>
        BY <1>8 DEF DetruireFenetre
      <3>3. /\ window_handle' \in BOOLEAN /\ controleur' \in BOOLEAN /\ quit_on_close' \in BOOLEAN
            /\ quit' \in BOOLEAN /\ visible' \in BOOLEAN /\ avis' \in BOOLEAN
        BY <3>2
      <3>4. fenetres' \in 0..1
        BY <2>0
      <3> QED
        BY <2>0, <3>1, <3>2, <3>3, <3>4
    <2>2. FenetreCoherente'
      BY <1>8, LibererType DEF DetruireFenetre
    <2>3. ThemeSuivi' /\ SansInstance'
      BY <1>8, LibererType DEF DetruireFenetre
    <2> QED
      BY <2>1, <2>2, <2>3
  <1>9. CASE LibererClasse
    BY <1>9, LibererType DEF LibererClasse
  <1> QED
    BY <1>1, <1>2, <1>3, <1>4, <1>5, <1>6, <1>7, <1>8, <1>9 DEF Fil

LEMMA InvFenetrePas == InvFenetre /\ [NextFenetre]_varsFenetre => InvFenetre'
  <1> SUFFICES ASSUME InvFenetre, [NextFenetre]_varsFenetre
               PROVE  InvFenetre'
    OBVIOUS
  <1>1. CASE Fil
    BY <1>1, InvFenetreFil
  <1> USE DEF InvFenetre, TypeOKFenetre, FenetreCoherente, ThemeSuivi, SansInstance, Creation,
              varsMoteur, varsTheme
  <1>2. CASE TerminerTrame
    BY <1>2 DEF TerminerTrame
  <1>3. CASE Montrer
    BY <1>3 DEF Montrer
  <1>4. CASE SuivreTheme
    BY <1>4, UpdateThemeType DEF SuivreTheme
  <1>5. CASE Fermer
    <2>1. TypeOKFenetre'
      BY <1>5, LibererType DEF Fermer
    <2>2. FenetreCoherente'
      BY <1>5, LibererType DEF Fermer
    <2>3. ThemeSuivi' /\ SansInstance'
      BY <1>5, LibererType DEF Fermer
    <2> QED
      BY <2>1, <2>2, <2>3
  <1>6. ASSUME NEW t \in Themes, ChangerTheme(t)
        PROVE  InvFenetre'
    BY <1>6 DEF ChangerTheme
  <1>7. CASE UNCHANGED varsFenetre
    BY <1>7 DEF varsFenetre
  <1> QED
    BY <1>1, <1>2, <1>3, <1>4, <1>5, <1>6, <1>7 DEF NextFenetre, Fini

LEMMA InvFenetreTenu == SpecFenetre => []InvFenetre
  BY InvFenetreInit, InvFenetrePas, PTL DEF SpecFenetre

LEMMA MoteurDeLInvariant == InvFenetre => MoteurDansFenetre
  BY DEF InvFenetre, FenetreCoherente, MoteurDansFenetre

-----------------------------------------------------------------------------
(***************************************************************************)
(* The arguments.                                                          *)
(***************************************************************************)
LEMMA LongueurFonction ==
  ASSUME NEW n \in Nat, NEW f, f = [i \in 1..n |-> f[i]]
  PROVE  f \in Seq({f[i] : i \in 1..n}) /\ Len(f) = n
  OBVIOUS

\* A string of the command line has no more bytes than places.
LEMMA Utf8Borne ==
  ASSUME NEW s \in Chaines
  PROVE  \E n \in 0..4 * UnitesMax : Len(Utf8(s)) = n /\ Utf8(s) = [i \in 1..n |-> Utf8(s)[i]]
  <1> DEFINE n == Cardinality(Places(s))
  <1>1. Len(s) \in 0..UnitesMax
    BY ArgumentsHypotheses DEF Chaines, SeqOf
  <1>2. IsFiniteSet(0..4 * Len(s) - 1) /\ Cardinality(0..4 * Len(s) - 1) = 4 * Len(s)
    <2>1. \A k \in Int : IsFiniteSet(0..k) /\ Cardinality(0..k) = IF 0 > k THEN 0 ELSE k - 0 + 1
      BY FS_Interval
    <2>2. \A k \in Int : k >= -1 => Cardinality(0..k) = k + 1
      BY <2>1
    <2>3. 4 * Len(s) - 1 \in Int /\ 4 * Len(s) - 1 >= -1
      BY <1>1, ArgumentsHypotheses
    <2>4. Cardinality(0..4 * Len(s) - 1) = 4 * Len(s) - 1 + 1
      BY <2>2, <2>3
    <2> QED
      BY <1>1, <2>1, <2>3, <2>4, ArgumentsHypotheses
  <1>3. n \in Nat /\ n <= 4 * Len(s)
    BY <1>2, FS_Subset, FS_CardinalityType DEF Places
  <1>4. n \in 0..4 * UnitesMax
    BY <1>1, <1>3, ArgumentsHypotheses
  <1>5. Utf8(s) = [i \in 1..n |-> Utf8(s)[i]]
    BY DEF Utf8
  <1> HIDE DEF n
  <1> QED
    BY <1>4, <1>5, LongueurFonction

\* No length of a string of the command line wraps around, nor is it refused:
\* what is handed over is the string in UTF-8, or nothing.
LEMMA ConversionJuste ==
  ASSUME NEW s \in Chaines, max_size \in TaillesMax
  PROVE  Utf8FromUtf16(s) = Attendu(s)
  <1>1. CASE ~Valide(s)
    BY <1>1 DEF Utf8FromUtf16, Convertie, Attendu
  <1>2. CASE Valide(s)
    <2>1. PICK n \in 0..4 * UnitesMax :
            Len(Utf8(s)) = n /\ Utf8(s) = [i \in 1..n |-> Utf8(s)[i]]
      BY Utf8Borne
    <2>2. n \in Nat /\ 2^Largeur \in Int /\ n < 2^Largeur /\ max_size \in Nat /\ n <= max_size
      BY ArgumentsHypotheses
    <2>3. TargetLength(s) = n
      BY <1>2, <2>1, <2>2 DEF TargetLength, LongueurRequise
    <2>4. CASE n = 0
      BY <1>2, <2>1, <2>3, <2>4 DEF Utf8FromUtf16, Attendu
    <2>5. CASE n # 0
      <3>1. Convertie(s, n) = n
        BY <1>2, <2>1, <2>2 DEF Convertie
      <3>2. Utf8FromUtf16(s) = Tampon(s, n)
        BY <2>2, <2>3, <2>5, <3>1 DEF Utf8FromUtf16
      <3> QED
        BY <1>2, <2>1, <2>2, <3>2 DEF Tampon, Attendu
    <2> QED
      BY <2>4, <2>5
  <1> QED
    BY <1>1, <1>2

\* The name of the program, then strings.
LEMMA Ligne ==
  ASSUME NEW ligne \in LignesDeCommande
  PROVE  /\ ligne # <<>> /\ Len(ligne) \in Nat \ {0}
         /\ \A i \in 2..Len(ligne) : ligne[i] \in Chaines
  <1>1. PICK reste \in SeqOf(Chaines, ArgumentsMax) : ligne = <<Nom>> \o reste
    BY DEF LignesDeCommande
  <1>2. reste \in Seq(Chaines) /\ Len(reste) \in Nat
    BY ArgumentsHypotheses DEF SeqOf
  <1>3. Len(ligne) = 1 + Len(reste) /\ \A i \in 2..Len(ligne) : ligne[i] = reste[i - 1]
    BY <1>1, <1>2
  <1> QED
    BY <1>2, <1>3

\* What has been converted stands for the arguments read so far.
InvArguments ==
    /\ TypeOKArguments
    /\ command_line_arguments \in Seq({Attendu(s) : s \in Chaines})
    /\ etat = "boucle" => argv \in LignesDeCommande
    /\ IF argv = <<>> THEN command_line_arguments = <<>>
                      ELSE Len(command_line_arguments) < Len(argv)
    /\ ConversionExacte

LEMMA InvArgumentsInit == InitArguments => InvArguments
  BY Ligne DEF InitArguments, InvArguments, TypeOKArguments, ConversionExacte

LEMMA InvArgumentsPas == InvArguments /\ NextArguments => InvArguments'
  <1> SUFFICES ASSUME InvArguments, NextArguments
               PROVE  InvArguments'
    OBVIOUS
  <1>1. CASE SansArgv
    BY <1>1 DEF SansArgv, InvArguments, TypeOKArguments, ConversionExacte
  <1>2. CASE Convertir
    <2> DEFINE juste == Attendu(Courant)
               n == Len(command_line_arguments)
    <2>1. argv \in LignesDeCommande /\ n \in Nat /\ n + 2 \in 2..Len(argv) /\ argv # <<>>
      BY <1>2, Ligne DEF Convertir, InvArguments, I
    <2>2. Courant \in Chaines
      BY <2>1, Ligne DEF Courant, I
    <2>3. command_line_arguments' = Append(command_line_arguments, juste)
      BY <1>2, <2>2, ConversionJuste DEF Convertir, InvArguments, TypeOKArguments
    <2>4. juste \in {Attendu(s) : s \in Chaines} /\ Len(juste) <= 4 * UnitesMax
      <3>1. Len(<<>>) <= 4 * UnitesMax
        BY ArgumentsHypotheses
      <3> QED
        BY <2>2, <3>1, Utf8Borne DEF Attendu
    <2>5. juste = Attendu(argv[n + 2])
      BY DEF Courant, I
    <2> HIDE DEF juste
    <2>6. /\ command_line_arguments' \in Seq({Attendu(s) : s \in Chaines})
          /\ Len(command_line_arguments') = n + 1
          /\ command_line_arguments'[n + 1] = juste
          /\ \A i \in 1..n : command_line_arguments'[i] = command_line_arguments[i]
      BY <2>3, <2>4 DEF InvArguments
    <2>7. UNCHANGED <<argv, max_size, etat>> /\ etat = "boucle"
      BY <1>2 DEF Convertir
    <2>8. TypeOKArguments'
      BY <2>1, <2>4, <2>6, <2>7 DEF InvArguments, TypeOKArguments
    <2>9. ConversionExacte'
      BY <2>1, <2>5, <2>6, <2>7 DEF InvArguments, ConversionExacte
    <2> QED
      BY <2>1, <2>6, <2>7, <2>8, <2>9 DEF InvArguments
  <1>3. CASE Epuiser
    BY <1>3 DEF Epuiser, InvArguments, TypeOKArguments, ConversionExacte
  <1>4. CASE Rendre
    <2>1. Len(command_line_arguments) = Len(argv) - 1
      BY <1>4, Ligne DEF Rendre, InvArguments, I
    <2> QED
      BY <1>4, <2>1 DEF Rendre, InvArguments, TypeOKArguments, ConversionExacte
  <1> QED
    BY <1>1, <1>2, <1>3, <1>4 DEF NextArguments

-----------------------------------------------------------------------------
(***************************************************************************)
(* The process.                                                            *)
(***************************************************************************)
\* To the window, the arguments are one more thing that takes time.
LEMMA PasDeLaFenetre == [NextProcessus]_varsProcessus => [NextFenetre]_varsFenetre
  BY DEF NextProcessus, ConvertirArguments, Puis, Mort, varsProcessus

(***************************************************************************)
(* wWinMain, arguments included, runs the window as module Fenetre does:   *)
(* what holds of the window alone holds in the process, whatever the       *)
(* conversion that comes first does.                                       *)
(***************************************************************************)
THEOREM ProcessusRealiseFenetre == SpecProcessus => SpecFenetre
  <1>1. InitProcessus => InitFenetre
    BY DEF InitProcessus
  <1> QED
    BY <1>1, PasDeLaFenetre, PTL DEF SpecProcessus, SpecFenetre

LEMMA InvArgumentsTenu == SpecProcessus => []InvArguments
  <1>1. InitProcessus => InvArguments
    BY InvArgumentsInit DEF InitProcessus
  <1>2. InvArguments /\ [NextProcessus]_varsProcessus => InvArguments'
    <2>1. InvArguments /\ UNCHANGED varsArguments => InvArguments'
      BY DEF InvArguments, varsArguments, TypeOKArguments, ConversionExacte
    <2> QED
      BY <2>1, InvArgumentsPas
      DEF NextProcessus, ConvertirArguments, Puis, Mort, varsProcessus
  <1> QED
    BY <1>1, <1>2, PTL DEF SpecProcessus

(***************************************************************************)
(* The arguments, the window, the engine and the theme keep their types,   *)
(* the count of windows stays between 0 and 1, and no argument grows past  *)
(* the bytes of its characters.                                            *)
(***************************************************************************)
THEOREM TypeProcessus == SpecProcessus => []TypeOKProcessus
  <1>1. InvArguments /\ InvFenetre => TypeOKProcessus
    BY DEF InvArguments, InvFenetre, TypeOKProcessus
  <1> QED
    BY <1>1, InvArgumentsTenu, InvFenetreTenu, ProcessusRealiseFenetre, PTL

(***************************************************************************)
(* Whatever the width of an unsigned int and the largest std::string, the  *)
(* arguments are handed over each in its place, in UTF-8, or empty when    *)
(* they are not strings of characters: the length of a string never wraps  *)
(* around, and the one that does is of a string that is refused.           *)
(***************************************************************************)
THEOREM ConversionExacteTenue == SpecProcessus => []ConversionExacte
  <1>1. InvArguments => ConversionExacte
    BY DEF InvArguments
  <1> QED
    BY <1>1, InvArgumentsTenu, PTL

(***************************************************************************)
(* While main dispatches messages the controller lives exactly as long as  *)
(* the window, and the engine never draws in a window that is gone.        *)
(***************************************************************************)
THEOREM MoteurDansFenetreTenu == SpecProcessus => []MoteurDansFenetre
  BY MoteurDeLInvariant, InvFenetreTenu, ProcessusRealiseFenetre, PTL

(***************************************************************************)
(* Once no message waits, the frame has the theme of the registry, however *)
(* often the settings changed, and wherever main was when they did.        *)
(***************************************************************************)
THEOREM ThemeSuiviTenu == SpecProcessus => []ThemeSuivi
  <1>1. InvFenetre => ThemeSuivi
    BY DEF InvFenetre
  <1> QED
    BY <1>1, InvFenetreTenu, ProcessusRealiseFenetre, PTL

(***************************************************************************)
(* The class of a window whose creation succeeded is never unregistered    *)
(* under it, although Destroy runs inside WM_DESTROY and again in the      *)
(* destructor.                                                             *)
(***************************************************************************)
THEOREM SansInstanceTenu == SpecProcessus => []SansInstance
  <1>1. InvFenetre => SansInstance
    BY DEF InvFenetre
  <1> QED
    BY <1>1, InvFenetreTenu, ProcessusRealiseFenetre, PTL
=============================================================================
