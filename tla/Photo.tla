------------------------------- MODULE Photo -------------------------------
(***************************************************************************)
(* The photo of a user (profil.dart, the same in the four roles): the file *)
(* is in the storage service, its id in the document of the user, and      *)
(* _modifierPhotoProfil deletes the old file, stores the new one and       *)
(* updates the document by three calls, with no try around them. The       *)
(* picture can be tapped again, or on another device, meanwhile.           *)
(***************************************************************************)
EXTENDS Naturals

CONSTANTS
    Pages,          \* profile pages of the user, one chain of calls each
    MaxFichiers,    \* bound: files stored
    Aucun           \* null

Fichiers == 1..MaxFichiers

ASSUME PhotoHypotheses == MaxFichiers \in Nat /\ Aucun \notin Fichiers

VARIABLES
    fichiers,       \* the files of the storage service
    dernier,        \* the last id that ID.unique() gave
    photo,          \* photoFileId of the document
    vu,             \* vu[p]: photoFileId of utilisateurData on the page p
    chaine          \* chaine[p]: the call p awaits, the old and the new file

vars == <<fichiers, dernier, photo, vu, chaine>>

EnRepos == [etape |-> "repos", ancien |-> Aucun, nouveau |-> Aucun]

Init ==
    /\ fichiers = {} /\ dernier = 0 /\ photo = Aucun
    /\ vu = [p \in Pages |-> Aucun]
    /\ chaine = [p \in Pages |-> EnRepos]

-----------------------------------------------------------------------------
\* _chargerInfos.
Charger(p) ==
    /\ vu' = [vu EXCEPT ![p] = photo]
    /\ UNCHANGED <<fichiers, dernier, photo, chaine>>

\* A picture has been picked: what is called first depends on what is shown.
Choisir(p) ==
    /\ chaine[p] = EnRepos
    /\ chaine' = [chaine EXCEPT ![p] = [EnRepos EXCEPT
            !.etape = IF vu[p] = Aucun THEN "creation" ELSE "suppression", !.ancien = vu[p]]]
    /\ UNCHANGED <<fichiers, dernier, photo, vu>>

\* Variant: a file that is already gone is no error.
SupprimerSiPresent(p) ==
    /\ chaine[p].etape = "suppression"
    /\ fichiers' = fichiers \ {chaine[p].ancien}
    /\ chaine' = [chaine EXCEPT ![p].etape = "creation"]
    /\ UNCHANGED <<dernier, photo, vu>>

\* Variant: a refused deletion counts as no photo to delete.
SupprimerOuOublier(p) ==
    /\ chaine[p].etape = "suppression"
    /\ fichiers' = fichiers \ {chaine[p].ancien}
    /\ chaine' = [chaine EXCEPT ![p].etape = "creation",
            ![p].ancien = IF chaine[p].ancien \in fichiers THEN chaine[p].ancien ELSE Aucun]
    /\ UNCHANGED <<dernier, photo, vu>>

\* deleteFile throws when the file is gone, and the chain ends.
Supprimer(p) ==
    /\ chaine[p].etape = "suppression"
    /\ fichiers' = fichiers \ {chaine[p].ancien}
    /\ chaine' = [chaine EXCEPT ![p] =
            IF chaine[p].ancien \in fichiers THEN [chaine[p] EXCEPT !.etape = "creation"] ELSE EnRepos]
    /\ UNCHANGED <<dernier, photo, vu>>

\* Variant: the id of the file is that of the old one.
CreerSousAncien(p) ==
    /\ chaine[p].etape = "creation" /\ dernier < MaxFichiers
    /\ dernier' = dernier + 1
    /\ fichiers' = fichiers \cup {dernier'}
    /\ chaine' = [chaine EXCEPT ![p].etape = "maj", ![p].nouveau = chaine[p].ancien]
    /\ UNCHANGED <<photo, vu>>

Creer(p) ==
    /\ chaine[p].etape = "creation" /\ dernier < MaxFichiers
    /\ dernier' = dernier + 1
    /\ fichiers' = fichiers \cup {dernier'}
    /\ chaine' = [chaine EXCEPT ![p].etape = "maj", ![p].nouveau = dernier']
    /\ UNCHANGED <<photo, vu>>

\* The update of the document; _chargerInfos, which is not awaited, follows.
MettreAJour(p) ==
    /\ chaine[p].etape = "maj"
    /\ photo' = chaine[p].nouveau
    /\ chaine' = [chaine EXCEPT ![p] = EnRepos]
    /\ UNCHANGED <<fichiers, dernier, vu>>

\* The call awaited throws, or the application is killed.
Echouer(p) ==
    /\ chaine[p] # EnRepos
    /\ chaine' = [chaine EXCEPT ![p] = EnRepos]
    /\ UNCHANGED <<fichiers, dernier, photo, vu>>

Next ==
    \E p \in Pages :
        \/ Charger(p) \/ Choisir(p)
        \/ Supprimer(p) \/ Creer(p) \/ MettreAJour(p)
        \/ Echouer(p)

Spec == Init /\ [][Next]_vars

-----------------------------------------------------------------------------
(***************************************************************************)
(* Type invariant; no file is named before it is stored.                   *)
(***************************************************************************)
TypeOK ==
    /\ fichiers \subseteq 1..dernier /\ dernier \in 0..MaxFichiers
    /\ photo \in 1..dernier \cup {Aucun}
    /\ vu \in [Pages -> 1..dernier \cup {Aucun}]
    /\ chaine \in [Pages -> [etape : {"repos", "suppression", "creation", "maj"},
                             ancien : 1..dernier \cup {Aucun}, nouveau : 1..dernier \cup {Aucun}]]
    /\ \A p \in Pages : chaine[p].etape = "maj" => chaine[p].nouveau # Aucun

\* The pages whose chain may still update the document.
EnRemplacement == {p \in Pages : chaine[p].etape \in {"creation", "maj"}}

(***************************************************************************)
(* Of all the pages that show a photo, one at most replaces it: whoever    *)
(* comes second has its deletion refused. Without a photo nothing is       *)
(* refused, and the file of one of two pages stays stored for ever.        *)
(***************************************************************************)
UnSeulRemplace ==
    \A p, q \in EnRemplacement :
        p # q /\ chaine[p].ancien # Aucun => chaine[p].ancien # chaine[q].ancien

(***************************************************************************)
(* A photo whose file is gone stays so: once the chain that deleted it has *)
(* failed and the pages show the lost photo, deleteFile refuses every      *)
(* further attempt to change it.                                           *)
(***************************************************************************)
PerduePourToujours ==
    [][/\ photo \notin fichiers \cup {Aucun}
       /\ EnRemplacement = {}
       /\ \A p \in Pages : vu[p] = photo /\ chaine[p].ancien \in {photo, Aucun}
       => photo' = photo /\ \A p \in Pages : chaine'[p].etape \in {"repos", "suppression"}]_vars
=============================================================================
