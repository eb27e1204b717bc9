# EduConnect: a TLA+ model of the school application

EduConnect (`src/lib`, Flutter) is the application of a school: administrators
register people and classes, teachers take the roll, give marks and homework,
and teachers, parents and pupils exchange messages. There is no server of its
own: every page talks to Firebase Auth, Cloud Firestore and Appwrite storage
directly, and **no page uses a transaction**. What can go wrong is therefore in
the order of independent calls of independent clients: a write computed from a
copy that is no longer true, a chain of calls that stops half way, an `update()`
on a document somebody deleted. The models are about exactly that.

## 1. Inventory

| Component | State | Operations | Hard behaviour |
|---|---|---|---|
| Conversation pages (`modules/{enseignant,parent,eleve}/vues/page_message_detail.dart`) | collection `messages`; displayed list, `_messageEnCoursEdition` | open, send, edit, delete for me / for all, mark as read | stale copies, refused batches, writes in flight, crash |
| People (`admin/vues/ajouter_*`, `page_*`, `modif*`, `superadmin/vues/*admin*`, `page_utilisateur.dart`) | Auth accounts, `utilisateurs`, `eleves`, `parents`, `enseignants`, `administrateurs`, `superadministrateurs` | register, delete, modify | chains of 2 to 5 calls that interleave and stop |
| Classes (`ajouter_classe`, `classe_page`, `modifier_classe`, `calsse_detail`) | `classes` with `elevesIds`, `enseignantsIds`, `matieresIds` | create, rename, delete, reset, assign, enrol | lost updates |
| Session (`controleur_auth.dart`, `login.dart`, `deconnexion.dart`, `routes_application.dart`) | current user of Auth, `ControleurAuth`, arguments of the home page, `statut` of the user | log in, log out, rebuild a home page | three copies of "the user"; failure after a partial login; a registration changes the current user |
| Roll call (`appel.dart`) | `appels`, `notifications`; choices, list and boxes of the page | choose, tick, save, notify the families | late answers, fields read again after an await, bounded `whereIn` |
| Marks (`note.dart`) | `notes`, `eleves.notesIds`, `notifications`; the form | fill, save pupil by pupil, notify | a loop that stops half way and is repeated, a form edited under it |
| Homework, publication (`devoir_page.dart`) | `devoirs`, file | upload, look up pupils and parents by lots, store | swallowed failures, links that appear between two lots |
| Homework and announcements, reading (`liste_devoir`, `parent/vues/devoir_page`, `annonce*`, `home_*`) | `devoirs.lu`, `annonces.luePar`, badge counters | publish, mark as read, count | read lists rewritten from copies |
| Family links (`depos_famille.dart`) | `famille` | link | check, then add |
| Profile photo (`profil.dart`, four copies) | Appwrite file, `photoFileId` | replace | delete, create, reference in three calls |
| Windows runner (`windows/runner`) | window, its class, the engine, `quit_on_close_`, theme of the frame; the command line | create, show, close, destroy; convert | engine threads against `OnCreate`, re-entrant `Destroy`, unsigned length |
| Schools, roles, subjects, assignments | one document each | forms with one write | little |
| Themes, routes, other runners, WebKitGTK | none of their own | | generated, layout or third party |

The components meet in Firestore only: the conversation pages use the ids of
profiles, marks and the roll use the lists of the classes, notifications use
the family links.

What makes each correct: a page shows its own conversation and nothing else,
what is deleted stays deleted and what is read stays read (messages); a pupil is
in one class, and no chain leaves a document that no list shows (people and
classes); the home page and the presence shown belong to the user that logged
in (session); the parents of the pupils concerned are told, once and of the
right thing (roll, marks, homework); a reader stays a reader (homework,
announcements); a link is stored once (family); a photo is replaced, not lost;
a window is shown, follows the theme and ends with its process (runner).

## 2. Modules

| Module | What it is |
|---|---|
| `Messagerie` | the three conversation pages over the collection `messages` |
| `MCMessagerie` | its instances for TLC, and the reading scenario of the liveness run |
| `Courrier` | what the conversations promise of a message; `Messagerie` implements it |
| `MessagerieProofs` | its theorems |
| `Comptes` | accounts, users, profiles and classes, written by chains of calls |
| `MCComptes` | its instances for TLC |
| `ComptesProofs` | its theorems |
| `Session` | logins, logouts, home pages and presence, on several browsers |
| `Famille` | the links between parents and pupils |
| `Appel` | the roll call, composed with `Famille` (it EXTENDS it and runs its actions) |
| `AvisAbsence` | what the roll call promises to the families; `Appel` implements it |
| `Notes` | the marks of a class |
| `Publication` | the publication of a homework, composed with `Famille` |
| `Lectures` | who has read what, and the counters |
| `Registre` | what "read by" promises; the announcements of `Lectures` implement it |
| `Photo` | the replacement of a profile photo |
| `Fenetre` | the window of the Windows runner |
| `Arguments` | the conversion of the command line of the Windows runner |
| `Processus` | `wWinMain`: `Arguments`, then `Fenetre` |
| `SessionProofs`, `AppelProofs`, `NotesProofs`, `PublicationProofs`, `LecturesProofs` | the theorems of each; those of `Famille` are in `PublicationProofs` |
| `HorsFirestoreProofs` | the theorems of the two components outside Firestore: `Photo` and the Windows process |
| `MC...` | the instances of each for TLC |

In every module an operator under a comment "Variant: ..." is a plausible
mistake in the action that follows it. No specification uses it; it is there to
show that the properties would notice.

### Messagerie

`messages` is the collection, one record per id with its existence. `page[u]`,
`vue[u]` and `edition[u]` are the state of u's page: its interlocutor, the list
displayed, `_messageEnCoursEdition`. `enVol[u]` is the queue of writes of u's
client that the server has not served; a write names its documents, the fields
it replaces and their values, and whether it is an `update()` (refused when a
document is missing).

| Action | Code |
|---|---|
| `Ouvrir`, `Fermer` | the page is pushed, popped |
| `Livrer` | the listener of `getMessagesStream` delivers, the `StreamBuilder` rebuilds and its post-frame callback runs `_marquerMessagesCommeLus` on that list |
| `Reconstruire` | any other rebuild: the callback again, on the list displayed |
| `EnvoyerNouveau`, `EnvoyerEdition` | the two branches of `_envoyerMessage` |
| `Modifier` | the menu entry that sets `_messageEnCoursEdition` |
| `SupprimerPourMoi`, `SupprimerPourTous` | the methods of these names |
| `Servir` | the server serves the oldest write of a client, or refuses it; the awaiting `_envoyerMessage` goes on after an accepted edition |
| `Tuer` | the process dies; writes kept in memory only are lost |

Abstractions. A message is its sender, recipient, participants, `lu` and
whether its content was edited. The three roles' pages are the same program:
a teacher talks to families, a family to teachers. The page shows a write of
its own only once it was served: Firestore shows it at once, but serves the
writes of a client in order, so what reaches the collection is the same, and a
page that sees its own writes earlier only acts on fresher copies.

`Courrier` forgets pages, copies and queues. Its `courrier[m]` is `Lettre(m)`: a
stored message is `visible` while its participants are its two sides and
`masque` from then on; an id without a document is `aVenir` until it is given
out and while its creation is pending, `fini` afterwards. A served creation
maps to `Arriver`, a batch to `Lire`, the other served writes to `Modifier`,
`Masquer` and `Supprimer`. `Tuer` loses pending creations (`Perdre`).

### Comptes

`comptes` are the Auth accounts (the application never deletes one),
`utilisateurs` and `profils` the people that have these documents, `classeDe`
the class of a pupil's document, `classes` the class documents. `tache[a]` is
what is left of a chain of awaited calls: its operation, person and class, the
copy of the class it read, and the calls to come. One action of `Appel(a)` is
one call; `Interrompre` ends a chain anywhere, as an exception or a closed
browser does. Two entries of `Agents` may be two operators or two pages of one.
`supprimes` and `retires` are history for the properties.

| Chain | Code |
|---|---|
| `Inscrire` | `_enregistrerEleve`, `_enregistrerParent`, `_enregistrerEnseignant`, `_enregistrerAdministrateur`, `_enregistrerSuperAdministrateur`, in their own order of calls |
| `Supprimer` | the delete buttons of the lists: profile first for pupils and parents, user first for the staff |
| `Retirer` | the list of all users, which deletes the user's document only |
| `Modifier` | the forms, which `update()` |
| `Renommer` | `_chargerClasse`, then `_modifierClasse`, which sets the whole document |
| `Affecter` | the dialog of `calsse_detail.dart` |
| `AjouterClasse`, `SupprimerClasse`, `ResetClasse` | the operations of one call |

Left out: the upload of the photo (its failure is swallowed), the role looked up
before the account (its absence ends the chain before any effect), names and
addresses, and `matieresIds`, which is written with `enseignantsIds`.

### Session

`comptes`, `utilisateurs`, `enLigne` and `roles` are the server's; a browser `p`
has `courant[p]` (`FirebaseAuth.currentUser`, kept over restarts),
`controleur[p]` (`ControleurAuth`), `page[p]` (route and `utilisateurId`), and
four chains of calls: `connexion`, `sortie`, `inscription`, `fiche`.

| Action | Code |
|---|---|
| `DemanderConnexion`; `Identifier`, `PasserEnLigne`, `LireDocument`, `LireRole` | `_handleLogin` up to `connecter`; the calls of `ControleurAuth.connecter`, each with its early return |
| `EcrirePreferences`, `ConfirmerStatut`, `LireEtablissement` | the rest of `_handleLogin`, to the route of the role |
| `RefuserIdentifiants`, `EchecConnexion` | a call that throws, or finds no document, inside a `try` of `connecter`, which returns false; `Echouer` is what follows in `_handleLogin` |
| `Jeter` | one of the calls that `_handleLogin` awaits outside any `try` (`HorsTry`) throws, whatever the documents: nothing more runs |
| `ReconstruireAccueil` | the builder of `/home_admin`, which reads the current user again |
| `DemanderDeconnexion`, `PasserHorsLigne`, `FermerSession`, `EchouerDeconnexion` | `logoutUser` and its `catch` |
| `Inscrire`, `CreerCompte`, `EcrireDocument`, `EchouerInscription` | a registration, as far as it touches the session: `createUserWithEmailAndPassword` signs the new account in |
| `OuvrirFiche`, `EnregistrerFiche` | the form of `modifier_enseignant.dart`, which writes `statut` back |
| `SupprimerUtilisateur`, `SupprimerRole` | the lists of the administrators, on any device |
| `Relancer` | the application is killed and started again |

Every awaited call has a good answer, when the documents allow it, and a bad
one at any time. `connexion[p].etape` is "echec" once `connecter` has returned
false, "jetee" once a call outside any `try` has thrown and "bloquee" once the
route pushed for an unknown role has: in the last two `isLoading` stays true until
the application is started again.

Two logouts of one browser at once are not modelled: the second finds nobody.

### Famille, Appel and AvisAbsence

`famille[l]` counts the documents of a link, `liaison[a]` is one chain of
`ajouterRelation`. `Appel` adds the page (`choix`, `matieres`, `eleves`,
`presents`, and `demandes`, the loads whose answer has not come), the save
(`envoi`, with the values the code keeps in local variables) and the two
collections (`appels`, `avis`). An action is an answer and what the code does
with it up to the next await: `Valider`, `StockerAppel`, `LireFamilles`,
`EcrireLot` are `enregistrerAppel`; `RecevoirMatiere` and `RecevoirEleves` are
the loads, in any order and whatever is chosen by then. `Echouer` is a failed
call: nothing catches it, and the button stays disabled, as in the code. `dus`,
the links there were when the roll was stored, is history.

`AvisAbsence` knows no page and no query: a roll is stored, and the links of the
absent pupils are told of it by one step, all those there were then at least, or
never. `AvisEnUnPas` maps a link to the documents for it, and what was told of a
roll to the notifications that name it.

### Notes

The form (`choix`, `decrite`, `affiches`, `notesStr`), the save (`envoi`: the
call awaited, the pupils left, the text and choice read for this one, the mark
added, the parents still to be told) and the collections. One action per awaited
call of the loop (`LireEleve`, `AjouterNote`, `LierNote`, `LireFamille`,
`AviserParent`, `AviserEleve`), `Echouer` for the `catch`, and `finally` in both
ends. `Saisir`, the chips and `RemplirTout` stay possible meanwhile, as the page
allows. `SupprimerEleve` is an administrator's, whose missing document makes
`LierNote` throw. A text is "vide", "bonne", "hors" or "illisible": the four
that the tests of the code tell apart. `listes` remembers whom each save was
about, for `SuccesComplet`. The family links are fixed here.

The page holds two lists of a class. `ElevesIds[c]` is the one it read when it
was opened (`_ClasseAvecMatieres`), and the loop of the save is over that one.
`affiches` is what `_chargerEleves` shows, from a second read of the class: by
then administrators may have enrolled pupils or rewritten the list, and pupils
without a user are left out. `RecevoirEleves` shows any pupils who exist: nothing
ties the two lists.

### Publication

`Soumettre`, `Televerser`, `LireClasse`, `LireLot` and `AjouterDevoir` are the
calls of `_submit`; `...EnVain` are the failures that a `catch` turns into an
empty list, `Echouer` those that reach the `catch` of `_submit`. `envoi.i` is the
loop variable of the lots. `Inscrire` is a registration and the actions of
`Famille` the administrators who link, at any point in between. `TailleLot` is
`batchSize`.

### Lectures and Registre

`lu[d]` is the field `lu` of a homework or `luePar` of an announcement,
`affiche[u]` what u's page shows of it, `enVol[u]` the updates that were sent.
`OuvrirDevoir` sends the list on display with the reader added, `MarquerAnnonce`
an `arrayUnion`. `Compter` is a snapshot of the streams of the home page.
`Registre` promises that a published document gets readers one at a time and
keeps them; `AnnoncesTenues` states it of the announcements. It cannot be stated
of the homework: two pupils who open one from lists displayed before either did
write two lists of one, and the second erases the first.

### Photo

`fichiers` is the bucket, `photo` the reference in the user's document, `vu[p]`
the copy on a page, `chaine[p]` a call of `_modifierPhotoProfil`. `Supprimer`,
`Creer` and `MettreAJour` are its three calls; a deletion of a file that is gone
is refused, and any call may fail. Ids are counted, since `ID.unique()` never
gives one twice.

### Fenetre, Arguments and Processus

`main` is where the thread of `wWinMain` is, from `Create` and `OnCreate` to the
destructor; the engine completes frames at any point (`TerminerTrame`). `Fermer`
is `WM_DESTROY` from the user, `DetruireFenetre` and `LibererClasse` the inner
and the outer `Destroy` of the destructor. `classe.precoce` remembers that the
class was unregistered with the window still there. Geometry, DPI and focus are
left out.

`Arguments` computes `Utf8FromUtf16` on strings of code units of which some form
no character, with an `unsigned int` of `Largeur` bits that really wraps, and
compares it with the bytes of the characters. `WideCharToMultiByte` is external.
`Utf8` numbers the places of the bytes instead of joining strings unit by unit:
`ArgumentsHypotheses` bounds it by four bytes a unit, and it needs no recursion.
`EncodageJuste`, in `MCProcessus`, compares it with the concatenation on every
string of the instance.

`Processus` is the order of the two in `wWinMain`: the window starts once the
arguments are handed over, and an allocation that fails in the conversion ends
the process before there is a window.

## 3. Runs

| Run | Instance | Checks |
|---|---|---|
| `messagerie` | 1 teacher, 2 families, 1 message, 2 writes in flight each (plus a batch); 185 000 states | `TypeOK`, `Confidentialite`, `SuppressionParEmetteur`, `LuMonotone`; `VieDesMessages`: `Messagerie` implements `Courrier` |
| `lecture` | 1 teacher, 1 family, 2 messages, 1 write in flight; 50 000 states | `LectureFinale`, under fairness |
| `comptes` | 2 chains, a pupil, a teacher, a super administrator, 2 classes; 1.4 million states up to symmetry | `TypeOK`, `UneSeuleClasse`, `SansOrphelin`, `PasDeRetour`, `OrphelinSupprime`, `CompteBrule` |
| `ajout` | 2 chains, 2 pupils, 1 class | `AjouterSansRetirer` fails |
| `session` | 1 browser, a super administrator, an administrator, somebody without a home page, deletions from elsewhere; 668 000 states | `TypeOK`, `RouteDuRole`; `ConnexionAboutit`, under fairness |
| `presence` | 1 browser, an administrator, a pupil to register | `EnLigneEstConnecte` fails |
| `appel` | a class of 3 and a class of 1, 1 parent, 1 linking chain, `whereIn` of 2, 1 roll; 1.1 million states up to symmetry | `TypeOK`, `AppelHomogene`, `AvisJustifie`; `AvisEnUnPas`: `Appel` implements `AvisAbsence` |
| `notes` | a class of 2 pupils and one that was empty when the page was opened, 1 subject, the type of mark that requires a description, 1 save; 441 000 states | `TypeOK`, `AvisApresLien`, `SuccesComplet`; `BoutonRendu`, under fairness |
| `publication` | 3 pupils in lots of 2, 1 parent, 2 linking chains, 2 homework; 410 000 states up to symmetry | `TypeOK`, `LiensBornes`, `ParentsDuDevoir` |
| `lectures` | 2 readers, 1 homework, 1 announcement; 133 000 states | `TypeOK`, `LecteursReels`; `AnnoncesTenues`: the announcements implement `Registre`; `CompteurVide`, under fairness |
| `photo` | 3 pages, 4 files; 1.2 million states | `TypeOK`, `UnSeulRemplace`, `PerduePourToujours` |
| `processus` | every command line of 2 arguments of 2 code units, 5 bits for an `unsigned int`, then every interleaving of the thread, the engine, the user and the settings; 231 000 states | `TypeOKProcessus`, `ConversionExacte`, `MoteurDansFenetre`, `ThemeSuivi`, `SansInstance`; `DemarrageAboutit`, `FinPropre`, under fairness |

Why the bounds are enough. A message interacts with others only through the
batch that marks several at once, which is why the liveness run has two; three
clients are enough for a conversation and a stranger to it, and two writes in
flight for a stale write behind another. Calls of two chains are enough for
every conflict between two operations, and two classes for a pupil to be in
both; the three people of `comptes` have the three orders of registration and
deletion that matter, and the proofs cover the rest. The browsers of `Session`
share nothing but the server's documents, and the deletions of people and roles
come from any device at any time: one browser meets every interleaving of a
login with them. `appel` has a class of as many
absentees as `whereIn` refuses, one of fewer, and two lists whose answers can
cross. `notes` has a pupil before and one after whoever is deleted, and a class
whose list was empty when the page was opened, so that everybody shown there is
left out by the save; changing the class resets the subject and the type under the
loop. A retry of a save needs two, beyond what TLC finishes in reasonable time;
the proofs have any number.
`publication` has a full lot and a short one, and two homework between which the
class grows. Two readers are enough for one to write over the other, three
pages for a file to be replaced by one while two others hold it. In `Arguments`
a string of two units is refused, accepted, or longer in UTF-8 than in UTF-16,
and the two `max_size()` are below and above the length that wraps around.

What the failing runs show:

* `ajout`: `_enregistrerEleve` reads the list of the class, adds the pupil and
  writes the list back. Two registrations in the same class, both after the
  read, leave only the last pupil in the list (`arrayUnion`, as in
  `calsse_detail.dart`, would not).
* `presence`: an administrator registers a pupil, which signs the device in as
  that pupil, and logs out: `logoutUser` clears the pupil's `statut`, and the
  administrator stays "En ligne" although no application is signed in.

### What else the models show

These follow from the code as modelled and have no run of their own:

* "Supprimer pour moi" takes its user out of `participants`, and the pages
  display a message only if *both* sides are participants: it disappears for
  the other side as well.
* Renaming a class writes back the lists that the page read when it was opened:
  whoever was registered or assigned meanwhile leaves the class. Renaming a class
  deleted meanwhile creates it anew.
* A registration interrupted after the account is created can never be
  completed (`CompteBrule`); a teacher or an administrator deleted while being
  registered keeps a profile without a user (`OrphelinSupprime` says that there
  is no other way).
* After a registration, the home page of the administrator is rebuilt for the
  person registered.
* Two operators who link the same parent and pupil at once store the link twice;
  `LiensBornes` is what is left of "Relation déjà existante".
* With more absentees than `whereIn` takes, the roll is stored, nobody is told
  and the button stays disabled. `AvisEnUnPas` allows it: all, or none.
* A notification of an absence names the class and the subject that are chosen
  when it is built, which may not be those of the roll; and a list that arrives
  late is called under the class chosen since.
* A mark is tested before the loop and read again in it: one changed meanwhile
  is stored out of range, one erased meanwhile is not stored, and success is
  reported.
* The pupils whose marks are typed come from a second read of the class, the loop
  is over the first: a pupil enrolled since the page was opened is shown, the mark
  typed for him is not stored, neither he nor his parents are told, and the page
  reports "Notes et notifications enregistrées avec succès." `SuccesComplet` is
  therefore stated of the first list, whoever is shown.
* A login stays on its spinner, with the button disabled, when a call that
  `_handleLogin` awaits outside any `try` throws (SharedPreferences, the second
  update of `statut`, the read of the document), and when the role has no home
  page. `ConnexionAboutit` names these ends and shows that there is no other.
* A failed read of the class or of the links of a homework is swallowed: it is
  stored for nobody, and announced as sent.
* When the upload of a photo fails, the old file is already gone and the user
  keeps a reference to it; every later replacement ends at that deletion.
* When `OnCreate` fails, the destructor has lowered the count of windows before
  `DestroyWindow` runs `Destroy` from inside, and the class is unregistered with
  the window still there. `SansInstance` excludes that path only.
* A theme value removed from the registry leaves the frame as it was, dark if it
  was dark.
* An edition answered late clears the edition begun after it.

### Fairness

* `Messagerie`: `Equite` is weak fairness of `Livrer(u)` and `Servir(u)`:
  Firestore keeps delivering to an open listener and serving the writes of a
  connected client. The bound `MaxEnVol` limits the user's writes, with one place
  kept for the batch of a delivery, so that it never disables `Livrer` for ever.
  The liveness run lets the teacher alone write, and nobody edit: editions do not
  touch `lu`.
* `Session`, `Notes`: weak fairness of `Repondre`, the answer, good or bad, to
  the call that is awaited: the Futures of Firebase and of SharedPreferences
  complete, with a value or with an error, and nothing says which.
* `Lectures`: weak fairness of `Compter(u)`: a stream that is listened to delivers.
  `CompteurVide` asks for nothing while documents keep coming.
* `Processus`: weak fairness of the thread (`ConvertirArguments`, `Puis(Fil)`), of
  a posted callback (`Puis(Montrer)`) and of a requested frame
  (`Puis(TerminerTrame)`).

Users owe nothing anywhere: they may stop, leave a page or kill the application.

### Refinement

`VieDesMessages` (`Messagerie` implements `Courrier`), `AvisEnUnPas` (`Appel`
implements `AvisAbsence`) and `AnnoncesTenues` (the announcements of `Lectures`
implement `Registre`) are `INSTANCE ... WITH` under the mappings of section 2,
with the abstract specification as a property; all three are also proved. So is
that the compositions implement their parts: `Appel` and `Publication` implement
`SpecFamille`, `Processus` implements `SpecFenetre`.

## 4. Proofs

`MessagerieProofs` proves, for any users, ids and bound (assumptions
`MessagerieHypotheses`: teachers and families are disjoint, null is none of
them, the bound is positive):

| Theorem | States |
|---|---|
| `TypeCorrect` | `TypeOK` |
| `Inductif` | `Inv`, the inductive invariant |
| `ConfidentialiteTenue` | `Confidentialite` |
| `SuppressionTenue` | `SuppressionParEmetteur` |
| `LuMonotoneTenue` | `LuMonotone` |
| `PasDeResurrectionTenue` | `PasDeResurrection`: a document appears by a creation only (defined with the proof; it is what `Courrier` says of deleted messages) |
| `VieDesMessagesTenue` | `VieDesMessages`: every step of `Messagerie` is a step of `Courrier`, or leaves it as it is |

None of these is inductive: a page shows what the collection holds, the
collection what the queues held, and the queues what the pages showed. `Inv`
closes that circle:

* `InvMessages`: a stored message has no creation pending, and its participants
  are among its sender and its recipient;
* `InvPage`: an open page talks to someone of the other side;
* `InvVue`: a displayed copy belongs to the page's conversation, has both
  participants, and agrees with the stored document, while that exists, on who
  sent it to whom;
* `InvEdition`: an edition names a message whose creation was served;
* `InvEnVol`: a pending write is the creation of a new message, an update of
  `lu` by the recipient of all it names, an update of the content, an update of
  the participants to a strict part of the two sides, or a deletion by the
  sender; all but the batch of `lu` name one document, and only a creation can
  name an id whose creation is pending;
* `InvUnique`: an id has one pending creation at most.

The work is in `ServirInv`: a served write other than a creation only shrinks
the collection (`EffetDecroit`), a served creation adds one document nothing
refers to (`EffetCreation`). The action properties follow from `Inv` by a case
split on who changes `messages`.

The refinement needs more of `Inv` than the safety properties did. That a hidden
message never comes back is not a matter of deletion: a late update of the
participants, computed from an old copy, must not restore the two sides, hence
the strict part in `InvEnVol`; and one abstract step must do for one served
write, hence the single document. `LettreEtape` says which steps a letter knows.
A served creation is `Arriver`, by `InvUnique` (`ServirCreationBoite`); any other
served write changes letters one by one (`ServirLettre`); and every other action
leaves the collection alone and at most loses pending creations, which are
letters `aVenir` (`PasDePerte`, `PasDesPages`, `TuerEcritures`).

`ComptesProofs` proves, for any people, classes and number of chains in flight
(assumptions `ComptesHypotheses`: everybody has one role, null is no value):

| Theorem | States |
|---|---|
| `TypeCorrect` | `TypeOK` |
| `Inductif` | `Socle` and `Inv`, the inductive invariant |
| `UneSeuleClasseTenue` | `UneSeuleClasse` |
| `SansOrphelinTenue` | `SansOrphelin` |
| `PasDeRetourTenue` | `PasDeRetour` |
| `CompteBruleTenu` | `CompteBrule`, an action property: no step stores the user of an account whose registration stopped |
| `OrphelinSupprimeTenu` | `OrphelinSupprime` |

What makes these true is spread over the chains, and `Inv` says where:

* `InvTache`: a task is one of the suffixes of the chain of its operation;
* `InvComptes`, `InvVerrou`: whoever a collection, a copy or a registration
  beyond its first call mentions has an account, and an account has one such
  registration. The account is created once and never deleted: it is the lock;
* `InvConnus`, `InvAvant`: a user deleted or about to be was written, and the
  one that a registration is still to write was not; hence `PasDeRetour`;
* `InvProfil`, `InvSuppression`: a profile still to be written is not there and
  its user is; a deletion of a pupil or a parent started from a profile, so it
  meets no registration before that, and finds the profile gone when it comes to
  the user; hence `SansOrphelin`;
* `InvClasse`: the lists, the copies of them and the registration under way tie
  a pupil to one class (`Mention`); only the creation of the account ties
  somebody anew, and nothing mentioned that account before.

The proof reduces each action to its effect on the registers and on one task
(`EffetNeuf`, `EffetCompte`, ...; one `...Effet` lemma per action, which also
shows the types), and then shows that each effect keeps `Inv` (the `...Inv`
lemmas), without looking at sequences any more.

The six modules that follow are laid out alike. `TypeOKFort` is `TypeOK` with the
few facts that make it inductive (the loop of the marks has a list, a stored
roll precedes the read of its families, a list displays published documents,
...), `TypePas` goes through the actions, and `TypeCorrect` is what follows;
`Inv` is inductive relative to `TypeOKFort` (`InvPas`, one step or lemma per
action), `Inductif` states it, and the safety properties follow from it. (In
`Photo`, `TypeOK` is inductive as it stands, and `UnSeulRemplaceTenu` is proved
from `Inv` at once; the parts of the Windows process have one invariant each,
which contains the types.) Each inductive invariant, that of `Messagerie`
included, holds of every state of the instance of its run as well.

| Module | Assumptions | Theorems and what they state |
|---|---|---|
| `SessionProofs` | `SessionHypotheses`: everybody has a role, null is nobody | `TypeCorrect` (`TypeOK`), `Inductif`, `RouteDuRoleTenue` (`RouteDuRole`) |
| `AppelProofs` | `AppelHypotheses`, `FamilleHypotheses`: classes have subjects and pupils, the bounds are numbers, null is no value | `TypeCorrect`, `Inductif`, `AppelHomogeneTenu`, `AvisJustifieTenu`; `AvisEnUnPasTenu` (`Appel` implements `AvisAbsence`), `FamilleSuivie` (and `SpecFamille`) |
| `NotesProofs` | `NotesHypotheses`: lists of pupils, sets of parents, null is no value | `TypeCorrect`, `Inductif`, `AvisApresLienTenu`, `SuccesCompletTenu` |
| `PublicationProofs` | `PublicationHypotheses`: a lot has between 1 and `LimiteWhereIn` pupils; `FamilleHypotheses`: finitely many chains | `TypeFamille`, `LiensBornesFamille`, `FamilleSuivie`, `LiensBornesTenus`, `TypeCorrect`, `Inductif`, `ParentsDuDevoirTenus` |
| `LecturesProofs` | `LecturesHypotheses`: homework and announcements are disjoint | `TypeCorrect`, `Inductif`, `LecteursReelsTenus`; `AnnoncesTenuesPrises` (the announcements implement `Registre`) |
| `HorsFirestoreProofs`, the photo | `PhotoHypotheses` | `TypePhoto` (`TypeOK`), `UnSeulRemplaceTenu`, `PerduePourToujoursTenu` |
| `HorsFirestoreProofs`, the process | `FenetreHypotheses`: the theme is one of the registry's; `ArgumentsHypotheses`: the bytes of an argument are fewer than the largest `unsigned int`, and `max_size()` does not refuse them | `ProcessusRealiseFenetre` (`SpecProcessus` implements `SpecFenetre`), `TypeProcessus` (`TypeOKProcessus`), `ConversionExacteTenue`, `MoteurDansFenetreTenu`, `ThemeSuiviTenu`, `SansInstanceTenu` |

Why none of the properties is inductive, and what `Inv` adds:

* `Session`. A route is chosen from what `ControleurAuth` holds, several answers
  after the password was given. `ControleurJuste` says what it holds at each call
  of the login: the person of this login until the role is read, then a person
  with his role. Up to there the role may still be that of an earlier login.
  `LoginSeul` (in `TypeOKFort`) says why nobody clears it meanwhile: a login runs
  on the login page, where no logout runs.
* `Appel`. `PageJuste`: the list shown is the whole of one class, or empty, and
  the boxes are of that list; `EnvoiJuste`: a save has split such a list, and
  once stored it is about the last roll, of which nobody has been told yet, and
  its batch names linked parents of its absent pupils, and everybody the roll
  owes. The last conjunct is what the refinement needs: `EcrireLot` is the one
  step that maps to `Prevenir` of `AvisAbsence`, `StockerAppel` maps to
  `Constater`, and every other step, the failures included, stutters or is a step
  of `Famille`, of which `Relier` sees the added links.
* `Notes`. `LienJuste` follows the mark of the current pupil from its addition
  (it is his) to the `arrayUnion` (it is in his list, while he exists): a
  notification is built after that. `BoucleJuste` is the loop invariant: every
  pupil of the list who still exists is in what is left of it or has been told
  with his parents, and the parents of the current one who are not left to be
  told have been. Neither refers to the form, which is why the chips and the
  fields may change at any point. `Limitee` is the converse: what is left of the
  loop is part of the list of the save, nothing of that save is stored before its
  list is known, and no save has stored anything about another pupil, shown or not.
  `SuccesComplet` takes both.
* `Publication`. `EnvoiJuste` is the loop invariant of the lots: a parent the
  homework is due to has been read, or has a child in the part of the list the
  loop has not reached (`Restant`); after the last lot that part is empty.
* `Famille`. The bound counts a link's documents and the chains that are about to
  add one (`Ajoutent`); a chain only gets there when it found no document, so
  the chains are all it ever has to count. `FamilleSuivie` shows that
  `Publication` implements `SpecFamille`, hence `LiensBornes` of the composition;
  the theorem of this name in `AppelProofs` shows the same of the roll call.
* `Lectures`. What a list displays was stored and what an update carries was
  displayed, so `Inv` says of all three that they name readers only (`Honnete`
  for an update, which may also add its sender); the refinement needs of an
  update of an announcement that it adds its sender and nobody else.
* `Photo`. A chain that replaces a photo has deleted the old file, which is not
  stored any more: a second deletion of it is refused.
* The window. `FenetreCoherente` says what each place of `main` entails: while
  the creation runs there is one window and no way to close it, so it has neither
  quit nor unregistered anything; in the loop the controller lives with the
  window; in the destructor `quit_on_close_` tells a window that was closed, of
  which the class can go, from one whose creation failed. `SansInstance` needs
  all of it: the destructor frees the class under a live window exactly on the
  second path. `ThemeSuivi` is inductive with the types.
* The arguments. `InvArguments` says that what has been converted stands for the
  arguments read so far, one for one. Each step rests on `ConversionJuste`: a
  string that is refused gives the largest `unsigned int`, which is no length of
  a string of characters (`Utf8Borne` counts the places), so either `max_size()`
  or the second conversion refuses it and the result is empty; one that is
  accepted is neither cut nor padded. The hypotheses hold on Windows: a command
  line has at most 32767 units, and `max_size()` is at least 2^31 - 1.
* `Processus`. A step of the process is a step of one part and leaves the other
  alone, so each part keeps its invariant whatever the other does.

Only model-checked:

* the liveness properties `LectureFinale`, `ConnexionAboutit`, `BoutonRendu`,
  `CompteurVide`, `DemarrageAboutit` and `FinPropre`: they rest on fairness, and so on
  ENABLED, which the proof system does not handle;
* `EncodageJuste`: that the places of `Utf8` give the bytes of the units, one
  unit after the other, is a matter of induction over the string, which the
  provers cannot instantiate. TLC evaluates it on the strings of the instance.

## 5. Plan

Every safety property that a passing run checks is proved, and so are the
refinements. What would come next:

1. The edition that a late answer clears: a specification of what a user who
   edits sees, in which `_messageEnCoursEdition` belongs to one edition. The code
   does not have that property (`Messagerie` shows the step), so it would be
   stated of a corrected page.
2. The unread counts of the message lists, whose queries of one snapshot may
   answer after those of the next.
3. The family links that change while `Notes` saves, with `Famille` composed as
   it is in `Appel`.

## 6. Not modelled

Layout, themes and texts; the pages that only read (marks, message lists,
statistics); forms with a single write (schools, subjects, assignments, roles but
for their deletion); the page `ajout_eleve.dart`, which works on fields no other
page writes; the photo uploaded at registration, whose failure is swallowed; the
pages of the roll and of the marks left while they save; the family links that
change during `Notes`; two logouts of one browser at once; the Linux, macOS, iOS
and Android runners, which keep no state of their own; and `webkitgtk-2.40.5`, an
unmodified third-party source tree unpacked beside the application, which
nothing in it includes, builds or links.
