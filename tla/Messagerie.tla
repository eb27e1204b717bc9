----------------------------- MODULE Messagerie -----------------------------
(***************************************************************************)
(* The conversation pages of the three roles                               *)
(* (lib/modules/{enseignant,parent,eleve}/vues/page_message_detail.dart)   *)
(* over the shared Firestore collection "messages".                        *)
(*                                                                         *)
(* A page shows the last snapshot its listener received, builds its writes *)
(* from that copy, and sends them without a transaction: the server serves *)
(* the writes of one client in order and those of different clients in any *)
(* order, so a write may meet a document that changed, or went, since the  *)
(* snapshot it was computed from.                                          *)
(***************************************************************************)
EXTENDS Naturals, Sequences, FiniteSets

CONSTANTS
    Enseignants,    \* documents of "enseignants" (one side of a conversation)
    Familles,       \* documents of "parents" and "eleves" (the other side)
    Ids,            \* document ids of "messages", each given out once
    MaxEnVol,       \* bound: user's writes awaiting the server (plus one batch)
    Aucun           \* null

ASSUME MessagerieHypotheses ==
    /\ Enseignants \cap Familles = {}
    /\ Aucun \notin Enseignants \cup Familles \cup Ids
    /\ MaxEnVol \in Nat \ {0}

VARIABLES
    messages,       \* the collection: one document per id, with its existence
    utilises,       \* ids given out by doc() so far
    page,           \* page[u]: whom u's open page talks to, or Aucun
    vue,            \* vue[u]: the messages u's page displays
    edition,        \* edition[u]: id of _messageEnCoursEdition, or Aucun
    enVol           \* enVol[u]: writes of u not yet served, oldest first

vars == <<messages, utilises, page, vue, edition, enVol>>

Utilisateurs == Enseignants \cup Familles

\* Teachers write to parents and pupils; parents and pupils only to teachers.
Interlocuteurs(u) == IF u \in Enseignants THEN Familles ELSE Enseignants

Contenus == {"original", "modifie"}

(***************************************************************************)
(* MessageModele; "existe" is DocumentSnapshot.exists.                     *)
(***************************************************************************)
MessageModele ==
    [existe : BOOLEAN,
     emetteurId : Utilisateurs \cup {Aucun}, recepteurId : Utilisateurs \cup {Aucun},
     lu : BOOLEAN, participants : SUBSET Utilisateurs, contenu : Contenus]

\* A document that does not exist.
Absent ==
    [existe |-> FALSE, emetteurId |-> Aucun, recepteurId |-> Aucun,
     lu |-> FALSE, participants |-> {}, contenu |-> "original"]

Champs == {"existe", "emetteurId", "recepteurId", "lu", "participants", "contenu"}

(***************************************************************************)
(* A write: the documents and fields it sets and their values. "exige" is  *)
(* update()'s precondition that every document exists; "suite" says that   *)
(* the page which sent the write still waits for its answer.               *)
(***************************************************************************)
Ecriture ==
    [ids : SUBSET Ids, champs : SUBSET Champs, valeur : MessageModele,
     exige : BOOLEAN, suite : BOOLEAN]

Fusion(w, m) ==
    [existe       |-> IF "existe" \in w.champs THEN w.valeur.existe ELSE m.existe,
     emetteurId   |-> IF "emetteurId" \in w.champs THEN w.valeur.emetteurId ELSE m.emetteurId,
     recepteurId  |-> IF "recepteurId" \in w.champs THEN w.valeur.recepteurId ELSE m.recepteurId,
     lu           |-> IF "lu" \in w.champs THEN w.valeur.lu ELSE m.lu,
     participants |-> IF "participants" \in w.champs THEN w.valeur.participants ELSE m.participants,
     contenu      |-> IF "contenu" \in w.champs THEN w.valeur.contenu ELSE m.contenu]

Creation(id, m) ==
    [ids |-> {id}, champs |-> Champs, valeur |-> m, exige |-> FALSE, suite |-> FALSE]

MiseAJour(S, c, m) ==
    [ids |-> S, champs |-> {c}, valeur |-> m, exige |-> TRUE, suite |-> c = "contenu"]

Suppression(id) ==
    [ids |-> {id}, champs |-> Champs, valeur |-> Absent, exige |-> FALSE, suite |-> FALSE]

Acceptee(w) == w.exige => \A id \in w.ids : messages[id].existe

Envoyee(u, w) == enVol' = [enVol EXCEPT ![u] = Append(@, w)]

-----------------------------------------------------------------------------
\* Variant: the query without the filter on the interlocutor.
AffichableSansFiltre(u, v, m) == m.existe /\ u \in m.participants

(***************************************************************************)
(* getMessagesStream: the documents whose participants contain the owner   *)
(* of the page (the query) and its interlocutor (the filter).              *)
(***************************************************************************)
Affichable(u, v, m) == m.existe /\ u \in m.participants /\ v \in m.participants

Instantane(u) ==
    [id \in Ids |-> IF Affichable(u, page[u], messages[id]) THEN messages[id] ELSE Absent]

Affiche(u, id) == page[u] # Aucun /\ vue[u][id].existe

\* Variant: marks the first list displayed only.
NonLusALOuverture(u, instantane) ==
    IF vue[u] # [id \in Ids |-> Absent]
      THEN {}
      ELSE {id \in Ids : instantane[id].recepteurId = u /\ ~instantane[id].lu}

\* The shown messages that _marquerMessagesCommeLus puts in its batch.
NonLus(u, instantane) ==
    {id \in Ids : /\ instantane[id].existe
                  /\ instantane[id].recepteurId = u
                  /\ ~instantane[id].lu}

\* Variant: a message written without its "lu" field.
NouveauMessageSansLu(u, v) ==
    [existe |-> TRUE, emetteurId |-> u, recepteurId |-> v, lu |-> Aucun,
     participants |-> {u, v}, contenu |-> "original"]

\* The document _envoyerMessage writes.
NouveauMessage(u, v) ==
    [existe |-> TRUE, emetteurId |-> u, recepteurId |-> v, lu |-> FALSE,
     participants |-> {u, v}, contenu |-> "original"]

-----------------------------------------------------------------------------
Vide == [id \in Ids |-> Absent]

Init ==
    /\ messages = Vide
    /\ utilises = {}
    /\ page = [u \in Utilisateurs |-> Aucun]
    /\ vue = [u \in Utilisateurs |-> Vide]
    /\ edition = [u \in Utilisateurs |-> Aucun]
    /\ enVol = [u \in Utilisateurs |-> <<>>]

\* u opens the conversation with v: a new page, nothing displayed yet.
Ouvrir(u, v) ==
    /\ page[u] = Aucun
    /\ page' = [page EXCEPT ![u] = v]
    /\ vue' = [vue EXCEPT ![u] = Vide]
    /\ UNCHANGED <<messages, utilises, edition, enVol>>

\* _marquerMessagesCommeLus on a list of messages: an empty batch commits nothing.
MarquerCommeLus(u, liste) ==
    IF NonLus(u, liste) = {}
      THEN UNCHANGED enVol
      ELSE Envoyee(u, MiseAJour(NonLus(u, liste), "lu", [Absent EXCEPT !.lu = TRUE]))

(***************************************************************************)
(* The listener delivers a new snapshot: the StreamBuilder rebuilds the    *)
(* list and its post-frame callback marks the very list it built.          *)
(***************************************************************************)
Livrer(u) ==
    /\ page[u] # Aucun
    /\ Len(enVol[u]) <= MaxEnVol
    /\ Instantane(u) # vue[u]
    /\ vue' = [vue EXCEPT ![u] = Instantane(u)]
    /\ MarquerCommeLus(u, Instantane(u))
    /\ UNCHANGED <<messages, utilises, page, edition>>

(***************************************************************************)
(* Any setState of the page (scrolling, emoji panel, status of the other   *)
(* side) rebuilds it too: the callback runs again on the list displayed,   *)
(* which the server may have left behind.                                  *)
(***************************************************************************)
Reconstruire(u) ==
    /\ page[u] # Aucun
    /\ Len(enVol[u]) < MaxEnVol
    /\ NonLus(u, vue[u]) # {}
    /\ MarquerCommeLus(u, vue[u])
    /\ UNCHANGED <<messages, utilises, page, vue, edition>>

\* _envoyerMessage, without an edition under way: set() of a new document.
EnvoyerNouveau(u) ==
    /\ page[u] # Aucun
    /\ edition[u] = Aucun
    /\ Len(enVol[u]) < MaxEnVol
    /\ \E id \in Ids \ utilises :
        /\ utilises' = utilises \cup {id}
        /\ Envoyee(u, Creation(id, NouveauMessage(u, page[u])))
    /\ UNCHANGED <<messages, page, vue, edition>>

\* _showActions, "Modifier": offered on one's own messages only.
Modifier(u, id) ==
    /\ Affiche(u, id)
    /\ vue[u][id].emetteurId = u
    /\ edition' = [edition EXCEPT ![u] = id]
    /\ UNCHANGED <<messages, utilises, page, vue, enVol>>

\* Variant: rewrites the whole message from the copy displayed.
ReecritureEdition(u, id) == Creation(id, [vue[u][id] EXCEPT !.contenu = "modifie"])

\* The write of an edition: update() of the content alone.
EcritureEdition(u, id) ==
    MiseAJour({id}, "contenu", [Absent EXCEPT !.contenu = "modifie"])

(***************************************************************************)
(* _envoyerMessage with an edition under way: _messageEnCoursEdition is    *)
(* cleared only when the server has answered (see Servir).                 *)
(***************************************************************************)
EnvoyerEdition(u) ==
    /\ page[u] # Aucun
    /\ edition[u] # Aucun
    /\ Len(enVol[u]) < MaxEnVol
    /\ Envoyee(u, EcritureEdition(u, edition[u]))
    /\ UNCHANGED <<messages, utilises, page, vue, edition>>

(***************************************************************************)
(* _supprimerPourMoi: the participants of the shown copy without u; the    *)
(* document itself goes when that leaves nobody.                           *)
(***************************************************************************)
SupprimerPourMoi(u, id) ==
    LET newParticipants == vue[u][id].participants \ {u}
        reste == [Absent EXCEPT !.participants = newParticipants]
    IN  /\ Affiche(u, id)
        /\ Len(enVol[u]) < MaxEnVol
        /\ Envoyee(u, IF newParticipants = {}
                        THEN Suppression(id)
                        ELSE MiseAJour({id}, "participants", reste))
        /\ UNCHANGED <<messages, utilises, page, vue, edition>>

\* _supprimerPourTous: returns at once unless u is the sender.
SupprimerPourTous(u, id) ==
    /\ Affiche(u, id)
    /\ vue[u][id].emetteurId = u
    /\ Len(enVol[u]) < MaxEnVol
    /\ Envoyee(u, Suppression(id))
    /\ UNCHANGED <<messages, utilises, page, vue, edition>>

-----------------------------------------------------------------------------
\* What the server makes of a write it accepts.
Applique(w) ==
    messages' = [id \in Ids |-> IF id \in w.ids THEN Fusion(w, messages[id]) ELSE messages[id]]

(***************************************************************************)
(* The server serves u's oldest write. A refused one (a document of an     *)
(* update() is gone) changes nothing, not even the other documents of a    *)
(* batch, and throws out of the page's await; after an accepted edition    *)
(* the page clears _messageEnCoursEdition, whatever it holds by then.      *)
(***************************************************************************)
Servir(u) ==
    /\ enVol[u] # <<>>
    /\ enVol' = [enVol EXCEPT ![u] = Tail(@)]
    /\ LET w == Head(enVol[u])
       IN  \/ /\ Acceptee(w)
              /\ Applique(w)
              /\ edition' = IF w.suite THEN [edition EXCEPT ![u] = Aucun] ELSE edition
           \/ /\ ~Acceptee(w)
              /\ UNCHANGED <<messages, edition>>
    /\ UNCHANGED <<utilises, page, vue>>

\* The page is popped: its State and its pending awaits go, its writes do not.
Fermer(u) ==
    /\ page[u] # Aucun
    /\ page' = [page EXCEPT ![u] = Aucun]
    /\ vue' = [vue EXCEPT ![u] = Vide]
    /\ edition' = [edition EXCEPT ![u] = Aucun]
    /\ enVol' = [enVol EXCEPT ![u] = [i \in DOMAIN @ |-> [@[i] EXCEPT !.suite = FALSE]]]
    /\ UNCHANGED <<messages, utilises>>

\* The process dies with a cache kept in memory only: unsent writes are lost.
Tuer(u) ==
    /\ page[u] # Aucun
    /\ page' = [page EXCEPT ![u] = Aucun]
    /\ vue' = [vue EXCEPT ![u] = Vide]
    /\ edition' = [edition EXCEPT ![u] = Aucun]
    /\ enVol' = [enVol EXCEPT ![u] = <<>>]
    /\ UNCHANGED <<messages, utilises>>

Next ==
    \E u \in Utilisateurs :
        \/ \E v \in Interlocuteurs(u) : Ouvrir(u, v)
        \/ Livrer(u)
        \/ Reconstruire(u)
        \/ EnvoyerNouveau(u)
        \/ EnvoyerEdition(u)
        \/ \E id \in Ids :
            \/ Modifier(u, id)
            \/ SupprimerPourMoi(u, id)
            \/ SupprimerPourTous(u, id)
        \/ Servir(u)
        \/ Fermer(u)
        \/ Tuer(u)

Spec == Init /\ [][Next]_vars

(***************************************************************************)
(* Firestore keeps delivering to an open listener and keeps serving the    *)
(* writes of a connected client. Nothing is assumed of the users.          *)
(***************************************************************************)
Equite == \A u \in Utilisateurs : WF_vars(Livrer(u)) /\ WF_vars(Servir(u))

SpecEquitable == Spec /\ Equite

-----------------------------------------------------------------------------
(***************************************************************************)
(* Type invariant of the collection, the pages and the pending writes.     *)
(***************************************************************************)
TypeOK ==
    /\ messages \in [Ids -> MessageModele]
    /\ utilises \subseteq Ids
    /\ page \in [Utilisateurs -> Utilisateurs \cup {Aucun}]
    /\ vue \in [Utilisateurs -> [Ids -> MessageModele]]
    /\ edition \in [Utilisateurs -> Ids \cup {Aucun}]
    /\ enVol \in [Utilisateurs -> Seq(Ecriture)]

(***************************************************************************)
(* A page displays only messages its owner exchanged with the interlocutor *)
(* it was opened for, whatever stale participant lists have been written:  *)
(* getMessagesStream selects by participants, not by sender and recipient. *)
(***************************************************************************)
Confidentialite ==
    \A u \in Utilisateurs, id \in Ids :
        Affiche(u, id) => {vue[u][id].emetteurId, vue[u][id].recepteurId} = {u, page[u]}

(***************************************************************************)
(* A message disappears from the collection only by a write of its sender: *)
(* the recipient's "Supprimer pour moi" never reaches the delete() of its  *)
(* newParticipants.isEmpty branch, even on a stale copy.                   *)
(***************************************************************************)
SuppressionParEmetteur ==
    [][\A id \in Ids :
         messages[id].existe /\ ~messages'[id].existe
            => \E u \in Utilisateurs :
                 /\ u = messages[id].emetteurId
                 /\ enVol[u] # <<>>
                 /\ enVol'[u] = Tail(enVol[u])]_vars

(***************************************************************************)
(* Read stays read: while a message exists, no late edition, deletion for  *)
(* one side or duplicate batch turns "lu" back to false.                   *)
(***************************************************************************)
LuMonotone ==
    [][\A id \in Ids :
         messages[id].existe /\ messages'[id].existe /\ messages[id].lu => messages'[id].lu]_vars

\* Only the set() of _envoyerMessage writes a document that exists.
EstCreation(w) == w.valeur.existe

\* No pending write creates id: its creation was served, or lost, or not sent.
SansCreation(id) ==
    \A u \in Utilisateurs : \A i \in 1..Len(enVol[u]) :
        EstCreation(enVol[u][i]) => id \notin enVol[u][i].ids

\* A message is shown to both sides, or to neither once one has deleted it.
Etape(m) == IF m.participants = {m.emetteurId, m.recepteurId} THEN "visible" ELSE "masque"

Lettre(id) ==
    LET m == messages[id] IN
    IF m.existe
      THEN [etape |-> Etape(m), de |-> m.emetteurId, a |-> m.recepteurId,
            lu |-> m.lu, contenu |-> m.contenu]
      ELSE [etape |-> IF id \in utilises /\ SansCreation(id) THEN "fini" ELSE "aVenir"]

Boite == INSTANCE Courrier WITH
    Messages <- Ids,
    courrier <- [id \in Ids |-> Lettre(id)]

(***************************************************************************)
(* The collection implements Courrier, although the pages build their      *)
(* writes from copies the server has left behind: a late edition, batch or *)
(* removal that meets a deleted message does not write it anew, and none   *)
(* puts a message that one side has deleted back in the conversation.      *)
(***************************************************************************)
VieDesMessages == Boite!SpecCourrier

(***************************************************************************)
(* An unread message both sides still see ends up read as long as its      *)
(* recipient keeps the conversation open, although a batch that holds one  *)
(* deleted message is refused as a whole.                                  *)
(***************************************************************************)
LectureFinale ==
    \A u \in Utilisateurs, id \in Ids :
        LET m == messages[id]
            aLire == /\ m.recepteurId = u
                     /\ page[u] # Aucun
                     /\ Affichable(u, page[u], m)
                     /\ ~m.lu
        IN  aLire ~> ~aLire
=============================================================================
