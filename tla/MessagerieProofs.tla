-------------------------- MODULE MessagerieProofs --------------------------
(***************************************************************************)
(* Proofs about Messagerie, for any set of users, any set of message ids   *)
(* and any bound on the pending writes.                                    *)
(***************************************************************************)
EXTENDS Messagerie, SequenceTheorems, TLAPS

-----------------------------------------------------------------------------
(***************************************************************************)
(* Types of the documents and of the writes.                               *)
(***************************************************************************)

\* The missing document has the type of a document.
LEMMA AbsentType == Absent \in MessageModele
  BY DEF Absent, MessageModele, Contenus

\* What update() or set() leaves in a document has the type of a document.
LEMMA FusionType ==
  ASSUME NEW w \in Ecriture, NEW m \in MessageModele
  PROVE  Fusion(w, m) \in MessageModele
  <1>1. w.valeur \in MessageModele
    BY DEF Ecriture
  <1> QED
    BY <1>1 DEF Fusion, MessageModele

\* The three kinds of writes the pages send are writes.
LEMMA MiseAJourType ==
  ASSUME NEW m \in MessageModele, NEW S \in SUBSET Ids, NEW c \in Champs
  PROVE  MiseAJour(S, c, m) \in Ecriture
  BY DEF MiseAJour, Ecriture, Champs

\* Creations and deletions are writes too.
LEMMA CreationType ==
  ASSUME NEW m \in MessageModele, NEW id \in Ids
  PROVE  /\ Creation(id, m) \in Ecriture
         /\ Suppression(id) \in Ecriture
  BY AbsentType DEF Creation, Suppression, Ecriture, Champs

\* The partial documents the pages put in an update().
LEMMA ValeurTypes ==
  ASSUME NEW p \in SUBSET Utilisateurs
  PROVE  /\ [Absent EXCEPT !.lu = TRUE] \in MessageModele
         /\ [Absent EXCEPT !.contenu = "modifie"] \in MessageModele
         /\ [Absent EXCEPT !.participants = p] \in MessageModele
  BY DEF Absent, MessageModele, Contenus

\* A new message of a page that is open.
LEMMA NouveauType ==
  ASSUME NEW u \in Utilisateurs, NEW v \in Utilisateurs
  PROVE  NouveauMessage(u, v) \in MessageModele
  BY DEF NouveauMessage, MessageModele, Contenus

-----------------------------------------------------------------------------
(***************************************************************************)
(* The pages, their copies and their pending writes keep their types.      *)
(***************************************************************************)
THEOREM TypeCorrect == Spec => []TypeOK
<1>1. Init => TypeOK
  BY AbsentType DEF Init, TypeOK, Vide
<1>2. TypeOK /\ [Next]_vars => TypeOK'
  <2> SUFFICES ASSUME TypeOK, [Next]_vars PROVE TypeOK'
    OBVIOUS
  <2> USE DEF TypeOK
  <2>0. \A u \in Utilisateurs : \A id \in Ids : vue[u][id] \in MessageModele
    OBVIOUS
  <2>env. ASSUME NEW u \in Utilisateurs, NEW w \in Ecriture, Envoyee(u, w)
          PROVE  enVol' \in [Utilisateurs -> Seq(Ecriture)]
    <3>1. Append(enVol[u], w) \in Seq(Ecriture)
      OBVIOUS
    <3> QED
      BY <3>1, <2>env DEF Envoyee
  <2>1. ASSUME NEW u \in Utilisateurs, NEW v \in Interlocuteurs(u), Ouvrir(u, v) PROVE TypeOK'
    <3>1. v \in Utilisateurs
      BY DEF Interlocuteurs, Utilisateurs
    <3> QED
      BY <2>1, <3>1, AbsentType DEF Ouvrir, Vide
  <2>ins. ASSUME NEW u \in Utilisateurs PROVE Instantane(u) \in [Ids -> MessageModele]
    BY AbsentType DEF Instantane
  <2>mar. ASSUME NEW u \in Utilisateurs, NEW liste, MarquerCommeLus(u, liste)
          PROVE  enVol' \in [Utilisateurs -> Seq(Ecriture)]
    <3>1. NonLus(u, liste) \in SUBSET Ids
      BY DEF NonLus
    <3>2. MiseAJour(NonLus(u, liste), "lu", [Absent EXCEPT !.lu = TRUE]) \in Ecriture
      BY <3>1, MiseAJourType, CreationType, ValeurTypes DEF Champs
    <3> QED
      BY <2>mar, <3>2, <2>env DEF MarquerCommeLus
  <2>2. ASSUME NEW u \in Utilisateurs, Livrer(u) PROVE TypeOK'
    <3>1. enVol' \in [Utilisateurs -> Seq(Ecriture)]
      BY <2>2, <2>mar DEF Livrer
    <3> QED
      BY <2>2, <3>1, <2>ins DEF Livrer
  <2>3. ASSUME NEW u \in Utilisateurs, Reconstruire(u) PROVE TypeOK'
    <3>1. enVol' \in [Utilisateurs -> Seq(Ecriture)]
      BY <2>3, <2>mar DEF Reconstruire
    <3> QED
      BY <2>3, <3>1 DEF Reconstruire
  <2>4. ASSUME NEW u \in Utilisateurs, EnvoyerNouveau(u) PROVE TypeOK'
    <3>1. PICK id \in Ids \ utilises :
             /\ utilises' = utilises \cup {id}
             /\ Envoyee(u, Creation(id, NouveauMessage(u, page[u])))
      BY <2>4 DEF EnvoyerNouveau
    <3>2. page[u] \in Utilisateurs
      BY <2>4 DEF EnvoyerNouveau
    <3>3. Creation(id, NouveauMessage(u, page[u])) \in Ecriture
      BY <3>2, NouveauType, MiseAJourType, CreationType DEF Champs
    <3>4. enVol' \in [Utilisateurs -> Seq(Ecriture)]
      BY <3>1, <3>3, <2>env
    <3> QED
      BY <2>4, <3>1, <3>4 DEF EnvoyerNouveau
  <2>5. ASSUME NEW u \in Utilisateurs, EnvoyerEdition(u) PROVE TypeOK'
    <3>1. edition[u] \in Ids
      BY <2>5 DEF EnvoyerEdition
    <3>2. EcritureEdition(u, edition[u]) \in Ecriture
      BY <3>1, MiseAJourType, CreationType, ValeurTypes DEF EcritureEdition, Champs
    <3>3. enVol' \in [Utilisateurs -> Seq(Ecriture)]
      BY <2>5, <3>2, <2>env DEF EnvoyerEdition
    <3> QED
      BY <2>5, <3>3 DEF EnvoyerEdition
  <2>6. ASSUME NEW u \in Utilisateurs, NEW id \in Ids, Modifier(u, id) PROVE TypeOK'
    BY <2>6 DEF Modifier
  <2>7. ASSUME NEW u \in Utilisateurs, NEW id \in Ids, SupprimerPourMoi(u, id) PROVE TypeOK'
    <3> DEFINE p == vue[u][id].participants \ {u}
    <3>1. p \in SUBSET Utilisateurs
      BY <2>0 DEF MessageModele
    <3>2. /\ Suppression(id) \in Ecriture
          /\ MiseAJour({id}, "participants", [Absent EXCEPT !.participants = p]) \in Ecriture
      BY <3>1, MiseAJourType, CreationType, ValeurTypes, AbsentType DEF Champs
    <3>3. enVol' \in [Utilisateurs -> Seq(Ecriture)]
      BY <2>7, <3>2, <2>env DEF SupprimerPourMoi
    <3> QED
      BY <2>7, <3>3 DEF SupprimerPourMoi
  <2>8. ASSUME NEW u \in Utilisateurs, NEW id \in Ids, SupprimerPourTous(u, id) PROVE TypeOK'
    <3>1. Suppression(id) \in Ecriture
      BY MiseAJourType, CreationType, AbsentType DEF Champs
    <3>2. enVol' \in [Utilisateurs -> Seq(Ecriture)]
      BY <2>8, <3>1, <2>env DEF SupprimerPourTous
    <3> QED
      BY <2>8, <3>2 DEF SupprimerPourTous
  <2>9. ASSUME NEW u \in Utilisateurs, Servir(u) PROVE TypeOK'
    <3>1. enVol[u] \in Seq(Ecriture) /\ enVol[u] # <<>>
      BY <2>9 DEF Servir
    <3>2. Head(enVol[u]) \in Ecriture /\ Tail(enVol[u]) \in Seq(Ecriture)
      BY <3>1
    <3>3. enVol' \in [Utilisateurs -> Seq(Ecriture)]
      BY <2>9, <3>2 DEF Servir
    <3>4. messages' \in [Ids -> MessageModele]
      BY <2>9, <3>2, FusionType DEF Servir, Applique
    <3>5. edition' \in [Utilisateurs -> Ids \cup {Aucun}]
      BY <2>9 DEF Servir
    <3> QED
      BY <2>9, <3>3, <3>4, <3>5 DEF Servir
  <2>10. ASSUME NEW u \in Utilisateurs, Fermer(u) PROVE TypeOK'
    <3> DEFINE q == [i \in DOMAIN enVol[u] |-> [enVol[u][i] EXCEPT !.suite = FALSE]]
    <3>1. enVol[u] \in Seq(Ecriture)
      OBVIOUS
    <3>2. \A i \in DOMAIN enVol[u] : enVol[u][i] \in Ecriture
      BY <3>1
    <3>3. \A i \in DOMAIN enVol[u] : [enVol[u][i] EXCEPT !.suite = FALSE] \in Ecriture
      BY <3>2 DEF Ecriture
    <3>4. q \in Seq(Ecriture)
      BY <3>1, <3>3, DOMAIN enVol[u] = 1..Len(enVol[u]), Len(enVol[u]) \in Nat
    <3>5. enVol' = [enVol EXCEPT ![u] = q]
      BY <2>10 DEF Fermer
    <3>6. enVol' \in [Utilisateurs -> Seq(Ecriture)]
      BY <3>4, <3>5
    <3> QED
      BY <2>10, <3>6, AbsentType DEF Fermer, Vide
  <2>11. ASSUME NEW u \in Utilisateurs, Tuer(u) PROVE TypeOK'
    BY <2>11, AbsentType DEF Tuer, Vide
  <2>12. CASE UNCHANGED vars
    BY <2>12 DEF vars
  <2> QED
    BY <2>1, <2>2, <2>3, <2>4, <2>5, <2>6, <2>7, <2>8, <2>9, <2>10, <2>11, <2>12 DEF Next
<1> QED
  BY <1>1, <1>2, PTL DEF Spec

-----------------------------------------------------------------------------
(***************************************************************************)
(* The inductive invariant behind the safety properties.                   *)
(***************************************************************************)

\* The participants of a message are among its sender and its recipient.
InvMessages ==
    \A id \in Ids : messages[id].existe =>
        /\ SansCreation(id)
        /\ id \in utilises
        /\ messages[id].participants \subseteq {messages[id].emetteurId, messages[id].recepteurId}

InvPage == \A u \in Utilisateurs : page[u] # Aucun => page[u] \in Interlocuteurs(u)

(***************************************************************************)
(* A displayed copy belongs to the conversation and, however old, agrees   *)
(* with the document on who sent it to whom.                               *)
(***************************************************************************)
CopieFidele(u, id) ==
    LET m == vue[u][id]
    IN  /\ SansCreation(id)
        /\ id \in utilises
        /\ page[u] # Aucun
        /\ m.participants = {u, page[u]}
        /\ {m.emetteurId, m.recepteurId} = {u, page[u]}
        /\ messages[id].existe => /\ messages[id].emetteurId = m.emetteurId
                                  /\ messages[id].recepteurId = m.recepteurId

InvVue ==
    \A u \in Utilisateurs : \A id \in Ids : vue[u][id].existe => CopieFidele(u, id)

InvEdition ==
    \A u \in Utilisateurs : edition[u] # Aucun => SansCreation(edition[u]) /\ edition[u] \in utilises

\* The five writes of the pages, and what they may do to the documents they meet.
EcritureCreation(u, w) ==
    /\ EstCreation(w)
    /\ w.champs = Champs
    /\ ~w.exige
    /\ \E v \in Interlocuteurs(u) : w.valeur = NouveauMessage(u, v)
    /\ \E id \in Ids : w.ids = {id} /\ ~messages[id].existe

\* The batch of a recipient.
EcritureLecture(u, w) ==
    /\ ~EstCreation(w)
    /\ w.exige
    /\ w.champs = {"lu"}
    /\ w.valeur.lu
    /\ \A id \in w.ids : messages[id].existe => messages[id].recepteurId = u

\* The write of one document.
Seule(w) == \E id \in Ids : w.ids = {id}

EcritureContenu(w) ==
    /\ ~EstCreation(w)
    /\ w.exige
    /\ w.champs = {"contenu"}
    /\ w.valeur.contenu = "modifie"
    /\ Seule(w)

EcritureParticipants(w) ==
    /\ ~EstCreation(w)
    /\ w.exige
    /\ w.champs = {"participants"}
    /\ Seule(w)
    /\ \A id \in w.ids : messages[id].existe =>
         /\ w.valeur.participants \subseteq {messages[id].emetteurId, messages[id].recepteurId}
         /\ w.valeur.participants # {messages[id].emetteurId, messages[id].recepteurId}

EcritureSuppression(u, w) ==
    /\ ~EstCreation(w)
    /\ w.champs = Champs
    /\ ~w.exige
    /\ w.valeur = Absent
    /\ Seule(w)
    /\ \A id \in w.ids : messages[id].existe => messages[id].emetteurId = u

Reguliere(u, w) ==
    /\ w.ids \subseteq utilises
    /\ \/ EcritureCreation(u, w)
       \/ /\ \A id \in w.ids : SansCreation(id)
          /\ \/ EcritureLecture(u, w)
             \/ EcritureContenu(w)
             \/ EcritureParticipants(w)
             \/ EcritureSuppression(u, w)

InvEnVol == \A u \in Utilisateurs : \A i \in 1..Len(enVol[u]) : Reguliere(u, enVol[u][i])

\* A message is created by one write only.
InvUnique ==
    \A u, v \in Utilisateurs : \A i \in 1..Len(enVol[u]), j \in 1..Len(enVol[v]) :
        /\ EstCreation(enVol[u][i])
        /\ EstCreation(enVol[v][j])
        /\ enVol[u][i].ids = enVol[v][j].ids
        => u = v /\ i = j

Inv == InvMessages /\ InvPage /\ InvVue /\ InvEdition /\ InvEnVol /\ InvUnique

-----------------------------------------------------------------------------
(***************************************************************************)
(* How the pending writes of a step relate to those before it.             *)
(***************************************************************************)

\* Sending: the old writes stay in place, the new one comes last.
LEMMA EnvoiIndices ==
  ASSUME TypeOK, NEW u \in Utilisateurs, NEW w \in Ecriture, Envoyee(u, w),
         NEW v \in Utilisateurs, NEW i \in 1..Len(enVol'[v])
  PROVE  \/ v = u /\ i = Len(enVol[u]) + 1 /\ enVol'[v][i] = w
         \/ i \in 1..Len(enVol[v]) /\ enVol'[v][i] = enVol[v][i]
  <1>1. enVol[u] \in Seq(Ecriture) /\ enVol[v] \in Seq(Ecriture)
    BY DEF TypeOK
  <1>2. enVol'[v] = IF v = u THEN Append(enVol[u], w) ELSE enVol[v]
    BY DEF Envoyee, TypeOK
  <1> QED
    BY <1>1, <1>2

\* Serving: the head of one queue goes, its other writes move up.
LEMMA ServiceIndices ==
  ASSUME TypeOK, NEW u \in Utilisateurs, enVol[u] # <<>>,
         enVol' = [enVol EXCEPT ![u] = Tail(@)],
         NEW v \in Utilisateurs, NEW i \in 1..Len(enVol'[v])
  PROVE  IF v = u THEN i + 1 \in 1..Len(enVol[v]) /\ enVol'[v][i] = enVol[v][i + 1]
                  ELSE i \in 1..Len(enVol[v]) /\ enVol'[v][i] = enVol[v][i]
  <1>1. enVol[u] \in Seq(Ecriture) /\ enVol[v] \in Seq(Ecriture)
    BY DEF TypeOK
  <1>2. enVol'[v] = IF v = u THEN Tail(enVol[u]) ELSE enVol[v]
    BY DEF TypeOK
  <1>3. CASE v = u
    <2>1. /\ Len(Tail(enVol[u])) = Len(enVol[u]) - 1
          /\ \A k \in 1..Len(Tail(enVol[u])) : Tail(enVol[u])[k] = enVol[u][k + 1]
      BY <1>1, HeadTailProperties
    <2>2. enVol'[v] = Tail(enVol[u])
      BY <1>2, <1>3
    <2>3. i \in 1..Len(Tail(enVol[u]))
      BY <2>2
    <2>4. enVol'[v][i] = enVol[v][i + 1]
      BY <2>1, <2>2, <2>3, <1>3
    <2>5. i + 1 \in 1..Len(enVol[v])
      BY <2>1, <2>3, <1>1, <1>3
    <2> QED
      BY <1>3, <2>4, <2>5
  <1>4. CASE v # u
    BY <1>2, <1>4
  <1> QED
    BY <1>3, <1>4

\* Two writes that differ at most in who waits for their answer.
MemeEcriture(x, y) ==
    x.ids = y.ids /\ x.champs = y.champs /\ x.valeur = y.valeur /\ x.exige = y.exige

\* Every pending write after the step was pending before, d[v] places further.
Decale(d) ==
    \A v \in Utilisateurs : \A i \in 1..Len(enVol'[v]) :
        /\ i + d[v] \in 1..Len(enVol[v])
        /\ MemeEcriture(enVol'[v][i], enVol[v][i + d[v]])

\* No document is created, and one that stays keeps its two ends.
Decroit ==
    \A id \in Ids : messages'[id].existe =>
        /\ messages[id].existe
        /\ messages'[id].emetteurId = messages[id].emetteurId
        /\ messages'[id].recepteurId = messages[id].recepteurId
        /\ messages'[id].participants \subseteq {messages[id].emetteurId, messages[id].recepteurId}

-----------------------------------------------------------------------------
\* A regular write other than a creation may be sent from any state of Inv.
LEMMA Envoi ==
  ASSUME TypeOK, Inv, NEW u \in Utilisateurs, NEW w \in Ecriture, Envoyee(u, w),
         Reguliere(u, w), ~EstCreation(w), UNCHANGED <<messages, utilises>>
  PROVE  /\ \A id \in Ids : SansCreation(id) => SansCreation(id)'
         /\ InvMessages'
         /\ InvEnVol'
         /\ InvUnique'
  <1>1. \A id \in Ids : SansCreation(id) => SansCreation(id)'
    BY EnvoiIndices DEF SansCreation
  <1>2. InvMessages'
    BY <1>1 DEF Inv, InvMessages
  <1>3. ASSUME NEW v \in Utilisateurs, NEW x \in Ecriture, Reguliere(v, x)
        PROVE  Reguliere(v, x)'
    <2>1. x.ids \subseteq Ids
      BY DEF Ecriture
    <2> QED
      BY <1>1, <1>3, <2>1 DEF Reguliere, EcritureCreation, EcritureLecture, EcritureContenu,
         EcritureParticipants, EcritureSuppression, EstCreation
  <1>4. InvEnVol'
    <2> SUFFICES ASSUME NEW v \in Utilisateurs, NEW i \in 1..Len(enVol'[v])
                 PROVE  Reguliere(v, enVol[v][i])'
      BY DEF InvEnVol
    <2>1. CASE v = u /\ enVol'[v][i] = w
      BY <2>1, <1>3
    <2>2. CASE i \in 1..Len(enVol[v]) /\ enVol'[v][i] = enVol[v][i]
      <3>1. enVol[v][i] \in Ecriture
        BY <2>2 DEF TypeOK
      <3>2. Reguliere(v, enVol[v][i])
        BY <2>2 DEF Inv, InvEnVol
      <3> QED
        BY <2>2, <3>1, <3>2, <1>3
    <2> QED
      BY <2>1, <2>2, EnvoiIndices
  <1>5. InvUnique'
    <2> SUFFICES ASSUME NEW a \in Utilisateurs, NEW b \in Utilisateurs,
                        NEW i \in 1..Len(enVol'[a]), NEW j \in 1..Len(enVol'[b]),
                        EstCreation(enVol'[a][i]), EstCreation(enVol'[b][j]),
                        enVol'[a][i].ids = enVol'[b][j].ids
                 PROVE  a = b /\ i = j
      BY DEF InvUnique, EstCreation
    <2>1. i \in 1..Len(enVol[a]) /\ enVol'[a][i] = enVol[a][i]
      BY EnvoiIndices
    <2>2. j \in 1..Len(enVol[b]) /\ enVol'[b][j] = enVol[b][j]
      BY EnvoiIndices
    <2> QED
      BY <2>1, <2>2 DEF Inv, InvUnique
  <1> QED
    BY <1>1, <1>2, <1>4, <1>5

\* Moving the pending writes up keeps each creation the only one of its id.
LEMMA UniqueDecale ==
  ASSUME Inv, NEW d \in [Utilisateurs -> Nat], Decale(d)
  PROVE  InvUnique'
  <1> SUFFICES ASSUME NEW a \in Utilisateurs, NEW b \in Utilisateurs,
                      NEW i \in 1..Len(enVol'[a]), NEW j \in 1..Len(enVol'[b]),
                      EstCreation(enVol'[a][i]), EstCreation(enVol'[b][j]),
                      enVol'[a][i].ids = enVol'[b][j].ids
               PROVE  a = b /\ i = j
    BY DEF InvUnique, EstCreation
  <1>1. /\ i + d[a] \in 1..Len(enVol[a])
        /\ MemeEcriture(enVol'[a][i], enVol[a][i + d[a]])
        /\ j + d[b] \in 1..Len(enVol[b])
        /\ MemeEcriture(enVol'[b][j], enVol[b][j + d[b]])
    BY DEF Decale
  <1>2. a = b /\ i + d[a] = j + d[b]
    BY <1>1 DEF Inv, InvUnique, MemeEcriture, EstCreation
  <1>3. i \in Int /\ j \in Int /\ d[a] \in Nat
    OBVIOUS
  <1> QED
    BY <1>2, <1>3

\* Losing pending writes, and documents, keeps the invariant of both.
LEMMA Retrait ==
  ASSUME TypeOK, Inv, NEW d \in [Utilisateurs -> Nat], Decale(d), Decroit, utilises' = utilises
  PROVE  /\ \A id \in Ids : SansCreation(id) => SansCreation(id)'
         /\ InvMessages'
         /\ InvEnVol'
         /\ InvUnique'
  <1>1. \A id \in Ids : SansCreation(id) => SansCreation(id)'
    <2> SUFFICES ASSUME NEW id \in Ids, SansCreation(id),
                        NEW v \in Utilisateurs, NEW i \in 1..Len(enVol'[v]),
                        EstCreation(enVol'[v][i])
                 PROVE  id \notin enVol'[v][i].ids
      BY DEF SansCreation, EstCreation
    <2>1. /\ i + d[v] \in 1..Len(enVol[v])
          /\ MemeEcriture(enVol'[v][i], enVol[v][i + d[v]])
      BY DEF Decale
    <2> QED
      BY <2>1 DEF MemeEcriture, SansCreation, EstCreation
  <1>2. InvMessages'
    BY <1>1 DEF Inv, InvMessages, Decroit
  <1>3. InvEnVol'
    <2> SUFFICES ASSUME NEW v \in Utilisateurs, NEW i \in 1..Len(enVol'[v])
                 PROVE  Reguliere(v, enVol[v][i])'
      BY DEF InvEnVol
    <2> DEFINE x == enVol[v][i + d[v]]
    <2>1. i + d[v] \in 1..Len(enVol[v]) /\ MemeEcriture(enVol'[v][i], x)
      BY DEF Decale
    <2>2. Reguliere(v, x) /\ x \in Ecriture
      BY <2>1 DEF Inv, InvEnVol, TypeOK
    <2> HIDE DEF x
    <2>3. x.ids \subseteq Ids
      BY <2>2 DEF Ecriture
    <2>4. CASE EcritureCreation(v, x)
      BY <2>1, <2>2, <2>4 DEF MemeEcriture, Reguliere, EcritureCreation, EstCreation, Decroit
    <2>5. CASE /\ \A id \in x.ids : SansCreation(id)
               /\ EcritureLecture(v, x) \/ EcritureContenu(x) \/ EcritureParticipants(x) \/ EcritureSuppression(v, x)
      <3>1. /\ \A id \in x.ids : SansCreation(id)'
            /\ x.ids \subseteq utilises' /\ ~EstCreation(x)
        BY <1>1, <2>2, <2>3, <2>5 DEF Reguliere, EcritureLecture, EcritureContenu,
           EcritureParticipants, EcritureSuppression
      <3> USE DEF MemeEcriture, Reguliere, EstCreation
      <3>2. CASE EcritureLecture(v, x)
        BY <2>1, <2>3, <3>1, <3>2 DEF EcritureLecture, Decroit
      <3>3. CASE EcritureContenu(x)
        BY <2>1, <3>1, <3>3 DEF EcritureContenu, Seule
      <3>4. CASE EcritureParticipants(x)
        BY <2>1, <2>3, <3>1, <3>4 DEF EcritureParticipants, Decroit, Seule
      <3>5. CASE EcritureSuppression(v, x)
        BY <2>1, <2>3, <3>1, <3>5 DEF EcritureSuppression, Decroit, Seule
      <3> QED
        BY <2>5, <3>2, <3>3, <3>4, <3>5
    <2> QED
      BY <2>2, <2>4, <2>5 DEF Reguliere
  <1>4. InvUnique'
    BY UniqueDecale
  <1> QED
    BY <1>1, <1>2, <1>3, <1>4

-----------------------------------------------------------------------------
(***************************************************************************)
(* The parts of Inv about the pages, when no page or copy changes and an   *)
(* edition can only end.                                                   *)
(***************************************************************************)
LEMMA PagesInchangees ==
  ASSUME TypeOK, Inv, UNCHANGED <<page, vue>>, Decroit,
         \A u \in Utilisateurs : edition'[u] \in {edition[u], Aucun},
         \A id \in Ids : id \in utilises /\ SansCreation(id) => SansCreation(id)',
         utilises \subseteq utilises'
  PROVE  InvPage' /\ InvVue' /\ InvEdition'
  <1>1. InvPage'
    BY DEF Inv, InvPage
  <1>2. InvVue'
    BY DEF Inv, InvVue, CopieFidele, Decroit
  <1>3. InvEdition'
    BY DEF Inv, InvEdition, TypeOK
  <1> QED
    BY <1>1, <1>2, <1>3

\* Unchanged documents do not grow.
LEMMA DecroitInchange ==
  ASSUME TypeOK, Inv, UNCHANGED messages
  PROVE  Decroit
  BY DEF Decroit, Inv, InvMessages

\* The two ends of a conversation are different users.
LEMMA InterlocuteurAutre ==
  ASSUME NEW u \in Utilisateurs, NEW v \in Interlocuteurs(u)
  PROVE  v \in Utilisateurs \ {u}
  BY MessagerieHypotheses DEF Interlocuteurs, Utilisateurs

\* The initial state has no message, no copy and no pending write.
LEMMA InitInv == Init => Inv
  BY DEF Init, Inv, InvMessages, InvPage, InvVue, InvEdition, InvEnVol, InvUnique, Vide, Absent

\* A copy that stays displayed stays faithful when documents only decrease.
LEMMA CopieConservee ==
  ASSUME NEW v \in Utilisateurs, NEW id \in Ids, CopieFidele(v, id), Decroit,
         vue'[v][id] = vue[v][id], page'[v] = page[v],
         SansCreation(id)', id \in utilises'
  PROVE  CopieFidele(v, id)'
  BY DEF CopieFidele, Decroit

\* Opening a page shows nothing yet.
LEMMA OuvrirInv ==
  ASSUME TypeOK, Inv, NEW u \in Utilisateurs, NEW v \in Interlocuteurs(u), Ouvrir(u, v)
  PROVE  Inv'
  <1> USE DEF Ouvrir
  <1>1. \A id \in Ids : SansCreation(id)' = SansCreation(id)
    BY DEF SansCreation
  <1>2. InvMessages' /\ InvEdition'
    BY <1>1 DEF Inv, InvMessages, InvEdition, TypeOK
  <1>3. InvUnique'
    BY DEF Inv, InvUnique
  <1>4. InvEnVol'
    BY DEF Inv, InvEnVol, Reguliere, EcritureCreation, EcritureLecture, EcritureContenu,
       EcritureParticipants, EcritureSuppression, SansCreation
  <1>5. InvPage'
    BY DEF Inv, InvPage, TypeOK
  <1>6. InvVue'
    <2>1. \A id \in Ids : ~vue'[u][id].existe
      BY DEF TypeOK, Vide, Absent
    <2>2. \A x \in Utilisateurs \ {u} : vue'[x] = vue[x] /\ page'[x] = page[x]
      BY DEF TypeOK
    <2> SUFFICES ASSUME NEW x \in Utilisateurs, NEW id \in Ids, vue'[x][id].existe
                 PROVE  CopieFidele(x, id)'
      BY DEF InvVue
    <2>3. x # u /\ vue'[x][id] = vue[x][id] /\ page'[x] = page[x]
      BY <2>1, <2>2
    <2>4. CopieFidele(x, id)
      BY <2>3 DEF Inv, InvVue
    <2>5. SansCreation(id)' /\ id \in utilises'
      BY <1>1, <2>4 DEF CopieFidele
    <2>6. Decroit
      BY DecroitInchange
    <2> QED
      BY <2>3, <2>4, <2>5, <2>6, CopieConservee
  <1> QED
    BY <1>2, <1>3, <1>4, <1>5, <1>6 DEF Inv

\* The batch of _marquerMessagesCommeLus is regular when its list is.
LEMMA MarquerInv ==
  ASSUME TypeOK, Inv, NEW u \in Utilisateurs, NEW liste, MarquerCommeLus(u, liste),
         UNCHANGED <<messages, utilises>>,
         \A id \in Ids : liste[id].existe =>
            /\ SansCreation(id) /\ id \in utilises
            /\ messages[id].existe => messages[id].recepteurId = liste[id].recepteurId
  PROVE  /\ \A id \in Ids : SansCreation(id) => SansCreation(id)'
         /\ InvMessages'
         /\ InvEnVol'
         /\ InvUnique'
  <1> DEFINE w == MiseAJour(NonLus(u, liste), "lu", [Absent EXCEPT !.lu = TRUE])
  <1>1. CASE UNCHANGED enVol
    <2>1. \A id \in Ids : SansCreation(id)' = SansCreation(id)
      BY <1>1 DEF SansCreation
    <2>2. InvMessages'
      BY <2>1 DEF Inv, InvMessages
    <2>3. InvUnique'
      BY <1>1 DEF Inv, InvUnique
    <2>4. InvEnVol'
      BY <1>1 DEF Inv, InvEnVol, Reguliere, EcritureCreation, EcritureLecture, EcritureContenu,
         EcritureParticipants, EcritureSuppression, SansCreation
    <2> QED
      BY <2>1, <2>2, <2>3, <2>4
  <1>2. CASE Envoyee(u, w)
    <2>1. NonLus(u, liste) \in SUBSET Ids
      BY DEF NonLus
    <2>2. w \in Ecriture
      BY <2>1, MiseAJourType, ValeurTypes DEF Champs
    <2>3. /\ w.ids = NonLus(u, liste) /\ w.champs = {"lu"} /\ w.exige
          /\ w.valeur.lu /\ ~w.valeur.existe
      BY DEF MiseAJour, Absent
    <2>4. \A id \in w.ids :
            /\ SansCreation(id) /\ id \in utilises
            /\ messages[id].existe => messages[id].recepteurId = u
      BY <2>3 DEF NonLus
    <2> HIDE DEF w
    <2>5. Reguliere(u, w) /\ ~EstCreation(w)
      BY <2>3, <2>4 DEF Reguliere, EcritureLecture, EstCreation
    <2> QED
      BY <1>2, <2>2, <2>5, Envoi
  <1> QED
    BY <1>1, <1>2 DEF MarquerCommeLus

\* A delivered snapshot shows documents of the conversation only.
LEMMA LivrerInv ==
  ASSUME TypeOK, Inv, NEW u \in Utilisateurs, Livrer(u)
  PROVE  Inv'
  <1> DEFINE S == Instantane(u)
  <1>0. /\ page[u] \in Utilisateurs \ {u}
        /\ vue' = [vue EXCEPT ![u] = S]
        /\ MarquerCommeLus(u, S)
        /\ UNCHANGED <<messages, utilises, page, edition>>
    BY InterlocuteurAutre DEF Livrer, Inv, InvPage
  <1>1. ASSUME NEW id \in Ids, S[id].existe
        PROVE  S[id] = messages[id] /\ Affichable(u, page[u], messages[id])
    BY <1>1 DEF Instantane, Absent
  <1>2. \A id \in Ids : S[id].existe =>
           /\ SansCreation(id) /\ id \in utilises
           /\ messages[id].existe => messages[id].recepteurId = S[id].recepteurId
    BY <1>1 DEF Inv, InvMessages, Affichable
  <1> HIDE DEF S
  <1>3. /\ \A id \in Ids : SansCreation(id) => SansCreation(id)'
        /\ InvMessages' /\ InvEnVol' /\ InvUnique'
    BY <1>0, <1>2, MarquerInv
  <1>4. InvPage' /\ InvEdition'
    BY <1>0, <1>3 DEF Inv, InvPage, InvEdition, TypeOK
  <1>5. InvVue'
    <2> SUFFICES ASSUME NEW v \in Utilisateurs, NEW id \in Ids, vue'[v][id].existe
                 PROVE  CopieFidele(v, id)'
      BY DEF InvVue
    <2>1. CASE v = u
      <3>1. vue'[v][id] = S[id] /\ S[id] = messages[id] /\ Affichable(u, page[u], messages[id])
        BY <1>0, <1>1, <2>1 DEF TypeOK
      <3>2. messages[id].participants \subseteq {messages[id].emetteurId, messages[id].recepteurId}
        BY <3>1 DEF Inv, InvMessages, Affichable
      <3>3. {messages[id].emetteurId, messages[id].recepteurId} = {u, page[u]}
        BY <1>0, <3>1, <3>2 DEF Affichable
      <3>4. messages[id].participants = {u, page[u]}
        BY <3>1, <3>2, <3>3 DEF Affichable
      <3>5. SansCreation(id)' /\ id \in utilises'
        BY <1>0, <1>2, <1>3, <3>1 DEF Affichable
      <3>6. page'[v] # Aucun
        BY <1>0, <2>1 DEF Livrer
      <3> QED
        BY <1>0, <2>1, <3>1, <3>3, <3>4, <3>5, <3>6 DEF CopieFidele
    <2>2. CASE v # u
      <3>1. vue'[v][id] = vue[v][id] /\ page'[v] = page[v]
        BY <1>0, <2>2 DEF TypeOK
      <3>2. CopieFidele(v, id)
        BY <3>1 DEF Inv, InvVue
      <3>3. SansCreation(id)' /\ id \in utilises'
        BY <1>0, <1>3, <3>2 DEF CopieFidele
      <3>4. Decroit
        BY <1>0, DecroitInchange
      <3> QED
        BY <3>1, <3>2, <3>3, <3>4, CopieConservee
    <2> QED
      BY <2>1, <2>2
  <1> QED
    BY <1>3, <1>4, <1>5 DEF Inv

\* A rebuild marks the list that is displayed.
LEMMA ReconstruireInv ==
  ASSUME TypeOK, Inv, NEW u \in Utilisateurs, Reconstruire(u)
  PROVE  Inv'
  <1>1. \A id \in Ids : vue[u][id].existe =>
           /\ SansCreation(id) /\ id \in utilises
           /\ messages[id].existe => messages[id].recepteurId = vue[u][id].recepteurId
    BY DEF Inv, InvVue, CopieFidele
  <1>2. /\ \A id \in Ids : SansCreation(id) => SansCreation(id)'
        /\ InvMessages' /\ InvEnVol' /\ InvUnique'
    BY <1>1, MarquerInv DEF Reconstruire
  <1>3. InvPage' /\ InvVue' /\ InvEdition'
    BY <1>2, PagesInchangees, DecroitInchange DEF Reconstruire
  <1> QED
    BY <1>2, <1>3 DEF Inv

\* The new message takes an id nothing refers to.
LEMMA EnvoyerNouveauInv ==
  ASSUME TypeOK, Inv, NEW u \in Utilisateurs, EnvoyerNouveau(u)
  PROVE  Inv'
  <1>1. PICK id \in Ids \ utilises :
           /\ utilises' = utilises \cup {id}
           /\ Envoyee(u, Creation(id, NouveauMessage(u, page[u])))
    BY DEF EnvoyerNouveau
  <1> DEFINE w == Creation(id, NouveauMessage(u, page[u]))
  <1>2. page[u] \in Interlocuteurs(u) /\ page[u] \in Utilisateurs \ {u}
    BY InterlocuteurAutre DEF EnvoyerNouveau, Inv, InvPage
  <1>3. w \in Ecriture
    BY <1>2, NouveauType, CreationType
  <1>4. /\ w.ids = {id} /\ w.champs = Champs /\ ~w.exige
        /\ w.valeur = NouveauMessage(u, page[u]) /\ w.valeur.existe
    BY DEF Creation, NouveauMessage
  <1>5. Envoyee(u, w)
    BY <1>1
  <1> HIDE DEF w
  <1>6. UNCHANGED <<messages, page, vue, edition>>
    BY DEF EnvoyerNouveau
  <1>7. \A k \in Ids : k \in utilises /\ SansCreation(k) => SansCreation(k)'
    BY <1>3, <1>4, <1>5, EnvoiIndices DEF SansCreation
  <1>8. InvMessages'
    BY <1>1, <1>6, <1>7 DEF Inv, InvMessages
  <1>9. InvPage' /\ InvVue' /\ InvEdition'
    BY <1>1, <1>6, <1>7, PagesInchangees, DecroitInchange
  <1>10. InvEnVol'
    <2> SUFFICES ASSUME NEW v \in Utilisateurs, NEW i \in 1..Len(enVol'[v])
                 PROVE  Reguliere(v, enVol[v][i])'
      BY DEF InvEnVol
    <2>1. CASE v = u /\ enVol'[v][i] = w
      <3>1. ~messages'[id].existe
        BY <1>1, <1>6 DEF Inv, InvMessages
      <3> QED
        BY <1>1, <1>2, <1>4, <2>1, <3>1 DEF Reguliere, EcritureCreation, EstCreation
    <2>2. CASE i \in 1..Len(enVol[v]) /\ enVol'[v][i] = enVol[v][i]
      <3> DEFINE x == enVol[v][i]
      <3>1. x \in Ecriture /\ Reguliere(v, x)
        BY <2>2 DEF TypeOK, Inv, InvEnVol
      <3>2. enVol'[v][i] = x
        BY <2>2
      <3> HIDE DEF x
      <3>3. x.ids \subseteq Ids
        BY <3>1 DEF Ecriture
      <3> QED
        BY <1>1, <1>6, <1>7, <3>1, <3>2, <3>3 DEF Reguliere, EcritureCreation, EcritureLecture,
           EcritureContenu, EcritureParticipants, EcritureSuppression, EstCreation
    <2> QED
      BY <1>3, <1>5, <2>1, <2>2, EnvoiIndices
  <1>11. InvUnique'
    <2>1. \A v \in Utilisateurs : \A i \in 1..Len(enVol[v]) : enVol[v][i].ids # {id}
      BY <1>1 DEF Inv, InvEnVol, Reguliere
    <2> SUFFICES ASSUME NEW a \in Utilisateurs, NEW b \in Utilisateurs,
                        NEW i \in 1..Len(enVol'[a]), NEW j \in 1..Len(enVol'[b]),
                        EstCreation(enVol'[a][i]), EstCreation(enVol'[b][j]),
                        enVol'[a][i].ids = enVol'[b][j].ids
                 PROVE  a = b /\ i = j
      BY DEF InvUnique, EstCreation
    <2>2. \/ a = u /\ i = Len(enVol[u]) + 1 /\ enVol'[a][i] = w
          \/ i \in 1..Len(enVol[a]) /\ enVol'[a][i] = enVol[a][i]
      BY <1>3, <1>5, EnvoiIndices
    <2>3. \/ b = u /\ j = Len(enVol[u]) + 1 /\ enVol'[b][j] = w
          \/ j \in 1..Len(enVol[b]) /\ enVol'[b][j] = enVol[b][j]
      BY <1>3, <1>5, EnvoiIndices
    <2>4. CASE /\ i \in 1..Len(enVol[a]) /\ enVol'[a][i] = enVol[a][i]
               /\ j \in 1..Len(enVol[b]) /\ enVol'[b][j] = enVol[b][j]
      BY <2>4 DEF Inv, InvUnique
    <2>5. CASE a = u /\ i = Len(enVol[u]) + 1 /\ enVol'[a][i] = w
      BY <1>4, <2>1, <2>3, <2>5
    <2>6. CASE b = u /\ j = Len(enVol[u]) + 1 /\ enVol'[b][j] = w
      BY <1>4, <2>1, <2>2, <2>6
    <2> QED
      BY <2>2, <2>3, <2>4, <2>5, <2>6
  <1> QED
    BY <1>8, <1>9, <1>10, <1>11 DEF Inv

\* Any write other than a creation, sent by an action that leaves the rest alone.
LEMMA EnvoiSeulInv ==
  ASSUME TypeOK, Inv, NEW u \in Utilisateurs, NEW w \in Ecriture, Envoyee(u, w),
         Reguliere(u, w), ~EstCreation(w), UNCHANGED <<messages, utilises, page, vue, edition>>
  PROVE  Inv'
  <1>1. /\ \A id \in Ids : SansCreation(id) => SansCreation(id)'
        /\ InvMessages' /\ InvEnVol' /\ InvUnique'
    BY Envoi
  <1>2. InvPage' /\ InvVue' /\ InvEdition'
    BY <1>1, PagesInchangees, DecroitInchange
  <1> QED
    BY <1>1, <1>2 DEF Inv

\* An edition names a message that was displayed.
LEMMA EnvoyerEditionInv ==
  ASSUME TypeOK, Inv, NEW u \in Utilisateurs, EnvoyerEdition(u)
  PROVE  Inv'
  <1> DEFINE w == EcritureEdition(u, edition[u])
  <1>1. edition[u] \in Ids /\ SansCreation(edition[u]) /\ edition[u] \in utilises
    BY DEF EnvoyerEdition, TypeOK, Inv, InvEdition
  <1>2. w \in Ecriture
    BY <1>1, MiseAJourType, ValeurTypes DEF EcritureEdition, Champs
  <1>3. w.ids = {edition[u]} /\ w.champs = {"contenu"} /\ w.exige
        /\ ~w.valeur.existe /\ w.valeur.contenu = "modifie"
    BY DEF EcritureEdition, MiseAJour, Absent
  <1>4. Envoyee(u, w) /\ UNCHANGED <<messages, utilises, page, vue, edition>>
    BY DEF EnvoyerEdition
  <1> HIDE DEF w
  <1>5. Reguliere(u, w) /\ ~EstCreation(w)
    BY <1>1, <1>3 DEF Reguliere, EcritureContenu, EstCreation, Seule
  <1> QED
    BY <1>2, <1>4, <1>5, EnvoiSeulInv

\* "Modifier" is offered on one's own displayed messages only.
LEMMA ModifierInv ==
  ASSUME TypeOK, Inv, NEW u \in Utilisateurs, NEW id \in Ids, Modifier(u, id)
  PROVE  Inv'
  <1> USE DEF Modifier
  <1>1. \A k \in Ids : SansCreation(k)' = SansCreation(k)
    BY DEF SansCreation
  <1>2. InvMessages' /\ InvPage'
    BY <1>1 DEF Inv, InvMessages, InvPage
  <1>3. InvUnique'
    BY DEF Inv, InvUnique
  <1>4. InvEnVol'
    BY DEF Inv, InvEnVol, Reguliere, EcritureCreation, EcritureLecture, EcritureContenu,
       EcritureParticipants, EcritureSuppression, SansCreation
  <1>5. InvVue'
    BY <1>1 DEF Inv, InvVue, CopieFidele
  <1>6. InvEdition'
    <2>1. SansCreation(id) /\ id \in utilises
      BY DEF Affiche, Inv, InvVue, CopieFidele
    <2> QED
      BY <1>1, <2>1 DEF Inv, InvEdition, TypeOK
  <1> QED
    BY <1>2, <1>3, <1>4, <1>5, <1>6 DEF Inv

\* A displayed copy has both participants, so removing u leaves the other one.
LEMMA SupprimerPourMoiInv ==
  ASSUME TypeOK, Inv, NEW u \in Utilisateurs, NEW id \in Ids, SupprimerPourMoi(u, id)
  PROVE  Inv'
  <1> DEFINE p == vue[u][id].participants \ {u}
             w == MiseAJour({id}, "participants", [Absent EXCEPT !.participants = p])
  <1>1. CopieFidele(u, id) /\ page[u] \in Utilisateurs \ {u}
    BY InterlocuteurAutre DEF SupprimerPourMoi, Affiche, Inv, InvVue, InvPage
  <1>2. p = {page[u]}
    BY <1>1 DEF CopieFidele
  <1>3. Envoyee(u, w) /\ UNCHANGED <<messages, utilises, page, vue, edition>>
    BY <1>2 DEF SupprimerPourMoi
  <1>4. w \in Ecriture
    BY <1>1, <1>2, MiseAJourType, ValeurTypes DEF Champs
  <1>5. /\ w.ids = {id} /\ w.champs = {"participants"} /\ w.exige
        /\ ~w.valeur.existe /\ w.valeur.participants = {page[u]}
    BY <1>2 DEF MiseAJour, Absent
  <1> HIDE DEF w, p
  <1>6. Reguliere(u, w) /\ ~EstCreation(w)
    BY <1>1, <1>5 DEF Reguliere, EcritureParticipants, EstCreation, CopieFidele, Seule
  <1> QED
    BY <1>3, <1>4, <1>6, EnvoiSeulInv

\* Only the sender sends a delete().
LEMMA SupprimerPourTousInv ==
  ASSUME TypeOK, Inv, NEW u \in Utilisateurs, NEW id \in Ids, SupprimerPourTous(u, id)
  PROVE  Inv'
  <1> DEFINE w == Suppression(id)
  <1>1. CopieFidele(u, id) /\ vue[u][id].emetteurId = u
    BY DEF SupprimerPourTous, Affiche, Inv, InvVue
  <1>2. w \in Ecriture
    BY AbsentType, CreationType
  <1>3. /\ w.ids = {id} /\ w.champs = Champs /\ ~w.exige /\ w.valeur = Absent /\ ~w.valeur.existe
    BY DEF Suppression, Absent
  <1>4. Envoyee(u, w) /\ UNCHANGED <<messages, utilises, page, vue, edition>>
    BY DEF SupprimerPourTous
  <1> HIDE DEF w
  <1>5. Reguliere(u, w) /\ ~EstCreation(w)
    BY <1>1, <1>3 DEF Reguliere, EcritureSuppression, EstCreation, CopieFidele, Seule
  <1> QED
    BY <1>2, <1>4, <1>5, EnvoiSeulInv

\* Serving a write other than a creation adds nothing to the collection.
LEMMA EffetDecroit ==
  ASSUME TypeOK, Inv, NEW u \in Utilisateurs, NEW w \in Ecriture, Reguliere(u, w),
         ~EstCreation(w), Acceptee(w), Applique(w)
  PROVE  Decroit
  <1> SUFFICES ASSUME NEW id \in Ids, messages'[id].existe
               PROVE  /\ messages[id].existe
                      /\ messages'[id].emetteurId = messages[id].emetteurId
                      /\ messages'[id].recepteurId = messages[id].recepteurId
                      /\ messages'[id].participants \subseteq
                           {messages[id].emetteurId, messages[id].recepteurId}
    BY DEF Decroit
  <1>1. messages'[id] = IF id \in w.ids THEN Fusion(w, messages[id]) ELSE messages[id]
    BY DEF Applique
  <1>2. messages[id].existe =>
          messages[id].participants \subseteq {messages[id].emetteurId, messages[id].recepteurId}
    BY DEF Inv, InvMessages
  <1>3. CASE id \notin w.ids
    BY <1>1, <1>2, <1>3
  <1>4. CASE id \in w.ids /\ w.exige
    <2>1. messages[id].existe
      BY <1>4 DEF Acceptee
    <2>2. EcritureLecture(u, w) \/ EcritureContenu(w) \/ EcritureParticipants(w)
      BY <1>4 DEF Reguliere, EcritureCreation, EcritureSuppression
    <2>3. CASE EcritureLecture(u, w) \/ EcritureContenu(w)
      <3>1. w.champs = {"lu"} \/ w.champs = {"contenu"}
        BY <2>3 DEF EcritureLecture, EcritureContenu
      <3> QED
        BY <1>1, <1>2, <1>4, <2>1, <3>1 DEF Fusion
    <2>4. CASE EcritureParticipants(w)
      BY <1>1, <1>4, <2>1, <2>4 DEF Fusion, EcritureParticipants
    <2> QED
      BY <2>2, <2>3, <2>4
  <1>5. CASE id \in w.ids /\ ~w.exige
    <2>1. w.champs = Champs /\ w.valeur = Absent
      BY <1>5 DEF Reguliere, EcritureCreation, EcritureSuppression, EcritureLecture,
         EcritureContenu, EcritureParticipants
    <2>2. ~messages'[id].existe
      BY <1>1, <1>5, <2>1 DEF Fusion, Champs, Absent
    <2> QED
      BY <2>2
  <1> QED
    BY <1>3, <1>4, <1>5

\* Serving a creation writes one new document, as _envoyerMessage made it.
LEMMA EffetCreation ==
  ASSUME TypeOK, NEW u \in Utilisateurs, NEW w \in Ecriture, EcritureCreation(u, w), Applique(w)
  PROVE  \E id \in Ids, v \in Interlocuteurs(u) :
            /\ w.ids = {id}
            /\ ~messages[id].existe
            /\ messages'[id] = NouveauMessage(u, v)
            /\ \A k \in Ids \ {id} : messages'[k] = messages[k]
  <1>1. PICK id \in Ids : w.ids = {id} /\ ~messages[id].existe
    BY DEF EcritureCreation
  <1>2. PICK v \in Interlocuteurs(u) : w.valeur = NouveauMessage(u, v)
    BY DEF EcritureCreation
  <1>3. \A k \in Ids \ {id} : messages'[k] = messages[k]
    BY <1>1 DEF Applique
  <1>4. messages'[id] = Fusion(w, messages[id])
    BY <1>1 DEF Applique
  <1>5. messages'[id] = NouveauMessage(u, v)
    <2>1. w.champs = Champs
      BY DEF EcritureCreation
    <2> QED
      BY <1>2, <1>4, <2>1 DEF Fusion, Champs, NouveauMessage
  <1> QED
    BY <1>1, <1>3, <1>5

\* Every step of the server keeps the invariant.
LEMMA ServirInv ==
  ASSUME TypeOK, Inv, NEW u \in Utilisateurs, Servir(u)
  PROVE  Inv'
  <1> DEFINE w == enVol[u][1]
             d == [v \in Utilisateurs |-> IF v = u THEN 1 ELSE 0]
  <1>1. /\ enVol[u] # <<>> /\ enVol[u] \in Seq(Ecriture)
        /\ 1 \in 1..Len(enVol[u]) /\ w = Head(enVol[u]) /\ w \in Ecriture
    <2>1. enVol[u] # <<>> /\ enVol[u] \in Seq(Ecriture)
      BY DEF Servir, TypeOK
    <2>2. Len(enVol[u]) \in Nat /\ Len(enVol[u]) # 0
      BY <2>1
    <2> QED
      BY <2>1, <2>2
  <1>2. /\ enVol' = [enVol EXCEPT ![u] = Tail(@)]
        /\ UNCHANGED <<utilises, page, vue>>
        /\ \A x \in Utilisateurs : edition'[x] \in {edition[x], Aucun}
    BY DEF Servir, TypeOK
  <1>3. Reguliere(u, w)
    BY <1>1 DEF Inv, InvEnVol
  <1>0. ASSUME NEW a \in Utilisateurs, NEW i \in 1..Len(enVol'[a])
        PROVE  /\ i + d[a] \in 1..Len(enVol[a])
               /\ enVol'[a][i] = enVol[a][i + d[a]]
               /\ a = u => i + d[a] # 1
    <2>1. CASE a = u
      <3>1. d[a] = 1 /\ i \in Int /\ i >= 1
        BY <2>1
      <3>2. i + 1 \in 1..Len(enVol[a]) /\ enVol'[a][i] = enVol[a][i + 1]
        BY <1>1, <1>2, <2>1, ServiceIndices
      <3> QED
        BY <3>1, <3>2
    <2>2. CASE a # u
      <3>1. d[a] = 0 /\ i \in Int /\ i + d[a] = i
        BY <2>2
      <3>2. i \in 1..Len(enVol[a]) /\ enVol'[a][i] = enVol[a][i]
        BY <1>1, <1>2, <2>2, ServiceIndices
      <3> QED
        BY <2>2, <3>1, <3>2
    <2> QED
      BY <2>1, <2>2
  <1>4. Decale(d) /\ d \in [Utilisateurs -> Nat]
    <2>1. d \in [Utilisateurs -> Nat]
      OBVIOUS
    <2> HIDE DEF d
    <2> QED
      BY <1>0, <2>1 DEF Decale, MemeEcriture
  <1>5. \/ Acceptee(w) /\ Applique(w)
        \/ UNCHANGED messages
    BY <1>1 DEF Servir
  <1> HIDE DEF w, d
  <1>6. CASE Decroit
    <2>1. /\ \A id \in Ids : SansCreation(id) => SansCreation(id)'
          /\ InvMessages' /\ InvEnVol' /\ InvUnique'
      BY <1>2, <1>4, <1>6, Retrait
    <2>2. InvPage' /\ InvVue' /\ InvEdition'
      BY <1>2, <1>6, <2>1, PagesInchangees
    <2> QED
      BY <2>1, <2>2 DEF Inv
  <1>7. CASE EstCreation(w) /\ Applique(w)
    <2>0. EcritureCreation(u, w)
      BY <1>3, <1>7 DEF Reguliere, EcritureLecture, EcritureContenu, EcritureParticipants,
         EcritureSuppression
    <2>1. PICK id \in Ids, v \in Interlocuteurs(u) :
            /\ w.ids = {id}
            /\ ~messages[id].existe
            /\ messages'[id] = NouveauMessage(u, v)
            /\ \A k \in Ids \ {id} : messages'[k] = messages[k]
      BY <1>1, <1>7, <2>0, EffetCreation
    <2>2. ~SansCreation(id)
      BY <1>1, <1>7, <2>1 DEF SansCreation, w
    <2>3. ASSUME NEW a \in Utilisateurs, NEW i \in 1..Len(enVol'[a])
          PROVE  /\ i + d[a] \in 1..Len(enVol[a])
                 /\ enVol'[a][i] = enVol[a][i + d[a]]
                 /\ enVol[a][i + d[a]] \in Ecriture
                 /\ Reguliere(a, enVol[a][i + d[a]])
                 /\ EstCreation(enVol[a][i + d[a]]) => id \notin enVol[a][i + d[a]].ids
      <3> DEFINE j == i + d[a]
      <3>1. j \in 1..Len(enVol[a]) /\ enVol'[a][i] = enVol[a][j] /\ (a = u => j # 1)
        BY <1>0
      <3>2. Reguliere(a, enVol[a][j]) /\ enVol[a][j] \in Ecriture
        BY <3>1 DEF Inv, InvEnVol, TypeOK
      <3> HIDE DEF j
      <3>3. ASSUME EstCreation(enVol[a][j]), id \in enVol[a][j].ids PROVE FALSE
        <4>1. EcritureCreation(a, enVol[a][j])
          BY <3>2, <3>3 DEF Reguliere, EcritureLecture, EcritureContenu, EcritureParticipants,
             EcritureSuppression
        <4>2. enVol[a][j].ids = w.ids
          BY <2>1, <3>3, <4>1 DEF EcritureCreation
        <4> QED
          BY <1>1, <1>7, <3>1, <3>3, <4>2 DEF Inv, InvUnique, w
      <3> QED
        BY <3>1, <3>2, <3>3 DEF j
    <2>4. SansCreation(id)'
      BY <2>3 DEF SansCreation, EstCreation
    <2>5. \A k \in Ids : SansCreation(k) => SansCreation(k)'
      BY <2>3 DEF SansCreation, EstCreation
    <2>6. id \in utilises
      BY <1>3, <2>1 DEF Reguliere
    <2>7. InvMessages'
      <3>1. {u, v} = messages'[id].participants /\ messages'[id].emetteurId = u /\ messages'[id].recepteurId = v
        BY <2>1 DEF NouveauMessage
      <3> SUFFICES ASSUME NEW k \in Ids, messages'[k].existe
                   PROVE  /\ SansCreation(k)'
                          /\ k \in utilises'
                          /\ messages'[k].participants \subseteq {messages'[k].emetteurId, messages'[k].recepteurId}
        BY DEF InvMessages
      <3>2. CASE k = id
        BY <1>2, <2>4, <2>6, <3>1, <3>2
      <3>3. CASE k # id
        BY <1>2, <2>1, <2>5, <3>3 DEF Inv, InvMessages
      <3> QED
        BY <3>2, <3>3
    <2>8. InvEnVol'
      <3> SUFFICES ASSUME NEW a \in Utilisateurs, NEW i \in 1..Len(enVol'[a])
                   PROVE  Reguliere(a, enVol[a][i])'
        BY DEF InvEnVol
      <3> DEFINE x == enVol[a][i + d[a]]
      <3>1. enVol'[a][i] = x /\ x \in Ecriture /\ Reguliere(a, x) /\ (EstCreation(x) => id \notin x.ids)
        BY <2>3
      <3> HIDE DEF x
      <3>2. x.ids \subseteq Ids
        BY <3>1 DEF Ecriture
      <3>3. CASE EcritureCreation(a, x)
        BY <1>2, <2>1, <3>1, <3>3 DEF Reguliere, EcritureCreation, EstCreation
      <3>4. CASE /\ \A k \in x.ids : SansCreation(k)
                 /\ EcritureLecture(a, x) \/ EcritureContenu(x) \/ EcritureParticipants(x) \/ EcritureSuppression(a, x)
        <4>1. \A k \in x.ids : messages'[k] = messages[k] /\ SansCreation(k)'
          BY <2>1, <2>2, <2>5, <3>2, <3>4
        <4> QED
          BY <1>2, <3>1, <3>4, <4>1 DEF Reguliere, EcritureLecture, EcritureContenu,
             EcritureParticipants, EcritureSuppression, EstCreation
      <3> QED
        BY <3>1, <3>3, <3>4 DEF Reguliere
    <2>9. InvUnique'
      BY <1>4, UniqueDecale
    <2>10. InvPage'
      BY <1>2 DEF Inv, InvPage
    <2>11. InvVue'
      <3> SUFFICES ASSUME NEW a \in Utilisateurs, NEW k \in Ids, vue'[a][k].existe
                   PROVE  CopieFidele(a, k)'
        BY DEF InvVue
      <3>1. CopieFidele(a, k)
        BY <1>2 DEF Inv, InvVue
      <3>2. SansCreation(k) /\ k # id
        BY <2>2, <3>1 DEF CopieFidele
      <3>3. messages'[k] = messages[k] /\ SansCreation(k)'
        BY <2>1, <2>5, <3>2
      <3> QED
        BY <1>2, <3>1, <3>3 DEF CopieFidele
    <2>12. InvEdition'
      BY <1>2, <2>5 DEF Inv, InvEdition, TypeOK
    <2> QED
      BY <2>7, <2>8, <2>9, <2>10, <2>11, <2>12 DEF Inv
  <1>8. CASE ~EstCreation(w) /\ Acceptee(w) /\ Applique(w)
    BY <1>1, <1>3, <1>6, <1>8, EffetDecroit
  <1>9. CASE UNCHANGED messages
    BY <1>6, <1>9, DecroitInchange
  <1> QED
    BY <1>5, <1>7, <1>8, <1>9

(***************************************************************************)
(* A page that goes, with or without its pending writes: they stay at      *)
(* their place, or are lost, and nothing is displayed any more.            *)
(***************************************************************************)
LEMMA DepartInv ==
  ASSUME TypeOK, Inv, NEW u \in Utilisateurs,
         UNCHANGED <<messages, utilises>>,
         page' = [page EXCEPT ![u] = Aucun],
         vue' = [vue EXCEPT ![u] = Vide],
         edition' = [edition EXCEPT ![u] = Aucun],
         \A v \in Utilisateurs : \A i \in 1..Len(enVol'[v]) :
            i \in 1..Len(enVol[v]) /\ MemeEcriture(enVol'[v][i], enVol[v][i])
  PROVE  Inv'
  <1> DEFINE d == [v \in Utilisateurs |-> 0]
  <1>1. d \in [Utilisateurs -> Nat] /\ \A v \in Utilisateurs : d[v] = 0
    OBVIOUS
  <1> HIDE DEF d
  <1>2. Decale(d)
    <2> SUFFICES ASSUME NEW v \in Utilisateurs, NEW i \in 1..Len(enVol'[v])
                 PROVE  /\ i + d[v] \in 1..Len(enVol[v])
                        /\ MemeEcriture(enVol'[v][i], enVol[v][i + d[v]])
      BY DEF Decale
    <2>1. i + d[v] = i
      BY <1>1
    <2> QED
      BY <2>1
  <1>3. Decroit
    BY DecroitInchange
  <1>4. /\ \A id \in Ids : SansCreation(id) => SansCreation(id)'
        /\ InvMessages' /\ InvEnVol' /\ InvUnique'
    BY <1>1, <1>2, <1>3, Retrait
  <1>5. InvPage'
    BY DEF Inv, InvPage, TypeOK
  <1>6. InvEdition'
    BY <1>4 DEF Inv, InvEdition, TypeOK
  <1>7. InvVue'
    <2> SUFFICES ASSUME NEW v \in Utilisateurs, NEW id \in Ids, vue'[v][id].existe
                 PROVE  CopieFidele(v, id)'
      BY DEF InvVue
    <2>1. v # u
      BY DEF TypeOK, Vide, Absent
    <2>2. vue'[v][id] = vue[v][id] /\ page'[v] = page[v]
      BY <2>1 DEF TypeOK
    <2>3. CopieFidele(v, id)
      BY <2>2 DEF Inv, InvVue
    <2>4. SansCreation(id)' /\ id \in utilises'
      BY <1>4, <2>3 DEF CopieFidele
    <2> QED
      BY <1>3, <2>2, <2>3, <2>4, CopieConservee
  <1> QED
    BY <1>4, <1>5, <1>6, <1>7 DEF Inv

\* Closing a page leaves its writes where they are, unanswered.
LEMMA FermerEcritures ==
  ASSUME TypeOK, NEW u \in Utilisateurs, Fermer(u),
         NEW v \in Utilisateurs, NEW i \in 1..Len(enVol'[v])
  PROVE  i \in 1..Len(enVol[v]) /\ MemeEcriture(enVol'[v][i], enVol[v][i])
  <1> DEFINE q == [k \in DOMAIN enVol[u] |-> [enVol[u][k] EXCEPT !.suite = FALSE]]
  <1>1. enVol' = [enVol EXCEPT ![u] = q]
    BY DEF Fermer
  <1>2. enVol[u] \in Seq(Ecriture) /\ Len(enVol[u]) \in Nat /\ DOMAIN enVol[u] = 1..Len(enVol[u])
    BY DEF TypeOK
  <1>3. CASE v # u
    <2>1. enVol'[v] = enVol[v]
      BY <1>1, <1>3 DEF TypeOK
    <2> QED
      BY <2>1 DEF MemeEcriture
  <1>4. CASE v = u
    <2>1. enVol'[v] = q /\ DOMAIN q = 1..Len(enVol[u])
      BY <1>1, <1>2, <1>4 DEF TypeOK
    <2>2. Len(q) = Len(enVol[u])
      BY <1>2, <2>1
    <2>3. i \in 1..Len(enVol[u]) /\ enVol'[v][i] = q[i]
      BY <2>1, <2>2
    <2>4. q[i] = [enVol[u][i] EXCEPT !.suite = FALSE]
      BY <1>2, <2>3
    <2>5. enVol[u][i] \in Ecriture
      BY <1>2, <2>3
    <2>6. MemeEcriture(q[i], enVol[u][i])
      BY <2>4, <2>5 DEF MemeEcriture, Ecriture
    <2> QED
      BY <1>4, <2>3, <2>6
  <1> QED
    BY <1>3, <1>4

\* A killed process loses its pending writes, and no other does.
LEMMA TuerEcritures ==
  ASSUME TypeOK, NEW u \in Utilisateurs, Tuer(u),
         NEW v \in Utilisateurs, NEW i \in 1..Len(enVol'[v])
  PROVE  i \in 1..Len(enVol[v]) /\ MemeEcriture(enVol'[v][i], enVol[v][i])
  <1>1. v # u
    BY DEF Tuer, TypeOK
  <1>2. enVol'[v] = enVol[v]
    BY <1>1 DEF Tuer, TypeOK
  <1> QED
    BY <1>2 DEF MemeEcriture

LEMMA FermerInv ==
  ASSUME TypeOK, Inv, NEW u \in Utilisateurs, Fermer(u)
  PROVE  Inv'
  BY FermerEcritures, DepartInv DEF Fermer

LEMMA TuerInv ==
  ASSUME TypeOK, Inv, NEW u \in Utilisateurs, Tuer(u)
  PROVE  Inv'
  BY TuerEcritures, DepartInv DEF Tuer

\* Stuttering.
LEMMA RepetitionInv ==
  ASSUME Inv, UNCHANGED vars
  PROVE  Inv'
  <1> USE DEF vars
  <1>1. \A k \in Ids : SansCreation(k)' = SansCreation(k)
    BY DEF SansCreation
  <1>2. InvMessages' /\ InvPage'
    BY <1>1 DEF Inv, InvMessages, InvPage
  <1>3. InvUnique'
    BY DEF Inv, InvUnique
  <1>4. InvEnVol'
    BY DEF Inv, InvEnVol, Reguliere, EcritureCreation, EcritureLecture, EcritureContenu,
       EcritureParticipants, EcritureSuppression, SansCreation
  <1>5. InvVue'
    BY DEF Inv, InvVue, CopieFidele, SansCreation
  <1>6. InvEdition'
    BY DEF Inv, InvEdition, SansCreation
  <1> QED
    BY <1>2, <1>3, <1>4, <1>5, <1>6 DEF Inv

(***************************************************************************)
(* Inv is inductive: whatever the pages, the listeners, the server and the *)
(* crashes do.                                                             *)
(***************************************************************************)
THEOREM Inductif == Spec => []Inv
<1>1. TypeOK /\ Inv /\ [Next]_vars => Inv'
  BY OuvrirInv, LivrerInv, ReconstruireInv, EnvoyerNouveauInv, EnvoyerEditionInv, ModifierInv,
     SupprimerPourMoiInv, SupprimerPourTousInv, ServirInv, FermerInv, TuerInv, RepetitionInv
     DEF Next
<1> QED
  BY <1>1, InitInv, TypeCorrect, PTL DEF Spec

(***************************************************************************)
(* A page never displays a message of another conversation, although the   *)
(* query of getMessagesStream looks at participants only and the pages     *)
(* rewrite participants from stale copies.                                 *)
(***************************************************************************)
THEOREM ConfidentialiteTenue == Spec => []Confidentialite
<1>1. Inv => Confidentialite
  BY DEF Inv, InvVue, CopieFidele, Confidentialite, Affiche
<1> QED
  BY <1>1, Inductif, PTL

-----------------------------------------------------------------------------
(***************************************************************************)
(* Action properties. Only the server changes the collection, by a regular *)
(* write of some user.                                                     *)
(***************************************************************************)
LEMMA PasMessages ==
  ASSUME TypeOK, Inv, [Next]_vars
  PROVE  \/ UNCHANGED messages
         \/ \E u \in Utilisateurs, w \in Ecriture :
              /\ enVol[u] # <<>>
              /\ enVol'[u] = Tail(enVol[u])
              /\ w = Head(enVol[u])
              /\ Reguliere(u, w)
              /\ Acceptee(w)
              /\ Applique(w)
  <1>1. ASSUME NEW u \in Utilisateurs, Servir(u)
        PROVE  \/ UNCHANGED messages
               \/ \E w \in Ecriture :
                    /\ enVol[u] # <<>>
                    /\ enVol'[u] = Tail(enVol[u])
                    /\ w = Head(enVol[u])
                    /\ Reguliere(u, w)
                    /\ Acceptee(w)
                    /\ Applique(w)
    <2>1. enVol[u] # <<>> /\ enVol[u] \in Seq(Ecriture)
      BY <1>1 DEF Servir, TypeOK
    <2>2. Len(enVol[u]) \in Nat /\ Len(enVol[u]) # 0
      BY <2>1
    <2>3. Head(enVol[u]) = enVol[u][1] /\ 1 \in 1..Len(enVol[u]) /\ Head(enVol[u]) \in Ecriture
      BY <2>1, <2>2
    <2>4. Reguliere(u, Head(enVol[u]))
      BY <2>3 DEF Inv, InvEnVol
    <2>5. enVol'[u] = Tail(enVol[u])
      BY <1>1 DEF Servir, TypeOK
    <2> QED
      BY <1>1, <2>1, <2>3, <2>4, <2>5 DEF Servir
  <1>2. (\A u \in Utilisateurs : ~Servir(u)) => UNCHANGED messages
    BY DEF Next, vars, Ouvrir, Livrer, Reconstruire, EnvoyerNouveau, EnvoyerEdition, Modifier,
       SupprimerPourMoi, SupprimerPourTous, Fermer, Tuer
  <1> QED
    BY <1>1, <1>2

\* What a served write other than a creation does to one existing document.
LEMMA EffetDocument ==
  ASSUME TypeOK, NEW u \in Utilisateurs, NEW w \in Ecriture, Reguliere(u, w), ~EstCreation(w),
         Applique(w), NEW id \in Ids, messages[id].existe
  PROVE  IF id \in w.ids /\ EcritureSuppression(u, w)
           THEN ~messages'[id].existe /\ messages[id].emetteurId = u
           ELSE messages'[id].existe /\ (messages[id].lu => messages'[id].lu)
  <1>1. messages'[id] = IF id \in w.ids THEN Fusion(w, messages[id]) ELSE messages[id]
    BY DEF Applique
  <1>2. CASE id \notin w.ids
    BY <1>1, <1>2
  <1>3. CASE id \in w.ids /\ EcritureSuppression(u, w)
    BY <1>1, <1>3 DEF EcritureSuppression, Fusion, Champs, Absent
  <1>4. CASE id \in w.ids /\ EcritureLecture(u, w)
    BY <1>1, <1>4 DEF EcritureLecture, EcritureSuppression, Fusion
  <1>5. CASE id \in w.ids /\ EcritureContenu(w)
    BY <1>1, <1>5 DEF EcritureContenu, EcritureSuppression, Fusion
  <1>6. CASE id \in w.ids /\ EcritureParticipants(w)
    BY <1>1, <1>6 DEF EcritureParticipants, EcritureSuppression, Fusion
  <1> QED
    BY <1>2, <1>3, <1>4, <1>5, <1>6 DEF Reguliere, EcritureCreation

\* Read is for good and a deletion comes from the sender, in one step.
LEMMA PasExistant ==
  ASSUME TypeOK, Inv, [Next]_vars, NEW id \in Ids, messages[id].existe
  PROVE  \/ messages'[id].existe /\ (messages[id].lu => messages'[id].lu)
         \/ /\ ~messages'[id].existe
            /\ \E u \in Utilisateurs :
                 /\ u = messages[id].emetteurId
                 /\ enVol[u] # <<>>
                 /\ enVol'[u] = Tail(enVol[u])
  <1>1. CASE UNCHANGED messages
    BY <1>1
  <1>2. ASSUME NEW u \in Utilisateurs, NEW w \in Ecriture,
               enVol[u] # <<>>, enVol'[u] = Tail(enVol[u]),
               Reguliere(u, w), Acceptee(w), Applique(w)
        PROVE  \/ messages'[id].existe /\ (messages[id].lu => messages'[id].lu)
               \/ ~messages'[id].existe /\ u = messages[id].emetteurId
    <2>1. CASE EstCreation(w)
      <3>1. EcritureCreation(u, w)
        BY <1>2, <2>1 DEF Reguliere, EcritureLecture, EcritureContenu, EcritureParticipants,
           EcritureSuppression
      <3> QED
        BY <1>2, <3>1, EffetCreation
    <2>2. CASE ~EstCreation(w)
      BY <1>2, <2>2, EffetDocument
    <2> QED
      BY <2>1, <2>2
  <1> QED
    BY <1>1, <1>2, PasMessages

(***************************************************************************)
(* A message leaves the collection only by a write of its sender.          *)
(***************************************************************************)
THEOREM SuppressionTenue == Spec => SuppressionParEmetteur
<1>1. TypeOK /\ Inv /\ [Next]_vars =>
        [\A id \in Ids :
           messages[id].existe /\ ~messages'[id].existe
              => \E u \in Utilisateurs :
                   /\ u = messages[id].emetteurId
                   /\ enVol[u] # <<>>
                   /\ enVol'[u] = Tail(enVol[u])]_vars
  BY PasExistant
<1> QED
  BY <1>1, Inductif, TypeCorrect, PTL DEF Spec, SuppressionParEmetteur

(***************************************************************************)
(* No late write of any page turns a read message back to unread.          *)
(***************************************************************************)
THEOREM LuMonotoneTenue == Spec => LuMonotone
<1>1. TypeOK /\ Inv /\ [Next]_vars =>
        [\A id \in Ids :
           messages[id].existe /\ messages'[id].existe /\ messages[id].lu => messages'[id].lu]_vars
  BY PasExistant
<1> QED
  BY <1>1, Inductif, TypeCorrect, PTL DEF Spec, LuMonotone

\* A document that appears is a new message, by its sender's oldest write.
NaitDUnEnvoi ==
    \A id \in Ids :
        ~messages[id].existe /\ messages'[id].existe
            => \E u, v \in Utilisateurs : /\ enVol[u] # <<>>
                                         /\ messages'[id] = NouveauMessage(u, v)
                                         /\ Head(enVol[u]).ids = {id}
                                         /\ enVol'[u] = Tail(enVol[u])

PasDeResurrection == [][NaitDUnEnvoi]_vars

(***************************************************************************)
(* A document appears only by the set() of a new message: late editions,   *)
(* batches and removals never bring a deleted one back.                    *)
(***************************************************************************)
THEOREM PasDeResurrectionTenue == Spec => PasDeResurrection
<1>1. TypeOK /\ Inv /\ [Next]_vars => NaitDUnEnvoi
  <2> SUFFICES ASSUME TypeOK, Inv, [Next]_vars,
                      NEW id \in Ids, ~messages[id].existe, messages'[id].existe
               PROVE  \E u, v \in Utilisateurs :
                        /\ enVol[u] # <<>>
                        /\ messages'[id] = NouveauMessage(u, v)
                        /\ Head(enVol[u]).ids = {id}
                        /\ enVol'[u] = Tail(enVol[u])
    BY DEF NaitDUnEnvoi
  <2>1. PICK u \in Utilisateurs, w \in Ecriture :
           /\ enVol[u] # <<>>
           /\ enVol'[u] = Tail(enVol[u])
           /\ w = Head(enVol[u])
           /\ Reguliere(u, w)
           /\ Acceptee(w)
           /\ Applique(w)
    BY PasMessages
  <2>2. EstCreation(w)
    BY <2>1, EffetDecroit DEF Decroit
  <2>3. EcritureCreation(u, w)
    BY <2>1, <2>2 DEF Reguliere, EcritureLecture, EcritureContenu, EcritureParticipants,
       EcritureSuppression
  <2>4. PICK k \in Ids, v \in Interlocuteurs(u) :
           /\ w.ids = {k}
           /\ messages'[k] = NouveauMessage(u, v)
           /\ \A j \in Ids \ {k} : messages'[j] = messages[j]
    BY <2>1, <2>3, EffetCreation
  <2>5. k = id
    BY <2>4
  <2> QED
    BY <2>1, <2>4, <2>5, InterlocuteurAutre
<1> QED
  BY <1>1, Inductif, TypeCorrect, PTL DEF Spec, PasDeResurrection

-----------------------------------------------------------------------------
(***************************************************************************)
(* The collection implements Courrier. Every step but those of the server  *)
(* loses some of the creations on their way, or none; the server's steps   *)
(* are those of Courrier one by one.                                       *)
(***************************************************************************)
LEMMA LettreEtape ==
  ASSUME NEW id \in Ids
  PROVE  /\ Lettre(id) = Boite!AVenir <=>
              ~messages[id].existe /\ ~(id \in utilises /\ SansCreation(id))
         /\ Lettre(id) = Boite!Fini <=>
              ~messages[id].existe /\ id \in utilises /\ SansCreation(id)
         /\ Lettre(id).etape \in {"visible", "masque"} <=> messages[id].existe
  BY DEF Lettre, Etape, Boite!AVenir, Boite!Fini

\* The letter of a document that exists.
LEMMA LettreEcrite ==
  ASSUME NEW id \in Ids, messages[id].existe
  PROVE  Lettre(id) =
           [etape |-> Etape(messages[id]),
            de |-> messages[id].emetteurId, a |-> messages[id].recepteurId,
            lu |-> messages[id].lu, contenu |-> messages[id].contenu]
  BY DEF Lettre

LEMMA LettreModifiee ==
  ASSUME NEW e, NEW d, NEW r, NEW l, NEW c, NEW v,
         NEW x, x = [etape |-> e, de |-> d, a |-> r, lu |-> l, contenu |-> c]
  PROVE  /\ [x EXCEPT !.lu = v] = [etape |-> e, de |-> d, a |-> r, lu |-> v, contenu |-> c]
         /\ [x EXCEPT !.contenu = v] = [etape |-> e, de |-> d, a |-> r, lu |-> l, contenu |-> v]
         /\ [x EXCEPT !.etape = v] = [etape |-> v, de |-> d, a |-> r, lu |-> l, contenu |-> c]
  OBVIOUS

LEMMA LettreInchangee ==
  ASSUME NEW id \in Ids, messages'[id] = messages[id], utilises' = utilises,
         SansCreation(id)' <=> SansCreation(id)
  PROVE  Lettre(id)' = Lettre(id)
  BY DEF Lettre

LEMMA BoiteInit == Init => Boite!InitCourrier
  <1> SUFFICES ASSUME Init
               PROVE  \A id \in Ids : Lettre(id) = Boite!AVenir
    BY DEF Boite!InitCourrier
  <1> QED
    BY DEF Init, Vide, Absent, Lettre, Boite!AVenir

\* A step that changes no document loses messages on their way.
LEMMA PasDePerte ==
  ASSUME UNCHANGED messages, utilises \subseteq utilises',
         \A id \in Ids : id \in utilises /\ SansCreation(id) => SansCreation(id)'
  PROVE  Boite!NextCourrier
  <1> DEFINE S == {id \in Ids : Lettre(id) = Boite!AVenir /\ Lettre(id)' = Boite!Fini}
  <1>1. \A id \in Ids : Lettre(id)' = IF id \in S THEN Boite!Fini ELSE Lettre(id)
    BY DEF Lettre, Boite!AVenir, Boite!Fini
  <1>2. \A id \in S : Lettre(id) = Boite!AVenir
    OBVIOUS
  <1>3. S \in SUBSET Ids
    OBVIOUS
  <1> HIDE DEF S
  <1>4. Boite!Perdre(S)
    BY <1>1, <1>2, <1>3 DEF Boite!Perdre
  <1> QED
    BY <1>3, <1>4 DEF Boite!NextCourrier

\* The steps of the pages: they send writes, of which one may be a creation
\* under a new id, keep them or lose them.
LEMMA PasDesPages ==
  ASSUME TypeOK, Inv, NEW u \in Utilisateurs,
         \/ \E v \in Interlocuteurs(u) : Ouvrir(u, v)
         \/ Livrer(u) \/ Reconstruire(u) \/ EnvoyerNouveau(u) \/ EnvoyerEdition(u)
         \/ \E id \in Ids : Modifier(u, id) \/ SupprimerPourMoi(u, id) \/ SupprimerPourTous(u, id)
         \/ Fermer(u) \/ Tuer(u)
  PROVE  Boite!NextCourrier
  <1>e. ASSUME NEW w \in Ecriture, Envoyee(u, w),
               EstCreation(w) => w.ids \cap utilises = {}
        PROVE  \A id \in Ids : id \in utilises /\ SansCreation(id) => SansCreation(id)'
    BY <1>e, EnvoiIndices DEF SansCreation
  <1>m. ASSUME NEW S \in SUBSET Ids, NEW c \in Champs, NEW m \in MessageModele, ~m.existe
        PROVE  MiseAJour(S, c, m) \in Ecriture /\ ~EstCreation(MiseAJour(S, c, m))
    BY <1>m, MiseAJourType DEF MiseAJour, EstCreation
  <1>v. ~[Absent EXCEPT !.lu = TRUE].existe /\ ~[Absent EXCEPT !.contenu = "modifie"].existe
    BY DEF Absent
  <1>1. CASE UNCHANGED <<messages, utilises, enVol>>
    BY <1>1, PasDePerte DEF SansCreation
  <1>2. ASSUME NEW liste, MarquerCommeLus(u, liste), UNCHANGED <<messages, utilises>>
        PROVE  Boite!NextCourrier
    <2> DEFINE w == MiseAJour(NonLus(u, liste), "lu", [Absent EXCEPT !.lu = TRUE])
    <2>1. w \in Ecriture /\ ~EstCreation(w)
      BY <1>m, <1>v, ValeurTypes DEF NonLus, Champs
    <2>2. UNCHANGED enVol \/ Envoyee(u, w)
      BY <1>2 DEF MarquerCommeLus
    <2> HIDE DEF w
    <2> QED
      BY <1>1, <1>2, <1>e, <2>1, <2>2, PasDePerte
  <1>3. CASE EnvoyerNouveau(u)
    <2>1. PICK id \in Ids \ utilises :
             /\ utilises' = utilises \cup {id}
             /\ Envoyee(u, Creation(id, NouveauMessage(u, page[u])))
      BY <1>3 DEF EnvoyerNouveau
    <2> DEFINE w == Creation(id, NouveauMessage(u, page[u]))
    <2>2. w \in Ecriture /\ w.ids = {id}
      BY <1>3, InterlocuteurAutre, NouveauType, CreationType
      DEF EnvoyerNouveau, Inv, InvPage, Creation
    <2> HIDE DEF w
    <2> QED
      BY <1>3, <1>e, <2>1, <2>2, PasDePerte DEF EnvoyerNouveau, w
  <1>4. CASE EnvoyerEdition(u)
    <2> DEFINE w == EcritureEdition(u, edition[u])
    <2>1. w \in Ecriture /\ ~EstCreation(w)
      BY <1>4, <1>m, <1>v, ValeurTypes DEF EnvoyerEdition, EcritureEdition, Champs, TypeOK
    <2> HIDE DEF w
    <2> QED
      BY <1>4, <1>e, <2>1, PasDePerte DEF EnvoyerEdition, w
  <1>5. ASSUME NEW id \in Ids, SupprimerPourMoi(u, id)
        PROVE  Boite!NextCourrier
    <2> DEFINE p == vue[u][id].participants \ {u}
               w == IF p = {} THEN Suppression(id)
                              ELSE MiseAJour({id}, "participants", [Absent EXCEPT !.participants = p])
    <2>1. p \in SUBSET Utilisateurs
      BY DEF TypeOK, MessageModele
    <2>2. Suppression(id) \in Ecriture /\ ~EstCreation(Suppression(id))
      BY AbsentType, CreationType DEF Suppression, EstCreation, Absent
    <2>3. [Absent EXCEPT !.participants = p] \in MessageModele
          /\ ~[Absent EXCEPT !.participants = p].existe
      BY <2>1, AbsentType DEF Absent, MessageModele
    <2>4. w \in Ecriture /\ ~EstCreation(w)
      BY <1>m, <2>2, <2>3 DEF Champs
    <2>5. Envoyee(u, w) /\ UNCHANGED <<messages, utilises>>
      BY <1>5 DEF SupprimerPourMoi
    <2> HIDE DEF w
    <2> QED
      BY <1>e, <2>4, <2>5, PasDePerte
  <1>6. ASSUME NEW id \in Ids, SupprimerPourTous(u, id)
        PROVE  Boite!NextCourrier
    <2>1. Suppression(id) \in Ecriture /\ ~EstCreation(Suppression(id))
      BY AbsentType, CreationType DEF Suppression, EstCreation, Absent
    <2> QED
      BY <1>6, <1>e, <2>1, PasDePerte DEF SupprimerPourTous
  <1>7. CASE Fermer(u)
    <2>1. \A id \in Ids : SansCreation(id) => SansCreation(id)'
      BY <1>7, FermerEcritures DEF SansCreation, MemeEcriture, EstCreation
    <2> QED
      BY <1>7, <2>1, PasDePerte DEF Fermer
  <1>8. CASE Tuer(u)
    <2>1. \A id \in Ids : SansCreation(id) => SansCreation(id)'
      BY <1>8, TuerEcritures DEF SansCreation, MemeEcriture, EstCreation
    <2> QED
      BY <1>8, <2>1, PasDePerte DEF Tuer
  <1> QED
    BY <1>1, <1>2, <1>3, <1>4, <1>5, <1>6, <1>7, <1>8
    DEF Ouvrir, Livrer, Reconstruire, Modifier

\* A served write takes with it the creations it makes, and no other.
LEMMA ServirSansCreation ==
  ASSUME TypeOK, NEW u \in Utilisateurs, Servir(u), NEW id \in Ids,
         EstCreation(Head(enVol[u])) => id \notin Head(enVol[u]).ids
  PROVE  SansCreation(id)' <=> SansCreation(id)
  <1>1. /\ enVol[u] # <<>> /\ enVol[u] \in Seq(Ecriture)
        /\ enVol' = [enVol EXCEPT ![u] = Tail(@)]
    BY DEF Servir, TypeOK
  <1>2. SansCreation(id) => SansCreation(id)'
    <2> SUFFICES ASSUME SansCreation(id), NEW v \in Utilisateurs, NEW i \in 1..Len(enVol'[v]),
                        EstCreation(enVol'[v][i])
                 PROVE  id \notin enVol'[v][i].ids
      BY DEF SansCreation, EstCreation
    <2>1. \E j \in 1..Len(enVol[v]) : enVol'[v][i] = enVol[v][j]
      BY <1>1, ServiceIndices
    <2> QED
      BY <2>1 DEF SansCreation, EstCreation
  <1>3. SansCreation(id)' => SansCreation(id)
    <2> SUFFICES ASSUME SansCreation(id)', NEW v \in Utilisateurs, NEW i \in 1..Len(enVol[v]),
                        EstCreation(enVol[v][i])
                 PROVE  id \notin enVol[v][i].ids
      BY DEF SansCreation, EstCreation
    <2>1. CASE v # u
      <3>1. enVol'[v] = enVol[v]
        BY <1>1, <2>1 DEF TypeOK
      <3> QED
        BY <3>1 DEF SansCreation, EstCreation
    <2>2. CASE v = u /\ i = 1
      BY <1>1, <2>2
    <2>3. CASE v = u /\ i # 1
      <3>1. enVol'[u] = Tail(enVol[u])
        BY <1>1 DEF TypeOK
      <3>2. /\ Len(Tail(enVol[u])) = Len(enVol[u]) - 1
            /\ \A k \in 1..Len(Tail(enVol[u])) : Tail(enVol[u])[k] = enVol[u][k + 1]
        BY <1>1, HeadTailProperties
      <3>3. i - 1 \in 1..Len(Tail(enVol[u])) /\ i - 1 + 1 = i
        BY <1>1, <2>3, <3>2
      <3>4. i - 1 \in 1..Len(enVol'[u]) /\ enVol'[u][i - 1] = enVol[u][i]
        BY <3>1, <3>2, <3>3
      <3> QED
        BY <2>3, <3>4 DEF SansCreation, EstCreation
    <2> QED
      BY <2>1, <2>2, <2>3
  <1> QED
    BY <1>2, <1>3

\* What a served creation makes of the letters.
LEMMA ServirCreationBoite ==
  ASSUME TypeOK, Inv, NEW u \in Utilisateurs, Servir(u), NEW w \in Ecriture,
         w = Head(enVol[u]), EcritureCreation(u, w), Applique(w)
  PROVE  Boite!NextCourrier
  <1>1. PICK id \in Ids, v \in Interlocuteurs(u) :
           /\ w.ids = {id}
           /\ ~messages[id].existe
           /\ messages'[id] = NouveauMessage(u, v)
           /\ \A k \in Ids \ {id} : messages'[k] = messages[k]
    BY EffetCreation
  <1>2. utilises' = utilises
    BY DEF Servir
  <1>3. \A k \in Ids \ {id} : Lettre(k)' = Lettre(k)
    BY <1>1, <1>2, ServirSansCreation, LettreInchangee
  <1>4. Lettre(id) = Boite!AVenir
    <2>1. enVol[u] \in Seq(Ecriture) /\ enVol[u] # <<>>
      BY DEF TypeOK, Servir
    <2>2. 1 \in 1..Len(enVol[u]) /\ w = enVol[u][1]
      BY <2>1
    <2>3. ~SansCreation(id)
      BY <1>1, <2>2 DEF SansCreation, EcritureCreation
    <2> QED
      BY <1>1, <2>3, LettreEtape
  <1>5. Lettre(id)' = Boite!Lettre(u, v)
    BY <1>1 DEF Lettre, Etape, NouveauMessage, Boite!Lettre
  <1>6. <<u, v>> \in Boite!Correspondances
    BY DEF Boite!Correspondances, Interlocuteurs, Utilisateurs
  <1>7. Boite!Arriver(id)
    BY <1>3, <1>4, <1>5, <1>6 DEF Boite!Arriver
  <1> QED
    BY <1>7 DEF Boite!NextCourrier

\* What any other served write makes of one letter.
LEMMA ServirLettre ==
  ASSUME TypeOK, Inv, NEW u \in Utilisateurs, NEW w \in Ecriture, Reguliere(u, w), ~EstCreation(w),
         Acceptee(w), Applique(w), utilises' = utilises,
         NEW id \in Ids, id \in w.ids, SansCreation(id)' <=> SansCreation(id)
  PROVE  /\ EcritureLecture(u, w) =>
              /\ messages[id].existe /\ Lettre(id).a = u
              /\ Lettre(id)' = [Lettre(id) EXCEPT !.lu = TRUE]
         /\ EcritureContenu(w) =>
              /\ messages[id].existe
              /\ Lettre(id)' = [Lettre(id) EXCEPT !.contenu = "modifie"]
         /\ EcritureParticipants(w) =>
              /\ messages[id].existe
              /\ Lettre(id)' = [Lettre(id) EXCEPT !.etape = "masque"]
         /\ EcritureSuppression(u, w) =>
              /\ Lettre(id)' = Boite!Fini
              /\ messages[id].existe \/ Lettre(id) = Boite!Fini
  <1>1. messages'[id] = Fusion(w, messages[id])
    BY DEF Applique
  <1>2. CASE EcritureLecture(u, w)
    <2>1. messages[id].existe /\ messages[id].recepteurId = u
      BY <1>2 DEF EcritureLecture, Acceptee
    <2>2. Lettre(id)' = [Lettre(id) EXCEPT !.lu = TRUE]
      <3>1. /\ messages'[id].existe /\ messages'[id].emetteurId = messages[id].emetteurId
            /\ messages'[id].recepteurId = messages[id].recepteurId
            /\ messages'[id].participants = messages[id].participants /\ messages'[id].contenu = messages[id].contenu
            /\ messages'[id].lu = TRUE
        BY <1>1, <1>2, <2>1 DEF EcritureLecture, Fusion
      <3>2. Lettre(id)' =
              [etape |-> Etape(messages'[id]),
               de |-> messages'[id].emetteurId, a |-> messages'[id].recepteurId,
               lu |-> messages'[id].lu, contenu |-> messages'[id].contenu]
        BY <3>1 DEF Lettre
      <3> DEFINE e == Etape(messages[id])
                 m == messages[id]
                 vrai == TRUE
      <3>3. Lettre(id) =
              [etape |-> e, de |-> m.emetteurId, a |-> m.recepteurId, lu |-> m.lu, contenu |-> m.contenu]
        BY <2>1, LettreEcrite
      <3>4. Lettre(id)' =
              [etape |-> e, de |-> m.emetteurId, a |-> m.recepteurId, lu |-> vrai, contenu |-> m.contenu]
        BY <3>1, <3>2 DEF Etape
      <3> HIDE DEF e, m, vrai
      <3>5. Lettre(id)' = [Lettre(id) EXCEPT !.lu = vrai]
        BY <3>3, <3>4, LettreModifiee
      <3> QED
        BY <3>5 DEF vrai
    <2> QED
      BY <1>2, <2>1, <2>2 DEF Lettre, EcritureLecture, EcritureContenu, EcritureParticipants,
         EcritureSuppression
  <1>3. CASE EcritureContenu(w)
    <2>1. messages[id].existe
      BY <1>3 DEF EcritureContenu, Acceptee
    <2>2. Lettre(id)' = [Lettre(id) EXCEPT !.contenu = "modifie"]
      <3>1. /\ messages'[id].existe /\ messages'[id].emetteurId = messages[id].emetteurId
            /\ messages'[id].recepteurId = messages[id].recepteurId
            /\ messages'[id].participants = messages[id].participants /\ messages'[id].lu = messages[id].lu
            /\ messages'[id].contenu = "modifie"
        BY <1>1, <1>3, <2>1 DEF EcritureContenu, Fusion
      <3>2. Lettre(id)' =
              [etape |-> Etape(messages'[id]),
               de |-> messages'[id].emetteurId, a |-> messages'[id].recepteurId,
               lu |-> messages'[id].lu, contenu |-> messages'[id].contenu]
        BY <3>1 DEF Lettre
      <3> QED
        BY <2>1, <3>1, <3>2, LettreEcrite, LettreModifiee DEF Etape
    <2> QED
      BY <1>3, <2>1, <2>2 DEF EcritureLecture, EcritureContenu, EcritureParticipants,
         EcritureSuppression
  <1>4. CASE EcritureParticipants(w)
    <2>1. messages[id].existe
      BY <1>4 DEF EcritureParticipants, Acceptee
    <2>2. Lettre(id)' = [Lettre(id) EXCEPT !.etape = "masque"]
      <3>1. /\ messages'[id].existe /\ messages'[id].emetteurId = messages[id].emetteurId
            /\ messages'[id].recepteurId = messages[id].recepteurId
            /\ messages'[id].lu = messages[id].lu /\ messages'[id].contenu = messages[id].contenu
            /\ messages'[id].participants # {messages[id].emetteurId, messages[id].recepteurId}
        BY <1>1, <1>4, <2>1 DEF EcritureParticipants, Fusion
      <3>2. Lettre(id)' =
              [etape |-> Etape(messages'[id]),
               de |-> messages'[id].emetteurId, a |-> messages'[id].recepteurId,
               lu |-> messages'[id].lu, contenu |-> messages'[id].contenu]
        BY <3>1 DEF Lettre
      <3> QED
        BY <2>1, <3>1, <3>2, LettreEcrite, LettreModifiee DEF Etape
    <2> QED
      BY <1>4, <2>1, <2>2 DEF EcritureLecture, EcritureContenu, EcritureParticipants,
         EcritureSuppression
  <1>5. CASE EcritureSuppression(u, w)
    <2>1. ~messages'[id].existe
      BY <1>1, <1>5 DEF EcritureSuppression, Fusion, Champs, Absent
    <2>2. id \in utilises /\ SansCreation(id)
      BY DEF Reguliere, EcritureCreation
    <2>3. Lettre(id)' = Boite!Fini
      BY <2>1, <2>2 DEF Lettre, Boite!Fini
    <2> QED
      BY <1>5, <2>2, <2>3, LettreEtape DEF EcritureLecture, EcritureContenu, EcritureParticipants,
         EcritureSuppression
  <1> QED
    BY <1>2, <1>3, <1>4, <1>5

\* Every step of the server is one of Courrier, or changes no letter.
LEMMA ServirBoite ==
  ASSUME TypeOK, Inv, NEW u \in Utilisateurs, Servir(u)
  PROVE  Boite!NextCourrier \/ \A id \in Ids : Lettre(id)' = Lettre(id)
  <1> DEFINE w == Head(enVol[u])
  <1>1. w \in Ecriture /\ Reguliere(u, w)
    <2>1. enVol[u] \in Seq(Ecriture) /\ enVol[u] # <<>>
      BY DEF TypeOK, Servir
    <2>2. 1 \in 1..Len(enVol[u]) /\ w = enVol[u][1]
      BY <2>1
    <2> QED
      BY <2>1, <2>2 DEF Inv, InvEnVol
  <1>2. utilises' = utilises
    BY DEF Servir
  <1>3. \/ Acceptee(w) /\ Applique(w)
        \/ ~Acceptee(w) /\ UNCHANGED messages
    BY DEF Servir
  <1>4. ~EstCreation(w) => \A id \in Ids : SansCreation(id)' <=> SansCreation(id)
    BY ServirSansCreation
  <1>5. CASE ~Acceptee(w)
    <2>1. ~EstCreation(w)
      BY <1>1, <1>5 DEF Acceptee, Reguliere, EcritureCreation, EcritureLecture, EcritureContenu,
         EcritureParticipants, EcritureSuppression
    <2> QED
      BY <1>2, <1>3, <1>4, <1>5, <2>1, LettreInchangee
  <1>6. CASE Acceptee(w) /\ EstCreation(w)
    <2>1. EcritureCreation(u, w)
      BY <1>1, <1>6 DEF Reguliere, EcritureLecture, EcritureContenu, EcritureParticipants,
         EcritureSuppression
    <2> QED
      BY <1>1, <1>3, <1>6, <2>1, ServirCreationBoite
  <1>7. CASE Acceptee(w) /\ ~EstCreation(w)
    <2>1. Applique(w) /\ w.ids \subseteq Ids
      BY <1>1, <1>3, <1>7 DEF Ecriture
    <2>2. \A id \in Ids : id \notin w.ids => Lettre(id)' = Lettre(id)
      BY <1>2, <1>4, <1>7, <2>1, LettreInchangee DEF Applique
    <2> HIDE DEF w
    <2>3. CASE EcritureLecture(u, w)
      <3>1. \A id \in w.ids : /\ messages[id].existe /\ Lettre(id).a = u
                              /\ Lettre(id)' = [Lettre(id) EXCEPT !.lu = TRUE]
        BY <1>1, <1>2, <1>4, <1>7, <2>1, <2>3, ServirLettre
      <3>2. \A id \in w.ids : id \in Boite!Presents
        BY <2>1, <3>1, LettreEtape DEF Boite!Presents
      <3>3. Boite!Lire(u, w.ids)
        BY <2>1, <2>2, <3>1, <3>2 DEF Boite!Lire
      <3> QED
        BY <2>1, <3>3 DEF Boite!NextCourrier, Utilisateurs
    <2>4. CASE EcritureContenu(w) \/ EcritureParticipants(w) \/ EcritureSuppression(u, w)
      <3>1. PICK id \in Ids : w.ids = {id}
        BY <2>4 DEF EcritureContenu, EcritureParticipants, EcritureSuppression, Seule
      <3>2. \A k \in Ids \ {id} : Lettre(k)' = Lettre(k)
        BY <2>2, <3>1
      <3>3. messages[id].existe => id \in Boite!Presents
        BY LettreEtape DEF Boite!Presents
      <3>4. CASE EcritureContenu(w)
        <4>1. messages[id].existe /\ Lettre(id)' = [Lettre(id) EXCEPT !.contenu = "modifie"]
          BY <1>1, <1>2, <1>4, <1>7, <2>1, <3>1, <3>4, ServirLettre
        <4>2. Boite!Modifier(id)
          BY <3>2, <3>3, <4>1 DEF Boite!Modifier
        <4> QED
          BY <4>2 DEF Boite!NextCourrier
      <3>5. CASE EcritureParticipants(w)
        <4>1. messages[id].existe /\ Lettre(id)' = [Lettre(id) EXCEPT !.etape = "masque"]
          BY <1>1, <1>2, <1>4, <1>7, <2>1, <3>1, <3>5, ServirLettre
        <4>2. Boite!Masquer(id)
          BY <3>2, <3>3, <4>1 DEF Boite!Masquer
        <4> QED
          BY <4>2 DEF Boite!NextCourrier
      <3>6. CASE EcritureSuppression(u, w)
        <4>1. Lettre(id)' = Boite!Fini /\ (messages[id].existe \/ Lettre(id) = Boite!Fini)
          BY <1>1, <1>2, <1>4, <1>7, <2>1, <3>1, <3>6, ServirLettre
        <4>2. CASE messages[id].existe
          <5>1. Boite!Supprimer(id)
            BY <3>2, <3>3, <4>1, <4>2 DEF Boite!Supprimer
          <5> QED
            BY <5>1 DEF Boite!NextCourrier
        <4>3. CASE Lettre(id) = Boite!Fini
          BY <3>2, <4>1, <4>3
        <4> QED
          BY <4>1, <4>2, <4>3
      <3> QED
        BY <2>4, <3>4, <3>5, <3>6
    <2> QED
      BY <1>1, <1>7, <2>3, <2>4 DEF Reguliere, EcritureCreation
  <1> QED
    BY <1>5, <1>6, <1>7

(***************************************************************************)
(* A message appears once, is read by its recipient for good, leaves the   *)
(* conversation of both sides for good when one of them deletes it for     *)
(* himself, and is over once it is deleted: whatever copies the pages held *)
(* when they built the writes that the server meets.                       *)
(***************************************************************************)
THEOREM VieDesMessagesTenue == Spec => VieDesMessages
  <1>1. TypeOK /\ Inv /\ [Next]_vars =>
          Boite!NextCourrier \/ UNCHANGED [id \in Ids |-> Lettre(id)]
    <2> SUFFICES ASSUME TypeOK, Inv, [Next]_vars
                 PROVE  Boite!NextCourrier \/ UNCHANGED [id \in Ids |-> Lettre(id)]
      OBVIOUS
    <2>1. CASE UNCHANGED vars
      <3>1. \A id \in Ids : Lettre(id)' = Lettre(id)
        BY <2>1 DEF vars, Lettre, SansCreation
      <3> QED
        BY <3>1
    <2>2. ASSUME NEW u \in Utilisateurs, Servir(u)
          PROVE  Boite!NextCourrier \/ UNCHANGED [id \in Ids |-> Lettre(id)]
      BY <2>2, ServirBoite
    <2> QED
      BY <2>1, <2>2, PasDesPages DEF Next
  <1> QED
    BY <1>1, BoiteInit, Inductif, TypeCorrect, PTL
    DEF Spec, VieDesMessages, Boite!SpecCourrier
=============================================================================
