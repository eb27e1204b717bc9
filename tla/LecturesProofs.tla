--------------------------- MODULE LecturesProofs ---------------------------
(***************************************************************************)
(* Proofs about Lectures, for any readers, any documents and any number of *)
(* updates in flight.                                                      *)
(***************************************************************************)
EXTENDS Lectures, SequenceTheorems, TLAPS

\* The updates that TypeOK allows while the documents P are published.
Mises(P) == [doc : P, effet : {"union", "remplacer"}, qui : SUBSET Lecteurs]

\* What the lists display has been published.
Paru == \A u \in Lecteurs, d \in Documents : affiche[u][d] # Aucun => d \in publies

\* An update of u carries his name and those of readers, and adds to the
\* readers of an announcement without replacing them.
Honnete(u, e) ==
    /\ \A w \in e.qui : w = u \/ e.doc \in servis[w]
    /\ e.doc \in Annonces => e.effet = "union"
    /\ e.effet = "union" => e.qui = {u}

\* What is stored, displayed and under way only names readers.
Inv ==
    /\ LecteursReels
    /\ \A v \in Lecteurs, d \in Documents : affiche[v][d] # Aucun =>
          \A u \in affiche[v][d] : d \in servis[u]
    /\ \A v \in Lecteurs : \A i \in 1..Len(enVol[v]) : Honnete(v, enVol[v][i])

TypeOKFort == TypeOK /\ Paru

-----------------------------------------------------------------------------
(***************************************************************************)
(* Type correctness.                                                       *)
(***************************************************************************)
LEMMA TypeInit == Init => TypeOKFort
  BY DEF Init, TypeOKFort, TypeOK, Paru, RienAffiche

\* A list that is read again shows published documents and sets of users.
LEMMA RelireTypee ==
  ASSUME TypeOKFort, NEW u \in Lecteurs, NEW D,
         affiche' = [affiche EXCEPT ![u] = Relire(u, D)],
         UNCHANGED <<publies, lu, enVol, servis, nonLus>>
  PROVE  TypeOKFort'
  <1>1. Relire(u, D) \in [Documents -> {Aucun} \cup SUBSET Lecteurs]
    BY DEF TypeOKFort, TypeOK, Relire
  <1>2. TypeOK'
    BY <1>1 DEF TypeOKFort, TypeOK
  <1>3. Paru'
    BY DEF TypeOKFort, TypeOK, Paru, Relire
  <1> QED
    BY <1>2, <1>3 DEF TypeOKFort

\* An update is sent about a document on display.
LEMMA EnvoyerTypee ==
  ASSUME TypeOKFort, NEW u \in Lecteurs, NEW d \in Documents, Proposable(u, d),
         NEW effet \in {"union", "remplacer"}, NEW qui \in SUBSET Lecteurs,
         Envoyer(u, d, effet, qui)
  PROVE  TypeOKFort'
  <1> DEFINE e == [doc |-> d, effet |-> effet, qui |-> qui]
  <1>1. e \in Mises(publies)
    BY DEF TypeOKFort, Paru, Proposable, Mises
  <1>2. enVol[u] \in Seq(Mises(publies))
    BY DEF TypeOKFort, TypeOK, Mises
  <1>3. Append(enVol[u], e) \in Seq(Mises(publies))
    BY <1>1, <1>2, AppendProperties
  <1>4. enVol' = [enVol EXCEPT ![u] = Append(enVol[u], e)]
    BY DEF Envoyer
  <1> HIDE DEF e
  <1>5. enVol' \in [Lecteurs -> Seq(Mises(publies))]
    BY <1>3, <1>4 DEF TypeOKFort, TypeOK, Mises
  <1>6. UNCHANGED <<publies, lu, affiche, servis, nonLus>>
    BY DEF Envoyer
  <1> QED
    BY <1>5, <1>6 DEF TypeOKFort, TypeOK, Paru, Mises

LEMMA TypePas == TypeOKFort /\ [Next]_vars => TypeOKFort'
  <1> SUFFICES ASSUME TypeOKFort, [Next]_vars
               PROVE  TypeOKFort'
    OBVIOUS
  <1>1. ASSUME NEW d \in Documents, Publier(d)
        PROVE  TypeOKFort'
    <2>1. Mises(publies) \subseteq Mises(publies')
      BY <1>1 DEF Publier, Mises
    <2>2. \A u \in Lecteurs : enVol[u] \in Seq(Mises(publies'))
      <3>1. ASSUME NEW u \in Lecteurs
            PROVE  enVol[u] \in Seq(Mises(publies))
        BY DEF TypeOKFort, TypeOK, Mises
      <3> QED
        BY <2>1, <3>1, SeqMonotonic
    <2>3. enVol' \in [Lecteurs -> Seq(Mises(publies'))]
      BY <1>1, <2>2 DEF Publier, TypeOKFort, TypeOK
    <2>4. /\ publies' \subseteq Documents /\ publies \subseteq publies'
          /\ UNCHANGED <<lu, affiche, servis, nonLus>>
      BY <1>1 DEF Publier, TypeOKFort, TypeOK
    <2> QED
      BY <2>3, <2>4 DEF TypeOKFort, TypeOK, Paru, Mises
  <1>2. ASSUME NEW u \in Lecteurs, AfficherDevoirs(u) \/ ChargerAnnonces(u)
        PROVE  TypeOKFort'
    BY <1>2, RelireTypee DEF AfficherDevoirs, ChargerAnnonces
  <1>3. ASSUME NEW u \in Lecteurs, NEW d \in Devoirs, OuvrirDevoir(u, d)
        PROVE  TypeOKFort'
    <2>1. d \in Documents /\ affiche[u][d] \cup {u} \in SUBSET Lecteurs
      BY <1>3 DEF OuvrirDevoir, Proposable, TypeOKFort, TypeOK, Documents
    <2> QED
      BY <1>3, <2>1, EnvoyerTypee DEF OuvrirDevoir
  <1>4. ASSUME NEW u \in Lecteurs, NEW a \in Annonces, MarquerAnnonce(u, a)
        PROVE  TypeOKFort'
    BY <1>4, EnvoyerTypee DEF MarquerAnnonce, Documents
  <1>5. ASSUME NEW u \in Lecteurs, Servir(u)
        PROVE  TypeOKFort'
    <2> DEFINE e == Head(enVol[u])
    <2>1. enVol[u] \in Seq(Mises(publies)) /\ enVol[u] # <<>>
      BY <1>5 DEF Servir, TypeOKFort, TypeOK, Mises
    <2>2. e \in Mises(publies) /\ Tail(enVol[u]) \in Seq(Mises(publies))
      BY <2>1, HeadTailProperties
    <2>3. e.doc \in publies /\ e.doc \in Documents /\ e.qui \in SUBSET Lecteurs
      BY <2>2 DEF Mises, TypeOKFort, TypeOK
    <2>4. enVol' \in [Lecteurs -> Seq(Mises(publies))]
      BY <1>5, <2>2 DEF Servir, TypeOKFort, TypeOK, Mises
    <2>5. lu' \in [Documents -> SUBSET Lecteurs]
      BY <1>5, <2>3 DEF Servir, TypeOKFort, TypeOK
    <2>6. servis' \in [Lecteurs -> SUBSET publies]
      BY <1>5, <2>3 DEF Servir, TypeOKFort, TypeOK
    <2> DEFINE vue == [d \in Documents |-> IF d = e.doc /\ d \in Annonces /\ affiche[u][d] # Aucun
                                             THEN affiche[u][d] \cup {u} ELSE affiche[u][d]]
    <2>7. affiche' = [affiche EXCEPT ![u] = vue] /\ UNCHANGED <<publies, nonLus>>
      BY <1>5 DEF Servir
    <2>8. vue \in [Documents -> {Aucun} \cup SUBSET Lecteurs]
      BY DEF TypeOKFort, TypeOK
    <2>9. \A d \in Documents : vue[d] # Aucun => affiche[u][d] # Aucun
      OBVIOUS
    <2> HIDE DEF vue
    <2>10. affiche' \in [Lecteurs -> [Documents -> {Aucun} \cup SUBSET Lecteurs]]
      BY <2>7, <2>8 DEF TypeOKFort, TypeOK
    <2>11. Paru'
      BY <2>7, <2>9 DEF TypeOKFort, TypeOK, Paru
    <2> QED
      BY <2>4, <2>5, <2>6, <2>7, <2>10, <2>11 DEF TypeOKFort, TypeOK, Mises
  <1>6. ASSUME NEW u \in Lecteurs, Relancer(u)
        PROVE  TypeOKFort'
    <2>1. enVol' \in [Lecteurs -> Seq(Mises(publies))]
      <3>1. <<>> \in Seq(Mises(publies))
        BY EmptySeq
      <3>2. enVol \in [Lecteurs -> Seq(Mises(publies))] /\ enVol' = [enVol EXCEPT ![u] = <<>>]
        BY <1>6 DEF Relancer, TypeOKFort, TypeOK, Mises
      <3> QED
        BY <3>1, <3>2
    <2>2. /\ affiche' \in [Lecteurs -> [Documents -> {Aucun} \cup SUBSET Lecteurs]]
          /\ nonLus' \in [Lecteurs -> SUBSET publies]
      BY <1>6 DEF Relancer, RienAffiche, TypeOKFort, TypeOK
    <2>3. Paru' /\ UNCHANGED <<publies, lu, servis>>
      BY <1>6 DEF Relancer, RienAffiche, TypeOKFort, TypeOK, Paru
    <2> QED
      BY <2>1, <2>2, <2>3 DEF TypeOKFort, TypeOK, Mises
  <1>7. ASSUME NEW u \in Lecteurs, Compter(u)
        PROVE  TypeOKFort'
    BY <1>7 DEF Compter, TypeOKFort, TypeOK, Paru
  <1>8. CASE UNCHANGED vars
    BY <1>8 DEF vars, TypeOKFort, TypeOK, Paru
  <1> QED
    BY <1>1, <1>2, <1>3, <1>4, <1>5, <1>6, <1>7, <1>8 DEF Next

LEMMA TypeFort == Spec => []TypeOKFort
  BY TypeInit, TypePas, PTL DEF Spec

(***************************************************************************)
(* The documents, the lists and the updates in flight keep their types,    *)
(* and an update is always about a document that is published.             *)
(***************************************************************************)
THEOREM TypeCorrect == Spec => []TypeOK
  <1>1. TypeOKFort => TypeOK
    BY DEF TypeOKFort
  <1> QED
    BY <1>1, TypeFort, PTL

-----------------------------------------------------------------------------
(***************************************************************************)
(* Nobody is stored as a reader who has not read.                          *)
(***************************************************************************)
\* The first update of a queue and those that follow are honest.
LEMMA InvSiListesRelues ==
  ASSUME TypeOKFort, Inv, NEW u \in Lecteurs, NEW D,
         affiche' = [affiche EXCEPT ![u] = Relire(u, D)],
         UNCHANGED <<lu, enVol, servis>>
  PROVE  Inv'
  <1>1. \A d \in Documents : Relire(u, D)[d] # Aucun =>
            \A w \in Relire(u, D)[d] : d \in servis[w]
    BY DEF Inv, LecteursReels, Relire, TypeOKFort, TypeOK
  <1>2. \A v \in Lecteurs, d \in Documents : affiche'[v][d] # Aucun =>
            \A w \in affiche'[v][d] : d \in servis[w]
    BY <1>1 DEF Inv, TypeOKFort, TypeOK
  <1> QED
    BY <1>2 DEF Inv, LecteursReels, Honnete

\* An honest update may be sent.
LEMMA InvSiEnvoi ==
  ASSUME TypeOKFort, Inv, NEW u \in Lecteurs, NEW d \in Documents, Proposable(u, d),
         NEW effet \in {"union", "remplacer"}, NEW qui \in SUBSET Lecteurs,
         Envoyer(u, d, effet, qui),
         Honnete(u, [doc |-> d, effet |-> effet, qui |-> qui])
  PROVE  Inv'
  <1> DEFINE e == [doc |-> d, effet |-> effet, qui |-> qui]
  <1>1. e \in Mises(publies) /\ enVol[u] \in Seq(Mises(publies))
    BY DEF TypeOKFort, TypeOK, Paru, Proposable, Mises
  <1>2. Honnete(u, e)
    OBVIOUS
  <1>3. enVol' = [enVol EXCEPT ![u] = Append(enVol[u], e)] /\ UNCHANGED <<lu, affiche, servis>>
    BY DEF Envoyer
  <1> HIDE DEF e
  <1>4. \A i \in 1..Len(Append(enVol[u], e)) : Honnete(u, Append(enVol[u], e)[i])
    <2> SUFFICES ASSUME NEW i \in 1..Len(Append(enVol[u], e))
                 PROVE  Honnete(u, Append(enVol[u], e)[i])
      OBVIOUS
    <2>1. /\ Len(Append(enVol[u], e)) = Len(enVol[u]) + 1 /\ Len(enVol[u]) \in Nat
          /\ i \in 1..Len(enVol[u]) => Append(enVol[u], e)[i] = enVol[u][i]
          /\ Append(enVol[u], e)[Len(enVol[u]) + 1] = e
      BY <1>1, AppendProperties, LenProperties
    <2>2. i \in 1..Len(enVol[u]) \/ i = Len(enVol[u]) + 1
      BY <2>1
    <2> QED
      BY <1>2, <2>1, <2>2 DEF Inv
  <1>5. \A v \in Lecteurs : \A i \in 1..Len(enVol'[v]) : Honnete(v, enVol'[v][i])
    BY <1>3, <1>4 DEF Inv, TypeOKFort, TypeOK
  <1> QED
    BY <1>3, <1>5 DEF Inv, LecteursReels, Honnete

LEMMA InvInit == Init => Inv
  BY DEF Init, Inv, LecteursReels, RienAffiche

\* What is served and what stays in the queue.
LEMMA ServirTete ==
  ASSUME TypeOKFort, Inv, NEW u \in Lecteurs, Servir(u)
  PROVE  LET e == Head(enVol[u]) IN
         /\ e \in Mises(publies) /\ Honnete(u, e)
         /\ \A i \in 1..Len(Tail(enVol[u])) : Honnete(u, Tail(enVol[u])[i])
  <1>1. enVol[u] \in Seq(Mises(publies)) /\ enVol[u] # <<>>
    BY DEF Servir, TypeOKFort, TypeOK, Mises
  <1>2. Len(enVol[u]) \in Nat /\ Len(enVol[u]) # 0
    BY <1>1, EmptySeq, LenProperties
  <1>3. /\ Head(enVol[u]) \in Mises(publies) /\ Head(enVol[u]) = enVol[u][1]
        /\ Len(Tail(enVol[u])) = Len(enVol[u]) - 1
        /\ \A i \in 1..Len(Tail(enVol[u])) : Tail(enVol[u])[i] = enVol[u][i + 1]
    BY <1>1, HeadTailProperties
  <1>4. 1 \in 1..Len(enVol[u])
        /\ \A i \in 1..Len(Tail(enVol[u])) : i + 1 \in 1..Len(enVol[u])
    BY <1>2, <1>3
  <1> QED
    BY <1>3, <1>4 DEF Inv

LEMMA InvPas == TypeOKFort /\ Inv /\ [Next]_vars => Inv'
  <1> SUFFICES ASSUME TypeOKFort, Inv, [Next]_vars
               PROVE  Inv'
    OBVIOUS
  <1>1. ASSUME NEW d \in Documents, Publier(d)
        PROVE  Inv'
    BY <1>1 DEF Publier, Inv, LecteursReels, Honnete
  <1>2. ASSUME NEW u \in Lecteurs, AfficherDevoirs(u) \/ ChargerAnnonces(u)
        PROVE  Inv'
    BY <1>2, InvSiListesRelues DEF AfficherDevoirs, ChargerAnnonces
  <1>3. ASSUME NEW u \in Lecteurs, NEW d \in Devoirs, OuvrirDevoir(u, d)
        PROVE  Inv'
    <2> DEFINE qui == affiche[u][d] \cup {u}
    <2>1. d \in Documents /\ qui \in SUBSET Lecteurs /\ Proposable(u, d)
      BY <1>3 DEF OuvrirDevoir, Proposable, TypeOKFort, TypeOK, Documents
    <2>2. \A w \in qui : w = u \/ d \in servis[w]
      BY <2>1 DEF Inv, Proposable
    <2>3. d \notin Annonces
      BY LecturesHypotheses
    <2>4. Envoyer(u, d, "remplacer", qui)
      BY <1>3 DEF OuvrirDevoir
    <2> HIDE DEF qui
    <2>5. Honnete(u, [doc |-> d, effet |-> "remplacer", qui |-> qui])
      BY <2>2, <2>3 DEF Honnete
    <2> QED
      BY <2>1, <2>4, <2>5, InvSiEnvoi
  <1>4. ASSUME NEW u \in Lecteurs, NEW a \in Annonces, MarquerAnnonce(u, a)
        PROVE  Inv'
    <2>1. Honnete(u, [doc |-> a, effet |-> "union", qui |-> {u}])
      BY DEF Honnete
    <2> QED
      BY <1>4, <2>1, InvSiEnvoi DEF MarquerAnnonce, Documents
  <1>5. ASSUME NEW u \in Lecteurs, Servir(u)
        PROVE  Inv'
    <2> DEFINE e == Head(enVol[u])
    <2>1. /\ e \in Mises(publies) /\ Honnete(u, e)
          /\ \A i \in 1..Len(Tail(enVol[u])) : Honnete(u, Tail(enVol[u])[i])
      BY <1>5, ServirTete
    <2>2. /\ enVol' = [enVol EXCEPT ![u] = Tail(enVol[u])]
          /\ lu' = [lu EXCEPT ![e.doc] = IF e.effet = "union" THEN lu[e.doc] \cup e.qui ELSE e.qui]
          /\ affiche' = [affiche EXCEPT ![u] = [d \in Documents |->
                IF d = e.doc /\ d \in Annonces /\ affiche[u][d] # Aucun
                  THEN affiche[u][d] \cup {u} ELSE affiche[u][d]]]
          /\ servis' = [servis EXCEPT ![u] = servis[u] \cup {e.doc}]
      BY <1>5 DEF Servir
    <2> HIDE DEF e
    <2>3. e.doc \in Documents /\ e.doc \in servis'[u] /\ \A w \in Lecteurs : servis[w] \subseteq servis'[w]
      BY <2>1, <2>2 DEF Mises, TypeOKFort, TypeOK
    <2>4. LecteursReels'
      BY <2>1, <2>2, <2>3 DEF Inv, LecteursReels, Honnete, TypeOKFort, TypeOK, Mises
    <2>5. \A v \in Lecteurs, d \in Documents : affiche'[v][d] # Aucun =>
            \A w \in affiche'[v][d] : d \in servis'[w]
      <3> SUFFICES ASSUME NEW v \in Lecteurs, NEW d \in Documents, affiche'[v][d] # Aucun,
                          NEW w \in affiche'[v][d]
                   PROVE  d \in servis'[w]
        OBVIOUS
      <3>1. CASE affiche'[v][d] = affiche[v][d]
        BY <3>1, <2>3 DEF Inv, TypeOKFort, TypeOK
      <3>2. CASE affiche'[v][d] # affiche[v][d]
        <4>1. v = u /\ d = e.doc /\ affiche[u][d] # Aucun /\ affiche'[u][d] = affiche[u][d] \cup {u}
          BY <2>2, <3>2 DEF TypeOKFort, TypeOK
        <4> QED
          BY <2>3, <4>1 DEF Inv, TypeOKFort, TypeOK
      <3> QED
        BY <3>1, <3>2
    <2>6. \A v \in Lecteurs : \A i \in 1..Len(enVol'[v]) : Honnete(v, enVol'[v][i])
      BY <2>1, <2>2 DEF Inv, TypeOKFort, TypeOK
    <2>7. ASSUME NEW v \in Lecteurs, NEW i \in 1..Len(enVol'[v])
          PROVE  Honnete(v, enVol[v][i])'
      <3>1. TypeOKFort'
        BY TypePas
      <3>2. enVol'[v] \in Seq(Mises(publies'))
        BY <3>1 DEF TypeOKFort, TypeOK, Mises
      <3>3. enVol'[v][i].qui \subseteq Lecteurs
        <4>1. enVol'[v][i] \in Mises(publies')
          BY <3>2, ElementOfSeq
        <4> QED
          BY <4>1 DEF Mises
      <3> QED
        BY <2>3, <2>6, <3>3 DEF Honnete
    <2> QED
      BY <2>4, <2>5, <2>7 DEF Inv
  <1>6. ASSUME NEW u \in Lecteurs, Relancer(u)
        PROVE  Inv'
    <2>1. /\ UNCHANGED <<lu, servis>> /\ enVol' = [enVol EXCEPT ![u] = <<>>]
          /\ affiche' = [affiche EXCEPT ![u] = [d \in Documents |-> Aucun]]
      BY <1>6 DEF Relancer, RienAffiche
    <2>2. \A v \in Lecteurs : enVol'[v] = <<>> \/ enVol'[v] = enVol[v]
      BY <2>1 DEF TypeOKFort, TypeOK
    <2>3. \A v \in Lecteurs, d \in Documents : affiche'[v][d] = Aucun \/ affiche'[v][d] = affiche[v][d]
      BY <2>1 DEF TypeOKFort, TypeOK
    <2> QED
      BY <2>1, <2>2, <2>3 DEF Inv, LecteursReels, Honnete
  <1>7. ASSUME NEW u \in Lecteurs, Compter(u)
        PROVE  Inv'
    BY <1>7 DEF Compter, Inv, LecteursReels, Honnete
  <1>8. CASE UNCHANGED vars
    BY <1>8 DEF vars, Inv, LecteursReels, Honnete
  <1> QED
    BY <1>1, <1>2, <1>3, <1>4, <1>5, <1>6, <1>7, <1>8 DEF Next

(***************************************************************************)
(* The inductive invariant: whoever is named in a stored document, on a    *)
(* display or in an update under way has read the document, or is the      *)
(* sender of that update.                                                  *)
(***************************************************************************)
THEOREM Inductif == Spec => []Inv
  BY InvInit, InvPas, TypeFort, PTL DEF Spec

(***************************************************************************)
(* Nobody is stored as a reader of a document that no update of his has    *)
(* marked, however old the lists that _marquerCommeLu writes back.         *)
(***************************************************************************)
THEOREM LecteursReelsTenus == Spec => []LecteursReels
  <1>1. Inv => LecteursReels
    BY DEF Inv
  <1> QED
    BY <1>1, Inductif, PTL

-----------------------------------------------------------------------------
(***************************************************************************)
(* The announcements implement Registre.                                   *)
(***************************************************************************)
LEMMA AnnoncesInit == Init => RegistreDesAnnonces!InitRegistre
  BY DEF Init, RegistreDesAnnonces!InitRegistre, Documents

LEMMA AnnoncesPas ==
  TypeOKFort /\ Inv /\ [Next]_vars => [RegistreDesAnnonces!NextRegistre]_(RegistreDesAnnonces!variables)
  <1> USE DEF RegistreDesAnnonces!NextRegistre, RegistreDesAnnonces!variables
  <1> SUFFICES ASSUME TypeOKFort, Inv, [Next]_vars
               PROVE  [RegistreDesAnnonces!NextRegistre]_(RegistreDesAnnonces!variables)
    OBVIOUS
  <1>1. ASSUME NEW d \in Documents, Publier(d)
        PROVE  [RegistreDesAnnonces!NextRegistre]_(RegistreDesAnnonces!variables)
    <2>1. CASE d \in Annonces
      <3>1. RegistreDesAnnonces!Paraitre(d)
        BY <1>1, <2>1 DEF Publier, RegistreDesAnnonces!Paraitre
      <3> QED
        BY <2>1, <3>1
    <2>2. CASE d \notin Annonces
      BY <1>1, <2>2 DEF Publier
    <2> QED
      BY <2>1, <2>2
  <1>2. ASSUME NEW u \in Lecteurs, Servir(u)
        PROVE  [RegistreDesAnnonces!NextRegistre]_(RegistreDesAnnonces!variables)
    <2> DEFINE e == Head(enVol[u])
    <2>1. e \in Mises(publies) /\ Honnete(u, e)
      BY <1>2, ServirTete
    <2>2. /\ lu' = [lu EXCEPT ![e.doc] = IF e.effet = "union" THEN lu[e.doc] \cup e.qui ELSE e.qui]
          /\ publies' = publies
      BY <1>2 DEF Servir
    <2> HIDE DEF e
    <2>3. CASE e.doc \in Annonces
      <3>1. \A a \in Annonces : lu'[a] = IF a = e.doc THEN lu[a] \cup {u} ELSE lu[a]
        BY <2>1, <2>2, <2>3 DEF Honnete, TypeOKFort, TypeOK, Documents
      <3>2. e.doc \in publies \cap Annonces
        BY <2>1, <2>3 DEF Mises
      <3>3. [a \in Annonces |-> lu'[a]] =
              [[a \in Annonces |-> lu[a]] EXCEPT ![e.doc] = [a \in Annonces |-> lu[a]][e.doc] \cup {u}]
        BY <3>1, <2>3
      <3>4. RegistreDesAnnonces!Lire(e.doc, u)
        BY <2>2, <3>2, <3>3 DEF RegistreDesAnnonces!Lire
      <3> QED
        BY <2>3, <3>4
    <2>4. CASE e.doc \notin Annonces
      <3>1. \A a \in Annonces : lu'[a] = lu[a]
        BY <2>2, <2>4 DEF TypeOKFort, TypeOK, Documents
      <3> QED
        BY <2>2, <3>1
    <2> QED
      BY <2>3, <2>4
  <1>3. CASE UNCHANGED <<publies, lu>>
    BY <1>3
  <1>4. ASSUME NEW u \in Lecteurs,
               \/ AfficherDevoirs(u) \/ ChargerAnnonces(u) \/ Relancer(u) \/ Compter(u)
               \/ \E d \in Devoirs : OuvrirDevoir(u, d)
               \/ \E a \in Annonces : MarquerAnnonce(u, a)
        PROVE  UNCHANGED <<publies, lu>>
    BY <1>4 DEF AfficherDevoirs, ChargerAnnonces, Relancer, Compter, OuvrirDevoir, MarquerAnnonce, Envoyer
  <1>5. CASE UNCHANGED vars
    BY <1>3, <1>5 DEF vars
  <1> QED
    BY <1>1, <1>2, <1>3, <1>4, <1>5 DEF Next

(***************************************************************************)
(* The announcements implement Registre: arrayUnion adds one reader to a   *)
(* published announcement, and no other step touches its readers.          *)
(***************************************************************************)
THEOREM AnnoncesTenuesPrises == Spec => AnnoncesTenues
  BY AnnoncesInit, AnnoncesPas, TypeFort, Inductif, PTL
     DEF Spec, AnnoncesTenues, RegistreDesAnnonces!SpecRegistre
=============================================================================
