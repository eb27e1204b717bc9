---------------------------- MODULE NotesProofs ----------------------------
(***************************************************************************)
(* Proofs about Notes, for any classes, pupils, parents, subjects, types   *)
(* of marks and number of saves.                                           *)
(***************************************************************************)
EXTENDS Notes, SequenceTheorems, TLAPS

\* The calls of the loop over the pupils.
Boucle == {"eleve", "note", "lien", "famille", "avis"}

\* What TypeOK leaves out: a save is about a list, the class it reads is
\* chosen, a mark is added with a value, a type and a subject, and the mark
\* that is linked has been added.
TypeOKFort ==
    /\ TypeOK
    /\ envoi.etape # "repos" => listes # <<>>
    /\ envoi.etape = "matiere" => choix.classe # Aucun
    /\ envoi.etape = "note" =>
        envoi.texte \in {"bonne", "hors"} /\ envoi.pour.type # Aucun /\ envoi.pour.matiere # Aucun
    /\ envoi.etape = "lien" => envoi.note # Aucun

\* The mark that the notifications of the current pupil will name is in his
\* list, as long as he exists.
LienJuste ==
    /\ envoi.etape \in {"eleve", "note"} => envoi.note = Aucun
    /\ envoi.etape = "lien" => notes[envoi.note].eleve = Courant
    /\ envoi.etape \in {"famille", "avis"} /\ envoi.note # Aucun /\ Courant \in existants =>
        envoi.note \in notesIds[Courant] /\ notes[envoi.note].eleve = Courant

Dans(s) == {s[i] : i \in DOMAIN s}

\* d has been told of e by the kth save.
Avise(d, e, k) == \E a \in avis : a.dest = d /\ a.eleve = e /\ a.envoi = k

AviseEntier(e, k) == \A d \in ParentsDe[e] \cup {e} : Avise(d, e, k)

\* A pupil of the list has been told with his parents, or is still to come;
\* the parents of the current one who are not left have been told.
BoucleJuste ==
    /\ envoi.etape \in Boucle =>
        \A e \in Dans(listes[Len(listes)]) : e \in existants =>
            e \in Dans(envoi.liste) \/ AviseEntier(e, Len(listes))
    /\ envoi.etape = "avis" =>
        \A p \in ParentsDe[Courant] \ envoi.reste : Avise(p, Courant, Len(listes))

\* The first half of SuccesComplet.
SuccesTotal ==
    LET k == Len(listes) IN
    bilan = "succes" /\ envoi.etape = "repos" /\ k > 0 => TousAvises(k)

Inv == AvisApresLien /\ SuccesTotal /\ LienJuste /\ BoucleJuste

-----------------------------------------------------------------------------
(***************************************************************************)
(* Type correctness.                                                       *)
(***************************************************************************)
FormeOK ==
    /\ choix \in Choix /\ decrite \in BOOLEAN
    /\ affiches \subseteq Eleves /\ notesStr \in [Eleves -> Textes] /\ demandes \subseteq Classes

\* The save, while N are the marks stored.
Envois(N) == [etape : {"repos", "matiere"} \cup Boucle, liste : Seq(Eleves), texte : Textes,
              pour : Choix, note : N \cup {Aucun}, reste : SUBSET Parents]

EnvoiOK ==
    /\ envoi \in Envois(DOMAIN notes)
    /\ envoi.etape \in Boucle => envoi.liste # <<>>
    /\ envoi.etape # "repos" => listes # <<>>
    /\ envoi.etape = "matiere" => choix.classe # Aucun
    /\ envoi.etape = "note" =>
        envoi.texte \in {"bonne", "hors"} /\ envoi.pour.type # Aucun /\ envoi.pour.matiere # Aucun
    /\ envoi.etape = "lien" => envoi.note # Aucun

\* The marks and the notifications of the saves K.
Notees(K) == [eleve : Eleves, valeur : {"bonne", "hors"}, type : Types, matiere : Matieres, envoi : K]

Avises(N, K) == [dest : Parents \cup Eleves, eleve : Eleves, note : N \cup {Aucun}, envoi : K]

BaseOK ==
    /\ listes \in Seq(Seq(Eleves)) /\ bilan \in {"rien", "succes", "erreur"}
    /\ existants \subseteq Eleves
    /\ notes \in Seq(Notees(DOMAIN listes))
    /\ notesIds \in [Eleves -> SUBSET DOMAIN notes]
    /\ avis \subseteq Avises(DOMAIN notes, DOMAIN listes)

LEMMA TypeDecoupe == TypeOKFort <=> FormeOK /\ EnvoiOK /\ BaseOK
  <1>1. {"repos", "matiere"} \cup Boucle = {"repos", "matiere", "eleve", "note", "lien", "famille", "avis"}
    BY DEF Boucle
  <1> QED
    BY <1>1 DEF TypeOKFort, TypeOK, FormeOK, EnvoiOK, BaseOK, Envois, Notees, Avises, Boucle

LEMMA TypeDecoupeApres == TypeOKFort' <=> FormeOK' /\ EnvoiOK' /\ BaseOK'
  <1>1. {"repos", "matiere"} \cup Boucle = {"repos", "matiere", "eleve", "note", "lien", "famille", "avis"}
    BY DEF Boucle
  <1> QED
    BY <1>1 DEF TypeOKFort, TypeOK, FormeOK, EnvoiOK, BaseOK, Envois, Notees, Avises, Boucle

\* No form, no save.
LEMMA TypesNuls ==
  /\ RienChoisi \in Choix /\ Vierge \in [Eleves -> Textes]
  /\ EnvoiNul.etape = "repos" /\ EnvoiNul.note = Aucun /\ \A N : EnvoiNul \in Envois(N)
  <1>1. <<>> \in Seq(Eleves)
    BY EmptySeq
  <1>2. RienChoisi \in Choix
    BY DEF RienChoisi, Choix
  <1> QED
    BY <1>1, <1>2 DEF Vierge, Textes, EnvoiNul, Envois

LEMMA TypeInit == Init => TypeOKFort
  <1> SUFFICES ASSUME Init
               PROVE  TypeOKFort
    OBVIOUS
  <1>1. FormeOK
    BY TypesNuls DEF Init, FormeOK
  <1>2. EnvoiOK
    BY TypesNuls DEF Init, EnvoiOK, Boucle
  <1>3. listes \in Seq(Seq(Eleves)) /\ notes \in Seq(Notees(DOMAIN listes))
    BY EmptySeq DEF Init
  <1>4. BaseOK
    BY <1>3 DEF Init, BaseOK
  <1> QED
    BY <1>1, <1>2, <1>4, TypeDecoupe

\* A step of the form leaves a class chosen.
LEMMA FormeTypee ==
  ASSUME TypeOKFort, FormeOK', choix.classe # Aucun => choix'.classe # Aucun,
         UNCHANGED <<envoi, listes, bilan, varsBase>>
  PROVE  TypeOKFort'
  <1>1. EnvoiOK'
    BY TypeDecoupe DEF EnvoiOK, varsBase
  <1>2. BaseOK'
    BY TypeDecoupe DEF BaseOK, varsBase
  <1> QED
    BY <1>1, <1>2, TypeDecoupeApres

\* The call of the save that follows, for the same pupil.
LEMMA EnvoiTypee ==
  ASSUME TypeOKFort, UNCHANGED <<varsForm, listes, bilan, varsBase>>,
         envoi.etape # "repos", envoi' \in Envois(DOMAIN notes), envoi'.etape \in Boucle, envoi'.liste # <<>>,
         envoi'.etape # "lien",
         envoi'.etape = "note" =>
            envoi'.texte \in {"bonne", "hors"} /\ envoi'.pour.type # Aucun /\ envoi'.pour.matiere # Aucun
  PROVE  TypeOKFort'
  <1>1. EnvoiOK'
    BY TypeDecoupe DEF EnvoiOK, varsBase, Boucle
  <1>2. BaseOK' /\ FormeOK'
    BY TypeDecoupe DEF BaseOK, FormeOK, varsBase, varsForm
  <1> QED
    BY <1>1, <1>2, TypeDecoupeApres

\* What Suivant does to the save and to the form.
LEMMA SuivantEffet ==
  ASSUME FormeOK, BaseOK, NEW liste \in Seq(Eleves), Suivant(liste)
  PROVE  /\ FormeOK' /\ \A N : envoi' \in Envois(N)
         /\ \/ /\ liste # <<>> /\ envoi'.etape = "eleve" /\ envoi'.liste = liste
               /\ envoi'.note = Aucun /\ envoi'.reste = {} /\ bilan' = bilan
            \/ liste = <<>> /\ envoi'.etape = "repos" /\ bilan' = "succes"
  <1>1. CASE liste # <<>>
    <2>1. envoi' = [EnvoiNul EXCEPT !.etape = "eleve", !.liste = liste] /\ UNCHANGED <<varsForm, bilan>>
      BY <1>1 DEF Suivant
    <2>2. FormeOK'
      BY <2>1 DEF varsForm, FormeOK
    <2>3. \A N : envoi' \in Envois(N)
      BY <2>1, TypesNuls DEF Envois, Boucle
    <2>4. envoi'.etape = "eleve" /\ envoi'.liste = liste /\ envoi'.note = Aucun /\ envoi'.reste = {}
      BY <2>1 DEF EnvoiNul
    <2> QED
      BY <1>1, <2>1, <2>2, <2>3, <2>4
  <1>2. CASE liste = <<>>
    <2>1. FormeOK'
      BY <1>2, TypesNuls DEF Suivant, FormeOK
    <2> QED
      BY <1>2, <2>1, TypesNuls DEF Suivant
  <1> QED
    BY <1>1, <1>2

LEMMA SuivantTypee ==
  ASSUME TypeOKFort, NEW liste \in Seq(Eleves), Suivant(liste), listes' # <<>>, BaseOK'
  PROVE  TypeOKFort'
  <1>1. /\ FormeOK' /\ envoi' \in Envois(DOMAIN notes') /\ envoi'.etape \in {"eleve", "repos"}
        /\ envoi'.etape = "eleve" => envoi'.liste # <<>>
    BY TypeDecoupe, SuivantEffet
  <1>2. EnvoiOK'
    BY <1>1 DEF EnvoiOK, Boucle
  <1> QED
    BY <1>1, <1>2, TypeDecoupeApres

LEMMA RattraperTypee ==
  ASSUME TypeOKFort, Rattraper, UNCHANGED <<listes, varsBase>>
  PROVE  TypeOKFort'
  <1>1. FormeOK' /\ BaseOK'
    BY TypeDecoupe DEF Rattraper, varsForm, varsBase, FormeOK, BaseOK
  <1>2. EnvoiOK'
    BY TypesNuls DEF Rattraper, EnvoiOK, Boucle
  <1> QED
    BY <1>1, <1>2, TypeDecoupeApres

\* The current pupil and those after him.
LEMMA ListeEntamee ==
  ASSUME TypeOKFort, envoi.etape \in Boucle
  PROVE  /\ envoi.liste # <<>> /\ Courant \in Eleves /\ Tail(envoi.liste) \in Seq(Eleves)
         /\ listes # <<>> /\ listes \in Seq(Seq(Eleves)) /\ Len(listes) \in DOMAIN listes
  <1>1. envoi.liste \in Seq(Eleves) /\ envoi.liste # <<>> /\ listes # <<>> /\ listes \in Seq(Seq(Eleves))
    BY TypeDecoupe DEF EnvoiOK, Envois, Boucle, BaseOK
  <1>2. Courant \in Eleves /\ Tail(envoi.liste) \in Seq(Eleves)
    BY <1>1, HeadTailProperties DEF Courant
  <1>3. Len(listes) \in DOMAIN listes
    BY <1>1, EmptySeq, LenProperties
  <1> QED
    BY <1>1, <1>2, <1>3

\* The text of the current pupil.
LEMMA LireTexteTypee ==
  ASSUME TypeOKFort, envoi.etape = "eleve", LireTexte, UNCHANGED <<listes, varsBase>>
  PROVE  TypeOKFort'
  <1>t. /\ envoi \in Envois(DOMAIN notes) /\ envoi.liste # <<>> /\ choix \in Choix
        /\ notesStr \in [Eleves -> Textes] /\ Courant \in Eleves
    BY TypeDecoupe, ListeEntamee DEF EnvoiOK, FormeOK, Boucle
  <1>1. CASE SansNote
    <2>1. envoi' = [envoi EXCEPT !.etape = "famille"] /\ UNCHANGED <<varsForm, bilan>>
      BY <1>1 DEF SansNote, Avancer
    <2>2. envoi' \in Envois(DOMAIN notes) /\ envoi'.etape = "famille" /\ envoi'.liste # <<>>
      BY <1>t, <2>1 DEF Envois, Boucle
    <2> QED
      BY <2>1, <2>2, EnvoiTypee DEF Boucle
  <1>2. CASE ChoixComplet /\ AvecNote
    <2>1. /\ envoi' = [envoi EXCEPT !.etape = "note", !.texte = notesStr[Courant], !.pour = choix]
          /\ notesStr[Courant] \in {"bonne", "hors"} /\ choix.type # Aucun /\ choix.matiere # Aucun
          /\ UNCHANGED <<varsForm, bilan>>
      BY <1>2 DEF AvecNote, ChoixComplet
    <2>2. envoi' \in Envois(DOMAIN notes)
      BY <1>t, <2>1 DEF Envois, Boucle
    <2>3. /\ envoi'.etape = "note" /\ envoi'.liste # <<>> /\ envoi'.texte \in {"bonne", "hors"}
          /\ envoi'.pour.type # Aucun /\ envoi'.pour.matiere # Aucun
      BY <1>t, <2>1 DEF Envois
    <2> QED
      BY <2>1, <2>2, <2>3, EnvoiTypee DEF Boucle
  <1>3. CASE Rattraper
    BY <1>3, RattraperTypee
  <1> QED
    BY <1>1, <1>2, <1>3 DEF LireTexte

LEMMA TypePas == TypeOKFort /\ [Next]_vars => TypeOKFort'
  <1> SUFFICES ASSUME TypeOKFort, [Next]_vars
               PROVE  TypeOKFort'
    OBVIOUS
  <1>t. FormeOK /\ EnvoiOK /\ BaseOK
    BY TypeDecoupe
  <1>n. DOMAIN notes = 1..Len(notes) /\ Len(notes) \in Nat
    BY <1>t, LenProperties DEF BaseOK
  <1>1. ASSUME NEW c \in Classes, ChoisirClasse(c)
        PROVE  TypeOKFort'
    <2>1. [classe |-> c, matiere |-> Aucun, type |-> Aucun] \in Choix /\ c # Aucun
      BY NotesHypotheses DEF Choix
    <2>2. FormeOK' /\ choix'.classe # Aucun
      BY <1>1, <1>t, <2>1, TypesNuls DEF ChoisirClasse, FormeOK
    <2> QED
      BY <1>1, <2>2, FormeTypee DEF ChoisirClasse
  <1>2. ASSUME NEW c \in Classes, RecevoirEleves(c)
        PROVE  TypeOKFort'
    <2>1. FormeOK' /\ choix' = choix
      BY <1>2, <1>t, TypesNuls DEF RecevoirEleves, FormeOK, BaseOK
    <2> QED
      BY <1>2, <2>1, FormeTypee DEF RecevoirEleves
  <1>3. ASSUME NEW m \in Matieres, ChoisirMatiere(m)
        PROVE  TypeOKFort'
    <2>1. /\ [choix EXCEPT !.matiere = m, !.type = Aucun] \in Choix
          /\ [choix EXCEPT !.matiere = m, !.type = Aucun].classe = choix.classe
          /\ choix.classe \in Classes
      BY <1>3, <1>t DEF ChoisirMatiere, FormeOK, Choix
    <2>2. FormeOK' /\ choix'.classe = choix.classe
      BY <1>3, <1>t, <2>1, TypesNuls DEF ChoisirMatiere, FormeOK
    <2> QED
      BY <1>3, <2>2, FormeTypee DEF ChoisirMatiere
  <1>4. ASSUME NEW t \in Types, ChoisirType(t)
        PROVE  TypeOKFort'
    <2>1. [choix EXCEPT !.type = t] \in Choix /\ [choix EXCEPT !.type = t].classe = choix.classe
      BY <1>t DEF FormeOK, Choix
    <2>2. FormeOK' /\ choix'.classe = choix.classe
      BY <1>4, <1>t, <2>1, TypesNuls DEF ChoisirType, FormeOK
    <2> QED
      BY <1>4, <2>2, FormeTypee DEF ChoisirType
  <1>5. ASSUME Decrire
        PROVE  TypeOKFort'
    <2>1. FormeOK' /\ choix' = choix
      BY <1>5, <1>t DEF Decrire, FormeOK
    <2> QED
      BY <1>5, <2>1, FormeTypee DEF Decrire
  <1>6. ASSUME NEW e \in Eleves, NEW t \in Textes, Saisir(e, t)
        PROVE  TypeOKFort'
    <2>1. FormeOK' /\ choix' = choix
      BY <1>6, <1>t DEF Saisir, FormeOK
    <2> QED
      BY <1>6, <2>1, FormeTypee DEF Saisir
  <1>7. ASSUME RemplirTout
        PROVE  TypeOKFort'
    <2>1. [e \in Eleves |-> IF e \in affiches THEN "bonne" ELSE notesStr[e]] \in [Eleves -> Textes]
      BY <1>t DEF FormeOK, Textes
    <2>2. FormeOK' /\ choix' = choix
      BY <1>7, <1>t, <2>1, TypesNuls DEF RemplirTout, FormeOK
    <2> QED
      BY <1>7, <2>2, FormeTypee DEF RemplirTout
  <1>8. ASSUME Enregistrer
        PROVE  TypeOKFort'
    <2>1. <<>> \in Seq(Eleves)
      BY EmptySeq
    <2>2. /\ listes' \in Seq(Seq(Eleves)) /\ listes' # <<>> /\ DOMAIN listes \subseteq DOMAIN listes'
      <3>1. listes \in Seq(Seq(Eleves)) /\ listes' = Append(listes, <<>>)
        BY <1>8, <1>t DEF Enregistrer, BaseOK
      <3>2. listes' \in Seq(Seq(Eleves)) /\ Len(listes') = Len(listes) + 1 /\ Len(listes) \in Nat
        BY <2>1, <3>1, AppendProperties, LenProperties
      <3>3. DOMAIN listes = 1..Len(listes) /\ DOMAIN listes' = 1..(Len(listes) + 1)
        BY <3>1, <3>2, LenProperties
      <3> QED
        BY <3>2, <3>3, EmptySeq
    <2>3. BaseOK'
      <3>1. Notees(DOMAIN listes) \subseteq Notees(DOMAIN listes')
        BY <2>2 DEF Notees
      <3>2. notes \in Seq(Notees(DOMAIN listes'))
        BY <1>t, <3>1, SeqMonotonic DEF BaseOK
      <3>3. Avises(DOMAIN notes, DOMAIN listes) \subseteq Avises(DOMAIN notes, DOMAIN listes')
        BY <2>2 DEF Avises
      <3> QED
        BY <1>8, <1>t, <2>2, <3>2, <3>3 DEF Enregistrer, varsBase, BaseOK
    <2>4. envoi' \in Envois(DOMAIN notes) /\ envoi'.etape = "matiere"
      BY <1>8, TypesNuls DEF Enregistrer, Envois, Boucle, EnvoiNul
    <2>5. EnvoiOK'
      BY <1>8, <2>2, <2>4 DEF Enregistrer, EnvoiOK, varsBase, varsForm, Boucle
    <2>6. FormeOK'
      BY <1>8, <1>t DEF Enregistrer, varsForm, FormeOK
    <2> QED
      BY <2>3, <2>5, <2>6, TypeDecoupeApres
  <1>9. ASSUME LireMatiere
        PROVE  TypeOKFort'
    <2>1. choix.classe \in Classes /\ listes # <<>> /\ listes \in Seq(Seq(Eleves))
      BY <1>9, <1>t DEF LireMatiere, EnvoiOK, FormeOK, Choix, BaseOK
    <2>2. ElevesIds[choix.classe] \in Seq(Eleves)
      BY <2>1, NotesHypotheses
    <2>3. Len(listes) \in 1..Len(listes)
      BY <2>1, EmptySeq
    <2>4. listes' = [listes EXCEPT ![Len(listes)] = ElevesIds[choix.classe]]
      BY <1>9 DEF LireMatiere
    <2>5. listes' \in Seq(Seq(Eleves)) /\ Len(listes') = Len(listes)
      BY <2>1, <2>2, <2>3, <2>4, ExceptSeq
    <2>6. DOMAIN listes' = DOMAIN listes /\ listes' # <<>>
      BY <2>1, <2>5, <2>3, LenProperties, EmptySeq
    <2>7. bilan' \in {"rien", "succes", "erreur"}
      BY <1>9, <1>t DEF LireMatiere, Suivant, BaseOK
    <2>8. BaseOK'
      BY <1>9, <1>t, <2>5, <2>6, <2>7 DEF LireMatiere, BaseOK, varsBase
    <2> QED
      BY <1>9, <2>2, <2>6, <2>8, SuivantTypee DEF LireMatiere
  <1>10. ASSUME LireEleve
         PROVE  TypeOKFort'
    <2>1. CASE Suivant(Tail(envoi.liste))
      <3>1. Tail(envoi.liste) \in Seq(Eleves) /\ listes # <<>>
        BY <1>10, ListeEntamee DEF LireEleve, Boucle
      <3>2. BaseOK' /\ listes' = listes
        BY <1>10, <1>t, <2>1 DEF LireEleve, Suivant, BaseOK, varsBase
      <3> QED
        BY <2>1, <3>1, <3>2, SuivantTypee
    <2>2. CASE LireTexte
      BY <1>10, <2>2, LireTexteTypee DEF LireEleve
    <2> QED
      BY <1>10, <2>1, <2>2 DEF LireEleve
  <1>11. ASSUME AjouterNote
         PROVE  TypeOKFort'
    <2> DEFINE n == [eleve |-> Courant, valeur |-> envoi.texte, type |-> envoi.pour.type,
                     matiere |-> envoi.pour.matiere, envoi |-> Len(listes)]
    <2>1. Courant \in Eleves /\ Len(listes) \in DOMAIN listes /\ listes # <<>> /\ envoi.liste # <<>>
      BY <1>11, ListeEntamee DEF AjouterNote, Boucle
    <2>2. n \in Notees(DOMAIN listes)
      BY <1>11, <1>t, <2>1 DEF AjouterNote, EnvoiOK, Envois, Choix, Notees
    <2>3. notes' = Append(notes, n)
      BY <1>11 DEF AjouterNote
    <2> HIDE DEF n
    <2>4. notes' \in Seq(Notees(DOMAIN listes)) /\ Len(notes') = Len(notes) + 1
      BY <1>t, <2>2, <2>3, AppendProperties DEF BaseOK
    <2>5. DOMAIN notes' = 1..(Len(notes) + 1)
      BY <2>4, LenProperties
    <2>6. DOMAIN notes \subseteq DOMAIN notes' /\ Len(notes') \in DOMAIN notes'
      BY <1>n, <2>4, <2>5
    <2>7. Avises(DOMAIN notes, DOMAIN listes) \subseteq Avises(DOMAIN notes', DOMAIN listes)
      BY <2>6 DEF Avises
    <2>8. BaseOK'
      BY <1>11, <1>t, <2>4, <2>6, <2>7 DEF AjouterNote, BaseOK
    <2>9. envoi' = [envoi EXCEPT !.etape = "lien", !.note = Len(notes')]
      BY <1>11 DEF AjouterNote
    <2>10. envoi' \in Envois(DOMAIN notes') /\ envoi'.etape = "lien" /\ envoi'.liste # <<>>
      BY <1>t, <2>1, <2>6, <2>9 DEF EnvoiOK, Envois, Boucle
    <2>11. envoi'.note = Len(notes') /\ Len(notes') # Aucun
      BY <1>n, <1>t, <2>4, <2>9, NotesHypotheses DEF EnvoiOK, Envois
    <2>12. EnvoiOK' /\ FormeOK'
      BY <1>11, <1>t, <2>1, <2>10, <2>11 DEF AjouterNote, EnvoiOK, FormeOK, varsForm
    <2> QED
      BY <2>8, <2>12, TypeDecoupeApres
  <1>12. ASSUME LierNote
         PROVE  TypeOKFort'
    <2>1. CASE /\ notesIds' = [notesIds EXCEPT ![Courant] = notesIds[Courant] \cup {envoi.note}]
               /\ Avancer("famille")
      <3>1. /\ envoi.liste # <<>> /\ listes # <<>>
            /\ UNCHANGED <<varsForm, bilan, listes, existants, notes, avis>>
            /\ envoi' = [envoi EXCEPT !.etape = "famille"]
        BY <1>12, <2>1, ListeEntamee DEF LierNote, Avancer, Boucle
      <3>2. envoi' \in Envois(DOMAIN notes) /\ envoi'.etape = "famille" /\ envoi'.liste # <<>>
        BY <1>t, <3>1 DEF EnvoiOK, Envois, Boucle
      <3>3. EnvoiOK'
        BY <3>1, <3>2 DEF EnvoiOK
      <3>4. notesIds' \in [Eleves -> SUBSET DOMAIN notes]
        <4>1. CASE envoi.note \in DOMAIN notes
          BY <1>t, <2>1, <4>1 DEF BaseOK
        <4>2. CASE envoi.note = Aucun
          BY <1>12, <1>t, <4>2 DEF LierNote, EnvoiOK
        <4> QED
          BY <1>t, <4>1, <4>2 DEF EnvoiOK, Envois
      <3> QED
        BY <1>t, <3>1, <3>3, <3>4, TypeDecoupeApres DEF BaseOK, FormeOK, varsForm
    <2>2. CASE Rattraper /\ UNCHANGED notesIds
      BY <1>12, <2>2, RattraperTypee DEF LierNote, varsBase
    <2> QED
      BY <1>12, <2>1, <2>2 DEF LierNote
  <1>13. ASSUME LireFamille
         PROVE  TypeOKFort'
    <2>1. Courant \in Eleves /\ envoi.liste # <<>>
      BY <1>13, ListeEntamee DEF LireFamille, Boucle
    <2>2. ParentsDe[Courant] \subseteq Parents
      BY <2>1, NotesHypotheses
    <2>3. /\ envoi' = [envoi EXCEPT !.etape = "avis", !.reste = ParentsDe[Courant]]
          /\ envoi.etape = "famille" /\ UNCHANGED <<varsForm, listes, bilan, varsBase>>
      BY <1>13 DEF LireFamille
    <2>4. envoi' \in Envois(DOMAIN notes) /\ envoi'.etape = "avis" /\ envoi'.liste # <<>>
      BY <1>t, <2>1, <2>2, <2>3 DEF EnvoiOK, Envois, Boucle
    <2> QED
      BY <2>3, <2>4, EnvoiTypee DEF Boucle
  <1>14. ASSUME NEW p \in Parents, AviserParent(p)
         PROVE  TypeOKFort'
    <2>1. Courant \in Eleves /\ envoi.liste # <<>> /\ Len(listes) \in DOMAIN listes /\ listes # <<>>
      BY <1>14, ListeEntamee DEF AviserParent, Boucle
    <2>2. Avis(p) \in Avises(DOMAIN notes, DOMAIN listes)
      BY <1>t, <2>1 DEF Avis, Avises, EnvoiOK, Envois
    <2>3. /\ envoi' = [envoi EXCEPT !.reste = envoi.reste \ {p}] /\ envoi.etape = "avis"
          /\ avis' = avis \cup {Avis(p)} /\ UNCHANGED <<varsForm, listes, bilan, existants, notes, notesIds>>
      BY <1>14 DEF AviserParent
    <2>4. envoi' \in Envois(DOMAIN notes) /\ envoi'.etape = "avis" /\ envoi'.liste # <<>>
      BY <1>t, <2>1, <2>3 DEF EnvoiOK, Envois, Boucle
    <2>5. EnvoiOK'
      BY <2>1, <2>3, <2>4 DEF EnvoiOK
    <2>6. BaseOK' /\ FormeOK'
      BY <1>t, <2>2, <2>3 DEF BaseOK, FormeOK, varsForm
    <2> QED
      BY <2>5, <2>6, TypeDecoupeApres
  <1>15. ASSUME AviserEleve
         PROVE  TypeOKFort'
    <2>1. /\ Courant \in Eleves /\ Len(listes) \in DOMAIN listes /\ listes # <<>>
          /\ Tail(envoi.liste) \in Seq(Eleves)
      BY <1>15, ListeEntamee DEF AviserEleve, Boucle
    <2>2. Avis(Courant) \in Avises(DOMAIN notes, DOMAIN listes)
      BY <1>t, <2>1 DEF Avis, Avises, EnvoiOK, Envois
    <2>3. /\ avis' = avis \cup {Avis(Courant)} /\ Suivant(Tail(envoi.liste))
          /\ UNCHANGED <<listes, existants, notes, notesIds>>
      BY <1>15 DEF AviserEleve
    <2>4. bilan' \in {"rien", "succes", "erreur"}
      BY <1>t, <2>3 DEF Suivant, BaseOK
    <2>5. BaseOK'
      BY <1>t, <2>2, <2>3, <2>4 DEF BaseOK
    <2> QED
      BY <2>1, <2>3, <2>5, SuivantTypee
  <1>16. ASSUME Echouer
         PROVE  TypeOKFort'
    BY <1>16, RattraperTypee DEF Echouer
  <1>17. ASSUME NEW e \in Eleves, SupprimerEleve(e)
         PROVE  TypeOKFort'
    <2>1. BaseOK'
      BY <1>17, <1>t DEF SupprimerEleve, BaseOK
    <2>2. EnvoiOK' /\ FormeOK'
      BY <1>17, <1>t DEF SupprimerEleve, EnvoiOK, FormeOK, varsForm
    <2> QED
      BY <2>1, <2>2, TypeDecoupeApres
  <1>18. CASE UNCHANGED vars
    BY <1>18, <1>t, TypeDecoupeApres DEF vars, varsForm, varsBase, BaseOK, EnvoiOK, FormeOK
  <1> QED
    BY <1>1, <1>2, <1>3, <1>4, <1>5, <1>6, <1>7, <1>8, <1>9, <1>10, <1>11, <1>12, <1>13, <1>14,
       <1>15, <1>16, <1>17, <1>18 DEF Next, Repondre

LEMMA TypeFort == Spec => []TypeOKFort
  BY TypeInit, TypePas, PTL DEF Spec

(***************************************************************************)
(* The form, the save and the collections keep their types: the loop never *)
(* reads an empty list, and a mark is stored with a value, a type and a    *)
(* subject, whatever the chips reset while the loop runs.                  *)
(***************************************************************************)
THEOREM TypeCorrect == Spec => []TypeOK
  <1>1. TypeOKFort => TypeOK
    BY DEF TypeOKFort
  <1> QED
    BY <1>1, TypeFort, PTL

-----------------------------------------------------------------------------
(***************************************************************************)
(* The inductive invariant.                                                *)
(***************************************************************************)

\* What is left when the loop is at L: who is not in L has been told.
Avancee(L) ==
    \A e \in Dans(listes[Len(listes)]) : e \in existants => e \in Dans(L) \/ AviseEntier(e, Len(listes))

LEMMA DansSuite ==
  ASSUME NEW s \in Seq(Eleves), s # <<>>
  PROVE  Dans(s) \subseteq {Head(s)} \cup Dans(Tail(s))
  <1> SUFFICES ASSUME NEW i \in DOMAIN s, i # 1
               PROVE  s[i] \in Dans(Tail(s))
    BY HeadTailProperties DEF Dans
  <1>1. i \in 2..Len(s) /\ Len(s) \in Nat
    BY LenProperties
  <1>2. Len(Tail(s)) = Len(s) - 1 /\ Tail(s) \in Seq(Eleves)
    BY HeadTailProperties
  <1>3. i - 1 \in DOMAIN Tail(s) /\ Tail(s)[i - 1] = s[(i - 1) + 1]
    BY <1>1, <1>2, HeadTailProperties, LenProperties
  <1> QED
    BY <1>1, <1>3 DEF Dans

LEMMA InvInit == Init => Inv
  <1> SUFFICES ASSUME Init
               PROVE  Inv
    OBVIOUS
  <1>1. avis = {} /\ bilan = "rien" /\ envoi.etape = "repos"
    BY TypesNuls DEF Init
  <1> QED
    BY <1>1 DEF Inv, AvisApresLien, SuccesTotal, LienJuste, BoucleJuste, Boucle

\* The form is not in the invariant.
LEMMA FormeInv ==
  ASSUME Inv, UNCHANGED <<envoi, listes, bilan, varsBase>>
  PROVE  Inv'
  BY DEF Inv, AvisApresLien, SuccesTotal, TousAvises, Concernes, LienJuste, BoucleJuste, AviseEntier, Avise, Courant,
         varsBase

\* A save that fails reports it.
LEMMA RattraperInv ==
  ASSUME Inv, Rattraper, UNCHANGED <<listes, varsBase>>
  PROVE  Inv'
  <1>1. bilan' = "erreur" /\ envoi'.etape = "repos"
    BY TypesNuls DEF Rattraper
  <1>2. AvisApresLien'
    BY DEF Inv, AvisApresLien, varsBase
  <1> QED
    BY <1>1, <1>2 DEF Inv, SuccesTotal, LienJuste, BoucleJuste, Boucle

\* The loop goes on with L, or ends with a report.
LEMMA SuivantInv ==
  ASSUME FormeOK, BaseOK, NEW L \in Seq(Eleves), Suivant(L), AvisApresLien', Avancee(L)'
  PROVE  Inv'
  <1>1. \/ L # <<>> /\ envoi'.etape = "eleve" /\ envoi'.liste = L /\ envoi'.note = Aucun
        \/ L = <<>> /\ envoi'.etape = "repos"
    BY SuivantEffet
  <1>2. CASE L # <<>> /\ envoi'.etape = "eleve" /\ envoi'.liste = L /\ envoi'.note = Aucun
    <2>1. SuccesTotal' /\ LienJuste'
      BY <1>2 DEF SuccesTotal, LienJuste
    <2>2. BoucleJuste'
      BY <1>2 DEF BoucleJuste, Avancee
    <2> QED
      BY <2>1, <2>2 DEF Inv
  <1>3. CASE L = <<>> /\ envoi'.etape = "repos"
    <2>1. Dans(L) = {}
      BY <1>3 DEF Dans
    <2>2. \A e \in Dans(listes[Len(listes)])' : e \in existants' => AviseEntier(e, Len(listes))'
      BY <2>1 DEF Avancee
    <2>3. SuccesTotal'
      BY <2>2 DEF SuccesTotal, TousAvises, Concernes, AviseEntier, Avise, Dans
    <2> QED
      BY <1>3, <2>3 DEF Inv, LienJuste, BoucleJuste, Boucle
  <1> QED
    BY <1>1, <1>2, <1>3

\* Another call for the same pupil, which stores nothing.
LEMMA EnvoiInv ==
  ASSUME Inv, envoi.etape \in Boucle, envoi'.etape \in Boucle, envoi'.liste = envoi.liste, LienJuste',
         UNCHANGED <<listes, varsBase>>,
         envoi'.etape = "avis" =>
            \A p \in ParentsDe[Courant] \ envoi'.reste : Avise(p, Courant, Len(listes))
  PROVE  Inv'
  <1>1. AvisApresLien'
    BY DEF Inv, AvisApresLien, varsBase
  <1>2. SuccesTotal'
    BY DEF SuccesTotal, Boucle
  <1>3. BoucleJuste'
    BY DEF Inv, BoucleJuste, AviseEntier, Avise, Courant, varsBase
  <1> QED
    BY <1>1, <1>2, <1>3 DEF Inv

LEMMA LireEleveInv ==
  ASSUME TypeOKFort, Inv, LireEleve
  PROVE  Inv'
  <1>t. /\ FormeOK /\ BaseOK /\ envoi \in Envois(DOMAIN notes) /\ envoi.etape = "eleve"
        /\ envoi.liste \in Seq(Eleves) /\ envoi.liste # <<>> /\ Tail(envoi.liste) \in Seq(Eleves)
        /\ envoi.note = Aucun /\ UNCHANGED <<listes, varsBase>>
    BY TypeDecoupe, ListeEntamee DEF LireEleve, EnvoiOK, Envois, Boucle, Inv, LienJuste
  <1>1. CASE Courant \notin existants /\ Suivant(Tail(envoi.liste))
    <2>1. AvisApresLien'
      BY <1>t DEF Inv, AvisApresLien, varsBase
    <2>2. ASSUME NEW e \in Dans(listes[Len(listes)]), e \in existants
          PROVE  e \in Dans(Tail(envoi.liste)) \/ AviseEntier(e, Len(listes))
      <3>1. e \in Dans(envoi.liste) \/ AviseEntier(e, Len(listes))
        BY <1>t, <2>2 DEF Inv, BoucleJuste, Boucle
      <3>2. e # Courant
        BY <1>1, <2>2
      <3> QED
        BY <1>t, <3>1, <3>2, DansSuite DEF Courant
    <2>3. \A L : (\A e \in Dans(listes[Len(listes)]) : e \in existants => e \in Dans(L) \/ AviseEntier(e, Len(listes)))
                    => Avancee(L)'
      BY <1>t DEF Avancee, AviseEntier, Avise, varsBase
    <2> QED
      BY <1>1, <1>t, <2>1, <2>2, <2>3, SuivantInv
  <1>2. CASE SansNote
    <2>1. envoi' = [envoi EXCEPT !.etape = "famille"]
      BY <1>2 DEF SansNote, Avancer
    <2>2. envoi'.etape = "famille" /\ envoi'.liste = envoi.liste /\ envoi'.note = Aucun
      BY <1>t, <2>1 DEF Envois
    <2>3. LienJuste'
      BY <2>2 DEF LienJuste
    <2> QED
      BY <1>t, <2>2, <2>3, EnvoiInv DEF Boucle
  <1>3. CASE AvecNote
    <2>1. envoi' = [envoi EXCEPT !.etape = "note", !.texte = notesStr[Courant], !.pour = choix]
      BY <1>3 DEF AvecNote
    <2>2. envoi'.etape = "note" /\ envoi'.liste = envoi.liste /\ envoi'.note = Aucun
      BY <1>t, <2>1 DEF Envois
    <2>3. LienJuste'
      BY <2>2 DEF LienJuste
    <2> QED
      BY <1>t, <2>2, <2>3, EnvoiInv DEF Boucle
  <1>4. CASE Rattraper
    BY <1>4, <1>t, RattraperInv
  <1> QED
    BY <1>1, <1>2, <1>3, <1>4 DEF LireEleve, LireTexte

LEMMA AjouterNoteInv ==
  ASSUME TypeOKFort, Inv, AjouterNote
  PROVE  Inv'
  <1> DEFINE n == [eleve |-> Courant, valeur |-> envoi.texte, type |-> envoi.pour.type,
                   matiere |-> envoi.pour.matiere, envoi |-> Len(listes)]
  <1>t. /\ FormeOK /\ EnvoiOK /\ BaseOK /\ envoi.etape = "note" /\ Courant \in Eleves /\ Len(listes) \in DOMAIN listes
        /\ UNCHANGED <<varsForm, listes, bilan, existants, notesIds, avis>>
    BY TypeDecoupe, ListeEntamee DEF AjouterNote, Boucle
  <1>1. n \in Notees(DOMAIN listes) /\ n.eleve = Courant
    BY <1>t DEF EnvoiOK, Envois, Choix, Notees
  <1>2. notes' = Append(notes, n)
    BY DEF AjouterNote
  <1> HIDE DEF n
  <1>3. /\ Len(notes') = Len(notes) + 1 /\ notes'[Len(notes) + 1] = n
        /\ \A i \in DOMAIN notes : notes'[i] = notes[i]
    BY <1>t, <1>1, <1>2, AppendProperties, LenProperties DEF BaseOK
  <1>4. AvisApresLien'
    <2> SUFFICES ASSUME NEW a \in avis, a.note # Aucun, a.eleve \in existants
                 PROVE  a.note \in notesIds[a.eleve] /\ notes'[a.note].eleve = a.eleve
      BY <1>t DEF AvisApresLien
    <2>1. a.note \in DOMAIN notes
      BY <1>t DEF BaseOK, Avises
    <2> QED
      BY <1>3, <2>1 DEF Inv, AvisApresLien
  <1>5. envoi' = [envoi EXCEPT !.etape = "lien", !.note = Len(notes')]
    BY DEF AjouterNote
  <1>6. envoi'.etape = "lien" /\ envoi'.liste = envoi.liste /\ envoi'.note = Len(notes')
    BY <1>t, <1>5 DEF EnvoiOK, Envois
  <1>7. LienJuste'
    BY <1>1, <1>3, <1>6 DEF LienJuste, Courant
  <1>8. BoucleJuste'
    BY <1>t, <1>6 DEF Inv, BoucleJuste, AviseEntier, Avise, Boucle
  <1> QED
    BY <1>4, <1>6, <1>7, <1>8 DEF Inv, SuccesTotal

LEMMA LierNoteInv ==
  ASSUME TypeOKFort, Inv, LierNote
  PROVE  Inv'
  <1>t. FormeOK /\ EnvoiOK /\ BaseOK /\ envoi.etape = "lien" /\ Courant \in Eleves
    BY TypeDecoupe, ListeEntamee DEF LierNote, Boucle
  <1>1. CASE /\ notesIds' = [notesIds EXCEPT ![Courant] = notesIds[Courant] \cup {envoi.note}]
             /\ Avancer("famille")
    <2>1. /\ envoi' = [envoi EXCEPT !.etape = "famille"]
          /\ UNCHANGED <<varsForm, bilan, listes, existants, notes, avis>>
      BY <1>1 DEF LierNote, Avancer
    <2>2. envoi'.etape = "famille" /\ envoi'.liste = envoi.liste /\ envoi'.note = envoi.note
      BY <1>t, <2>1 DEF EnvoiOK, Envois
    <2>3. envoi.note \in notesIds'[Courant] /\ \A e \in Eleves : notesIds[e] \subseteq notesIds'[e]
      BY <1>t, <1>1 DEF BaseOK
    <2>4. AvisApresLien'
      BY <1>t, <2>1, <2>3 DEF Inv, AvisApresLien, BaseOK
    <2>5. LienJuste'
      BY <1>t, <2>1, <2>2, <2>3 DEF Inv, LienJuste, Courant
    <2>6. BoucleJuste'
      BY <1>t, <2>1, <2>2 DEF Inv, BoucleJuste, AviseEntier, Avise, Boucle
    <2> QED
      BY <2>2, <2>4, <2>5, <2>6 DEF Inv, SuccesTotal
  <1>2. CASE Rattraper /\ UNCHANGED notesIds
    BY <1>2, RattraperInv DEF LierNote, varsBase
  <1> QED
    BY <1>1, <1>2 DEF LierNote

\* A notification of the current pupil.
LEMMA AvisInv ==
  ASSUME TypeOKFort, Inv, envoi.etape = "avis", NEW d, avis' = avis \cup {Avis(d)},
         UNCHANGED <<listes, existants, notes, notesIds>>
  PROVE  /\ AvisApresLien'
         /\ \A x, e, k : Avise(x, e, k) => Avise(x, e, k)'
         /\ \A e, k : e = Courant /\ k = Len(listes) => Avise(d, e, k)'
  <1>1. Avis(d).dest = d /\ Avis(d).eleve = Courant /\ Avis(d).note = envoi.note /\ Avis(d).envoi = Len(listes)
    BY DEF Avis
  <1>2. AvisApresLien'
    <2> SUFFICES ASSUME NEW a \in avis', a.note # Aucun, a.eleve \in existants
                 PROVE  a.note \in notesIds[a.eleve] /\ notes[a.note].eleve = a.eleve
      BY DEF AvisApresLien
    <2>1. CASE a \in avis
      BY <2>1 DEF Inv, AvisApresLien
    <2>2. CASE a = Avis(d)
      BY <1>1, <2>2 DEF Inv, LienJuste
    <2> QED
      BY <2>1, <2>2
  <1>3. \A x, e, k : Avise(x, e, k) => Avise(x, e, k)'
    BY DEF Avise
  <1>4. ASSUME NEW e, NEW k, e = Courant, k = Len(listes)
        PROVE  Avise(d, e, k)'
    BY <1>1, <1>4 DEF Avise
  <1> QED
    BY <1>2, <1>3, <1>4

LEMMA AviserParentInv ==
  ASSUME TypeOKFort, Inv, NEW p \in Parents, AviserParent(p)
  PROVE  Inv'
  <1>t. EnvoiOK /\ BaseOK /\ envoi.etape = "avis"
    BY TypeDecoupe DEF AviserParent
  <1>1. /\ avis' = avis \cup {Avis(p)} /\ envoi' = [envoi EXCEPT !.reste = envoi.reste \ {p}]
        /\ UNCHANGED <<varsForm, listes, bilan, existants, notes, notesIds>>
    BY DEF AviserParent
  <1>2. /\ AvisApresLien'
        /\ \A x, e, k : Avise(x, e, k) => Avise(x, e, k)'
        /\ \A e, k : e = Courant /\ k = Len(listes) => Avise(p, e, k)'
    BY <1>t, <1>1, AvisInv
  <1>3. /\ envoi'.etape = "avis" /\ envoi'.liste = envoi.liste /\ envoi'.note = envoi.note
        /\ envoi'.reste = envoi.reste \ {p} /\ Courant' = Courant
    BY <1>t, <1>1 DEF EnvoiOK, Envois, Courant
  <1>4. LienJuste'
    BY <1>t, <1>1, <1>3 DEF Inv, LienJuste
  <1>5. ASSUME NEW e \in Dans(listes[Len(listes)]), e \in existants
        PROVE  e \in Dans(envoi.liste) \/ AviseEntier(e, Len(listes))'
    <2>1. e \in Dans(envoi.liste) \/ AviseEntier(e, Len(listes))
      BY <1>t, <1>5 DEF Inv, BoucleJuste, Boucle
    <2> QED
      BY <2>1, <1>1, <1>2 DEF AviseEntier
  <1>6. ASSUME NEW q \in ParentsDe[Courant] \ envoi'.reste
        PROVE  Avise(q, Courant, Len(listes))'
    <2>1. CASE q = p
      BY <1>1, <1>2, <1>3, <2>1
    <2>2. CASE q # p
      <3>1. Avise(q, Courant, Len(listes))
        BY <1>t, <1>3, <1>6, <2>2 DEF Inv, BoucleJuste
      <3> QED
        BY <1>1, <1>2, <1>3, <3>1
    <2> QED
      BY <2>1, <2>2
  <1>7. BoucleJuste'
    BY <1>1, <1>3, <1>5, <1>6 DEF BoucleJuste
  <1> QED
    BY <1>2, <1>3, <1>4, <1>7 DEF Inv, SuccesTotal

LEMMA AviserEleveInv ==
  ASSUME TypeOKFort, Inv, AviserEleve
  PROVE  Inv'
  <1>t. /\ FormeOK /\ EnvoiOK /\ BaseOK /\ envoi.etape = "avis" /\ envoi.reste = {}
        /\ envoi.liste \in Seq(Eleves) /\ envoi.liste # <<>> /\ Tail(envoi.liste) \in Seq(Eleves)
    BY TypeDecoupe, ListeEntamee DEF AviserEleve, EnvoiOK, Envois, Boucle
  <1>1. /\ avis' = avis \cup {Avis(Courant)} /\ Suivant(Tail(envoi.liste))
        /\ UNCHANGED <<listes, existants, notes, notesIds>>
    BY DEF AviserEleve
  <1>2. /\ AvisApresLien'
        /\ \A x, e, k : Avise(x, e, k) => Avise(x, e, k)'
        /\ \A e, k : e = Courant /\ k = Len(listes) => \A d : d = Courant => Avise(d, e, k)'
    BY <1>t, <1>1, AvisInv
  \* The parents of the current pupil had been told already.
  <1>3. ASSUME NEW e, e = Courant
        PROVE  AviseEntier(e, Len(listes))'
    <2>1. \A p \in ParentsDe[e] : Avise(p, e, Len(listes))
      BY <1>t, <1>3 DEF Inv, BoucleJuste
    <2> QED
      BY <1>1, <1>2, <1>3, <2>1 DEF AviseEntier
  <1>4. ASSUME NEW e \in Dans(listes[Len(listes)]), e \in existants
        PROVE  e \in Dans(Tail(envoi.liste)) \/ AviseEntier(e, Len(listes))'
    <2>1. e \in Dans(envoi.liste) \/ AviseEntier(e, Len(listes))
      BY <1>t, <1>4 DEF Inv, BoucleJuste, Boucle
    <2>2. CASE AviseEntier(e, Len(listes))
      BY <2>2, <1>1, <1>2 DEF AviseEntier
    <2>3. CASE e \in Dans(envoi.liste)
      BY <1>t, <1>3, <2>3, DansSuite DEF Courant
    <2> QED
      BY <2>1, <2>2, <2>3
  <1>5. ASSUME NEW L, L = Tail(envoi.liste)
        PROVE  Avancee(L)'
    BY <1>1, <1>4, <1>5 DEF Avancee
  <1> QED
    BY <1>t, <1>1, <1>2, <1>5, SuivantInv

LEMMA LireMatiereInv ==
  ASSUME TypeOKFort, Inv, LireMatiere
  PROVE  Inv'
  <1> DEFINE liste == ElevesIds[choix.classe]
  <1>t. /\ FormeOK /\ BaseOK /\ choix.classe \in Classes
        /\ listes # <<>> /\ listes \in Seq(Seq(Eleves)) /\ envoi.etape = "matiere"
    BY TypeDecoupe DEF LireMatiere, EnvoiOK, FormeOK, Choix, BaseOK
  <1>1. liste \in Seq(Eleves)
    BY <1>t, NotesHypotheses
  <1>2. listes' = [listes EXCEPT ![Len(listes)] = liste] /\ Suivant(liste) /\ UNCHANGED varsBase
    BY DEF LireMatiere
  <1> HIDE DEF liste
  <1>3. listes'[Len(listes')] = liste
    <2>1. Len(listes) \in 1..Len(listes)
      BY <1>t, EmptySeq
    <2> QED
      BY <1>t, <1>1, <1>2, <2>1, ExceptSeq
  <1>4. AvisApresLien'
    BY <1>2 DEF Inv, AvisApresLien, varsBase
  <1>5. ASSUME NEW L, L = liste
        PROVE  Avancee(L)'
    BY <1>3, <1>5 DEF Avancee
  <1> QED
    BY <1>t, <1>1, <1>2, <1>4, <1>5, SuivantInv

LEMMA SupprimerEleveInv ==
  ASSUME TypeOKFort, Inv, NEW x \in Eleves, SupprimerEleve(x)
  PROVE  Inv'
  <1>t. BaseOK /\ EnvoiOK
    BY TypeDecoupe
  <1>1. /\ existants' = existants \ {x} /\ notesIds' = [notesIds EXCEPT ![x] = {}]
        /\ UNCHANGED <<varsForm, envoi, listes, bilan, notes, avis>>
    BY DEF SupprimerEleve
  <1>2. \A e \in existants' : e \in existants /\ notesIds'[e] = notesIds[e]
    BY <1>t, <1>1 DEF BaseOK
  <1>3. AvisApresLien'
    BY <1>1, <1>2 DEF Inv, AvisApresLien
  <1>4. SuccesTotal'
    <2>1. \A k : TousAvises(k) => TousAvises(k)'
      BY <1>1, <1>2 DEF TousAvises, Concernes
    <2> QED
      BY <1>1, <2>1 DEF Inv, SuccesTotal
  <1>5. LienJuste'
    BY <1>1, <1>2 DEF Inv, LienJuste, Courant
  <1>6. BoucleJuste'
    BY <1>1, <1>2 DEF Inv, BoucleJuste, AviseEntier, Avise, Courant
  <1> QED
    BY <1>3, <1>4, <1>5, <1>6 DEF Inv

LEMMA InvPas == TypeOKFort /\ Inv /\ [Next]_vars => Inv'
  <1> SUFFICES ASSUME TypeOKFort, Inv, [Next]_vars
               PROVE  Inv'
    OBVIOUS
  <1>1. ASSUME NEW c \in Classes, ChoisirClasse(c) \/ RecevoirEleves(c)
        PROVE  Inv'
    BY <1>1, FormeInv DEF ChoisirClasse, RecevoirEleves
  <1>2. ASSUME NEW m \in Matieres, ChoisirMatiere(m)
        PROVE  Inv'
    BY <1>2, FormeInv DEF ChoisirMatiere
  <1>3. ASSUME NEW t \in Types, ChoisirType(t)
        PROVE  Inv'
    BY <1>3, FormeInv DEF ChoisirType
  <1>4. ASSUME NEW e \in Eleves, NEW t \in Textes, Saisir(e, t)
        PROVE  Inv'
    BY <1>4, FormeInv DEF Saisir
  <1>5. CASE Decrire \/ RemplirTout
    BY <1>5, FormeInv DEF Decrire, RemplirTout
  <1>6. CASE Enregistrer
    <2>1. envoi'.etape = "matiere" /\ UNCHANGED varsBase
      BY <1>6 DEF Enregistrer, EnvoiNul
    <2>2. AvisApresLien'
      BY <2>1 DEF Inv, AvisApresLien, varsBase
    <2> QED
      BY <2>1, <2>2 DEF Inv, SuccesTotal, LienJuste, BoucleJuste, Boucle
  <1>7. CASE LireFamille
    <2>1. /\ envoi' = [envoi EXCEPT !.etape = "avis", !.reste = ParentsDe[Courant]]
          /\ envoi.etape = "famille" /\ UNCHANGED <<varsForm, listes, bilan, varsBase>>
      BY <1>7 DEF LireFamille
    <2>2. /\ envoi'.etape = "avis" /\ envoi'.liste = envoi.liste /\ envoi'.note = envoi.note
          /\ envoi'.reste = ParentsDe[Courant]
      BY <2>1, TypeDecoupe DEF EnvoiOK, Envois
    <2>3. LienJuste'
      BY <2>1, <2>2 DEF Inv, LienJuste, Courant, varsBase
    <2> QED
      BY <2>1, <2>2, <2>3, EnvoiInv DEF Boucle
  <1>8. ASSUME NEW p \in Parents, AviserParent(p)
        PROVE  Inv'
    BY <1>8, AviserParentInv
  <1>9. ASSUME NEW e \in Eleves, SupprimerEleve(e)
        PROVE  Inv'
    BY <1>9, SupprimerEleveInv
  <1>10. CASE Echouer
    BY <1>10, RattraperInv DEF Echouer
  <1>11. CASE UNCHANGED vars
    BY <1>11, FormeInv DEF vars
  <1> QED
    BY <1>1, <1>2, <1>3, <1>4, <1>5, <1>6, <1>7, <1>8, <1>9, <1>10, <1>11, LireMatiereInv, LireEleveInv,
       AjouterNoteInv, LierNoteInv, AviserEleveInv DEF Next, Repondre

(***************************************************************************)
(* Whatever the teacher changes in the form and whoever is deleted while   *)
(* _enregistrerNotes runs, the mark a notification will name is linked     *)
(* before, and the pupils that the loop has left have been told.           *)
(***************************************************************************)
THEOREM Inductif == Spec => []Inv
  BY TypeFort, InvInit, InvPas, PTL DEF Spec

(***************************************************************************)
(* Nobody is told of a mark before it is in the list of the pupil.         *)
(***************************************************************************)
THEOREM AvisApresLienTenu == Spec => []AvisApresLien
  <1>1. Inv => AvisApresLien
    BY DEF Inv
  <1> QED
    BY <1>1, Inductif, PTL

-----------------------------------------------------------------------------
(***************************************************************************)
(* Nobody but the pupils of the list is told or given a mark.              *)
(***************************************************************************)

\* The list of a save is known once the subject has been read, and the loop is
\* over it: what it has stored is about the pupils of it.
Limitee ==
    /\ envoi.etape = "matiere" =>
        /\ \A a \in avis : a.envoi # Len(listes)
        /\ \A n \in DOMAIN notes : notes[n].envoi # Len(listes)
    /\ envoi.etape \in Boucle => Dans(envoi.liste) \subseteq Concernes(Len(listes))
    /\ \A k \in DOMAIN listes : AucunAutre(k)

LEMMA LimiteeInit == Init => Limitee
  BY TypesNuls DEF Init, Limitee, Boucle

\* A step that stores nothing.
LEMMA LimiteeSansEcrire ==
  ASSUME Limitee, UNCHANGED <<listes, notes, avis>>, envoi'.etape # "matiere" \/ envoi' = envoi,
         envoi'.etape \in Boucle => envoi.etape \in Boucle /\ Dans(envoi'.liste) \subseteq Dans(envoi.liste)
  PROVE  Limitee'
  BY DEF Limitee, AucunAutre, Concernes, Boucle

LEMMA DansTete ==
  ASSUME NEW s \in Seq(Eleves), s # <<>>
  PROVE  Head(s) \in Dans(s) /\ Dans(Tail(s)) \subseteq Dans(s)
  <1>1. 1 \in DOMAIN s /\ Head(s) = s[1] /\ Len(s) \in Nat
    BY EmptySeq, LenProperties, HeadTailProperties
  <1>2. ASSUME NEW i \in DOMAIN Tail(s)
        PROVE  i + 1 \in DOMAIN s /\ Tail(s)[i] = s[i + 1]
    BY <1>1, HeadTailProperties, LenProperties
  <1> QED
    BY <1>1, <1>2 DEF Dans

\* The loop goes on with a part of its list, or ends.
LEMMA LimiteeSuivant ==
  ASSUME FormeOK, BaseOK, NEW L \in Seq(Eleves), Suivant(L), Dans(L) \subseteq Concernes(Len(listes))',
         \A k \in DOMAIN listes' : AucunAutre(k)'
  PROVE  Limitee'
  <1>1. \/ envoi'.etape = "eleve" /\ envoi'.liste = L
        \/ envoi'.etape = "repos"
    BY SuivantEffet
  <1> QED
    BY <1>1 DEF Limitee, Boucle, Dans

\* The loop goes on with the pupils after the current one.
LEMMA LimiteeReste ==
  ASSUME FormeOK, BaseOK, Limitee, envoi.etape \in Boucle, UNCHANGED listes,
         Tail(envoi.liste) \in Seq(Eleves), Dans(Tail(envoi.liste)) \subseteq Dans(envoi.liste),
         Suivant(Tail(envoi.liste)), \A k \in DOMAIN listes : AucunAutre(k)'
  PROVE  Limitee'
  <1>1. Dans(Tail(envoi.liste)) \subseteq Concernes(Len(listes))'
    BY DEF Limitee, Concernes
  <1> QED
    BY <1>1, LimiteeSuivant

LEMMA LimiteePas == TypeOKFort /\ Limitee /\ [Next]_vars => Limitee'
  <1> SUFFICES ASSUME TypeOKFort, Limitee, [Next]_vars
               PROVE  Limitee'
    OBVIOUS
  <1>t. FormeOK /\ EnvoiOK /\ BaseOK
    BY TypeDecoupe
  <1>l. envoi.etape \in Boucle =>
          /\ envoi.liste \in Seq(Eleves) /\ envoi.liste # <<>> /\ Tail(envoi.liste) \in Seq(Eleves)
          /\ Courant \in Concernes(Len(listes)) /\ Dans(Tail(envoi.liste)) \subseteq Dans(envoi.liste)
    BY <1>t, ListeEntamee, DansTete DEF EnvoiOK, Envois, Courant, Limitee
  <1>1. CASE UNCHANGED <<envoi, listes, notes, avis>>
    BY <1>1, LimiteeSansEcrire
  <1>2. ASSUME Rattraper, UNCHANGED <<listes, notes, avis>>
        PROVE  Limitee'
    BY <1>2, TypesNuls, LimiteeSansEcrire DEF Rattraper, Boucle
  <1>3. CASE Enregistrer
    <2>1. /\ envoi'.etape = "matiere" /\ listes' = Append(listes, <<>>) /\ UNCHANGED <<notes, avis>>
      BY <1>3 DEF Enregistrer, EnvoiNul, varsBase
    <2>2. listes \in Seq(Seq(Eleves)) /\ <<>> \in Seq(Eleves)
      BY <1>t, EmptySeq DEF BaseOK
    <2>3. /\ Len(listes') = Len(listes) + 1 /\ Len(listes') \notin DOMAIN listes
          /\ DOMAIN listes' = DOMAIN listes \cup {Len(listes')}
          /\ \A k \in DOMAIN listes : listes'[k] = listes[k]
      <3>1. /\ Len(listes') = Len(listes) + 1 /\ listes' \in Seq(Seq(Eleves)) /\ Len(listes) \in Nat
            /\ \A k \in 1..Len(listes) : listes'[k] = listes[k]
        BY <2>1, <2>2, AppendProperties, LenProperties
      <3>2. DOMAIN listes = 1..Len(listes) /\ DOMAIN listes' = 1..(Len(listes) + 1)
        BY <2>2, <3>1, LenProperties
      <3> QED
        BY <3>1, <3>2
    <2>4. /\ \A a \in avis : a.envoi \in DOMAIN listes
          /\ \A n \in DOMAIN notes : notes[n].envoi \in DOMAIN listes
      <3>1. \A n \in DOMAIN notes : notes[n] \in Notees(DOMAIN listes)
        BY <1>t, ElementOfSeq, LenProperties DEF BaseOK
      <3> QED
        BY <1>t, <3>1 DEF BaseOK, Avises, Notees
    <2>5. \A k \in DOMAIN listes' : AucunAutre(k)'
      BY <2>1, <2>3, <2>4 DEF Limitee, AucunAutre, Concernes
    <2> QED
      BY <2>1, <2>3, <2>4, <2>5 DEF Limitee, Boucle
  <1>4. CASE LireMatiere
    <2> DEFINE liste == ElevesIds[choix.classe]
    <2>1. /\ envoi.etape = "matiere" /\ Suivant(liste) /\ UNCHANGED <<notes, avis>>
          /\ listes' = [listes EXCEPT ![Len(listes)] = liste]
      BY <1>4 DEF LireMatiere, varsBase
    <2>2. /\ choix.classe \in Classes /\ listes # <<>> /\ listes \in Seq(Seq(Eleves))
      BY <1>t, <2>1 DEF EnvoiOK, FormeOK, Choix, BaseOK
    <2>3. liste \in Seq(Eleves)
      BY <2>2, NotesHypotheses
    <2> HIDE DEF liste
    <2>4. /\ DOMAIN listes' = DOMAIN listes /\ Len(listes') = Len(listes) /\ listes'[Len(listes)] = liste
          /\ \A k \in DOMAIN listes : k # Len(listes) => listes'[k] = listes[k]
      <3>1. Len(listes) \in 1..Len(listes)
        BY <2>2, EmptySeq
      <3> QED
        BY <2>1, <2>2, <2>3, <3>1, ExceptSeq, LenProperties
    <2>5. \A k \in DOMAIN listes' : AucunAutre(k)'
      BY <2>1, <2>4 DEF Limitee, AucunAutre, Concernes
    <2>6. Dans(liste) \subseteq Concernes(Len(listes))'
      BY <2>4 DEF Dans, Concernes
    <2> QED
      BY <1>t, <2>1, <2>3, <2>5, <2>6, LimiteeSuivant
  <1>5. CASE LireEleve
    <2>1. envoi.etape = "eleve" /\ UNCHANGED <<listes, notes, avis>>
      BY <1>5 DEF LireEleve, varsBase
    <2>2. CASE Suivant(Tail(envoi.liste))
      <3>1. \A k \in DOMAIN listes : AucunAutre(k)'
        BY <2>1 DEF Limitee, AucunAutre, Concernes
      <3> QED
        BY <1>t, <1>l, <2>1, <2>2, <3>1, LimiteeReste DEF Boucle
    <2>3. CASE SansNote \/ AvecNote
      <3>1. envoi'.etape \in {"famille", "note"} /\ envoi'.liste = envoi.liste
        BY <1>t, <2>3 DEF SansNote, AvecNote, Avancer, EnvoiOK, Envois
      <3> QED
        BY <2>1, <3>1, LimiteeSansEcrire DEF Boucle
    <2> QED
      BY <1>2, <1>5, <2>1, <2>2, <2>3 DEF LireEleve, LireTexte
  <1>6. CASE AjouterNote
    <2>1. /\ envoi.etape = "note" /\ UNCHANGED <<listes, avis>>
          /\ envoi' = [envoi EXCEPT !.etape = "lien", !.note = Len(notes')]
      BY <1>6 DEF AjouterNote
    <2>2. envoi'.etape = "lien" /\ envoi'.liste = envoi.liste
      BY <1>t, <2>1 DEF EnvoiOK, Envois
    <2>3. \A i \in DOMAIN notes' :
            \/ i \in DOMAIN notes /\ notes'[i] = notes[i]
            \/ notes'[i].eleve = Courant /\ notes'[i].envoi = Len(listes)
      <3> DEFINE n == [eleve |-> Courant, valeur |-> envoi.texte, type |-> envoi.pour.type,
                       matiere |-> envoi.pour.matiere, envoi |-> Len(listes)]
      <3>1. n \in Notees(DOMAIN listes) /\ n.eleve = Courant /\ n.envoi = Len(listes)
        BY <1>t, <2>1, ListeEntamee DEF EnvoiOK, Envois, Choix, Notees, Boucle
      <3>2. notes' = Append(notes, n)
        BY <1>6 DEF AjouterNote
      <3> HIDE DEF n
      <3>3. /\ Len(notes') = Len(notes) + 1 /\ notes'[Len(notes) + 1] = n /\ Len(notes) \in Nat
            /\ \A i \in 1..Len(notes) : notes'[i] = notes[i]
            /\ DOMAIN notes = 1..Len(notes) /\ DOMAIN notes' = 1..Len(notes')
        BY <1>t, <3>1, <3>2, AppendProperties, LenProperties DEF BaseOK
      <3> QED
        BY <3>1, <3>3
    <2>4. \A k \in DOMAIN listes : AucunAutre(k)'
      BY <1>l, <2>1, <2>3 DEF Limitee, AucunAutre, Concernes, Boucle
    <2> QED
      BY <2>1, <2>2, <2>4 DEF Limitee, Concernes, Boucle
  <1>7. CASE LierNote
    <2>1. CASE Avancer("famille")
      <3>1. envoi.etape = "lien" /\ envoi'.etape = "famille" /\ envoi'.liste = envoi.liste
        BY <1>t, <1>7, <2>1 DEF LierNote, Avancer, EnvoiOK, Envois
      <3> QED
        BY <1>7, <3>1, LimiteeSansEcrire DEF LierNote, Boucle
    <2> QED
      BY <1>2, <1>7, <2>1 DEF LierNote
  <1>8. CASE LireFamille
    <2>1. envoi.etape = "famille" /\ envoi'.etape = "avis" /\ envoi'.liste = envoi.liste
      BY <1>t, <1>8 DEF LireFamille, EnvoiOK, Envois
    <2> QED
      BY <1>8, <2>1, LimiteeSansEcrire DEF LireFamille, varsBase, Boucle
  \* A notification of the current pupil.
  <1>9. ASSUME NEW d, avis' = avis \cup {Avis(d)}, envoi.etape = "avis", UNCHANGED <<listes, notes>>
        PROVE  \A k \in DOMAIN listes : AucunAutre(k)'
    <2>1. Avis(d).eleve = Courant /\ Avis(d).envoi = Len(listes)
      BY DEF Avis
    <2> QED
      BY <1>9, <1>l, <2>1 DEF Limitee, AucunAutre, Concernes, Boucle
  <1>10. ASSUME NEW p \in Parents, AviserParent(p)
         PROVE  Limitee'
    <2>1. /\ envoi.etape = "avis" /\ UNCHANGED <<listes, notes>>
          /\ envoi'.etape = "avis" /\ envoi'.liste = envoi.liste
      BY <1>t, <1>10 DEF AviserParent, EnvoiOK, Envois
    <2>2. \A k \in DOMAIN listes : AucunAutre(k)'
      BY <1>9, <1>10, <2>1 DEF AviserParent
    <2> QED
      BY <2>1, <2>2 DEF Limitee, Concernes, Boucle
  <1>11. CASE AviserEleve
    <2>1. envoi.etape = "avis" /\ UNCHANGED <<listes, notes>> /\ Suivant(Tail(envoi.liste))
      BY <1>11 DEF AviserEleve
    <2>2. \A k \in DOMAIN listes : AucunAutre(k)'
      BY <1>9, <1>11, <2>1 DEF AviserEleve
    <2> QED
      BY <1>t, <1>l, <2>1, <2>2, LimiteeReste DEF Boucle
  <1> QED
    BY <1>1, <1>2, <1>3, <1>4, <1>5, <1>6, <1>7, <1>8, <1>10, <1>11
       DEF Next, Repondre, vars, varsForm, varsBase, ChoisirClasse, ChoisirMatiere, RecevoirEleves, ChoisirType,
           Decrire, Saisir, RemplirTout, Echouer, SupprimerEleve

LEMMA LimiteeTenue == Spec => []Limitee
  BY TypeFort, LimiteeInit, LimiteePas, PTL DEF Spec

(***************************************************************************)
(* The success that the page reports is that of the list it read when it   *)
(* was opened, whoever it shows since: every pupil of that list who still  *)
(* exists, and every parent of his, has been told by that save, and no     *)
(* other pupil has been given a mark or told.                              *)
(***************************************************************************)
THEOREM SuccesCompletTenu == Spec => []SuccesComplet
  <1>1. TypeOKFort /\ Inv /\ Limitee => SuccesComplet
    <2> SUFFICES ASSUME TypeOKFort, Inv, Limitee, bilan = "succes", envoi.etape = "repos", Len(listes) > 0
                 PROVE  TousAvises(Len(listes)) /\ AucunAutre(Len(listes))
      BY DEF SuccesComplet
    <2>1. Len(listes) \in DOMAIN listes
      BY TypeDecoupe, LenProperties DEF BaseOK
    <2> QED
      BY <2>1 DEF Inv, SuccesTotal, Limitee
  <1> QED
    BY <1>1, TypeFort, Inductif, LimiteeTenue, PTL
=============================================================================
