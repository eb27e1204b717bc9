------------------------------- MODULE Notes -------------------------------
(***************************************************************************)
(* The marks of a class (lib/modules/enseignant/vues/note.dart): the form, *)
(* _enregistrerNotes with its loop over the pupils, and an administrator   *)
(* who deletes pupils meanwhile.                                           *)
(*                                                                         *)
(* The loop awaits several calls for each pupil and reads the marks, the   *)
(* subject and the type from the form again after each: the fields and the *)
(* chips stay enabled while it runs, only its own button does not.         *)
(*                                                                         *)
(* The text of a mark is one of four: "vide", "bonne" (a number between 0  *)
(* and 20), "hors" (another number) and "illisible". _chargerMatieres is   *)
(* that of the roll call, where its late answers are modelled: here every  *)
(* subject of the teacher may be shown.                                    *)
(***************************************************************************)
EXTENDS Naturals, Sequences, FiniteSets

CONSTANTS
    Classes, Eleves, Matieres, Parents,
    Types,          \* typesNotes
    Exercice,       \* the type that requires a description
    ElevesIds,      \* ElevesIds[c]: the list of c that the page read when it was opened
    ParentsDe,      \* ParentsDe[e]: the parents linked to e
    Aucun,          \* null
    MaxEnvois       \* bound: taps on "Enregistrer"

ASSUME NotesHypotheses ==
    /\ ElevesIds \in [Classes -> Seq(Eleves)]
    /\ ParentsDe \in [Eleves -> SUBSET Parents]
    /\ MaxEnvois \in Nat
    /\ Aucun \notin Classes \cup Matieres \cup Types \cup Parents \cup Nat

VARIABLES
    choix,          \* classeChoisieId, matiereChoisieId, typeNote
    decrite,        \* descriptionExercice is not blank
    affiches,       \* eleves: the pupils shown, with a field each
    notesStr,       \* notesStr[e]: the text typed for e
    demandes,       \* classes whose pupils _chargerEleves is loading
    envoi,          \* the call _enregistrerNotes awaits, and its variables
    listes,         \* listes[k]: the pupils the kth save is about (history)
    bilan,          \* what the last save reported
    existants,      \* documents of "eleves"
    notes,          \* collection "notes", in order of adding
    notesIds,       \* notesIds[e]: field of the document of e
    avis            \* notifications of type "note"

varsForm == <<choix, decrite, affiches, notesStr, demandes>>
varsBase == <<existants, notes, notesIds, avis>>
vars == <<varsForm, envoi, listes, bilan, varsBase>>

Textes == {"vide", "bonne", "hors", "illisible"}
Vierge == [e \in Eleves |-> "vide"]
RienChoisi == [classe |-> Aucun, matiere |-> Aucun, type |-> Aucun]
EnvoiNul == [etape |-> "repos", liste |-> <<>>, texte |-> "vide", pour |-> RienChoisi,
             note |-> Aucun, reste |-> {}]

Init ==
    /\ choix = RienChoisi /\ decrite = FALSE /\ affiches = {} /\ notesStr = Vierge /\ demandes = {}
    /\ envoi = EnvoiNul /\ listes = <<>> /\ bilan = "rien"
    /\ existants = Eleves
    /\ notes = <<>> /\ notesIds = [e \in Eleves |-> {}] /\ avis = {}

-----------------------------------------------------------------------------
(***************************************************************************)
(* The form.                                                               *)
(***************************************************************************)
ChoisirClasse(c) ==
    /\ choix.classe # c
    /\ choix' = [classe |-> c, matiere |-> Aucun, type |-> Aucun]
    /\ decrite' = FALSE /\ affiches' = {} /\ notesStr' = Vierge
    /\ UNCHANGED <<demandes, envoi, listes, bilan, varsBase>>

ChoisirMatiere(m) ==
    /\ choix.classe # Aucun /\ choix.matiere # m
    /\ choix' = [choix EXCEPT !.matiere = m, !.type = Aucun]
    /\ decrite' = FALSE /\ affiches' = {} /\ notesStr' = Vierge
    /\ demandes' = demandes \cup {choix.classe}
    /\ UNCHANGED <<envoi, listes, bilan, varsBase>>

\* The answers to _chargerEleves(c), which reads the class again. Since the
\* page was opened, administrators may have enrolled pupils in the class or
\* rewritten its list, and a pupil whose user is gone is left out: any pupils
\* may be shown, and not those of ElevesIds[c], as long as they exist.
RecevoirEleves(c) ==
    /\ c \in demandes
    /\ demandes' = demandes \ {c}
    /\ affiches' \in SUBSET existants
    /\ decrite' = FALSE /\ notesStr' = Vierge
    /\ UNCHANGED <<choix, envoi, listes, bilan, varsBase>>

ChoisirType(t) ==
    /\ choix.type # t
    /\ choix' = [choix EXCEPT !.type = t]
    /\ decrite' = FALSE /\ notesStr' = Vierge
    /\ UNCHANGED <<affiches, demandes, envoi, listes, bilan, varsBase>>

Decrire ==
    /\ choix.type = Exercice
    /\ decrite' = ~decrite
    /\ UNCHANGED <<choix, affiches, notesStr, demandes, envoi, listes, bilan, varsBase>>

\* A field of the list.
Saisir(e, t) ==
    /\ e \in affiches /\ notesStr[e] # t
    /\ notesStr' = [notesStr EXCEPT ![e] = t]
    /\ UNCHANGED <<choix, decrite, affiches, demandes, envoi, listes, bilan, varsBase>>

\* "Remplir notes max" and "Effacer toutes les notes".
RemplirTout ==
    /\ affiches # {}
    /\ notesStr' \in {[e \in Eleves |-> IF e \in affiches THEN "bonne" ELSE notesStr[e]], Vierge}
    /\ UNCHANGED <<choix, decrite, affiches, demandes, envoi, listes, bilan, varsBase>>

-----------------------------------------------------------------------------
(***************************************************************************)
(* _enregistrerNotes: the tap, then the answer of each call it awaits.     *)
(***************************************************************************)
Enregistrer ==
    /\ envoi.etape = "repos" /\ Len(listes) < MaxEnvois
    /\ Aucun \notin {choix.classe, choix.matiere, choix.type}
    /\ choix.type = Exercice => decrite
    /\ \A e \in Eleves : notesStr[e] \in {"vide", "bonne"}
    /\ envoi' = [EnvoiNul EXCEPT !.etape = "matiere"]
    /\ listes' = Append(listes, <<>>)
    /\ UNCHANGED <<varsForm, bilan, varsBase>>

\* The next pupil of the list, or the end: the form is cleared.
Suivant(liste) ==
    IF liste # <<>>
      THEN /\ envoi' = [EnvoiNul EXCEPT !.etape = "eleve", !.liste = liste]
           /\ UNCHANGED <<varsForm, bilan>>
      ELSE /\ envoi' = EnvoiNul /\ bilan' = "succes"
           /\ choix' = RienChoisi /\ decrite' = FALSE
           /\ affiches' = {} /\ notesStr' = Vierge
           /\ UNCHANGED demandes

\* The subject has been read: the loop is over the class chosen now. "listes"
\* remembers the list for what the report says.
LireMatiere ==
    /\ envoi.etape = "matiere"
    /\ Suivant(ElevesIds[choix.classe])
    /\ listes' = [listes EXCEPT ![Len(listes)] = ElevesIds[choix.classe]]
    /\ UNCHANGED varsBase

\* What the catch and the finally do.
Rattraper ==
    /\ envoi' = EnvoiNul /\ bilan' = "erreur"
    /\ UNCHANGED varsForm

Courant == Head(envoi.liste)

Avancer(etape) == envoi' = [envoi EXCEPT !.etape = etape] /\ UNCHANGED <<varsForm, bilan>>

\* The text of the current pupil, read from the form: no mark, or a mark
\* with the type and the subject chosen now.
SansNote == notesStr[Courant] = "vide" /\ Avancer("famille")

AvecNote ==
    /\ notesStr[Courant] \in {"bonne", "hors"}
    /\ envoi' = [envoi EXCEPT !.etape = "note", !.texte = notesStr[Courant], !.pour = choix]
    /\ UNCHANGED <<varsForm, bilan>>

\* typeNote! and matiereChoisieId!, which a chip may have just reset.
ChoixComplet == Aucun \notin {choix.type, choix.matiere}

\* Variant: the subject and the type of a mark may be null.
LireTexteSansTest == SansNote \/ AvecNote \/ (notesStr[Courant] = "illisible" /\ Rattraper)

\* double.parse throws too.
LireTexte ==
    \/ SansNote
    \/ ChoixComplet /\ AvecNote
    \/ /\ \/ notesStr[Courant] = "illisible"
          \/ notesStr[Courant] # "vide" /\ ~ChoixComplet
       /\ Rattraper

\* Variant: a missing pupil ends the loop.
LireEleveOuArreter ==
    /\ envoi.etape = "eleve"
    /\ \/ Courant \notin existants /\ Suivant(<<>>)
       \/ Courant \in existants /\ LireTexte
    /\ UNCHANGED <<listes, varsBase>>

\* The documents of the pupil and of the user have been read.
LireEleve ==
    /\ envoi.etape = "eleve"
    /\ \/ Courant \notin existants /\ Suivant(Tail(envoi.liste))
       \/ Courant \in existants /\ LireTexte
    /\ UNCHANGED <<listes, varsBase>>

\* Variant: the document of the pupil is not updated.
AjouterNoteSansLien ==
    /\ envoi.etape = "note"
    /\ notes' = Append(notes, [eleve |-> Courant, valeur |-> envoi.texte, type |-> envoi.pour.type,
                               matiere |-> envoi.pour.matiere, envoi |-> Len(listes)])
    /\ envoi' = [envoi EXCEPT !.etape = "famille", !.note = Len(notes')]
    /\ UNCHANGED <<varsForm, listes, bilan, existants, notesIds, avis>>

AjouterNote ==
    /\ envoi.etape = "note"
    /\ notes' = Append(notes, [eleve |-> Courant, valeur |-> envoi.texte, type |-> envoi.pour.type,
                               matiere |-> envoi.pour.matiere, envoi |-> Len(listes)])
    /\ envoi' = [envoi EXCEPT !.etape = "lien", !.note = Len(notes')]
    /\ UNCHANGED <<varsForm, listes, bilan, existants, notesIds, avis>>

\* arrayUnion on the document of the pupil, which may be gone by now.
LierNote ==
    /\ envoi.etape = "lien"
    /\ \/ /\ Courant \in existants
          /\ notesIds' = [notesIds EXCEPT ![Courant] = @ \cup {envoi.note}]
          /\ Avancer("famille")
       \/ Courant \notin existants /\ Rattraper /\ UNCHANGED notesIds
    /\ UNCHANGED <<listes, existants, notes, avis>>

LireFamille ==
    /\ envoi.etape = "famille"
    /\ envoi' = [envoi EXCEPT !.etape = "avis", !.reste = ParentsDe[Courant]]
    /\ UNCHANGED <<varsForm, listes, bilan, varsBase>>

Avis(dest) == [dest |-> dest, eleve |-> Courant, note |-> envoi.note, envoi |-> Len(listes)]

AviserParent(p) ==
    /\ envoi.etape = "avis" /\ p \in envoi.reste
    /\ avis' = avis \cup {Avis(p)}
    /\ envoi' = [envoi EXCEPT !.reste = @ \ {p}]
    /\ UNCHANGED <<varsForm, listes, bilan, existants, notes, notesIds>>

AviserEleve ==
    /\ envoi.etape = "avis" /\ envoi.reste = {}
    /\ avis' = avis \cup {Avis(Courant)}
    /\ Suivant(Tail(envoi.liste))
    /\ UNCHANGED <<listes, existants, notes, notesIds>>

\* Variant: no finally.
EchouerSansFinally ==
    /\ envoi.etape \notin {"repos", "bloque"}
    /\ envoi' = [envoi EXCEPT !.etape = "bloque"] /\ bilan' = "erreur"
    /\ UNCHANGED <<varsForm, listes, varsBase>>

\* The call awaited throws.
Echouer ==
    /\ envoi.etape # "repos"
    /\ Rattraper
    /\ UNCHANGED <<listes, varsBase>>

\* The page "eleves" of an administrator.
SupprimerEleve(e) ==
    /\ e \in existants
    /\ existants' = existants \ {e}
    /\ notesIds' = [notesIds EXCEPT ![e] = {}]
    /\ UNCHANGED <<varsForm, envoi, listes, bilan, notes, avis>>

-----------------------------------------------------------------------------
Repondre ==
    \/ LireMatiere \/ LireEleve \/ AjouterNote \/ LierNote \/ LireFamille
    \/ \E p \in Parents : AviserParent(p)
    \/ AviserEleve
    \/ Echouer

Next ==
    \/ \E c \in Classes : ChoisirClasse(c) \/ RecevoirEleves(c)
    \/ \E m \in Matieres : ChoisirMatiere(m)
    \/ \E t \in Types : ChoisirType(t)
    \/ Decrire
    \/ \E e \in Eleves, t \in Textes : Saisir(e, t)
    \/ RemplirTout
    \/ Enregistrer
    \/ Repondre
    \/ \E e \in Eleves : SupprimerEleve(e)

Spec == Init /\ [][Next]_vars

\* Every call is answered or throws.
SpecEquitable == Spec /\ WF_vars(Repondre)

-----------------------------------------------------------------------------
Choix == [classe : Classes \cup {Aucun}, matiere : Matieres \cup {Aucun}, type : Types \cup {Aucun}]

(***************************************************************************)
(* Type invariant of the form, of the save and of the collections.         *)
(***************************************************************************)
TypeOK ==
    /\ choix \in Choix /\ decrite \in BOOLEAN
    /\ affiches \subseteq Eleves /\ notesStr \in [Eleves -> Textes] /\ demandes \subseteq Classes
    /\ envoi \in [etape : {"repos", "matiere", "eleve", "note", "lien", "famille", "avis"},
                  liste : Seq(Eleves), texte : Textes, pour : Choix,
                  note : DOMAIN notes \cup {Aucun}, reste : SUBSET Parents]
    /\ envoi.etape \in {"eleve", "note", "lien", "famille", "avis"} => envoi.liste # <<>>
    /\ listes \in Seq(Seq(Eleves))
    /\ bilan \in {"rien", "succes", "erreur"}
    /\ existants \subseteq Eleves
    /\ notes \in Seq([eleve : Eleves, valeur : {"bonne", "hors"}, type : Types,
                      matiere : Matieres, envoi : DOMAIN listes])
    /\ notesIds \in [Eleves -> SUBSET DOMAIN notes]
    /\ avis \subseteq [dest : Parents \cup Eleves, eleve : Eleves,
                       note : DOMAIN notes \cup {Aucun}, envoi : DOMAIN listes]

(***************************************************************************)
(* A parent or a pupil who is told of a mark finds it in the list of the   *)
(* pupil, as long as the pupil exists: whatever fails, and whoever is      *)
(* deleted while the loop runs, nobody is told before the update.          *)
(***************************************************************************)
AvisApresLien ==
    \A a \in avis : a.note # Aucun /\ a.eleve \in existants =>
        a.note \in notesIds[a.eleve] /\ notes[a.note].eleve = a.eleve

\* The pupils that the kth save is about, whoever is shown.
Concernes(k) == {listes[k][i] : i \in DOMAIN listes[k]}

TousAvises(k) ==
    \A e \in Concernes(k) \cap existants : \A d \in ParentsDe[e] \cup {e} :
        \E a \in avis : a.dest = d /\ a.eleve = e /\ a.envoi = k

AucunAutre(k) ==
    /\ \A a \in avis : a.envoi = k => a.eleve \in Concernes(k)
    /\ \A n \in DOMAIN notes : notes[n].envoi = k => notes[n].eleve \in Concernes(k)

(***************************************************************************)
(* "Notes et notifications enregistrées avec succès." is shown only once   *)
(* every pupil of the list that the page read when it was opened, shown or *)
(* not, who still exists, and every parent of his, has been told, with or  *)
(* without a mark. This is not every pupil shown: one enrolled since then  *)
(* may be, but the mark typed for him is not stored and nobody is told.    *)
(***************************************************************************)
SuccesComplet ==
    LET k == Len(listes) IN
    bilan = "succes" /\ envoi.etape = "repos" /\ k > 0 => TousAvises(k) /\ AucunAutre(k)

(***************************************************************************)
(* Every save ends and enables the button again: the finally runs whatever *)
(* throws in the loop.                                                     *)
(***************************************************************************)
BoutonRendu == envoi.etape # "repos" ~> envoi.etape = "repos"
=============================================================================
