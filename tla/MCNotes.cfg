\* A class of two pupils and an empty one, one subject, the type of mark that
\* requires a description, one save. No symmetry:
\* liveness.
CONSTANTS
    c1 = c1
    c2 = c2
    e1 = e1
    e2 = e2
    p1 = p1
    Aucun = Aucun
    Classes <- DeuxClasses
    Eleves = {e1, e2}
    Parents = {p1}
    Matieres = {m1}
    Types = {exercice}
    Exercice = exercice
    ElevesIds <- ElevesDesClasses
    ParentsDe <- UnParent
    MaxEnvois = 1
SPECIFICATION SpecEquitable
INVARIANTS
    TypeOK
    AvisApresLien
    SuccesComplet
PROPERTIES
    BoutonRendu
