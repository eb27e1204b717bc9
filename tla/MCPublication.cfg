\* Three pupils read by lots of two, a parent, two administrators who link
\* at the same time, two homework.
CONSTANTS
    Agents = {a1, a2}
    Parents = {p1}
    Eleves = {e1, e2, e3}
    Aucun = Aucun
    Fichier = TRUE
    TailleLot = 2
    LimiteWhereIn = 2
    MaxDevoirs = 2
SPECIFICATION Spec
SYMMETRY Symetrie
INVARIANTS
    TypeOK
    LiensBornes
    ParentsDuDevoir
