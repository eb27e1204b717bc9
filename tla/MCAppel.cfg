\* Two classes, one parent of all the pupils, one administrator who links,
\* one roll. whereIn takes two values: three absent pupils are too many.
CONSTANTS
    c1 = c1
    c2 = c2
    m1 = m1
    e1 = e1
    e2 = e2
    e3 = e3
    e4 = e4
    Aucun = Aucun
    Agents = {a1}
    Parents = {p1}
    Eleves = {e1, e2, e3, e4}
    Classes <- DeuxClasses
    Matieres = {m1}
    MatieresDe <- MatieresDesDeux
    InscritsDe <- InscritsDesDeux
    LimiteWhereIn = 2
    MaxDemandes = 1
    MaxAppels = 1
SPECIFICATION Spec
SYMMETRY Symetrie
INVARIANTS
    TypeOK
    AppelHomogene
    AvisJustifie
PROPERTIES
    AvisEnUnPas
