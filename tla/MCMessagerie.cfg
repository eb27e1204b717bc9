\* One teacher, two families, one message: three interleaved clients, each
\* with up to two writes of its user and one batch on their way.
SPECIFICATION Spec
CONSTANTS
    Enseignants = {e1}
    Familles = {p1, p2}
    Ids = {m1}
    MaxEnVol = 2
    Aucun = Aucun
SYMMETRY Symetrie
INVARIANTS
    TypeOK
    Confidentialite
PROPERTIES
    SuppressionParEmetteur
    LuMonotone
    VieDesMessages
