\* Three pages, four files.
CONSTANTS
    Pages = {p1, p2, p3}
    MaxFichiers = 4
    Aucun = Aucun
SPECIFICATION Spec
INVARIANTS
    TypeOK
    UnSeulRemplace
PROPERTIES
    PerduePourToujours
