\* One browser used in turn by three people, one of them without a home
\* page, and one to be registered; administrators elsewhere delete people
\* and roles at any time. No symmetry: liveness.
CONSTANTS
    dir = dir
    adm = adm
    elv = elv
    bib = bib
    Postes = {p1}
    Personnes = {dir, adm, bib}
    Inscrits = {dir, bib}
    RoleDe <- MCRoles
    MaxFiches = 1
    Aucun = Aucun
SPECIFICATION SpecEquitable
INVARIANTS
    TypeOK
    RouteDuRole
PROPERTIES
    ConnexionAboutit
