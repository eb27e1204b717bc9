\* An administrator, alone, who registers a pupil; no other form is open.
CONSTANTS
    dir = dir
    adm = adm
    elv = elv
    bib = bib
    Postes = {p1}
    Personnes = {adm, elv}
    Inscrits = {adm}
    RoleDe <- MCRoles
    MaxFiches = 0
    Aucun = Aucun
SPECIFICATION Spec
INVARIANTS
    EnLigneEstConnecte
