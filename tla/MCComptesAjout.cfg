\* Two registrations in one class.
CONSTANTS
    Agents = {a1, a2}
    Eleves = {e1, e2}
    Parents = {p1}
    Enseignants = {}
    Administrateurs = {}
    SuperAdmins = {}
    Classes = {c1}
    Aucun = Aucun
SPECIFICATION Spec
SYMMETRY Symetrie
PROPERTY AjouterSansRetirer
