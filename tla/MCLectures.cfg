\* Two readers of a homework and an announcement, one update in flight each.
\* No symmetry: liveness.
CONSTANTS
    Lecteurs = {u1, u2}
    Devoirs = {d1}
    Annonces = {a1}
    Aucun = Aucun
    MaxEnVol = 1
SPECIFICATION SpecEquitable
INVARIANTS
    TypeOK
    LecteursReels
PROPERTIES
    AnnoncesTenues
    CompteurVide
