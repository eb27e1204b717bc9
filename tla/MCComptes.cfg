\* A pupil, a teacher and a super administrator (whose chains differ in the
\* order of their calls) and two classes: any two chains on the same person,
\* the same class or the same list interleave. Without a class left nobody
\* can be registered, and the ids of Classes run out: the instance may stop.
CONSTANTS
    Agents = {a1, a2}
    Eleves = {e1}
    Parents = {}
    Enseignants = {en1}
    Administrateurs = {}
    SuperAdmins = {s1}
    Classes = {c1, c2}
    Aucun = Aucun
SPECIFICATION Spec
SYMMETRY Symetrie
INVARIANTS
    TypeOK
    UneSeuleClasse
    SansOrphelin
    PasDeRetour
    OrphelinSupprime
PROPERTY CompteBrule
CHECK_DEADLOCK FALSE
