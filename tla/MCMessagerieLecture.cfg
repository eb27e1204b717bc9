\* Two messages: a batch may hold one that is deleted before it is served.
SPECIFICATION SpecLecture
CONSTANTS
    Enseignants = {e1}
    Familles = {p1}
    Ids = {m1, m2}
    MaxEnVol = 1
    Aucun = Aucun
PROPERTY LectureFinale
