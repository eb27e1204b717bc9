\* Every command line of two arguments of two code units, then every
\* interleaving of the thread, the engine, the user and the settings. Five
\* bits stand for the 32 of an unsigned int; max_size() is below them on a
\* 32 bit build, above on a 64 bit one.
CONSTANTS
    ThemeAuDepart = "clair"
    Largeur = 5
    TaillesMax = {15, 1023}
    ArgumentsMax = 2
    UnitesMax = 2
SPECIFICATION SpecProcessus
INVARIANTS
    TypeOKProcessus
    ConversionExacte
    MoteurDansFenetre
    ThemeSuivi
    SansInstance
PROPERTIES
    DemarrageAboutit
    FinPropre
