\* With its last keyword deleted the system has nothing left to do.
CHECK_DEADLOCK FALSE

SPECIFICATION Spec

CONSTANTS
    Keywords = {k1}
    Timeframes = {t1}
    Gprops = {g1, g2}
    Reports <- MCReports
    P1Hours = 1
    P2Hours = 0
    MaxDate = 2
    MaxTime = 3

SYMMETRY Symmetry

INVARIANTS
    TypeOK
    CooldownRespected
    NotifiedOnce
    NotifiedUnlessInterrupted
