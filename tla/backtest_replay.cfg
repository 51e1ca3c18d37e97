\* A replay ends.
CHECK_DEADLOCK FALSE

SPECIFICATION Spec

CONSTANTS
    SeriesSet <- MCSeries
    Hours <- MCHours
    P1Hours = 2
    P2Hours = 30
    Lengths = {8, 10, 15, 24, 25}
    Bases = {0, 10, 60}
    Values = {0, 10, 25, 60, 100}

INVARIANTS
    TypeOK
    ReplayAgrees
    FlatIsQuiet
    JumpReported
    NoContradiction
