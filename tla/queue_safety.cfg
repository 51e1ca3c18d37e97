SPECIFICATION Spec

CONSTANTS
    t1 = t1
    Keywords = {k1}
    Timeframes = {t1, t2}
    Gprops = {g1}
    DefaultTimeframes = {t1, t2}
    DefaultGprops = {g1}
    Cron = {c1}
    CronTimeframes <- MCCronTimeframes
    Web = {h1}
    Workers = {w1, w2}
    MaxAttempts = 1
    MaxJobs = 2
    MaxInterruptions = 1
    NULL = NULL

SYMMETRY Symmetry

INVARIANTS
    TypeOK
    WorkerOwnsJob
    OneWorker
    AttemptsBounded

PROPERTIES
    TerminalIsFinal
    StartsMonitored
