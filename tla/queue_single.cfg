SPECIFICATION Spec

CONSTANTS
    t1 = t1
    Keywords = {k1}
    Timeframes = {t1}
    Gprops = {g1, g2}
    DefaultTimeframes = {t1}
    DefaultGprops = {g1}
    Cron = {}
    CronTimeframes <- MCCronTimeframes
    Web = {h1}
    Workers = {w1, w2}
    MaxAttempts = 2
    MaxJobs = 2
    MaxInterruptions = 2
    NULL = NULL

SYMMETRY Symmetry

INVARIANTS
    NoDuplicateJobs

PROPERTIES
    ImplementsService
