SPECIFICATION Spec

CONSTANTS
    t1 = t1
    Keywords = {k1}
    Timeframes = {t1}
    Gprops = {g1}
    DefaultTimeframes = {t1}
    DefaultGprops = {g1}
    Cron = {}
    CronTimeframes <- MCCronTimeframes
    Web = {h1}
    Workers = {w1, w2}
    MaxAttempts = 1
    MaxJobs = 1
    MaxInterruptions = 1
    NULL = NULL

SYMMETRY Symmetry

INVARIANTS
    AttemptsWithinMax
