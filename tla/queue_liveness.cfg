SPECIFICATION FairSpec

CONSTANTS
    t1 = t1
    Keywords = {k1, k2}
    Timeframes = {t1}
    Gprops = {g1}
    DefaultTimeframes = {t1}
    DefaultGprops = {g1}
    Cron = {}
    CronTimeframes <- MCCronTimeframes
    Web = {h1}
    Workers = {w1}
    MaxAttempts = 1
    MaxJobs = 2
    MaxInterruptions = 1
    NULL = NULL

PROPERTIES
    RunningEnds
    QueuedSettles
