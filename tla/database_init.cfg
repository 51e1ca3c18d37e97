SPECIFICATION FairSpec
CONSTANTS
    Boot = boot
    Jobs = {j1, j2}
    Writers = {w1}
    Tables = {alerts}
    category = category
    severity = severity
    ColumnsOf <- MCColumnsOf
    Old = old
    MaxFiles = 4
    MaxClock = 1
    MaxFaults = 2
    None = None
INVARIANTS TypeOK RowsKept NoHalfMigrated
PROPERTIES Recovers
