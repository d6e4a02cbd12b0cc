SPECIFICATION VersionSpec
CONSTANTS
    Jobs = {j1, j2}
    Workers = {w1}
    Unreliable = {w1}
    Requests = {r1}
    MaxAttempts = 2
    MaxEnqueues = 2
    NoJob = NoJob
    Original = Original
    Acks = {a1}
    LoadMayFail = TRUE
    IndexMayFail = TRUE
    None = None
INVARIANTS VersionTypeOK HistoryIsLinear ChunksNotSuperseded
PROPERTIES OnlyUnwrittenRollbackForgets
CHECK_DEADLOCK FALSE
