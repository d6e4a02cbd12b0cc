SPECIFICATION VersionSpec
CONSTANTS
    Jobs = {j1, j2}
    Workers = {w1}
    Unreliable = {}
    Requests = {}
    MaxAttempts = 2
    MaxEnqueues = 2
    NoJob = NoJob
    Original = Original
    Acks = {}
    LoadMayFail = TRUE
    IndexMayFail = TRUE
    None = None
INVARIANTS IndexedVersionKept
CHECK_DEADLOCK FALSE
