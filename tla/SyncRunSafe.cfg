SPECIFICATION SyncFairSpec
CONSTANTS
    Jobs = {j1, j2}
    Workers = {w1, w2}
    Unreliable = {}
    Requests = {r1}
    MaxAttempts = 2
    MaxEnqueues = 3
    NoJob = NoJob
    Runs = {s1}
    NoRun = NoRun
    MaxPages = 2
    ApiMayDie = TRUE
INVARIANTS SyncTypeOK UploadsUndisturbed
PROPERTIES CleanupStopsRun PagesOutliveAllButFailure EveryRunEnds
CHECK_DEADLOCK FALSE
