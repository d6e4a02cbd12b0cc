SPECIFICATION FairSpec
CONSTANTS
    Jobs = {j1, j2}
    Workers = {w1, w2}
    Unreliable = {w1, w2}
    Requests = {r1}
    MaxAttempts = 2
    MaxEnqueues = 4
    NoJob = NoJob
INVARIANTS TypeOK ExclusiveWork AttemptBudget DocumentsMatchStatus
PROPERTIES NoOvertaking ImplementsPromise
           JobsSettleUnlessOrphaned
CHECK_DEADLOCK FALSE
