SPECIFICATION Spec
CONSTANTS
    Jobs = {j1}
    Workers = {w1, w2}
    Unreliable = {}
    Requests = {r1, r2}
    MaxAttempts = 2
    MaxEnqueues = 3
    NoJob = NoJob
INVARIANTS AttemptsBounded
CHECK_DEADLOCK FALSE
