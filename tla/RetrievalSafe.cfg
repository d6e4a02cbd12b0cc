SPECIFICATION Spec
CONSTANTS
    d1 = d1
    d2 = d2
    w1 = w1
    Docs = {d1, d2}
    NoWorkspace = NoWorkspace
    Everything = Everything
    None = None
    Home <- MCHome
    Tokens <- MCTokens
    Similarity <- MCSimilarity
    Boost <- MCBoost
    Limits = {1, 2}
    Overfetch = 3
    VectorCap = 4
    Lengths = {1, 2}
    MaxSearch = 1
    MaxChat = 2
    MaxAttempts = 2
    MaxBatches = 3
    Failing = TRUE
INVARIANTS
    ServedIsReadable
    AnswerMatchesCitations
PROPERTIES
    StaleMargin
    CitationsNameTheirVersion
CHECK_DEADLOCK FALSE
