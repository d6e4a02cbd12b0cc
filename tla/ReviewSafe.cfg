SPECIFICATION Spec
CONSTANTS
    c1 = c1
    c2 = c2
    c3 = c3
    VersionChunks <- TwoVersions
    Low <- LowOfTwo
    Reviewers = {r1}
    Fragile = {c3}
    None = None
INVARIANTS ReviewTypeOK OnlyAcceptedIsIndexed SturdyIsIndexed
PROPERTIES DecisionIsFinal PublishedStays BuildsTakeReviewed
CHECK_DEADLOCK FALSE
