SPECIFICATION Spec
CONSTANTS
    x = x
    X = X
    y = y
    z = z
    w = w
    Blank = Blank
    Missing = Missing
    Inputs <- MixedInputs
    Metadata <- MixedMetadata
    Replies <- MixedReplies
    HyperReplies <- MixedHyperReplies
    MinConfidence = 1
    MinMembers = 3
    Lower <- MCNormal
    Normal <- MCNormal
    Corpus <- MCCorpus
    Wikilinks <- MixedLinks
    Full = 2
    Builds = {b1, b2}
    MaxBuilds = 3
    Limit = 3
    None = None
INVARIANTS GraphTypeOK ProvenanceConsistent GroundedInSource BuiltIsThere
           EarlyChunksFound
PROPERTIES OnlyRacesForget
SYMMETRY Symmetry
CHECK_DEADLOCK FALSE
