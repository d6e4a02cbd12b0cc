SPECIFICATION ChunkerSpec
CONSTANTS
    MaxChars = 6
    Overlap = 2
    LineKinds <- MCLineKinds
    MaxLines = 5
INVARIANTS
    ChunksCoverText
    ChunksUnderTheirHeadings
CHECK_DEADLOCK FALSE
