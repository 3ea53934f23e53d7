SPECIFICATION Spec
CONSTANTS
    TARGET_TOKENS = 4
    OVERLAP_TOKENS = 2
    MIN_CHUNK_TOKENS = 2
    MaxLines = 6
    Lines <- const_Lines
INVARIANTS
    TypeOK
    ChunksAreTheDocument
    CitesItsSection
    RowsKeepTheirHeader
    OnlyUncuttableExceedsTarget
CHECK_DEADLOCK FALSE
