\* The store alone: two competing blocks above a common parent, two tables.
SPECIFICATION MCSpec
CONSTANTS
    Blocks   <- MCBlocks
    NoBlock  = "none"
    ParentOf <- MCParentOf
    HeightOf <- MCHeightOf
    Tables   = {"mints", "swaps"}
    Matched  <- MCMatched
    MaxRows  = 5
INVARIANTS
    RowIdsUnique
    JournalSound
    RowsJournaled
    NoOrphans
    StoredComplete
    RowsPerState
PROPERTIES
    RowsLeaveWithTheirBlock
CHECK_DEADLOCK FALSE
