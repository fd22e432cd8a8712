\* Pages of one row while blocks come and go; up to five _ids.
SPECIFICATION Spec
CONSTANTS
    Blocks   <- MCBlocks
    NoBlock  = "none"
    ParentOf <- MCParentOf
    HeightOf <- MCHeightOf
    Tables   = {"t"}
    Matched  <- MCMatched
    Table    = "t"
    Limit    = 1
    Amounts  <- MCAmounts
    Wheres   <- MCWheres
    MaxRows  = 5
INVARIANTS
    AscendingInOrder
    AscendingMissesAsTaken
    DescendingMissesNothing
    FiltersSplit
CHECK_DEADLOCK FALSE
