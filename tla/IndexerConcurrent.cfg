\* Two threads side by side: two rivals above a block, one block announced twice,
\* a retry that comes late, an operation that fails, a stop.
SPECIFICATION FairSpec
CONSTANTS
    Blocks   <- RivalBlocks
    NoBlock  = "none"
    ParentOf <- RivalParentOf
    HeightOf <- RivalHeightOf
    Tables   = {"t", "u"}
    Matched  <- RivalMatched
    Threads  = {"w1", "w2"}
    KeepBlocks = 0
    PruneEvery = 2
    ReplayForks = FALSE
    LateRetries = TRUE
    ForkDepth = 9
    MaxDeliveries = 2
    MaxRepeated = 1
    MaxFaults = 1
    MaxStops = 1
INVARIANTS
    TypeOK
    CopiesBounded
    OrphansLieDeep
    FeedMatchesCommits
PROPERTIES
    Drains
CHECK_DEADLOCK FALSE
