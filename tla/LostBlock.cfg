\* Two threads, a chain without forks, nothing fails and nothing is delivered twice.
SPECIFICATION Spec
CONSTANTS
    Blocks   <- LineBlocks
    NoBlock  = "none"
    ParentOf <- LineParentOf
    HeightOf <- LineHeightOf
    Tables   = {"t", "u"}
    Matched  <- LineMatched
    Threads  = {"w1", "w2"}
    KeepBlocks = 9
    PruneEvery = 9
    ReplayForks = TRUE
    LateRetries = FALSE
    ForkDepth = 9
    MaxDeliveries = 1
    MaxRepeated = 0
    MaxFaults = 0
    MaxStops = 0
INVARIANTS
    AcceptedBlocksAreStored
CHECK_DEADLOCK FALSE
