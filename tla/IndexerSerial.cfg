\* One thread and a node that replays its forks: what the design intends.
SPECIFICATION FairSpec
CONSTANTS
    Blocks   <- ForkBlocks
    NoBlock  = "none"
    ParentOf <- ForkParentOf
    HeightOf <- ForkHeightOf
    Tables   = {"t", "u"}
    Matched  <- ForkMatched
    Threads  = {"w1"}
    KeepBlocks = 1
    PruneEvery = 2
    ReplayForks = TRUE
    LateRetries = FALSE
    ForkDepth = 2
    MaxDeliveries = 2
    MaxRepeated = 6
    MaxFaults = 0
    MaxStops = 0
INVARIANTS
    OnePerHeight
    IndexMatchesBranch
    GaugeShowsTip
PROPERTIES
    ImplementsChainStore
    Converges
CHECK_DEADLOCK FALSE
