\* One thread; the node turns back to a branch whose blocks it announced before.
SPECIFICATION Spec
CONSTANTS
    Blocks   <- TwigBlocks
    NoBlock  = "none"
    ParentOf <- TwigParentOf
    HeightOf <- TwigHeightOf
    Tables   = {"t", "u"}
    Matched  <- TwigMatched
    Threads  = {"w1"}
    KeepBlocks = 1
    PruneEvery = 2
    ReplayForks = FALSE
    LateRetries = FALSE
    ForkDepth = 9
    MaxDeliveries = 1
    MaxRepeated = 0
    MaxFaults = 0
    MaxStops = 0
INVARIANTS
    RolledBackToForkPoint
CHECK_DEADLOCK FALSE
