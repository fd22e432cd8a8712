\* Two starts against a node that grows and forks, two failures.
SPECIFICATION Spec
CONSTANTS
    Blocks   <- MCBlocks
    NoBlock  = "none"
    ParentOf <- MCParentOf
    HeightOf <- MCHeightOf
    Tables   = {"t"}
    Matched  <- MCMatched
    MaxFaults = 2
    MaxRuns = 2
INVARIANTS
    GapsAreLive
    OncePerHeight
    FillsToTip
CHECK_DEADLOCK FALSE
