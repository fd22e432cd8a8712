\* Two contracts, neither name a prefix of the other.
SPECIFICATION Spec
CONSTANTS
    Configs <- MCConfigs
    RawEvents <- MCRawEvents
    ContractNames <- DistinctNames
    MaxEvents = 2
INVARIANTS
    OnceInBlockOrder
    NothingMissed
    OnlyConfigured
CHECK_DEADLOCK FALSE
