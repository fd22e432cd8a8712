\* A contract and its second version, whose name begins with the name of the first.
SPECIFICATION Spec
CONSTANTS
    Configs <- MCConfigs
    RawEvents <- MCRawEvents
    ContractNames <- VersionedNames
    MaxEvents = 2
INVARIANTS
    OnlyConfigured
CHECK_DEADLOCK FALSE
