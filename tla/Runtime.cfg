\* Two workers, two threads of the pool, three blocks and two queries.
SPECIFICATION FairSpec
CONSTANTS
    Workers = {"w1", "w2"}
    Pool = {"p1", "p2"}
    Posts = {"b1", "b2", "b3"}
    Reads = {"q1", "q2"}
    NoThread = "none"
    NoRequest = "none"
INVARIANTS
    TypeOK
    NeverWaitsForItself
    BusyOnlyWithReads
PROPERTIES
    Answered
    Stops
CHECK_DEADLOCK FALSE
