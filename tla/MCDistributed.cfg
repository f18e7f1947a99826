SPECIFICATION DistSpec
CONSTANTS
    C = 3
    InterestSet <- MCInterestSet
    N = 10
    Align = 4
    Itr = 1
    Worlds = {2, 4}
    ChunkTokens = 4
    RaiseBound = 1
INVARIANTS
    TypeOK
    ExactlyOnce
    RanksExact
PROPERTIES
    JointlyDone
CHECK_DEADLOCK FALSE
