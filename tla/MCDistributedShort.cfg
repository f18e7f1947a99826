SPECIFICATION DistSpec
CONSTANTS
    C = 7
    InterestSet <- MCDefaultSet
    N = 3
    Align = 1
    Itr = 1
    Worlds = {2}
    ChunkTokens = 4
    RaiseBound = 0
INVARIANTS
    RanksExact
CHECK_DEADLOCK FALSE
