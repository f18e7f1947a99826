SPECIFICATION Spec
CONSTANTS
    C = 3
    InterestSet <- MCInterestSet3
    N = 9
    Align = 1
    Itr = 1
    Pars = {1}
    PoolSizes = {2}
    OomBound = 1
    None = None
INVARIANTS
    ReadsItsTokens
