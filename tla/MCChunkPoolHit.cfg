SPECIFICATION Spec
CONSTANTS
    C = 7
    InterestSet <- MCInterestSet7
    N = 14
    Align = 1
    Itr = 1
    Pars = {2}
    PoolSizes = {6}
    OomBound = 0
    None = None
INVARIANTS
    ReadsItsTokens
