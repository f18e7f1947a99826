SPECIFICATION Spec
CONSTANTS
    C = 7
    InterestSet <- MCInterestSet7
    N = 49
    Align = 1
    Itr = 1
    Pars = {1, 2, 4}
    PoolSizes = {3, 6, 7}
    OomBound = 4
    None = None
INVARIANTS
    TypeOK
    KeepsItsChunks
    NoPendingOverwrite
    PoolSuffices
