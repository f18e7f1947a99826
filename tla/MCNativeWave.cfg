SPECIFICATION Spec
CONSTANTS
    C = 3
    InterestSet <- MCInterestSet
    N = 7
    Align = 2
    Itr = 2
    Calls <- MCCalls
INVARIANTS
    StagingOwned
    NeverAsserts
    ReturnedExact
    GradientsExact
