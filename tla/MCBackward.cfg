SPECIFICATION Spec
CONSTANTS
    C = 3
    InterestSet <- MCInterestSet
    N = 10
    Align = 1
    Itr = 1
    Pars = {1, 2}
    None = None
INVARIANTS
    TypeOK
    StagingOwned
    GradientsOwned
    OwedOrAdded
    QueuedIsClean
    ReturnedExact
PROPERTIES
    CoverSteps
    Terminates
