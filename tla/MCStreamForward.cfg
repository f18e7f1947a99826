SPECIFICATION Spec
CONSTANTS
    C = 3
    InterestSet <- MCInterestSet
    N = 9
    Align = 1
    Itr = 1
    NPar = 2
    Accumulators = {"gpu", "worker", "inline"}
    OomBound = 4
    None = None
INVARIANTS
    TypeOK
    HeldOnce
    ReturnedExact
    StagingOwned
    OutputOwned
    BoundedInFlight
    QuiescentRecovery
PROPERTIES
    Terminates
    ImplementsCover
CHECK_DEADLOCK FALSE
