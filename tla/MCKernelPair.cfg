SPECIFICATION Spec
CONSTANTS
    kCqsBlk = 2
    SegAlign = 4
    Group = {1, 2}
    Calls <- MCCalls
INVARIANTS
    VerdictsSound
    RowsExact
    GradientsExact
