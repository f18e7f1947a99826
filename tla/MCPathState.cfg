SPECIFICATION WalkSpec
CONSTANT
    Decompositions <- MCDecompositions
INVARIANTS
    ChildrenCoverOnce
    LocalCausalIsGlobal
    BlockMapExact
    MatchesDecomposition
CHECK_DEADLOCK FALSE
