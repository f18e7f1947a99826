SPECIFICATION Spec
CONSTANTS
    Passed <- MCPassed
    MaxCalls = 1
    MaxNested = 2
INVARIANTS
    InputsAccounted
    GradConnected
    OperandsPlaced
    Routing
