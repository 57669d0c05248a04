SPECIFICATION Spec
CONSTANTS
    c1 = c1
    c2 = c2
    Conns = {c1, c2}
    NoConn = NoConn
    MaxOpens = 2
    Scenarios <- MCScenarios
    MaxID = 1
    MaxConcurrent = 1
    MaxGen = 2
    MaxEpoch = 3
SYMMETRY ConnSymmetry
INVARIANTS
    ComesToRest
PROPERTIES
    CancelOrderly

CHECK_DEADLOCK FALSE
