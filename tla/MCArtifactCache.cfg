SPECIFICATION Spec
CONSTANTS
    p1 = p1
    p2 = p2
    j1 = j1
    w1 = w1
    j2 = j2
    None = None
    Procs = {p1, p2}
    Jobs = {j1, j2}
    Pulls = {w1}
    Home <- MCHome
    Scenarios <- MCScenarios
    Messages = 2
    Known <- MCKnown
    QueueCap = 1
    LeaseRetries = 0
    MaxQueries <- MCMaxQueries
    Cancelled = {w1}
    Evicting = {p2}
    Mortal = {p2}
INVARIANTS
    LeaseInv
    
    PartialIntact
    ServedIsPinned
    CleanEnd
PROPERTIES
    PinnedFilesStay
CHECK_DEADLOCK FALSE
