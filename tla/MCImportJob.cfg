SPECIFICATION Spec
CONSTANTS
    j1 = j1
    j2 = j2
    w = w
    old = old
    k1 = k1
    k2 = k2
    None = None
    Jobs = {j1, j2}
    Interactive = {w, old}
    Key <- MCKey
    MaxEntries = 1
    Callers = {"c1", "c2"}
    Joined = {j2}
    Cancellable = {j2, w}
    Scenarios <- MCScenarios
    Earlier = {old}
INVARIANTS
    AdmissionSound
    
    TerminalSound
    AllEnd
PROPERTIES
    LookupSparesFresh
CHECK_DEADLOCK FALSE
