CONSTANTS
    t1 = t1
    t2 = t2
    None = None
    Topics <- MCTopics
    Scenarios <- MCScenarios
SPECIFICATION Spec
INVARIANTS
    DialogInformed
    VerdictTruthful
    
PROPERTIES
    FetchEnds
CHECK_DEADLOCK FALSE
