SPECIFICATION Spec
CONSTANTS
    MaxSeq = 2
    Messages <- MCMessages
    Bytes <- MCBytes
    RetainMaxSeqs = 2
    RetainMaxBytes = 9
    BulkCap = 1
    AckCap = 2
    AckEvery = 1
    MaxAttempts = 0
    Stops = {}
INVARIANT CompleteMeansAll
CHECK_DEADLOCK FALSE
