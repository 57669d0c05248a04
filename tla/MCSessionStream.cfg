SPECIFICATION Spec
CONSTANTS
    MaxSeq = 3
    Messages <- MCMessages
    Bytes <- MCBytes
    RetainMaxSeqs = 2
    RetainMaxBytes = 2
    BulkCap = 1
    AckCap = 2
    AckEvery = 2
    MaxAttempts = 2
    Stops = {"cancel", "deadline", "sink", "decode", "panic"}
INVARIANTS
    StreamContinues
    RetainBounded
PROPERTIES
    DeliversOnce
CHECK_DEADLOCK FALSE
