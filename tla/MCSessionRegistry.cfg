SPECIFICATION RegistrySpec
CONSTANTS
    MaxID = 2
    MaxConcurrent = 1
    MaxGen = 2
    MaxEpoch = 3
INVARIANTS
    CapacityRespected
    NoLostConsumer
    NoOrphanConsumer
    StaleTimerHarmless
    TeardownOnce
    RegistryInv
