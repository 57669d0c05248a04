SPECIFICATION Spec
CONSTANTS
    srvA = srvA
    srvB = srvB
    acme = acme
    beta = beta
    north = north
    south = south
    rob1 = rob1
    rob2 = rob2
    None = None
    Server = {srvA, srvB}
    Path <- MCPath
    File = {1, 2, 3, 4, 5, 6, 7}
    PathOf <- MCPathOf
    ShortOf <- MCShortOf
    SourceOf <- MCSourceOf
    Vocab <- MCVocab
    Files <- MCFiles
    PageLimit = 1
    Stalls = FALSE
    Settings <- MCSettings
INVARIANTS
    
    ListingWhole
    TableFaithful
    SettlesDown
CHECK_DEADLOCK FALSE
