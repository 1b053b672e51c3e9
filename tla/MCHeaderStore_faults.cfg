SPECIFICATION Spec
CONSTANTS
    a1 = a1
    a2 = a2
    b1 = b1
    x = x
    genesis = genesis
    NoHash = NoHash
    Headers <- MCHeaders
    ValidPoW <- MCValidPoW
    PrevOf <- MCPrevOf
    Batches <- AllBatches
    BufCap = 2
    MaxRecords = 4
    WriteFaults = TRUE
    TornWrites = FALSE
    ReadFaults = TRUE
INVARIANTS
    WorkEverywhere
    BestIsCached
    CreditedIsDurable
