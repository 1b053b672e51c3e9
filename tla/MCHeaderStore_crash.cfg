SPECIFICATION Spec
CONSTANTS
    a1 = a1
    a2 = a2
    b1 = b1
    x = x
    genesis = genesis
    NoHash = NoHash
    Headers <- MCHeaders
    ValidPoW <- MCValidPoW
    PrevOf <- MCPrevOf
    Batches <- AllBatches
    BufCap = 2
    MaxRecords = 7
    WriteFaults = FALSE
    TornWrites = FALSE
    ReadFaults = FALSE
INVARIANTS
    TypeOK
    MemoryMirrorsLog
    NoDuplicateRecords
    RestartResumesExactly
    SavedIsDurable
    SaveAppendsTheNew
PROPERTIES
    SaveKeepsTheSoundPart
    RefinesHeaderLog
