SPECIFICATION Spec
CONSTANTS
    Unlocks <- MCUnlocks
    Locks <- MCLocks
    MaxCut = 4
    Hash160 <- MCHash160
    Verifies <- MCVerifies
INVARIANTS
    TypeOK
    ParsedAsWritten
    TruncatedNeverSucceeds
    P2PKHOutcome
CHECK_DEADLOCK FALSE
