SPECIFICATION Spec
CONSTANTS
    Unlocks <- TestUnlocks
    Locks <- TestLocks
    MaxCut = 0
    Hash160 <- MCHash160
    Verifies <- MCVerifies
INVARIANT CleanStack
CHECK_DEADLOCK FALSE
