SPECIFICATION FairSpec
CONSTANTS
    s1 = s1
    s2 = s2
    p = p
    q = q
    h1 = h1
    h2 = h2
    h3 = h3
    h4 = h4
    h5 = h5
    Genesis = Genesis
    NoHash = NoHash
    Nobody = Nobody
    Slots <- TwoSlots
    Peers <- TwoPeers
    ChainOf <- OneChain
    FirstTip <- OneTip
    MaxHeaders = 2
    MaxBreaks = 3
    MaxCrashes = 2
INVARIANTS
    TypeOK
    LogIsChain
    OneRequestInFlight
PROPERTIES
    AnnouncedAreFetched
    RefinesHeaderSync
CHECK_DEADLOCK FALSE
