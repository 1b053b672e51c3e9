SPECIFICATION FairSpec
CONSTANTS
    s1 = s1
    p = p
    q = q
    h1 = h1
    h2 = h2
    h3 = h3
    f3 = f3
    f4 = f4
    Genesis = Genesis
    NoHash = NoHash
    Nobody = Nobody
    Slots <- OneSlot
    Peers <- TwoPeers
    ChainOf <- TwoChains
    FirstTip <- TwoTips
    MaxHeaders = 2
    MaxBreaks = 1
    MaxCrashes = 0
PROPERTY AnnouncedAreFetched
CHECK_DEADLOCK FALSE
