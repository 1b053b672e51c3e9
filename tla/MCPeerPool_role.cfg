SPECIFICATION FairSpec
CONSTANTS
    s1 = s1
    s2 = s2
    Nobody = Nobody
    Slots <- TwoSlots
    Pool = 3
    Kind <- EachKind
INVARIANTS
    TypeOK
    OneSyncNode
    RoleNeverLeaks
    OnlyOwnerRequests
    CrownIsHonest
PROPERTIES
    RefinesSyncRole
    RoleIsTaken
