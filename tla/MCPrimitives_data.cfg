SPECIFICATION MCSpec
CONSTANTS
    Drafts <- SignedDrafts
    HashTypes <- AllHashTypes
    MaxAmends = 2
    Traffic <- AllTraffic
    Spares <- SomeSpares
    from_utf8_lossy <- MCFromUtf8Lossy
    Base = 3
    Width = 4
    KeyHashes <- SomeHashes
    Sums <- SomeSums
    Mistakes <- SomeMistakes
    MaxArguments = 2
INVARIANTS
    ReadAsWritten
    ShortPayloadIsRefused
    AsksForTheAnnounced
    HeadersSurviveDisk
    SignatureBindsItsParts
    WorkIsNumeric
    ShownAddressIsTracked
CHECK_DEADLOCK FALSE
