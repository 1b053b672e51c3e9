SPECIFICATION FairSpec
CONSTANTS
    Messages <- Sound
    HeaderLen = 2
    ReadSize = 3
    MaxFrames = 3
INVARIANTS
    TypeOK
    StreamIsIntact
    NothingLeftUnparsed
    ActionsInOrder
PROPERTY SoundMessagesAreProcessed
