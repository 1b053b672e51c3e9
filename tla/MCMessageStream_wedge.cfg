SPECIFICATION FairSpec
CONSTANTS
    Messages <- Flawed
    HeaderLen = 2
    ReadSize = 3
    MaxFrames = 2
PROPERTY SoundMessagesAreProcessed
