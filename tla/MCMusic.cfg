SPECIFICATION FairSpec
CONSTANTS
    Health = Health
    Down = Down
    Producer <- MCProducer
    Downstream = Down
    Track <- MCTrackWide
    Byte <- MCByte
    Mvol <- MCMvol
    NumFiles = 2
    QueueLength = 1
    Chunks = 2
    MaxRequests = 3
INVARIANTS
    TypeOK
    PlaysWhatWasAsked
    VolumeNoticed
PROPERTIES
    Served
