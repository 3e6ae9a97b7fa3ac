CONSTANTS
    QueueLength = 2
    TotalBuf = 8
    HeaderSize = 2
    BodyLens = {4}
    Word = 32
    MaxArrivals = 6
SPECIFICATION Spec
PROPERTIES
    RefusedOnlyWhenFull
