\* Two queue places, two message sizes, five callbacks: overruns, refusals,
\* lost counter updates and a counter that wraps all happen.
CONSTANTS
    QueueLength = 2
    TotalBuf = 8
    HeaderSize = 2
    BodyLens = {1, 4}
    Word = 32
    MaxArrivals = 5
SPECIFICATION FairSpec
INVARIANTS
    TypeOK
    Ownership
    ArrivalOrder
    NoUndercountWithoutOverlap
PROPERTIES
    AbandonOnlyWhenFull
    MailboxSpec
    EventuallyFreed
