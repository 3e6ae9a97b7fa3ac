SPECIFICATION FairSpec
CONSTANTS
    Depth = 2
    Tags = 1
    Minutes = 3
    Timer = {t1, t2}
    NoTimer = NoTimer
INVARIANTS
    TypeOK
    PutDownOnlyInWindow
    AtMostOneReminder
    TimersInHand
    RemindersRun
PROPERTIES
    FollowsKey
