SPECIFICATION FairSpec
CONSTANTS
    MaxIds = 2
    PreAlloc = 2
    Intervals = {1, 2}
    MaxMs = 2
    OneWeek = 3
    NoCtxWait = 1
    QueueMax = 1
INVARIANTS ListsSound
PROPERTIES RunningExpires
