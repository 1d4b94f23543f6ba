SPECIFICATION Spec
CONSTANTS
    MaxIds = 1
    PreAlloc = 1
    Intervals = {1}
    MaxMs = 1
    OneWeek = 2
    NoCtxWait = 1
    QueueMax = 1
INVARIANTS
    CancelStops
