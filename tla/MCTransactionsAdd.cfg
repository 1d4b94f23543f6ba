SPECIFICATION FairSpec
CONSTANTS
    Mids = {m1, m2}
    NoMid = NoMid
    TIMEOUT = 2
    Slots = 2
    QueueMax = 2
PROPERTIES AddedToTail
