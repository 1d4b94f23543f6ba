SPECIFICATION FairSpec
CONSTANTS
    Producers = {p1, p2}
    Msgs = {m1, m2, m3}
    Max = 1
    NULL = NULL
INVARIANTS Intact AllAccounted
PROPERTIES ImplementsFifo PostedIsHandled
CHECK_DEADLOCK FALSE
