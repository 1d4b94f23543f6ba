SPECIFICATION FairSpec
CONSTANTS
    Producers = {p1}
    Msgs = {m1}
    Max = 1
    NULL = NULL
PROPERTIES
    ExitEndsLoop
CHECK_DEADLOCK FALSE
