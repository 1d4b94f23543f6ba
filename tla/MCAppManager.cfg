CONSTANTS
    Names = {a, b}
    MaxInstalls = 3
    MaxApps = 2
SPECIFICATION FairSpec
INVARIANTS NothingLeft Lifetimes
PROPERTIES RequestEnds
CHECK_DEADLOCK FALSE
