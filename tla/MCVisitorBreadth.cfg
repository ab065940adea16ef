CONSTANTS
    Configs <- MCBreadth
    BBs <- MCBBs4
    Spare <- MCSpare4
    StartBBs <- MCStart4
    NInstrs = 2
    Null = Null
SPECIFICATION Spec
CHECK_DEADLOCK FALSE
INVARIANT
    BreadthFirstOrder
    VisitedOnce
    VisitsExactlyReachable
