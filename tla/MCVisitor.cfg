CONSTANTS
    Configs <- MCConfigs
    BBs <- MCBBs
    Spare <- MCSpare
    StartBBs <- MCBBs
    NInstrs = 2
    Null = Null
SPECIFICATION Spec
CHECK_DEADLOCK FALSE
INVARIANT
    TypeOK
    VisitedOnce
    CheckAgreesWithReachability
    InstrCheckExact
    VisitsExactlyReachable
    DeoptBlocksLast
