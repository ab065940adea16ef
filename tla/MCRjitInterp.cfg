CONSTANTS
    v1 = v1
    v2 = v2
    Values <- MCValues
    Nil = Nil
    Garbage = Garbage
    PoolCaps = {0, 1, 2}
    W = 3
    StackCaps <- MCStackCaps
    StackLens = {1, 2}
    ArgCounts = {0, 1}
    B = 1
    Imms = {0, 1, 2}
SPECIFICATION Spec
CONSTRAINT StateBound
CHECK_DEADLOCK FALSE
INVARIANT
    TypeOK
    EntriesPreserved
    StackMatchesPushes
