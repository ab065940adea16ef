CONSTANTS
    v1 = v1
    v2 = v2
    Values <- MCValues
    Garbage = Garbage
    W = 3
    InitCaps <- MCInitCaps
    StackLens = {1, 2}
    ArgCounts = {0, 1}
SPECIFICATION Spec
CONSTRAINT StateBound
INVARIANT
    WritesInBounds
