CONSTANTS
    v1 = v1
    v2 = v2
    Values <- MCValues
    Nil = Nil
    Garbage = Garbage
    InitCaps = {0, 1, 2}
SPECIFICATION Spec
CONSTRAINT StateBound
CHECK_DEADLOCK FALSE
INVARIANT
    ConstantRoundTrip
