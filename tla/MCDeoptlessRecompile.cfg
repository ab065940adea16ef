CONSTANTS
    x1 = x1
    x2 = x2
    x3 = x3
    Ctxs <- MCCtxs
    Capacity = 1
    Other = Other
    NoFun = NoFun
    InitialPool <- MCInitialPool

SPECIFICATION Spec
CONSTRAINT StateBound
INVARIANT NoRecompileOfCached
