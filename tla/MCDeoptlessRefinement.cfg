CONSTANTS
    x1 = x1
    x2 = x2
    x3 = x3
    Ctxs <- MCCtxs3
    Capacity = 2
    Other = Other
    NoFun = NoFun
    InitialPool <- MCInitialPool

SPECIFICATION DispatchOnlySpec
CONSTRAINT StateBound
PROPERTY VersionCacheRefined
