CONSTANTS
    c1 = c1
    c2 = c2
    c3 = c3
    k1 = k1
    k2 = k2
    Closures = {c1, c2, c3}
    Key <- MCKey
    Ctxs = {x1}
    FbVals = {f1, f2}
    Nil = Nil
    MaxEvents = 2
SPECIFICATION Spec
INVARIANT
    TypeOK
    IndexConsistent
    RoundTrip
