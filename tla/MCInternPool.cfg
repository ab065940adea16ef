CONSTANTS
    a = a
    b = b
    u1 = u1
    u2 = u2
    Contents <- MCContents
    Hash <- MCHash
    MaxObjs = 4
    MaxItems = 3
SPECIFICATION Spec
INVARIANT
    TypeOK
    InternCanonical
