CONSTANTS
    Clo = Clo
    Vec = Vec
    Cod = Cod
    Fun = Fun
    Tab = Tab
    Leaf = Leaf
    MAX_ARGS <- MCMaxArgs
    MaxRoots = 2
    MaxElems = 1
    MaxEntries = 1
SPECIFICATION Spec
INVARIANT
    RootsHighlighted
