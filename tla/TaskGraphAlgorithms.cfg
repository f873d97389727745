SPECIFICATION Spec
CONSTANTS
    a = a
    b = b
    c = c
    d = d
    ghost = ghost
    Nodes <- Nodes4
    Unknown <- Ghosts
    Graphs <- AllGraphs
CHECK_DEADLOCK FALSE
INVARIANTS
    ValidateDecides
    SkipIsLeastClosedSet
