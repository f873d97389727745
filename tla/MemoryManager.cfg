SPECIFICATION Spec
CONSTANTS
    k1 = k1
    k2 = k2
    u1 = u1
    x1 = x1
    x2 = x2
    y = y
    c1 = c1
    c2 = c2
    None = None
    Callers = {c1, c2}
    Keys = {k1, k2}
    Uuids = {u1}
    Contents = {x1, x2, y}
    Similar <- NearDuplicates
    MaxFaults = 1
SYMMETRY MemorySymmetry
INVARIANTS DocumentsSearchable WorkingIsCurrent StoresHoldTheSame
PROPERTIES StoreKeepsContent
