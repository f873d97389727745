SPECIFICATION FairSpec
CONSTANTS
    a = a
    b = b
    c = c
    ghost = ghost
    Nodes <- Nodes3
    Unknown <- Ghosts
    Plans <- AllPlans3
    MaxParallel = 2
INVARIANTS
    SlotsAccounted
    StartedOnlyWhenReady
    SkippedForCause
    ReturnedIsComplete
    RetriesExhausted
PROPERTIES
    NoStartAfterCancel
    ImplementsContract
    ExecuteReturns
