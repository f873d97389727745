SPECIFICATION FairSpec
CONSTANTS
    r1 = r1
    r2 = r2
    Runs = {r1, r2}
    StepCount = 3
    Submitted <- Pairs
    MaxAttempts = 2
\* Callers may stop calling.
CHECK_DEADLOCK FALSE
INVARIANTS DependenciesFirst OrderedUndoneForCause
PROPERTIES CancelHolds ExecuteEnds
