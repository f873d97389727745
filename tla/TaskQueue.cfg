SPECIFICATION FairSpec
CONSTANTS
    Tasks = {t1, t2, t3}
    Joiners = {j1}
    WorkerCount = 2
    MaxStarts = 2
    NoTask = NoTask
CHECK_DEADLOCK FALSE
INVARIANTS CountsUnfinished StartedWorkersServe
PROPERTIES Drains JoinReturns 
