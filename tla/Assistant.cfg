SPECIFICATION Spec
CONSTANTS
    Table <- Agents
    MaxSteps = 2
    NumWorkers = 2
    MaxToolCalls = 1
    Offices <- MCOffices
    Loads <- MCLoads
    Wanted <- MCWanted
    ToolCalls <- MCToolCalls
INVARIANTS HonestCommands QuestionsKept NoSuccessDropped
PROPERTIES AllReported
\* A session's work ends when all that was handed in is done.
CHECK_DEADLOCK FALSE
