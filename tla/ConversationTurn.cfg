SPECIFICATION Spec
CONSTANTS
    Nodes <- TwoSteps
    Unknown <- NoUnknown
    Deployments <- Some
    Capabilities <- Backed
    Outputs <- Texts
    PlanConfidences <- Low
    NodeConfidences <- High
    MinGoalConfidence = 50
    Threshold = 55
    Utterances <- Sayings
    Planning <- Both
    MaxTurns = 1
    MaxSaid = 2
CHECK_DEADLOCK FALSE
INVARIANTS
    NotDoneTwice
    PlannedAnswerHonest
    TurnsRecordedOnce
PROPERTY EveryTurnAnswered
