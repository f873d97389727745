SPECIFICATION FairSpec
CONSTANTS
    Modes = {TRUE, FALSE}
    OnsetFrames = 2
    PrerollFrames = 3
    InitialWait = 3
    InactivityWait = 5
    MaxUtterance = 6
    TrailingSilence = 2
INVARIANTS WindowBounded AnswersWhenAwake OneAnswerAfterStop
PROPERTIES SleepsWhenQuiet
