SPECIFICATION FairSpec
CONSTANTS
    MaxHandlers = 2
    Calls = {1, 2}
    Flows = {f1}
    Kernel = Kernel
    None = None
    MaxAttempts = 3
    Retry = 2
    Steps = 2
INVARIANTS
    AnswersAreSound
PROPERTIES
    AnsweredIsQuiet
    StoppedIsQuiet
    EveryFlowAnswered
CHECK_DEADLOCK FALSE
