SPECIFICATION Spec
CONSTANTS
    MaxSends = 1
    MaxStarts = 1
    MaxFaults = 1
    MaxDelay = 2
    NEndpoints = 1
    ResolveMayFail = FALSE
    CallIoStop = FALSE
    Prompt = TRUE
PROPERTY Recovers
