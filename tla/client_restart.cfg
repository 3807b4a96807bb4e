SPECIFICATION Spec
CONSTANTS
    MaxSends = 2
    MaxStarts = 2
    MaxFaults = 2
    MaxDelay = 2
    NEndpoints = 1
    ResolveMayFail = TRUE
    CallIoStop = TRUE
    Prompt = FALSE
INVARIANTS
    KeepsTrying
    StopIsFinal
    OneWrite
PROPERTY OutboxSpec
