SPECIFICATION Spec
CONSTANTS
    MaxSends = 0
    MaxStarts = 1
    MaxFaults = 10
    MaxDelay = 30
    NEndpoints = 2
    ResolveMayFail = FALSE
    CallIoStop = FALSE
    Prompt = FALSE
INVARIANTS
    TypeOK
    OneLoop
    ConnectedTruthful
PROPERTIES
    Recovers
    StopDrains
