SPECIFICATION Spec
CONSTANTS
    s1 = s1
    Senders = {s1}
    MaxSends = 0
    Parts = 1
    MaxReads = 1
    MaxStarts = 1
    MayRestart = FALSE
    MayFail = FALSE
    Echo = FALSE
    CallbackStops = TRUE
    MayForgetStop = FALSE
PROPERTIES
    StopReturns
CHECK_DEADLOCK FALSE
