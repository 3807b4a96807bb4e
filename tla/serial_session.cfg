SPECIFICATION Spec
CONSTANTS
    s1 = s1
    Senders = {s1}
    MaxSends = 2
    Parts = 2
    MaxReads = 1
    MaxStarts = 2
    MayRestart = FALSE
    MayFail = TRUE
    Echo = TRUE
    CallbackStops = FALSE
    MayForgetStop = FALSE
INVARIANTS
    TypeOK
    BegunInOrder
    EachInOneHand
    Serving
    Quiet
    NoUseAfterFree
PROPERTIES
    StopReturns
