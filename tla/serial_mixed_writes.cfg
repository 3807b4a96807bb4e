SPECIFICATION Spec
CONSTANTS
    s1 = s1
    Senders = {s1}
    MaxSends = 2
    Parts = 2
    MaxReads = 0
    MaxStarts = 1
    MayRestart = FALSE
    MayFail = FALSE
    Echo = FALSE
    CallbackStops = FALSE
    MayForgetStop = FALSE
INVARIANTS
    WritesDoNotOverlap
