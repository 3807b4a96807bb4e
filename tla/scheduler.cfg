SPECIFICATION Spec
CONSTANTS
    Threads = {t1, t2}
    Outsiders = {o}
    Descriptors = {d}
    Task = Task
    MaxOps = 3
    MaxArrivals = 2
    MaxReuses = 1
    MayStop = TRUE
INVARIANTS
    TypeOK
    CountsWork
    OneReactor
    EnqueuedOnce
PROPERTIES
    PoolSpec
SYMMETRY ThreadSymmetry
CHECK_DEADLOCK FALSE
