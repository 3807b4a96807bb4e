SPECIFICATION Spec
CONSTANTS
    Threads = {t1, t2}
    Outsiders = {o}
    Descriptors = {d}
    Task = Task
    MaxOps = 3
    MaxArrivals = 1
    MaxReuses = 0
    MayStop = TRUE
PROPERTIES
    EveryDueRuns
    RunReturns
CHECK_DEADLOCK FALSE
