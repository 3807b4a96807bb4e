SPECIFICATION Spec
CONSTANTS
    Timers = {a, b, c, d, e, f}
    Soon = {a, b, c}
    Late = {d, e, f}
    Constructed <- Expiries
    MaxTime = 1
    MaxCalls = 7
INVARIANTS
    TypeOK
    HeapAgrees
    WaitsAtTheirTime
    AlarmInTime
PROPERTIES
    WaitListSpec
SYMMETRY Symmetry
CHECK_DEADLOCK FALSE
