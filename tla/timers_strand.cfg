SPECIFICATION Spec
CONSTANTS
    Threads = {t1, t2}
    Timers = {timer1, timer2}
    Limit = 10
    None = None
INVARIANTS
    TypeOK
    Exclusive
    Paced
    FinalCount
PROPERTIES
    AllReturn
    ExecutorSpec
