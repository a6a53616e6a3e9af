SPECIFICATION Spec
CONSTANTS
    Jobs = {h, d}
    Handled = {h}
    Sockets = {s1}
    Percents = {0}
    WorkerSteps = 2
    PoolThreads = 1
    MaxCrashes = 0
    NoJob = NoJob
INVARIANT ClosesOnceTerminal
CHECK_DEADLOCK FALSE
