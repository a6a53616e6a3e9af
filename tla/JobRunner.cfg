SPECIFICATION FairSpec
CONSTANTS
    Jobs = {h, d, e}
    Handled = {h}
    Sockets = {s1}
    Percents = {0}
    WorkerSteps = 1
    PoolThreads = 1
    MaxCrashes = 1
    NoJob = NoJob
INVARIANTS
    TypeOK
    ControllerMeansRunning
    NoForgottenSubscriber
    TerminalFrameIsTrue
    PoolCancelIsFinal
PROPERTIES
    TerminalRowsAreFrozen
    ImplementsLifecycle
    FollowedToTheEnd
    EveryRunEnds
CHECK_DEADLOCK FALSE
