SPECIFICATION FairSpec
CONSTANTS
    Threads = {t1, t2, t3}
    Main = t1
    Idle = idle
    MaxTime = 2
    CallPatterns = {}
INVARIANTS
    QueueIntegrity
    NoLostThread
    HaltIsSafe
    NoFreedContext
PROPERTIES
    RoundRobin
    LifeCycle
    ReadyThreadRuns
    SleeperWakes
