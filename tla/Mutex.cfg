SPECIFICATION FairSpec
CONSTANTS
    Threads = {t1, t2, t3}
    Queues = {"wait"}
    NoOwner = NULL
    Recursive = TRUE
    MaxDepth = 2
INVARIANTS
    MutualExclusion
    NoLostWakeup
PROPERTIES
    FreeMutexIsTaken
