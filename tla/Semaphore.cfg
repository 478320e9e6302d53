SPECIFICATION SemFairSpec
CONSTANTS
    Threads = {t1, t2, t3}
    Queues = {sem}
    NoThread = NoThread
    InitCount <- OneToken
    MaxCount = 2
INVARIANTS
    NoLostUp
    NoStaleEntry
PROPERTIES
    TokenWakes
    TimedDownReturns
CHECK_DEADLOCK FALSE
