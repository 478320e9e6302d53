SPECIFICATION FairSpec
CONSTANTS
    Threads = {t1, t2, t3, t4, t5}
    Queues = {"shared", "exclusive"}
INVARIANTS
    Exclusion
    NoLostWaiter
PROPERTIES
    FreeLockIsTaken
