SPECIFICATION Spec
CONSTANTS
    Threads = {t1, t2}
    Main = t1
    Idle = idle
    MaxTime = 1
    CallPatterns = {"remove_sleeper"}
INVARIANT
    TerminatedIsUnqueued
