SPECIFICATION Spec
CONSTANTS
    Threads = {t1, t2, t3}
    Addrs = {a1, a2}
    NoAddr = NoAddr
    Values = {0, 1}
    Counts = {1}
    RequeueTimed = TRUE
INVARIANTS
    ResultIsRight
CHECK_DEADLOCK FALSE
