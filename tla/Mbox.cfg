SPECIFICATION Spec
CONSTANTS
    Threads = {t1, t2, t3}
    Queues = {"readsem", "writesem"}
    NoThread = NoThread
    InitCount <- Counts
    MaxCount = 2
    Handlers = {t3}
    Messages = {m1, m2}
    NoMessage = NoMessage
    Size = 2
SYMMETRY Symmetry
INVARIANTS
    TokensCoverRing
    TokensConserved
PROPERTIES
    IsFifo
CHECK_DEADLOCK FALSE
