SPECIFICATION FilesSpec
CONSTANTS
    Pollers = {t1, t2, t3}
    Setters = {t1, t2, t3, up}
    Updater = up
    MaxExp = 2
    Events <- MC_Events
    Limits <- MC_Limits
    ListHead = ListHead
    NoTicket = NoTicket
    Lens = {2, 3}
    Blocking = {TRUE}
    NoCall = NoCall
    CounterMax = 3
    Adds = {0, 1, 2, 4}
    Counts = {0, 1}
    PIPE_SIZE = 4
    PIPE_MSGCOUNT = 2
    Released = {TRUE}
    Labels = 3
INVARIANTS NoneStranded
PROPERTIES KeepsPromise SleepsAfterAgain
SYMMETRY Symmetry
CHECK_DEADLOCK FALSE
