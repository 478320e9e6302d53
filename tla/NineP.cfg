CONSTANTS
    t1 = t1
    t2 = t2
    t3 = t3
    r1 = r1
    r2 = r2
    r3 = r3
    Threads = {t1, t2, t3}
    Reqs = {r1, r2, r3}
    Xmit = xmit
    NoReq = none
    NoCookie = none
    Queues <- MC_Queues
    Cookies <- MC_Cookies
    Num = 4
    Replies = {"ok", "short"}
    Segments = {2, 3, 5}
    NumTags = 5
SPECIFICATION Spec
INVARIANTS VqIntact RequestsExact NoneForgotten
SYMMETRY Symmetry
CHECK_DEADLOCK FALSE
