SPECIFICATION Spec
CONSTANTS
    Threads = {t1, t2}
    Ofiles = {o1, o2}
    Files = {file, console}
    Static = {console}
    Size = 2
    OpenFlags = {FALSE}
    Watches <- MC_Watches
    Null = Null
    Entries <- MC_Entries
INVARIANTS SlotOwned RefsExact NoDangling
SYMMETRY Symmetry
