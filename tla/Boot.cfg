SPECIFICATION BootSpec
CONSTANTS
    N = 3
    Rewind = 1
    FREELIST_SIZE = 5
    PAGES_PER_MAPWORD = 4
    LastPage = 16
    NoHeap = NoHeap
    NoPage = NoPage
    Junk = Junk
    PAGE_SIZE = 4096
    METADATA_IFPAGES_SIZE_POW2 = 32
    SizeofMetadata = 24
    SizeofPointer = 8
    Sizes = {4064, 8192}
    Aligns = {4, 16, 64, 4096, 8192}
    MaxLive = 3
    Machines <- MC_Machines
INVARIANTS
    UnwindComplete
    TermOnlyInitialised
    FreeExact
    Coalesced
    ObjectsIntact
CHECK_DEADLOCK FALSE
