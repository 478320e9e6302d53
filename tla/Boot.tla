-------------------------------- MODULE Boot --------------------------------
(***************************************************************************)
(* uk_boot_entry() (lib/ukboot/boot.c): heap_init() makes the allocator    *)
(* from the free memory regions, then the init table is run, and then the  *)
(* application, which uses the heap, until the system shuts down.          *)
(***************************************************************************)
EXTENDS InitTable, Malloc

CONSTANT Machines  \* init tables, and the free memory regions, in pages, that
                   \* platforms report

ASSUME BootAssumption ==
    \A m \in Machines :
        /\ m.table \in [Entries -> [init : BOOLEAN, term : BOOLEAN, match : {TRUE}]]
        /\ \A i \in DOMAIN m.layout : m.layout[i].base + m.layout[i].len <= LastPage + 1

VARIABLE layout

tableVars == <<table, phase, pos, up, ran>>

bootVars == <<tableVars, heapVars, layout>>

BootInit == /\ Init
            /\ layout \in {m.layout : m \in Machines}
            /\ [table |-> table, layout |-> layout] \in Machines
            /\ heap = NoHeap
            /\ meta = << >>
            /\ objs = {}

\* The first region that will do makes the allocator, the others are added
heap_init(regions) ==
    FoldLeft(LAMBDA a, md : IF a = NoHeap THEN uk_allocbbuddy_init(md.base, md.len)
                                          ELSE bbuddy_addmem(a, md.base, md.len),
             NoHeap, regions)

\* Without a heap: UK_CRASH
BootHeap == /\ phase = "init"
            /\ heap = NoHeap
            /\ heap' = heap_init(layout)
            /\ phase' = IF heap' = NoHeap THEN "gone" ELSE phase
            /\ UNCHANGED <<table, pos, up, ran, meta, objs, layout>>

BootTable == /\ heap # NoHeap
             /\ Next
             /\ UNCHANGED <<heapVars, layout>>

Main == /\ phase = "live"
        /\ HeapCalls
        /\ UNCHANGED <<tableVars, layout>>

BootNext == BootHeap \/ BootTable \/ Main

BootSpec == BootInit /\ [][BootNext]_bootVars
=============================================================================
