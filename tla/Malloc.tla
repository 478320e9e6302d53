------------------------------- MODULE Malloc -------------------------------
(***************************************************************************)
(* malloc() and its kin on top of a page allocator (the _ifpages functions *)
(* of lib/ukalloc/alloc.c), with the buddy allocator underneath.           *)
(* Addresses and sizes are in bytes.  The metadata of an object lies at    *)
(* the start of the page of the object, or of the page before if the       *)
(* object is page-aligned.                                                 *)
(***************************************************************************)
EXTENDS BBuddy, TLC

CONSTANTS PAGE_SIZE,
          METADATA_IFPAGES_SIZE_POW2,
          SizeofMetadata, SizeofPointer,
          Sizes, Aligns,  \* of the calls
          MaxLive         \* bound on the objects

ASSUME MallocAssumption ==
    /\ {PAGE_SIZE, METADATA_IFPAGES_SIZE_POW2, SizeofPointer} \subseteq {2 ^ k : k \in 0 .. 12}
    /\ SizeofPointer <= SizeofMetadata
    /\ SizeofMetadata <= METADATA_IFPAGES_SIZE_POW2
    /\ METADATA_IFPAGES_SIZE_POW2 < PAGE_SIZE
    /\ Sizes \subseteq Nat \ {0}
    /\ Aligns \subseteq Nat \ {0}

VARIABLES heap,
          meta,   \* struct metadata_ifpages, by its address
          objs    \* the objects the application has, each as it asked for it

heapVars == <<heap, meta, objs>>

AlignUp(x, align) == ((x + align - 1) \div align) * align

size_to_num_pages(size) == AlignUp(size, PAGE_SIZE) \div PAGE_SIZE

\* Mutant: page-aligned objects are not told apart
MetadataHere(ptr) == ptr - (ptr % PAGE_SIZE)

uk_get_metadata(ptr) ==
    IF ptr % PAGE_SIZE = 0 THEN ptr - PAGE_SIZE ELSE ptr - (ptr % PAGE_SIZE)

uk_getmallocsize(ptr) ==
    LET m == meta[uk_get_metadata(ptr)] IN m.base + m.num_pages * PAGE_SIZE - ptr

\* An object with its metadata in fresh pages
Given(size, align, ptr, page, n) ==
    [obj  |-> [ptr |-> ptr, size |-> size, align |-> align],
     meta |-> uk_get_metadata(ptr) :>
                 [size |-> size, num_pages |-> n, base |-> page * PAGE_SIZE]]

uk_malloc_ifpages(size) ==
    LET n == size_to_num_pages(METADATA_IFPAGES_SIZE_POW2 + size)
        got == bbuddy_palloc(heap, n)
        new == Given(size, 1, got.page * PAGE_SIZE + METADATA_IFPAGES_SIZE_POW2, got.page, n)
    IN  /\ Cardinality(objs) < MaxLive
        /\ got.page # NoPage
        /\ heap' = got.heap
        /\ meta' = new.meta @@ meta
        /\ objs' = objs \cup {new.obj}

Without(address) == [a \in DOMAIN meta \ {address} |-> meta[a]]

uk_free_ifpages(obj) ==
    LET at == uk_get_metadata(obj.ptr)
    IN  /\ \E lucky \in BOOLEAN :
              heap' = bbuddy_pfree(heap, meta[at].base \div PAGE_SIZE, meta[at].num_pages, lucky)
        /\ meta' = Without(at)
        /\ objs' = objs \ {obj}

\* With a size (else it is free()): a new object, the copy, and the old one is
\* given back
uk_realloc_ifpages(obj, size) ==
    LET n == size_to_num_pages(METADATA_IFPAGES_SIZE_POW2 + size)
        got == bbuddy_palloc(heap, n)
        new == Given(size, 1, got.page * PAGE_SIZE + METADATA_IFPAGES_SIZE_POW2, got.page, n)
        at == uk_get_metadata(obj.ptr)
    IN  /\ got.page # NoPage
        /\ \E lucky \in BOOLEAN :
              heap' = bbuddy_pfree(got.heap, meta[at].base \div PAGE_SIZE, meta[at].num_pages, lucky)
        /\ meta' = new.meta @@ Without(at)
        /\ objs' = (objs \ {obj}) \cup {new.obj}

Padding(align) == IF align > PAGE_SIZE THEN PAGE_SIZE
                  ELSE IF align = PAGE_SIZE \/ align < METADATA_IFPAGES_SIZE_POW2 THEN 0
                  ELSE SizeofMetadata

uk_posix_memalign_ifpages(align, size) ==
    LET al == IF align < METADATA_IFPAGES_SIZE_POW2 THEN METADATA_IFPAGES_SIZE_POW2 ELSE align
        n == size_to_num_pages(size + Padding(align) + al)
        got == bbuddy_palloc(heap, n)
        ptr == AlignUp(got.page * PAGE_SIZE + SizeofMetadata, al)
        new == Given(size, align, ptr, got.page, n)
    IN  /\ Cardinality(objs) < MaxLive
        /\ align \in {2 ^ k : k \in 0 .. 20}
        /\ align % SizeofPointer = 0
        /\ got.page # NoPage
        /\ heap' = got.heap
        /\ meta' = new.meta @@ meta
        /\ objs' = objs \cup {new.obj}

HeapCalls == \/ \E size \in Sizes : uk_malloc_ifpages(size)
             \/ \E obj \in objs : uk_free_ifpages(obj)
             \/ \E obj \in objs, size \in Sizes : uk_realloc_ifpages(obj, size)
             \/ \E align \in Aligns, size \in Sizes : uk_posix_memalign_ifpages(align, size)

-----------------------------------------------------------------------------
\* The pages an object holds
Held(obj) == LET m == meta[uk_get_metadata(obj.ptr)]
             IN  Chunk(m.base \div PAGE_SIZE, num_pages_to_order(m.num_pages))

Managed == heap # NoHeap

\* The free lists, the bitmaps, the counter and the objects agree: free chunks
\* are aligned, disjoint and labelled with their order, a page is on the lists
\* iff its bit is clear iff no object holds it, and no two objects share one.
FreeExact == Managed =>
    LET chunks == FreeChunks(heap)
        free   == FreePages(heap)
        data   == DataPages(heap)
    IN  /\ \A c \in chunks : c[1] % (2 ^ c[2]) = 0 /\ heap.level[c[1]] = c[2]
        /\ MapThenSumSet(LAMBDA k : Len(heap.free_head[k]) * 2 ^ k, Orders) = Cardinality(free)
        /\ heap.nr_free_pages = Cardinality(free)
        /\ free = {p \in data : ~allocated_in_map(heap, p)}
        /\ free = data \ UNION {Held(o) : o \in objs}
        /\ \A o, p \in objs : o # p => Held(o) \cap Held(p) = {}

\* Freeing undoes the splits: two free buddies never stay apart, so that memory
\* that is all free is in chunks as large as when it was added.
Coalesced == Managed =>
    \A c \in FreeChunks(heap) : <<Buddy(c[1], c[2]), c[2]>> \notin FreeChunks(heap)

\* Every object lies in the pages it holds, aligned as asked for and clear of
\* its own metadata, which say how to free it; and realloc() copies all of it
\* and nothing outside of those pages.
ObjectsIntact == \A o \in objs :
    LET at == uk_get_metadata(o.ptr)
        start == meta[at].base
        end == start + meta[at].num_pages * PAGE_SIZE
    IN  /\ o.ptr % o.align = 0
        /\ start <= at /\ at + SizeofMetadata <= o.ptr /\ o.ptr + o.size <= end
        /\ uk_getmallocsize(o.ptr) \in o.size .. end - o.ptr
        /\ end <= (Max(Held(o)) + 1) * PAGE_SIZE
=============================================================================
