------------------------------- MODULE BBuddy -------------------------------
(***************************************************************************)
(* The binary buddy page allocator (lib/ukallocbbuddy/bbuddy.c).  Memory   *)
(* is measured in pages, a chunk is named by its first page.  `heap' below *)
(* is struct uk_bbpalloc with what it keeps in the memory it manages: the  *)
(* regions with their bitmaps, and the level in the head of free chunks.   *)
(* What the owner of a chunk leaves in it is Junk.  Free memory regions    *)
(* are aligned at both ends (UK_ASSERT_VALID_FREE_MRD), so the rounding to *)
(* pages in addmem and init has nothing to do.                             *)
(*                                                                         *)
(* The loops of palloc and pfree are written as what they compute: the     *)
(* k-th turn of the merge looks at the buddy of the freed chunk at order   *)
(* k, and neither the bitmap nor a level changes before the last turn.     *)
(***************************************************************************)
EXTENDS Integers, Sequences, SequencesExt, FiniteSetsExt

CONSTANTS FREELIST_SIZE,
          PAGES_PER_MAPWORD,
          LastPage,   \* of the address space
          NoHeap, NoPage, Junk

ASSUME BBuddyAssumption == /\ FREELIST_SIZE \in Nat \ {0}
                           /\ PAGES_PER_MAPWORD \in Nat \ {0}
                           /\ LastPage \in 1 .. 2 ^ FREELIST_SIZE

Orders == 0 .. FREELIST_SIZE - 1

Bits == 0 .. PAGES_PER_MAPWORD - 1

Chunk(page, order) == page .. page + 2 ^ order - 1

map_get_memr(heap, page) ==
    {i \in DOMAIN heap.memr : /\ page >= heap.memr[i].first_page
                              /\ page < heap.memr[i].first_page + heap.memr[i].nr_pages}

\* Pages outside of every region count as allocated
allocated_in_map(heap, page) ==
    \A i \in map_get_memr(heap, page) :
        LET idx == page - heap.memr[i].first_page
        IN  idx % PAGES_PER_MAPWORD \in heap.memr[i].bitmap[idx \div PAGES_PER_MAPWORD]

\* The bits of a word for n pages of a region, from index first on
MapMask(first, n, word) ==
    LET start == first \div PAGES_PER_MAPWORD
        last  == (first + n) \div PAGES_PER_MAPWORD
    IN  {bit \in Bits : /\ word \in start .. last
                        /\ word = start => bit >= first % PAGES_PER_MAPWORD
                        /\ word = last  => bit < (first + n) % PAGES_PER_MAPWORD}

map_alloc(heap, page, n) ==
    LET i == CHOOSE m \in map_get_memr(heap, page) : TRUE
        first == page - heap.memr[i].first_page
    IN  [heap EXCEPT !.nr_free_pages = @ - n,
                     !.memr[i].bitmap = [w \in DOMAIN @ |-> @[w] \cup MapMask(first, n, w)]]

map_free(heap, page, n) ==
    LET i == CHOOSE m \in map_get_memr(heap, page) : TRUE
        first == page - heap.memr[i].first_page
    IN  [heap EXCEPT !.nr_free_pages = @ + n,
                     !.memr[i].bitmap = [w \in DOMAIN @ |-> @[w] \ MapMask(first, n, w)]]

num_pages_to_order(n) == Min({k \in 0 .. FREELIST_SIZE : 2 ^ k >= n})

-----------------------------------------------------------------------------
\* The smallest chunk that is large enough, split down to the order.  Each
\* split links the upper half; the lists below were empty.
bbuddy_palloc(heap, num_pages) ==
    LET order == num_pages_to_order(num_pages)
        large == {i \in order .. FREELIST_SIZE - 1 : heap.free_head[i] # <<>>}
        found == Min(large)
        ch    == Head(heap.free_head[found])
        linked == [i \in Orders |-> CASE i = found -> Tail(heap.free_head[i])
                                      [] i \in order .. found - 1 -> <<ch + 2 ^ i>>
                                      [] OTHER -> heap.free_head[i]]
        levels == [p \in DOMAIN heap.level |->
                      IF \E i \in order .. found - 1 : p = ch + 2 ^ i
                      THEN CHOOSE i \in order .. found - 1 : p = ch + 2 ^ i
                      ELSE IF p \in Chunk(ch, order) THEN Junk ELSE heap.level[p]]
    IN  IF large = {} THEN [heap |-> heap, page |-> NoPage]
        ELSE [heap |-> map_alloc([heap EXCEPT !.free_head = linked, !.level = levels],
                                 ch, 2 ^ order),
              page |-> ch]

\* The chunk of that order that holds the page
Whole(page, order) == page - (page % (2 ^ order))

Buddy(page, order) ==
    LET ch == Whole(page, order)
    IN  IF (ch \div 2 ^ order) % 2 = 1 THEN ch - 2 ^ order ELSE ch + 2 ^ order

\* Mutant: the level of the buddy is not looked at
MergesAnyLevel(heap, page, order, lucky) == ~allocated_in_map(heap, Buddy(page, order))

\* Mutant: chunks are merged with their successors only
MergesUpwards(heap, page, order, lucky) ==
    LET buddy == Buddy(page, order)
    IN  /\ buddy > Whole(page, order)
        /\ ~allocated_in_map(heap, buddy)
        /\ heap.level[buddy] = order \/ (heap.level[buddy] = Junk /\ lucky)

\* Junk may happen to be the level
Merges(heap, page, order, lucky) ==
    LET buddy == Buddy(page, order)
    IN  /\ ~allocated_in_map(heap, buddy)
        /\ heap.level[buddy] = order \/ (heap.level[buddy] = Junk /\ lucky)

bbuddy_pfree(heap, page, num_pages, lucky) ==
    LET order == num_pages_to_order(num_pages)
        freed == map_free(heap, page, 2 ^ order)
        top   == Min({k \in order .. FREELIST_SIZE : ~Merges(freed, page, k, lucky)})
        unlinked == [k \in Orders |-> IF k \in order .. top - 1
                                      THEN Remove(heap.free_head[k], Buddy(page, k))
                                      ELSE heap.free_head[k]]
    IN  [freed EXCEPT !.free_head = [unlinked EXCEPT ![top] = <<Whole(page, top)>> \o @],
                      !.level[Whole(page, top)] = top]

-----------------------------------------------------------------------------
\* A unit is limited by the alignment of min and by what is left
UnitOrder(min, range) == Min({k \in Orders : 2 ^ (k + 1) > range \/ (min \div 2 ^ k) % 2 = 1})

\* The units a range is cut into, up to the page before max
Units(min, max) ==
    LET units[range \in 0 .. max - min] ==
            IF range = 0 THEN <<>>
            ELSE LET page == max - range
                     order == UnitOrder(page, range)
                 IN  <<[page |-> page, order |-> order]>> \o units[range - 2 ^ order]
    IN  units[max - min]

\* One page holds struct uk_bbpalloc_memr and the bitmap of 32448 pages
MemrPages == 1

\* With too little space (-EINVAL), nothing is added
bbuddy_addmem(heap, base, len) ==
    LET min   == base + MemrPages
        nr    == len - MemrPages
        units == Units(min, base + len)
        memr  == [first_page |-> min, nr_pages |-> nr,
                  bitmap |-> [w \in 0 .. nr \div PAGES_PER_MAPWORD |-> Bits]]
        added == map_free([heap EXCEPT !.memr = <<memr>> \o @], min, nr)
        OfOrder(k) == SelectSeq(Reverse(units), LAMBDA u : u.order = k)
    IN  IF len < MemrPages + 1 THEN heap
        ELSE [added EXCEPT
                !.free_head = [k \in Orders |-> [j \in 1 .. Len(OfOrder(k)) |-> OfOrder(k)[j].page] \o @[k]],
                !.level = [p \in DOMAIN @ |-> IF \E j \in DOMAIN units : units[j].page = p
                                              THEN UnitOrder(p, base + len - p) ELSE @[p]]]

\* One page holds struct uk_alloc with struct uk_bbpalloc
DescPages == 1

EmptyHeap == [nr_free_pages |-> 0,
              free_head |-> [k \in Orders |-> <<>>],
              memr |-> <<>>,
              level |-> [p \in 0 .. LastPage |-> Junk]]

uk_allocbbuddy_init(base, len) ==
    IF len < DescPages THEN NoHeap
    ELSE IF len = DescPages THEN EmptyHeap
    ELSE bbuddy_addmem(EmptyHeap, base + DescPages, len - DescPages)

-----------------------------------------------------------------------------
FreeChunks(heap) == UNION {{<<p, k>> : p \in ToSet(heap.free_head[k])} : k \in Orders}

DataPages(heap) ==
    UNION {heap.memr[i].first_page .. heap.memr[i].first_page + heap.memr[i].nr_pages - 1 :
             i \in DOMAIN heap.memr}

FreePages(heap) == UNION {Chunk(c[1], c[2]) : c \in FreeChunks(heap)}
=============================================================================
