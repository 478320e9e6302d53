------------------------------ MODULE Virtqueue ------------------------------
(***************************************************************************)
(* Virtqueues (drivers/virtio/ring/virtio_ring.c): descriptors in a free   *)
(* list threaded through the ones the device does not have, the ring that  *)
(* makes chains of them available to the host and the ring of those it has *)
(* used.  The host is external.                                            *)
(*                                                                         *)
(* A ring holds at most Num chains, so that its 16-bit indices never lap   *)
(* each other (VqIntact); the ring of used chains is the sequence between  *)
(* last_used_desc_idx and used->idx.                                       *)
(***************************************************************************)
EXTENDS Integers, FiniteSets, Sequences, SequencesExt

CONSTANTS Num,        \* vring.num, a power of two
          Cookies,    \* what drivers enqueue
          NoCookie

ASSUME VirtqueueAssumption == Num \in Nat \ {0} /\ NoCookie \notin Cookies

Descs == 0..(Num - 1)
End == Num      \* VIRTQUEUE_MAX_SIZE as a next: no descriptor

VARIABLES desc,        \* [next, more]: more is VRING_DESC_F_NEXT
          head_free,   \* head_free_desc
          desc_avail,
          vq_info,     \* [cookie, count] of the chain that starts here
          avail,       \* chains made available to the host, which reads the ring in time
          used,        \* chains the host has returned
          irq          \* an interrupt of the device is pending

vqVars == <<desc, head_free, desc_avail, vq_info, avail, used, irq>>

NoInfo == [cookie |-> NoCookie, count |-> 0]

\* virtqueue_vring_init()
VqInit == /\ desc = [i \in Descs |-> [next |-> i + 1, more |-> FALSE]]
          /\ head_free = 0
          /\ desc_avail = Num
          /\ vq_info = [i \in Descs |-> NoInfo]
          /\ avail = {}
          /\ used = <<>>
          /\ irq = FALSE

\* The first n descriptors of the free list
FreeChain(n) ==
    LET chain[i \in 1..n] == IF i = 1 THEN head_free ELSE desc[chain[i - 1]].next IN chain

\* Mutant: the last descriptor of a chain still points to the next free one
EnqueueSegmentsOpen(chain) ==
    [d \in Descs |-> IF \E i \in DOMAIN chain : chain[i] = d
                     THEN [desc[d] EXCEPT !.more = desc[d].next # End] ELSE desc[d]]

\* virtqueue_buffer_enqueue_segments()
EnqueueSegments(chain) ==
    [d \in Descs |-> IF \E i \in DOMAIN chain : chain[i] = d
                     THEN [desc[d] EXCEPT !.more = d # chain[Len(chain)]] ELSE desc[d]]

Fits(n) == n <= desc_avail

\* When it has n descriptors; otherwise it returns -EINVAL or -ENOSPC
virtqueue_buffer_enqueue(cookie, n) ==
    LET chain == FreeChain(n) IN
    /\ Fits(n)
    /\ vq_info' = [vq_info EXCEPT ![head_free] = [cookie |-> cookie, count |-> n]]
    /\ desc' = EnqueueSegments(chain)
    /\ head_free' = desc[chain[n]].next
    /\ desc_avail' = desc_avail - n
    /\ avail' = avail \cup {head_free}
    /\ UNCHANGED <<used, irq>>

virtqueue_hasdata == used # <<>>

\* The chain that starts at a descriptor
ChainFrom(head) ==
    LET reach[n \in 0..Num] ==
          IF n = 0 THEN {head}
          ELSE LET r == reach[n - 1]
               IN  r \cup {desc[d].next : d \in {e \in r \cap Descs : desc[e].more}}
    IN reach[Num]

LastOf(head) == CHOOSE d \in ChainFrom(head) : ~desc[d].more

Returned == Head(used)   \* id of the next element of the used ring

\* The flags of a free descriptor are of no use, and FALSE here
virtqueue_detach_desc(head) ==
    /\ desc_avail' = desc_avail + vq_info[head].count
    /\ desc' = [d \in Descs |->
                  IF d \in ChainFrom(head)
                  THEN [next |-> IF d = LastOf(head) THEN head_free ELSE desc[d].next, more |-> FALSE]
                  ELSE desc[d]]
    /\ head_free' = head

\* The cookie of the chain is vq_info[Returned].cookie
virtqueue_buffer_dequeue ==
    /\ virtqueue_hasdata
    /\ virtqueue_detach_desc(Returned)
    /\ vq_info' = [vq_info EXCEPT ![Returned] = NoInfo]
    /\ used' = Tail(used)
    /\ UNCHANGED avail

\* The host returns chains in any order
Host ==
    /\ \E head \in avail :
          /\ avail' = avail \ {head}
          /\ used' = Append(used, head)
    /\ irq' = TRUE
    /\ UNCHANGED <<desc, head_free, desc_avail, vq_info>>

-----------------------------------------------------------------------------
Heads == {i \in Descs : vq_info[i].cookie # NoCookie}

\* The descriptors are the free ones, in one list of desc_avail, and those of the
\* chains in flight, each as long as was enqueued: all of them, and none in two
\* places.  Every chain in flight is with the host or in the used ring, once.
VqIntact ==
    LET chain == FreeChain(desc_avail)
        free == {chain[i] : i \in 1..desc_avail}
        chains == {ChainFrom(h) : h \in Heads}
    IN  /\ Cardinality(free) = desc_avail
        /\ UNION chains = Descs \ free
        /\ \A c, d \in chains : c # d => c \cap d = {}
        /\ \A h \in Heads : \E c \in chains : h \in c /\ Cardinality(c) = vq_info[h].count
        /\ Cardinality(chains) = Cardinality(Heads)
        /\ Heads = avail \cup Range(used)
        /\ Cardinality(Heads) = Cardinality(avail) + Len(used)
=============================================================================
