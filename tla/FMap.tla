-------------------------------- MODULE FMap --------------------------------
(***************************************************************************)
(* The lock-free map under the descriptor table (lib/posix-fdtab/fmap.h):  *)
(* a bitmap of the free indices and an array of entries.  Every atomic     *)
(* operation on either is a step, so that threads interleave between any   *)
(* two of them.  uk_find_next_bit() reads the bitmap word by word, which   *)
(* is modelled with words of one bit.                                      *)
(***************************************************************************)
EXTENDS Integers

CONSTANTS Threads, Entries,
          Size,   \* bmap.size
          Null

ASSUME FMapAssumption == Size \in Nat /\ Null \notin Entries

Indices == 0..(Size - 1)

VARIABLES free,  \* the bitmap: a one is a free index
          map,
          pc,    \* where each thread is in a function of the map
          idx,   \* its index
          min,   \* where its uk_bmap_request() starts
          new,   \* the entry it puts
          got    \* the entry it took or found, or Null

mapVars == <<free, map, pc, idx, min, new, got>>

\* Places at which the thread alone may change its index
Owning == {"store", "unreserve", "critical", "creserve", "cstore", "xput", "xstore"}

Places == Owning \cup {"out", "look", "lookfree", "find", "reserve", "take", "takeout",
                       "ctake", "cfree", "xreserve", "xtake", "xfree"}

MapTypeOK == /\ free \subseteq Indices
             /\ map \in [Indices -> Entries \cup {Null}]
             /\ pc \in [Threads -> Places]
             /\ idx \in [Threads -> 0..Size]
             /\ min \in [Threads -> 0..Size]
             /\ new \in [Threads -> Entries \cup {Null}]
             /\ got \in [Threads -> Entries \cup {Null}]

\* uk_fmap_init()
MapInit == /\ free = Indices
           /\ map = [i \in Indices |-> Null]
           /\ pc = [t \in Threads |-> "out"]
           /\ idx = [t \in Threads |-> 0]
           /\ min = [t \in Threads |-> 0]
           /\ new = [t \in Threads |-> Null]
           /\ got = [t \in Threads |-> Null]

At(t, place) == pc[t] = place

Goto(t, place) == pc' = [pc EXCEPT ![t] = place]

\* A function that returns loses its arguments
Leave(t, place) ==
    /\ Goto(t, place)
    /\ min' = IF place = "out" THEN [min EXCEPT ![t] = 0] ELSE min
    /\ new' = IF place = "out" THEN [new EXCEPT ![t] = Null] ELSE new

\* Its caller drops the result
Forget(t) ==
    /\ At(t, "out")
    /\ idx' = [idx EXCEPT ![t] = 0]
    /\ got' = [got EXCEPT ![t] = Null]
    /\ UNCHANGED <<free, map, pc, min, new>>

\* A function of the map is called with index i (or a search from i) and entry p
Call(t, place, i, p) ==
    /\ At(t, "out")
    /\ Goto(t, place)
    /\ idx' = [idx EXCEPT ![t] = i]
    /\ min' = [min EXCEPT ![t] = IF place = "find" THEN i ELSE 0]
    /\ new' = [new EXCEPT ![t] = p]
    /\ got' = [got EXCEPT ![t] = Null]
    /\ UNCHANGED <<free, map>>

uk_fmap_lookup(t, i) == Call(t, "look", i, Null)

uk_fmap_put(t, p, i) == Call(t, "find", i, p)

uk_fmap_take(t, i) == Call(t, "take", i, Null)

uk_fmap_critical_take(t, i) == Call(t, "ctake", i, Null)

uk_fmap_xchg(t, i, p) == Call(t, "xreserve", i, p)

\* By the thread that has taken the entry, and only by it
uk_fmap_critical_put(t, p) ==
    /\ At(t, "critical")
    /\ Goto(t, "creserve")
    /\ new' = [new EXCEPT ![t] = p]
    /\ UNCHANGED <<free, map, idx, min, got>>

-----------------------------------------------------------------------------
(* Steps: one atomic operation each                                         *)

\* got = m->map[idx]
LookUp(t) ==
    /\ At(t, "look")
    /\ got' = [got EXCEPT ![t] = map[idx[t]]]
    /\ Leave(t, IF map[idx[t]] = Null THEN "lookfree" ELSE "out")
    /\ UNCHANGED <<free, map, idx>>

\* uk_bmap_isfree() after an entry was not there: absent, or in other hands
IsFree(t, at, absent, retry) ==
    /\ At(t, at)
    /\ Leave(t, IF idx[t] \in free THEN absent ELSE retry)
    /\ UNCHANGED <<free, map, idx, got>>

\* uk_find_next_bit() in uk_bmap_request(), one word: idx is the position
FindNext(t) ==
    /\ At(t, "find")
    /\ Leave(t, IF idx[t] >= Size THEN "out" ELSE IF idx[t] \in free THEN "reserve" ELSE "find")
    /\ idx' = IF idx[t] >= Size \/ idx[t] \in free THEN idx ELSE [idx EXCEPT ![t] = @ + 1]
    /\ UNCHANGED <<free, map, got>>

\* Mutant: the result of uk_bmap_reserve() is not looked at
RequestUnchecked(t) ==
    /\ At(t, "reserve")
    /\ free' = free \ {idx[t]}
    /\ Goto(t, "store")
    /\ UNCHANGED <<map, idx, min, new, got>>

\* uk_bmap_reserve() in uk_bmap_request(): the loser of a race searches again
RequestReserve(t) ==
    /\ At(t, "reserve")
    /\ free' = free \ {idx[t]}
    /\ IF idx[t] \in free THEN Goto(t, "store") /\ UNCHANGED idx
       ELSE Goto(t, "find") /\ idx' = [idx EXCEPT ![t] = min[t]]
    /\ UNCHANGED <<map, min, new, got>>

\* uk_exchange_n(&m->map[idx], p); UK_ASSERT(got == NULL)
Store(t, at) ==
    /\ At(t, at)
    /\ map' = [map EXCEPT ![idx[t]] = new[t]]
    /\ Leave(t, "out")
    /\ UNCHANGED <<free, idx, got>>

\* got = uk_exchange_n(&m->map[idx], NULL)
TakeOut(t, at, done, empty) ==
    /\ At(t, at)
    /\ got' = [got EXCEPT ![t] = map[idx[t]]]
    /\ map' = [map EXCEPT ![idx[t]] = Null]
    /\ Goto(t, IF map[idx[t]] = Null THEN empty ELSE done)
    /\ UNCHANGED <<free, idx, min, new>>

\* uk_bmap_free() in uk_fmap_take(); UK_ASSERT(!v)
TakeUnreserve(t) ==
    /\ At(t, "unreserve")
    /\ free' = free \cup {idx[t]}
    /\ Leave(t, "out")
    /\ UNCHANGED <<map, idx, got>>

\* uk_bmap_reserve() in uk_fmap_critical_put(), whose result is ignored
CriticalReserve(t, at, next) ==
    /\ At(t, at)
    /\ free' = free \ {idx[t]}
    /\ Goto(t, next)
    /\ UNCHANGED <<map, idx, min, new, got>>

\* uk_bmap_reserve() in uk_fmap_xchg(): a free index is a plain put
ExchangeReserve(t) ==
    /\ At(t, "xreserve")
    /\ free' = free \ {idx[t]}
    /\ Goto(t, IF idx[t] \in free THEN "store" ELSE "xtake")
    /\ UNCHANGED <<map, idx, min, new, got>>

MapStep(t) == \/ LookUp(t)
              \/ IsFree(t, "lookfree", "out", "look")
              \/ FindNext(t)
              \/ RequestReserve(t)
              \/ Store(t, "store")
              \/ IsFree(t, "take", "out", "takeout")
              \/ TakeOut(t, "takeout", "unreserve", "take")
              \/ TakeUnreserve(t)
              \/ TakeOut(t, "ctake", "critical", "cfree")
              \/ IsFree(t, "cfree", "out", "ctake")
              \/ CriticalReserve(t, "creserve", "cstore")
              \/ Store(t, "cstore")
              \/ ExchangeReserve(t)
              \/ TakeOut(t, "xtake", "xput", "xfree")
              \/ IsFree(t, "xfree", "xreserve", "xtake")
              \/ CriticalReserve(t, "xput", "xstore")
              \/ Store(t, "xstore")

\* What the users of the map may call
MapCall(t) == \/ \E i \in Indices : \/ uk_fmap_lookup(t, i)
                                    \/ uk_fmap_take(t, i)
                                    \/ uk_fmap_critical_take(t, i)
              \/ \E i \in Indices, p \in Entries : uk_fmap_xchg(t, i, p)
              \/ \E i \in 0..Size, p \in Entries : uk_fmap_put(t, p, i)
              \/ \E p \in Entries : uk_fmap_critical_put(t, p)
              \/ Forget(t)

MapNext == \E t \in Threads : MapCall(t) \/ MapStep(t)

\* The use of the map that its comments allow
MapSpec == MapInit /\ [][MapNext]_mapVars

-----------------------------------------------------------------------------
Owns(t, i) == pc[t] \in Owning /\ idx[t] = i

\* The bitmap and the array, updated by separate atomic operations, agree on
\* who may change an index: it is free and empty, or it holds an entry, or it is
\* empty in the hands of exactly one thread.  The three assertions of fmap.h
\* follow: who stores finds the index empty, who frees it finds it used.
SlotOwned ==
    \A i \in Indices :
        /\ i \in free => map[i] = Null
        /\ \A t \in Threads : Owns(t, i) => i \notin free /\ map[i] = Null
        /\ \A t, u \in Threads : Owns(t, i) /\ Owns(u, i) => t = u
        /\ i \notin free /\ map[i] = Null => \E t \in Threads : Owns(t, i)
=============================================================================
