---------------------------- MODULE FdTab_proofs ----------------------------
(* The descriptor table, for any number of threads, any size of the table    *)
(* and any interleaving of the atomic operations of fmap.h and of the        *)
(* reference counts: every index of the map has at most one owner, every     *)
(* reference is counted exactly, and nothing is freed under a reference.     *)
EXTENDS FdTab, TLAPS

\* Places at which the thread still has an entry to store
Putting == {"find", "reserve", "store", "creserve", "cstore", "xreserve", "xtake",
            "xfree", "xput", "xstore"}

\* Places at which it has taken one out, and those before
Fetched == {"unreserve", "critical", "xput", "xstore"}
Fetching == {"lookfree", "find", "reserve", "store", "take", "takeout", "ctake", "cfree",
             "xreserve", "xtake", "xfree"}

\* SlotOwned is inductive together with the ranges of the arguments: an index in
\* the table wherever it is used, and an entry wherever one will be stored
Args(t) == /\ pc[t] \notin {"out", "find"} => idx[t] \in Indices
           /\ pc[t] \in Putting <=> new[t] # Null
           /\ pc[t] \in Fetched => got[t] # Null
           /\ pc[t] \in Fetching => got[t] = Null

MapInv == MapTypeOK /\ SlotOwned /\ \A t \in Threads : Args(t)

\* Most leaves are first-order: Zenon proves them, and the others name SMT
USE Zenon
USE DEF Releasing, GivenBack

\* uk_fmap_init() gives an empty table with every index free.
LEMMA MapInitOK == MapInit => MapInv
  BY FMapAssumption, SMT DEF MapInit, MapInv, MapTypeOK, SlotOwned, Args, Owns, Owning, Places,
     Putting, Fetched, Fetching, Indices

\* A step that leaves table and bitmap alone, and moves one thread between
\* places that own nothing, or within the places that own its index, keeps every
\* owner.
LEMMA Moves ==
    ASSUME MapInv, NEW t \in Threads, MapTypeOK', UNCHANGED <<free, map>>,
           \A u \in Threads \ {t} : pc'[u] = pc[u] /\ idx'[u] = idx[u],
           pc'[t] \in Owning <=> pc[t] \in Owning,
           pc[t] \in Owning => idx'[t] = idx[t]
    PROVE  SlotOwned'
  <1>1. \A u \in Threads, i \in Indices : Owns(u, i)' <=> Owns(u, i)
    BY DEF MapInv, MapTypeOK, Owns
  <1> QED
    BY <1>1 DEF MapInv, SlotOwned

\* A thread that makes an unowned index its own (it was free, or it held an entry
\* that the thread took out) leaves one owner everywhere.
LEMMA Acquires ==
    ASSUME MapInv, NEW t \in Threads, NEW i \in Indices, MapTypeOK',
           i \in free \/ map[i] # Null,
           pc[t] \notin Owning, pc'[t] \in Owning, idx'[t] = i,
           \A u \in Threads \ {t} : pc'[u] = pc[u] /\ idx'[u] = idx[u],
           i \notin free', map'[i] = Null,
           \A j \in Indices \ {i} : (j \in free' <=> j \in free) /\ map'[j] = map[j]
    PROVE  SlotOwned'
  <1>1. \A u \in Threads : ~ Owns(u, i)
    BY DEF MapInv, SlotOwned
  <1>2. \A u \in Threads, j \in Indices : Owns(u, j)' <=> Owns(u, j) \/ (u = t /\ j = i)
    BY <1>1, SMT DEF MapInv, MapTypeOK, Owns
  <1> QED
    BY <1>1, <1>2, SMT DEF MapInv, SlotOwned

\* The owner of an index that stores an entry in it, or frees it, leaves it with
\* no owner.
LEMMA Releases ==
    ASSUME MapInv, NEW t \in Threads, MapTypeOK',
           pc[t] \in Owning, pc'[t] \notin Owning, idx[t] \in Indices,
           \A u \in Threads \ {t} : pc'[u] = pc[u] /\ idx'[u] = idx[u],
           \/ idx[t] \in free' /\ map'[idx[t]] = Null
           \/ idx[t] \notin free' /\ map'[idx[t]] # Null,
           \A j \in Indices \ {idx[t]} : (j \in free' <=> j \in free) /\ map'[j] = map[j]
    PROVE  SlotOwned'
  <1>1. \A u \in Threads \ {t} : ~ Owns(u, idx[t])
    BY DEF MapInv, SlotOwned, Owns
  <1>2. \A u \in Threads, j \in Indices : Owns(u, j)' <=> Owns(u, j) /\ u # t
    BY DEF MapInv, MapTypeOK, Owns
  <1> QED
    BY <1>1, <1>2, SMT DEF MapInv, SlotOwned, Owns

\* The calls: a thread enters a function with arguments in range, or, owning an
\* index, gives the entry to put back.
LEMMA CallInv == ASSUME MapInv, NEW t \in Threads, MapCall(t) PROVE MapInv'
  <1> USE FMapAssumption DEF Places, Owning, Putting, Fetched, Fetching
  <1>1. ASSUME NEW place \in {"look", "find", "take", "ctake", "xreserve"},
               NEW i \in 0..Size, NEW p \in Entries \cup {Null}, Call(t, place, i, p),
               place # "find" => i \in Indices,
               place \in {"find", "xreserve"} <=> p # Null
        PROVE  MapInv'
    <2>1. MapTypeOK' /\ \A u \in Threads : Args(u)'
      BY <1>1, SMT DEF Call, At, Goto, MapInv, MapTypeOK, Args
    <2>2. SlotOwned'
      BY <1>1, <2>1, Moves DEF Call, At, Goto, MapInv, MapTypeOK
    <2> QED
      BY <2>1, <2>2 DEF MapInv
  <1>2. ASSUME NEW i \in Indices, uk_fmap_lookup(t, i) \/ uk_fmap_take(t, i) \/ uk_fmap_critical_take(t, i)
        PROVE  MapInv'
    BY <1>1, <1>2, SMT DEF Indices, uk_fmap_lookup, uk_fmap_take, uk_fmap_critical_take
  <1>3. ASSUME NEW i \in Indices, NEW p \in Entries, uk_fmap_xchg(t, i, p)
        PROVE  MapInv'
    BY <1>1, <1>3, SMT DEF Indices, uk_fmap_xchg
  <1>4. ASSUME NEW i \in 0..Size, NEW p \in Entries, uk_fmap_put(t, p, i)
        PROVE  MapInv'
    BY <1>1, <1>4 DEF uk_fmap_put
  <1>5. ASSUME NEW p \in Entries, uk_fmap_critical_put(t, p)
        PROVE  MapInv'
    <2>1. MapTypeOK' /\ \A u \in Threads : Args(u)'
      BY <1>5 DEF uk_fmap_critical_put, At, Goto, MapInv, MapTypeOK, Args
    <2>2. SlotOwned'
      BY <1>5, <2>1, Moves DEF uk_fmap_critical_put, At, Goto, MapInv, MapTypeOK
    <2> QED
      BY <2>1, <2>2 DEF MapInv
  <1>6. CASE Forget(t)
    <2>1. MapTypeOK' /\ \A u \in Threads : Args(u)'
      BY <1>6, SMT DEF Forget, At, MapInv, MapTypeOK, Args
    <2>2. SlotOwned'
      BY <1>6, <2>1, Moves DEF Forget, At, MapInv, MapTypeOK
    <2> QED
      BY <2>1, <2>2 DEF MapInv
  <1> QED
    BY <1>2, <1>3, <1>4, <1>5, <1>6 DEF MapCall

\* The two ways of seeing that an entry is in the hands of somebody else, and the
\* search for a free index, change nothing that is shared.
LEMMA LookInv ==
    ASSUME MapInv, NEW t \in Threads,
           \/ LookUp(t)
           \/ FindNext(t)
           \/ IsFree(t, "lookfree", "out", "look")
           \/ IsFree(t, "take", "out", "takeout")
           \/ IsFree(t, "cfree", "out", "ctake")
           \/ IsFree(t, "xfree", "xreserve", "xtake")
    PROVE  MapInv'
  <1> USE FMapAssumption DEF Places, Owning, Putting, Fetched, Fetching, At, Goto, Leave
  <1>1. CASE LookUp(t)
    <2>1. MapTypeOK' /\ \A u \in Threads : Args(u)'
      BY <1>1, SMT DEF LookUp, MapInv, MapTypeOK, Args
    <2>2. SlotOwned'
      BY <1>1, <2>1, Moves DEF LookUp, MapInv, MapTypeOK
    <2> QED
      BY <2>1, <2>2 DEF MapInv
  <1>2. CASE FindNext(t)
    <2>1. MapTypeOK' /\ \A u \in Threads : Args(u)'
      BY <1>2, SMT DEF FindNext, MapInv, MapTypeOK, Args, Indices
    <2>2. SlotOwned'
      BY <1>2, <2>1, Moves DEF FindNext, MapInv, MapTypeOK
    <2> QED
      BY <2>1, <2>2 DEF MapInv
  <1>3. ASSUME NEW at, NEW absent, NEW retry, IsFree(t, at, absent, retry),
               \/ at = "lookfree" /\ absent = "out" /\ retry = "look"
               \/ at = "take" /\ absent = "out" /\ retry = "takeout"
               \/ at = "cfree" /\ absent = "out" /\ retry = "ctake"
               \/ at = "xfree" /\ absent = "xreserve" /\ retry = "xtake"
        PROVE  MapInv'
    <2>1. MapTypeOK' /\ \A u \in Threads : Args(u)'
      BY <1>3, SMT DEF IsFree, MapInv, MapTypeOK, Args
    <2>2. SlotOwned'
      BY <1>3, <2>1, Moves DEF IsFree, MapInv, MapTypeOK
    <2> QED
      BY <2>1, <2>2 DEF MapInv
  <1> QED
    BY <1>1, <1>2, <1>3

\* A reservation: whoever clears the bit of a free index owns it, anybody else
\* owns what it owned.
LEMMA ReserveInv ==
    ASSUME MapInv, NEW t \in Threads,
           \/ RequestReserve(t)
           \/ ExchangeReserve(t)
           \/ CriticalReserve(t, "creserve", "cstore")
           \/ CriticalReserve(t, "xput", "xstore")
    PROVE  MapInv'
  <1> USE FMapAssumption DEF Places, Owning, Putting, Fetched, Fetching, At, Goto
  <1>1. MapTypeOK' /\ \A u \in Threads : Args(u)'
    BY SMT DEF RequestReserve, ExchangeReserve, CriticalReserve, MapInv, MapTypeOK, Args
  <1>2. idx[t] \in Indices
    BY DEF RequestReserve, ExchangeReserve, CriticalReserve, MapInv, Args
  <1>3. CASE idx[t] \in free
    <2>1. RequestReserve(t) \/ ExchangeReserve(t)
      BY <1>2, <1>3 DEF CriticalReserve, MapInv, SlotOwned, Owns
    <2>2. map[idx[t]] = Null
      BY <1>2, <1>3 DEF MapInv, SlotOwned
    <2>3. SlotOwned'
      BY <1>1, <1>2, <1>3, <2>1, <2>2, Acquires DEF RequestReserve, ExchangeReserve, MapInv, MapTypeOK
    <2> QED
      BY <1>1, <2>3 DEF MapInv
  <1>4. CASE idx[t] \notin free
    <2>1. free' = free
      BY <1>4 DEF RequestReserve, ExchangeReserve, CriticalReserve
    <2>2. SlotOwned'
      BY <1>1, <1>4, <2>1, Moves DEF RequestReserve, ExchangeReserve, CriticalReserve, MapInv, MapTypeOK
    <2> QED
      BY <1>1, <2>2 DEF MapInv
  <1> QED
    BY <1>3, <1>4

\* The exchanges on the array: who takes an entry out owns its index until it
\* stores one again or frees the index.
LEMMA ExchangeInv ==
    ASSUME MapInv, NEW t \in Threads,
           \/ \E at \in {"store", "cstore", "xstore"} : Store(t, at)
           \/ TakeUnreserve(t)
           \/ TakeOut(t, "takeout", "unreserve", "take")
           \/ TakeOut(t, "ctake", "critical", "cfree")
           \/ TakeOut(t, "xtake", "xput", "xfree")
    PROVE  MapInv'
  <1> USE FMapAssumption DEF Places, Owning, Putting, Fetched, Fetching, At, Goto, Leave
  <1>1. ASSUME NEW at \in {"store", "cstore", "xstore"}, Store(t, at)
        PROVE  MapInv'
    <2>1. MapTypeOK' /\ \A u \in Threads : Args(u)'
      BY <1>1, SMT DEF Store, MapInv, MapTypeOK, Args
    <2>2. idx[t] \in Indices /\ new[t] # Null /\ idx[t] \notin free
      BY <1>1 DEF Store, MapInv, Args, SlotOwned, Owns
    <2>3. SlotOwned'
      BY <1>1, <2>1, <2>2, Releases DEF Store, MapInv, MapTypeOK
    <2> QED
      BY <2>1, <2>3 DEF MapInv
  <1>2. CASE TakeUnreserve(t)
    <2>1. idx[t] \in Indices /\ map[idx[t]] = Null
      BY <1>2 DEF TakeUnreserve, MapInv, Args, SlotOwned, Owns
    <2>2. MapTypeOK' /\ \A u \in Threads : Args(u)'
      BY <1>2, <2>1, SMT DEF TakeUnreserve, MapInv, MapTypeOK, Args
    <2>3. SlotOwned'
      BY <1>2, <2>1, <2>2, Releases DEF TakeUnreserve, MapInv, MapTypeOK
    <2> QED
      BY <2>2, <2>3 DEF MapInv
  <1>3. ASSUME NEW at, NEW done, NEW empty, TakeOut(t, at, done, empty),
               \/ at = "takeout" /\ done = "unreserve" /\ empty = "take"
               \/ at = "ctake" /\ done = "critical" /\ empty = "cfree"
               \/ at = "xtake" /\ done = "xput" /\ empty = "xfree"
        PROVE  MapInv'
    <2>1. idx[t] \in Indices
      BY <1>3 DEF TakeOut, MapInv, Args
    <2>2. MapTypeOK' /\ \A u \in Threads : Args(u)'
      BY <1>3, <2>1 DEF TakeOut, MapInv, MapTypeOK, Args
    <2>3. CASE map[idx[t]] = Null
      <3>1. map' = map
        BY <1>3, <2>1, <2>3 DEF TakeOut, MapInv, MapTypeOK
      <3>2. SlotOwned'
        BY <1>3, <2>2, <2>3, <3>1, Moves DEF TakeOut, MapInv, MapTypeOK
      <3> QED
        BY <2>2, <3>2 DEF MapInv
    <2>4. CASE map[idx[t]] # Null
      <3>1. idx[t] \notin free
        BY <2>1, <2>4 DEF MapInv, SlotOwned
      <3>2. SlotOwned'
        BY <1>3, <2>1, <2>2, <2>4, <3>1, Acquires DEF TakeOut, MapInv, MapTypeOK
      <3> QED
        BY <2>2, <3>2 DEF MapInv
    <2> QED
      BY <2>3, <2>4
  <1> QED
    BY <1>1, <1>2, <1>3

\* Every step of the map keeps the inductive invariant.
LEMMA MapNextOK == MapInv /\ [MapNext]_mapVars => MapInv'
  <1> SUFFICES ASSUME MapInv, [MapNext]_mapVars PROVE MapInv'
    OBVIOUS
  <1>1. CASE UNCHANGED mapVars
    BY <1>1, SMT DEF MapInv, MapTypeOK, SlotOwned, Args, Owns, mapVars
  <1>2. ASSUME NEW t \in Threads, MapCall(t) PROVE MapInv'
    BY <1>2, CallInv
  <1>3. ASSUME NEW t \in Threads, MapStep(t) PROVE MapInv'
    BY <1>3, LookInv, ReserveInv, ExchangeInv DEF MapStep
  <1> QED
    BY <1>1, <1>2, <1>3 DEF MapNext

\* Any number of threads that look up, put, take and exchange descriptors, and
\* take entries out to change them, never own the same index together, and the
\* bitmap and the array of fmap.h agree whenever nobody owns the index.
THEOREM SlotHasOneOwner == MapSpec => []SlotOwned
  <1>1. MapSpec => []MapInv
    BY MapInitOK, MapNextOK, PTL DEF MapSpec
  <1> QED
    BY <1>1, PTL DEF MapInv

-----------------------------------------------------------------------------
(* The table                                                                 *)

\* What a step of one thread leaves alone
Others(t) == \A u \in Threads \ {t} : /\ pc'[u] = pc[u] /\ idx'[u] = idx[u]
                                      /\ new'[u] = new[u] /\ got'[u] = got[u]
                                      /\ step'[u] = step[u] /\ loc'[u] = loc[u]

TInv == TypeOK /\ MapInv /\ CallsInv /\ OfilesInv /\ FilesInv

\* The entries of the map and the descriptors in locals are in range, so whatever
\* fdtab.c calls, a step of the table is a step of the map.
LEMMA OnMap ==
    ASSUME TypeOK, MapInv, CallsInv, NEW t \in Threads, Start(t) \/ Work(t) \/ Use(t)
    PROVE  /\ MapInv'
           /\ Others(t)
           /\ map' # map => pc[t] # "out"
  <1> USE FdTabAssumption, FMapAssumption
  <1>1. SUFFICES [MapCall(t) \/ MapStep(t)]_mapVars
                 /\ (step' = [step EXCEPT ![t] = step'[t]] \/ UNCHANGED step)
                 /\ (loc' = [loc EXCEPT ![t] = loc'[t]] \/ UNCHANGED loc)
    <2>1. MapInv'
      BY <1>1, MapNextOK DEF MapNext
    <2>2. /\ \A u \in Threads \ {t} : pc'[u] = pc[u] /\ idx'[u] = idx[u]
                                     /\ new'[u] = new[u] /\ got'[u] = got[u]
          /\ map' # map => pc[t] # "out"
      <3>1. CASE MapCall(t)
        BY <3>1, SMT DEF MapCall, Call, uk_fmap_lookup, uk_fmap_take, uk_fmap_critical_take, uk_fmap_xchg,
           uk_fmap_put, uk_fmap_critical_put, Forget, Goto, At, MapInv, MapTypeOK
      <3>2. CASE MapStep(t)
        <4> USE DEF Goto, Leave, At, MapInv, MapTypeOK
        <4>1. CASE LookUp(t) \/ FindNext(t) \/ RequestReserve(t) \/ ExchangeReserve(t) \/ TakeUnreserve(t)
          BY <4>1, ZenonT(40) DEF LookUp, FindNext, RequestReserve, ExchangeReserve, TakeUnreserve
        <4>2. ASSUME NEW at, NEW absent, NEW retry, at # "out", \/ IsFree(t, at, absent, retry)
                                                              \/ TakeOut(t, at, absent, retry)
                                                              \/ CriticalReserve(t, at, retry)
                                                              \/ Store(t, at)
              PROVE  /\ \A u \in Threads \ {t} : pc'[u] = pc[u] /\ idx'[u] = idx[u]
                                                /\ new'[u] = new[u] /\ got'[u] = got[u]
                     /\ map' # map => pc[t] # "out"
          BY <4>2, ZenonT(40) DEF IsFree, TakeOut, CriticalReserve, Store
        <4> QED
          BY ONLY <3>2, <4>1, <4>2, Zenon DEF MapStep
      <3> QED
        BY <1>1, <3>1, <3>2 DEF mapVars
    <2> QED
      BY <1>1, <2>1, <2>2 DEF Others, TypeOK, CallsInv
  <1>2. CASE Start(t)
    <2> USE DEF Now, TypeOK, CallsInv, MapCall, Indices
    <2>1. ASSUME NEW f \in Files, NEW of \in Ofiles, NEW cloexec \in OpenFlags,
                 uk_fdtab_open(t, f, of, cloexec)
          PROVE  /\ MapCall(t)
                 /\ step' = [step EXCEPT ![t] = step'[t]] /\ loc' = [loc EXCEPT ![t] = loc'[t]]
      <3>1. [of |-> of, cloexec |-> cloexec] \in Entries /\ 0 \in 0..Size
        BY SMT
      <3> QED
        BY <2>1, <3>1 DEF uk_fdtab_open
    <2>2. ASSUME NEW fd \in Indices, NEW cloexec, NEW newfd, NEW then,
                 \/ uk_sys_close(t, fd)
                 \/ uk_fdtab_getflags(t, fd)
                 \/ uk_fdtab_setflags(t, fd, cloexec)
                 \/ _fdtab_get(t, fd, then, newfd, cloexec)
          PROVE  /\ MapCall(t)
                 /\ step' = [step EXCEPT ![t] = step'[t]] /\ loc' = [loc EXCEPT ![t] = loc'[t]]
      BY <2>2 DEF uk_sys_close, uk_fdtab_getflags, uk_fdtab_setflags, _fdtab_get
    <2>3. CASE uk_fdtab_cloexec(t)
      BY <2>3, SMT DEF uk_fdtab_cloexec
    <2> QED
      BY ONLY <1>2, <2>1, <2>2, <2>3, Zenon DEF Start
  <1>3. CASE Use(t)
    BY <1>3 DEF Use, uk_fdtab_ret, epoll_add, epoll_entry_del, Release, Now, TypeOK, CallsInv, mapVars
  <1>4. CASE InMap(t)
    BY <1>4 DEF InMap
  <1>5. ASSUME Finish(t)
        PROVE  [MapCall(t) \/ MapStep(t)]_mapVars /\ step' = [step EXCEPT ![t] = step'[t]]
               /\ loc' = [loc EXCEPT ![t] = loc'[t]]
    BY <1>5 DEF Finish, Now, TypeOK, CallsInv, MapCall
  <1>6. ASSUME NEW of, Release(t, of)
        PROVE  UNCHANGED mapVars /\ step' = [step EXCEPT ![t] = step'[t]]
               /\ loc' = [loc EXCEPT ![t] = loc'[t]]
    BY <1>6 DEF Release, Now, TypeOK, CallsInv
  <1>7. CASE Opened(t) \/ DupMinDone(t) \/ Dup3Done(t) \/ FlagsDone(t) \/ CloseDone(t)
    BY <1>5, <1>6, <1>7 DEF Opened, DupMinDone, Dup3Done, FlagsDone, CloseDone
  <1>8. CASE GetAcquire(t) \/ SetFlags(t)
    <2>1. got[t] \in Entries
      BY <1>8 DEF GetAcquire, SetFlags, uk_fmap_critical_put, At, MapInv, MapTypeOK, Args, Fetched
    <2>2. [got[t] EXCEPT !.cloexec = loc[t].cloexec] \in Entries
      BY <2>1 DEF CallsInv, Locals
    <2> QED
      BY <1>8, <2>1, <2>2 DEF GetAcquire, SetFlags, MapCall, Now, TypeOK, CallsInv
  <1>9. CASE GetDone(t)
    <2>1. loc[t] \in Locals
      BY DEF CallsInv
    <2>2. loc[t].of # Null => [of |-> loc[t].of, cloexec |-> loc[t].cloexec] \in Entries
      BY <2>1 DEF Locals
    <2>3. step[t] = "get" /\ loc[t].then = "dup3" => loc[t].newfd \in Indices
      BY <2>1 DEF CallsInv, Holds, Locals
    <2>4. On(t, "get")
      BY <1>9 DEF GetDone
    <2>5. CASE Finish(t)
      BY <1>5, <2>5
    <2>6. CASE loc[t].of # Null /\ \E min0 \in Indices :
                  uk_fmap_put(t, [of |-> loc[t].of, cloexec |-> loc[t].cloexec], min0)
      <3>1. MapCall(t)
        BY <2>2, <2>6, SMT DEF MapCall, Indices
      <3> QED
        BY <1>9, <2>6, <3>1, <1>5 DEF GetDone, Now, TypeOK, CallsInv
    <2> QED
      BY <1>9, <2>2, <2>3, <2>4, <2>5, <2>6 DEF GetDone, On, MapCall, Now, TypeOK, CallsInv
  <1>10. CASE Cleanup(t)
    <2>1. loc[t] \in Locals /\ loc[t].cur \in Indices
      BY <1>10 DEF Cleanup, On, CallsInv, Cleans, Locals
    <2>2. loc[t].cur + 1 < Size => loc[t].cur + 1 \in Indices
      BY <2>1, SMT DEF Indices
    <2> QED
      BY <1>6, <1>10, <2>1, <2>2 DEF Cleanup, MapCall, Now, TypeOK, CallsInv
  <1>11. CASE ofile_rel(t) \/ ReleaseStrong(t) \/ ReleaseWeak(t) \/ _release(t) \/ uk_file_refcnt_finalize(t)
    BY <1>5, <1>11 DEF ofile_rel, ReleaseStrong, ReleaseWeak, _release, uk_file_refcnt_finalize,
                       Now, TypeOK, CallsInv, mapVars
  <1> QED
    BY <1>2, <1>3, <1>4, <1>7, <1>8, <1>9, <1>10, <1>11 DEF Work

Is(x, v) == IF x = v THEN 1 ELSE 0

\* The references to an open file that a step of t on index i may move
Refers(t, i, of) == Is(EntryOf(map[i]), of) + Is(InHand(t), of) + Is(ToPut(t), of) + Is(TakenOut(t), of)

\* What most steps use of the assumptions: no pointer, no index and no purpose is
\* Null, and there is an index.
LEMMA NotNull == /\ Null \notin Ofiles /\ Null \notin Files /\ Null \notin Entries /\ Null \notin Indices
                 /\ Null # "take" /\ Null # "next" /\ 0 \in Indices
  BY FdTabAssumption, FMapAssumption, SMT DEF Indices

\* The facts of FiniteSetTheorems that the counts rest on.  The lemmas assume them;
\* they are cited where everything comes together, in TabInvariance
Counting ==
    /\ IsFiniteSet({}) /\ Cardinality({}) = 0 /\ IsFiniteSet(Indices)
    /\ \A S : IsFiniteSet(S) => Cardinality(S) \in Nat /\ (Cardinality(S) = 0 => S = {})
    /\ \A S, T : IsFiniteSet(S) /\ T \subseteq S => IsFiniteSet(T)
    /\ \A S, x : IsFiniteSet(S) =>
          /\ IsFiniteSet(S \cup {x}) /\ (x \notin S => Cardinality(S \cup {x}) = Cardinality(S) + 1)
          /\ IsFiniteSet(S \ {x}) /\ (x \in S => Cardinality(S \ {x}) = Cardinality(S) - 1)

\* Two sets that differ in one element at most differ in size by that element.
LEMMA CountMoves ==
    ASSUME Counting, NEW S, NEW T, NEW x, IsFiniteSet(S), \A y : y # x => (y \in T <=> y \in S)
    PROVE  /\ Cardinality(S) \in Nat /\ Cardinality(T) \in Nat
           /\ Cardinality(T) = Cardinality(S) + (IF x \in T THEN 1 ELSE 0) - (IF x \in S THEN 1 ELSE 0)
  <1>1. Cardinality(S) \in Nat
    BY DEF Counting
  <1>2. CASE x \in T <=> x \in S
    <2>1. T = S
      BY <1>2, SMT
    <2> QED
      BY <1>1, <2>1, SMT
  <1>3. CASE x \in T /\ x \notin S
    <2>1. T = S \cup {x}
      BY <1>3
    <2> QED
      BY <1>1, <1>3, <2>1, SMT DEF Counting
  <1>4. CASE x \notin T /\ x \in S
    <2>1. T = S \ {x}
      BY <1>4
    <2>2. IsFiniteSet(T) /\ Cardinality(T) = Cardinality(S) - 1
      BY <1>4, <2>1 DEF Counting
    <2>3. Cardinality(T) \in Nat
      BY <2>2 DEF Counting
    <2> QED
      BY <1>1, <1>4, <2>2, <2>3, SMT
  <1> QED
    BY <1>2, <1>3, <1>4

\* Sets of threads, of indices and of open files are finite.
LEMMA AllFinite ==
    ASSUME Counting
    PROVE  /\ \A S \in SUBSET Threads : IsFiniteSet(S) /\ Cardinality(S) \in Nat
           /\ \A S \in SUBSET Indices : IsFiniteSet(S) /\ Cardinality(S) \in Nat
           /\ \A S \in SUBSET Ofiles : IsFiniteSet(S) /\ Cardinality(S) \in Nat
  BY FdTabAssumption DEF Counting

\* Who is in a set of finite size is counted.
LEMMA Counted ==
    ASSUME Counting, NEW S, NEW x \in S, IsFiniteSet(S)
    PROVE  Cardinality(S) > 0
  BY SMT DEF Counting

\* The count of an open file changes by what the thread and the index lose or gain.
LEMMA ReferencesMove ==
    ASSUME Counting, MapInv, MapInv', NEW t \in Threads, NEW i \in Indices, Others(t),
           \A j \in Indices \ {i} : map'[j] = map[j], NEW of \in Ofiles
    PROVE  References(of)' = References(of) + Refers(t, i, of)' - Refers(t, i, of)
  <1>1. /\ Cardinality(Slots(of)) \in Nat /\ Cardinality(Slots(of)') \in Nat
        /\ Cardinality(Slots(of)') = Cardinality(Slots(of)) + Is(EntryOf(map[i]), of)' - Is(EntryOf(map[i]), of)
    <2>1. \A j \in Indices : /\ j \in Slots(of) <=> EntryOf(map[j]) = of
                             /\ j \in Slots(of)' <=> EntryOf(map'[j]) = of
      BY FdTabAssumption DEF Slots, EntryOf
    <2>2. IsFiniteSet(Slots(of)) /\ \A y : y # i => (y \in Slots(of)' <=> y \in Slots(of))
      BY <2>1, AllFinite DEF Slots
    <2> QED
      BY <2>1, <2>2, CountMoves, SMT DEF Is
  <1>2. ASSUME NEW S \in SUBSET Threads, NEW T \in SUBSET Threads,
               \A u \in Threads \ {t} : u \in T <=> u \in S
        PROVE  /\ Cardinality(S) \in Nat /\ Cardinality(T) \in Nat
               /\ Cardinality(T) = Cardinality(S) + (IF t \in T THEN 1 ELSE 0) - (IF t \in S THEN 1 ELSE 0)
    BY <1>2, AllFinite, CountMoves, SMT
  <1> DEFINE H == {u \in Threads : InHand(u) = of}
             P == {u \in Threads : ToPut(u) = of}
             G == {u \in Threads : TakenOut(u) = of}
  <1>3. /\ Cardinality(H) \in Nat /\ Cardinality(H') \in Nat
        /\ Cardinality(H') = Cardinality(H) + Is(InHand(t), of)' - Is(InHand(t), of)
    <2>1. \A u \in Threads \ {t} : u \in H' <=> u \in H
      BY DEF Others, InHand
    <2> QED
      BY <1>2, <2>1, SMT DEF Is
  <1>4. /\ Cardinality(P) \in Nat /\ Cardinality(P') \in Nat
        /\ Cardinality(P') = Cardinality(P) + Is(ToPut(t), of)' - Is(ToPut(t), of)
    <2>1. \A u \in Threads \ {t} : u \in P' <=> u \in P
      BY DEF Others, ToPut
    <2> QED
      BY <1>2, <2>1, SMT DEF Is
  <1>5. /\ Cardinality(G) \in Nat /\ Cardinality(G') \in Nat
        /\ Cardinality(G') = Cardinality(G) + Is(TakenOut(t), of)' - Is(TakenOut(t), of)
    <2>1. \A u \in Threads \ {t} : u \in G' <=> u \in G
      BY DEF Others, TakenOut
    <2> QED
      BY <1>2, <2>1, SMT DEF Is
  <1>6. /\ References(of) = Cardinality(Slots(of)) + Cardinality(H) + Cardinality(P) + Cardinality(G)
        /\ References(of)' = Cardinality(Slots(of)') + Cardinality(H') + Cardinality(P') + Cardinality(G')
    BY DEF References
  <1> HIDE DEF H, P, G
  <1> QED
    BY <1>1, <1>3, <1>4, <1>5, <1>6, SMT DEF Refers, Is

\* Whatever refers to an open file is counted.
LEMMA Referred ==
    ASSUME Counting, NEW of \in Ofiles
    PROVE  /\ References(of) \in Nat
           /\ \A i \in Indices : EntryOf(map[i]) = of => References(of) > 0
           /\ \A t \in Threads : InHand(t) = of \/ ToPut(t) = of \/ TakenOut(t) = of => References(of) > 0
  <1> DEFINE H == {u \in Threads : InHand(u) = of}
             P == {u \in Threads : ToPut(u) = of}
             G == {u \in Threads : TakenOut(u) = of}
  <1>1. /\ Slots(of) \in SUBSET Indices /\ H \in SUBSET Threads
        /\ P \in SUBSET Threads /\ G \in SUBSET Threads
    BY DEF Slots
  <1>2. References(of) = Cardinality(Slots(of)) + Cardinality(H) + Cardinality(P) + Cardinality(G)
    BY DEF References
  <1>3. \A i \in Indices : EntryOf(map[i]) = of => i \in Slots(of)
    BY FdTabAssumption DEF EntryOf, Slots
  <1>4. \A t \in Threads : InHand(t) = of \/ ToPut(t) = of \/ TakenOut(t) = of => t \in H \/ t \in P \/ t \in G
    OBVIOUS
  <1> HIDE DEF H, P, G
  <1>5. /\ IsFiniteSet(Slots(of)) /\ Cardinality(Slots(of)) \in Nat /\ IsFiniteSet(H) /\ Cardinality(H) \in Nat
        /\ IsFiniteSet(P) /\ Cardinality(P) \in Nat /\ IsFiniteSet(G) /\ Cardinality(G) \in Nat
    BY <1>1, AllFinite
  <1>6. /\ \A i \in Slots(of) : Cardinality(Slots(of)) > 0
        /\ \A t \in H : Cardinality(H) > 0
        /\ \A t \in P : Cardinality(P) > 0
        /\ \A t \in G : Cardinality(G) > 0
    BY <1>5, Counted
  <1> QED
    BY <1>2, <1>3, <1>4, <1>5, <1>6, SMT

\* The counts of a file change by what the thread and the open file o, if there is
\* one, lose or gain.
LEMMA FilesMove ==
    ASSUME Counting, NEW t \in Threads, NEW o, Others(t), NEW f,
           \A of \in Ofiles \ {o} : FileRef(of)' = FileRef(of)
    PROVE  /\ Strongs(f)' = Strongs(f) + (IF o \in Ofiles THEN Is(FileRef(o), f)' - Is(FileRef(o), f) ELSE 0)
                                       + Is(Creator(t), f)' - Is(Creator(t), f)
           /\ Cardinality({u \in Threads : Weak(u) = f}') =
                Cardinality({u \in Threads : Weak(u) = f}) + Is(Weak(t), f)' - Is(Weak(t), f)
  <1> DEFINE R == {of \in Ofiles : FileRef(of) = f}
             C == {u \in Threads : Creator(u) = f}
             W == {u \in Threads : Weak(u) = f}
  <1>1. /\ Cardinality(R) \in Nat /\ Cardinality(R') \in Nat
        /\ Cardinality(R') = Cardinality(R)
                              + (IF o \in Ofiles THEN Is(FileRef(o), f)' - Is(FileRef(o), f) ELSE 0)
    <2>1. IsFiniteSet(R)
      BY AllFinite
    <2>2. \A y : y # o => (y \in R' <=> y \in R)
      OBVIOUS
    <2>3. (o \in R <=> o \in Ofiles /\ FileRef(o) = f) /\ (o \in R' <=> o \in Ofiles /\ FileRef(o)' = f)
      OBVIOUS
    <2> HIDE DEF R
    <2> QED
      BY <2>1, <2>2, <2>3, CountMoves, SMT DEF Is
  <1>2. /\ Cardinality(C) \in Nat /\ Cardinality(C') \in Nat
        /\ Cardinality(C') = Cardinality(C) + Is(Creator(t), f)' - Is(Creator(t), f)
    <2>1. IsFiniteSet(C)
      BY AllFinite
    <2>2. \A y : y # t => (y \in C' <=> y \in C)
      BY DEF Others, Creator
    <2>3. (t \in C <=> Creator(t) = f) /\ (t \in C' <=> Creator(t)' = f)
      OBVIOUS
    <2> HIDE DEF C
    <2> QED
      BY <2>1, <2>2, <2>3, CountMoves, SMT DEF Is
  <1>3. /\ Cardinality(W) \in Nat /\ Cardinality(W') \in Nat
        /\ Cardinality(W') = Cardinality(W) + Is(Weak(t), f)' - Is(Weak(t), f)
    <2>1. IsFiniteSet(W)
      BY AllFinite
    <2>2. \A y : y # t => (y \in W' <=> y \in W)
      BY DEF Others, Weak
    <2>3. (t \in W <=> Weak(t) = f) /\ (t \in W' <=> Weak(t)' = f)
      OBVIOUS
    <2> HIDE DEF W
    <2> QED
      BY <2>1, <2>2, <2>3, CountMoves, SMT DEF Is
  <1>4. Strongs(f) = One(f) + Cardinality(R) + Cardinality(C) /\ Strongs(f)' = One(f) + Cardinality(R') + Cardinality(C')
    BY DEF Strongs, One
  <1>5. One(f) \in Nat
    BY DEF One
  <1> HIDE DEF R, C
  <1>6. Strongs(f)' = Strongs(f) + (IF o \in Ofiles THEN Is(FileRef(o), f)' - Is(FileRef(o), f) ELSE 0)
                                 + Is(Creator(t), f)' - Is(Creator(t), f)
    BY <1>1, <1>2, <1>4, <1>5, SMT DEF Is
  <1> QED
    BY <1>3, <1>6

\* Whatever refers to a file is counted.
LEMMA FileReferred ==
    ASSUME Counting, FilesInv, NEW f \in Files
    PROVE  /\ Strongs(f) \in Nat /\ Weaks(f) \in Nat
           /\ \A of \in Ofiles : FileRef(of) = f => Strongs(f) > 0
           /\ f \in Static => Strongs(f) > 0
           /\ \A t \in Threads : Creator(t) = f => Strongs(f) > 0
           /\ \A t \in Threads : Weak(t) = f => Weaks(f) > 0
           /\ \A w \in watch : w.file = f => Weaks(f) > 0
  <1> DEFINE R == {of \in Ofiles : FileRef(of) = f}
             C == {u \in Threads : Creator(u) = f}
             W == {u \in Threads : Weak(u) = f}
  <1>1. /\ Strongs(f) = One(f) + Cardinality(R) + Cardinality(C)
        /\ Weaks(f) = Cardinality(W) + Cardinality(Registrations(f))
        /\ One(f) \in Nat /\ (f \in Static => One(f) = 1)
    BY DEF Strongs, Weaks, One
  <1>2. /\ \A of \in Ofiles : FileRef(of) = f => of \in R
        /\ \A t \in Threads : Creator(t) = f => t \in C
        /\ \A t \in Threads : Weak(t) = f => t \in W
        /\ \A w \in watch : w.file = f => w \in Registrations(f)
    BY DEF Registrations
  <1>3. R \in SUBSET Ofiles /\ C \in SUBSET Threads /\ W \in SUBSET Threads
    OBVIOUS
  <1>4. Registrations(f) \subseteq watch /\ IsFiniteSet(watch)
    BY DEF Registrations, FilesInv
  <1> HIDE DEF R, C, W
  <1>5. /\ IsFiniteSet(R) /\ Cardinality(R) \in Nat /\ IsFiniteSet(C) /\ Cardinality(C) \in Nat
        /\ IsFiniteSet(W) /\ Cardinality(W) \in Nat
    BY <1>3, AllFinite
  <1>6. IsFiniteSet(Registrations(f)) /\ Cardinality(Registrations(f)) \in Nat
    BY <1>4 DEF Counting
  <1>7. /\ \A x \in R : Cardinality(R) > 0
        /\ \A x \in C : Cardinality(C) > 0
        /\ \A x \in W : Cardinality(W) > 0
        /\ \A x \in Registrations(f) : Cardinality(Registrations(f)) > 0
    BY <1>5, <1>6, Counted
  <1> QED
    BY <1>1, <1>2, <1>5, <1>6, <1>7, SMT

\* Who is about to call _release() is undisturbed by a step that begins no other
\* such call, and gives back no count that is zero.
LEMMA ReleasesStay ==
    ASSUME ReleasesInv,
           \A u \in Threads : step'[u] = "release" => step[u] = "release" /\ loc'[u] = loc[u],
           \A u \in Threads, g \in Files : step[u] = "release" /\ loc[u].file = g =>
               /\ loc[u].res /\ strong[g] = 0 => strong'[g] = 0
               /\ loc[u].obj /\ refs[g] = 0 => refs'[g] = 0 /\ released'[g] = released[g]
    PROVE  ReleasesInv'
  <1>1. ASSUME NEW u \in Threads, NEW g \in Files, step'[u] = "release", loc'[u].file = g, loc'[u].res
        PROVE  strong'[g] = 0
    <2>1. step[u] = "release" /\ loc[u].file = g /\ loc[u].res
      BY <1>1
    <2>2. strong[g] = 0
      BY <2>1 DEF ReleasesInv
    <2> QED
      BY <2>1, <2>2
  <1>2. \A u \in Threads, g \in Files : Frees(u, g)' => Frees(u, g)
    BY DEF Frees
  <1>3. ASSUME NEW u \in Threads, NEW g \in Files, Frees(u, g)'
        PROVE  /\ refs'[g] = 0 /\ "obj" \notin released'[g]
               /\ \A v \in Threads : Frees(v, g)' => v = u
    <2>1. Frees(u, g)
      BY <1>2, <1>3
    <2>2. refs[g] = 0 /\ "obj" \notin released[g] /\ \A v \in Threads : Frees(v, g) => v = u
      BY <2>1 DEF ReleasesInv
    <2>3. refs'[g] = 0 /\ released'[g] = released[g]
      BY <2>1, <2>2 DEF Frees
    <2> QED
      BY <1>2, <2>2, <2>3
  <1> QED
    BY <1>1, <1>3 DEF ReleasesInv

\* A step that leaves the files alone, and moves no reference to one, keeps their
\* counts.
LEMMA FilesStay ==
    ASSUME FilesInv, NEW t \in Threads, Others(t), UNCHANGED <<fileof, fileVars>>,
           step[t] \notin GivenBack, step'[t] \notin GivenBack, Creator(t)' = Creator(t)
    PROVE  FilesInv'
  <1>1. \A of \in Ofiles : FileRef(of)' = FileRef(of)
    <2> TAKE of \in Ofiles
    <2>1. (\E u \in Threads : step[u] \in GivenBack /\ loc[u].of = of)' <=> \E u \in Threads : step[u] \in GivenBack /\ loc[u].of = of
      BY DEF Others
    <2> QED
      BY <2>1 DEF FileRef
  <1>2. \A f : Strongs(f)' = Strongs(f) /\ Weaks(f)' = Weaks(f)
    <2> TAKE f
    <2>1. {of \in Ofiles : FileRef(of) = f}' = {of \in Ofiles : FileRef(of) = f}
      BY <1>1
    <2>2. {u \in Threads : Creator(u) = f}' = {u \in Threads : Creator(u) = f}
      BY SMT DEF Others, Creator
    <2>3. {u \in Threads : Weak(u) = f}' = {u \in Threads : Weak(u) = f}
      BY DEF Others, Weak
    <2> QED
      BY <2>1, <2>2, <2>3 DEF Strongs, Weaks, One, Registrations, fileVars
  <1>3. \A u \in Threads : step'[u] = "weak" => step[u] = "weak" /\ loc'[u] = loc[u]
    BY DEF Others
  <1>4. ReleasesInv'
    <2>1. \A u \in Threads : step'[u] = "release" => step[u] = "release" /\ loc'[u] = loc[u]
      BY DEF Others
    <2> QED
      BY <2>1, ReleasesStay DEF FilesInv, fileVars
  <1> QED
    BY <1>2, <1>3, <1>4, ZenonT(30) DEF FilesInv, fileVars

\* A step that frees nothing, and moves the references of its thread and of one
\* index among these places, keeps every count.
LEMMA Plain ==
    ASSUME Counting, TInv, MapInv', NEW t \in Threads, NEW i \in Indices, Others(t), UNCHANGED tabVars,
           \A j \in Indices \ {i} : map'[j] = map[j],
           \A of \in Ofiles : Refers(t, i, of)' = Refers(t, i, of),
           step[t] \notin Releasing, step'[t] \notin GivenBack,
           step'[t] = "strong" => loc'[t].of = Null,
           Creator(t)' = Creator(t)
    PROVE  OfilesInv' /\ FilesInv'
  <1>1. \A of \in Ofiles : References(of)' = References(of)
    <2> TAKE of \in Ofiles
    <2>1. Refers(t, i, of) \in Int
      BY SMT DEF Refers, Is
    <2>2. References(of)' = References(of) + Refers(t, i, of)' - Refers(t, i, of)
      BY ReferencesMove DEF TInv
    <2>3. References(of) \in Nat
      BY Referred
    <2> HIDE DEF References, Refers
    <2> QED
      BY <2>1, <2>2, <2>3, SMT
  <1>2. \A u \in Threads, of \in Ofiles : /\ Dying(u, of)' <=> Dying(u, of)
                                          /\ Dying(u, of) => loc'[u] = loc[u]
    BY FdTabAssumption DEF Dying, Others
  <1>3. OfilesInv'
    <2>1. refcnt' = refcnt /\ fileof' = fileof
      BY DEF tabVars
    <2>2. \A of \in Ofiles : refcnt'[of] = References(of)' /\ (refcnt'[of] > 0 => fileof'[of] # Null)
      BY <1>1, <2>1 DEF OfilesInv, TInv
    <2>3. \A of \in Ofiles : fileof'[of] # Null => refcnt'[of] > 0 \/ \E u \in Threads : Dying(u, of)'
      <3>1. \A of \in Ofiles : fileof[of] # Null => refcnt[of] > 0 \/ \E u \in Threads : Dying(u, of)
        BY DEF OfilesInv, TInv
      <3> QED
        BY <1>2, <2>1, <3>1
    <2>4. \A of \in Ofiles : \A u \in Threads : Dying(u, of)' => refcnt'[of] = 0 /\ fileof'[of] = loc'[u].file
      BY <1>2, <2>1, ZenonT(40) DEF OfilesInv, TInv
    <2>5. \A of \in Ofiles : \A u, v \in Threads : Dying(u, of)' /\ Dying(v, of)' => u = v
      BY <1>2 DEF OfilesInv, TInv
    <2> QED
      BY <2>2, <2>3, <2>4, <2>5 DEF OfilesInv
  <1>4. FilesInv'
    BY FilesStay DEF TInv, tabVars, fileVars
  <1> QED
    BY <1>3, <1>4

\* A step of one thread keeps the control invariant of the others: when one of
\* them is in a cleanup, the thread is not in the table and leaves the map alone.
LEMMA CallsMove ==
    ASSUME TypeOK, MapInv, CallsInv, NEW t \in Threads, Others(t), map' # map => pc[t] # "out",
           loc' \in [Threads -> Locals], Waits(t)', Holds(t)', Cleans(t)',
           (\E u \in Threads \ {t} : loc[u].cur # Null) =>
              /\ pc'[t] = "out" /\ step'[t] \in {"idle", "using", "rel"} \cup Releasing
              /\ loc'[t].cur = Null,
           \/ loc'[t].cur = Null
           \/ loc[t].cur # Null
           \/ \A u \in Threads \ {t} : (On(u, "idle") \/ On(u, "using")) /\ loc[u].cur = Null
    PROVE  CallsInv'
  <1>1. \A u \in Threads \ {t} : Waits(u)' /\ Holds(u)'
    <2> TAKE u \in Threads \ {t}
    <2>1. Waits(u) /\ Holds(u) /\ Others(t)
      BY DEF CallsInv
    <2> QED
      BY <2>1, FdTabAssumption, SMT DEF Others, Waits, Holds
  <1>2. \A u \in Threads \ {t} : Cleans(u)'
    <2> TAKE u \in Threads \ {t}
    <2>1. step[u] = "cleanup" => map' = map
      BY DEF CallsInv, Cleans, Alone
    <2>2. /\ Cleans(u) /\ step'[u] = step[u] /\ loc'[u] = loc[u]
          /\ pc'[u] = pc[u] /\ idx'[u] = idx[u] /\ got'[u] = got[u]
      BY DEF CallsInv, Others
    <2> QED
      BY <2>1, <2>2 DEF Cleans
  <1>3. Alone'
    <2>1. ASSUME NEW u \in Threads, NEW v \in Threads, loc'[u].cur # Null, v # u
          PROVE  pc'[v] = "out" /\ step'[v] \in {"idle", "using", "rel"} \cup Releasing /\ loc'[v].cur = Null
      <3>1. CASE u = t
        <4>1. step'[v] = step[v] /\ pc'[v] = pc[v] /\ loc'[v] = loc[v]
          BY <2>1, <3>1 DEF Others
        <4> QED
          BY <2>1, <3>1, <4>1 DEF CallsInv, Alone, On
      <3>2. CASE v = t
        <4>1. u \in Threads \ {t} /\ loc[u].cur # Null
          BY <2>1, <3>2 DEF Others
        <4> QED
          BY <3>2, <4>1
      <3>3. CASE u # t /\ v # t
        <4>1. /\ loc[u].cur # Null
              /\ step'[v] = step[v] /\ pc'[v] = pc[v] /\ loc'[v] = loc[v]
          BY <2>1, <3>3 DEF Others
        <4> QED
          BY <2>1, <4>1 DEF CallsInv, Alone
      <3> QED
        BY <3>1, <3>2, <3>3
    <2> QED
      BY <2>1 DEF Alone
  <1> QED
    BY <1>1, <1>2, <1>3 DEF CallsInv

\* At the end of an operation the thread has no open file in its hands, and the
\* creator's reference to its file is about to be released.
LEMMA Finishes ==
    ASSUME TypeOK, MapInv, CallsInv, NEW t \in Threads, Others(t), pc[t] = "out", Finish(t)
    PROVE  /\ CallsInv'
           /\ step' \in [Threads -> Steps]
           /\ map' = map
           /\ step'[t] \in {"strong", "cleanup", "idle"}
           /\ loc'[t].of = Null
           /\ InHand(t)' = Null /\ TakenOut(t)' = Null
           /\ ToPut(t) = Null /\ ToPut(t)' = Null
           /\ Creator(t)' = loc[t].creator
  <1> USE NotNull
  <1>1. loc \in [Threads -> Locals] /\ step \in [Threads -> Steps] /\ loc[t] \in Locals
    BY DEF CallsInv, TypeOK
  <1>2. map' = map /\ pc' = pc /\ new' = new /\ new[t] = Null
    BY DEF Finish, Forget, mapVars, MapInv, Args, Putting
  <1>3. CASE loc[t].creator # Null
    <2>1. step' = [step EXCEPT ![t] = "strong"] /\ loc' = [loc EXCEPT ![t] = [NoLocals EXCEPT !.file = loc[t].creator]]
      BY <1>3 DEF Finish, Now
    <2>2. loc[t].cur = Null /\ loc[t].creator \in Files
      BY <1>1, <1>3 DEF CallsInv, Holds, Locals
    <2>3. loc' \in [Threads -> Locals] /\ step' \in [Threads -> Steps] /\ Waits(t)' /\ Holds(t)' /\ Cleans(t)'
      BY <1>1, <1>2, <2>1, <2>2 DEF Locals, NoLocals, Steps, Waits, Holds, Cleans
    <2>4. CallsInv'
      BY <1>1, <1>2, <2>1, <2>3, CallsMove DEF NoLocals
    <2> QED
      BY <1>1, <1>2, <2>1, <2>3, <2>4 DEF NoLocals, InHand, TakenOut, ToPut, EntryOf, Creator
  <1>4. CASE loc[t].creator = Null /\ loc[t].cur # Null
    <2>1. /\ step' = [step EXCEPT ![t] = "cleanup"]
          /\ loc' = [loc EXCEPT ![t] = [NoLocals EXCEPT !.cur = loc[t].cur, !.then = "next"]]
      BY <1>4 DEF Finish, Now
    <2>2. loc' \in [Threads -> Locals] /\ step' \in [Threads -> Steps] /\ Waits(t)' /\ Holds(t)' /\ Cleans(t)'
      BY <1>1, <1>2, <1>4, <2>1 DEF Locals, NoLocals, Steps, Waits, Holds, Cleans
    <2>3. ~ \E u \in Threads \ {t} : loc[u].cur # Null
      BY <1>4 DEF CallsInv, Alone
    <2>4. CallsInv'
      BY <1>1, <1>2, <1>4, <2>1, <2>2, <2>3, CallsMove
    <2> QED
      BY <1>1, <1>2, <1>4, <2>1, <2>2, <2>4 DEF NoLocals, InHand, TakenOut, ToPut, EntryOf, Creator
  <1>5. CASE loc[t].creator = Null /\ loc[t].cur = Null
    <2>1. step' = [step EXCEPT ![t] = "idle"] /\ loc' = [loc EXCEPT ![t] = NoLocals]
      BY <1>5 DEF Finish, Now
    <2>2. loc' \in [Threads -> Locals] /\ step' \in [Threads -> Steps] /\ Waits(t)' /\ Holds(t)' /\ Cleans(t)'
      BY <1>1, <1>2, <1>5, <2>1 DEF Locals, NoLocals, Steps, Waits, Holds, Cleans
    <2>3. CallsInv'
      BY <1>1, <1>2, <1>5, <2>1, <2>2, CallsMove DEF NoLocals
    <2> QED
      BY <1>1, <1>2, <1>5, <2>1, <2>2, <2>3 DEF NoLocals, InHand, TakenOut, ToPut, EntryOf, Creator
  <1> QED
    BY <1>3, <1>4, <1>5

\* An operation that ends with no reference to an open file keeps the invariant.
LEMMA FinishInv ==
    ASSUME Counting, TInv, NEW t \in Threads, Work(t), Finish(t), UNCHANGED tabVars, pc[t] = "out",
           step[t] \notin Releasing, InHand(t) = Null, TakenOut(t) = Null
    PROVE  TInv'
  <1>1. MapInv' /\ Others(t)
    BY OnMap DEF TInv
  <1>2. /\ CallsInv' /\ step' \in [Threads -> Steps] /\ map' = map
        /\ step'[t] \in {"strong", "cleanup", "idle"} /\ loc'[t].of = Null
        /\ InHand(t)' = Null /\ TakenOut(t)' = Null /\ ToPut(t) = Null /\ ToPut(t)' = Null
        /\ Creator(t)' = loc[t].creator
    BY <1>1, Finishes DEF TInv
  <1>3. TypeOK'
    BY <1>1, <1>2 DEF TInv, TypeOK, MapInv, tabVars
  <1>4. 0 \in Indices
    BY FMapAssumption, FdTabAssumption, SMT DEF Indices
  <1>5. \A of \in Ofiles : Refers(t, 0, of)' = Refers(t, 0, of)
    BY <1>2 DEF Refers, Is
  <1>6. Creator(t)' = Creator(t)
    BY <1>2 DEF Creator
  <1>7. OfilesInv' /\ FilesInv'
    BY <1>1, <1>2, <1>4, <1>5, <1>6, Plain
  <1> QED
    BY <1>1, <1>2, <1>3, <1>7 DEF TInv

\* So does one that goes on to release the open file that it has.
LEMMA ReleaseInv ==
    ASSUME Counting, TInv, NEW t \in Threads, Work(t) \/ Use(t), NEW of \in Ofiles, Release(t, of),
           UNCHANGED tabVars, pc[t] = "out", step[t] \notin Releasing,
           \/ InHand(t) = of /\ TakenOut(t) = Null
           \/ InHand(t) = Null /\ TakenOut(t) = of
    PROVE  TInv'
  <1> USE NotNull
  <1>1. MapInv' /\ Others(t)
    BY OnMap DEF TInv
  <1>2. /\ loc \in [Threads -> Locals] /\ step \in [Threads -> Steps] /\ loc[t] \in Locals
        /\ UNCHANGED mapVars
        /\ step' = [step EXCEPT ![t] = "rel"]
        /\ loc' = [loc EXCEPT ![t] = [NoLocals EXCEPT !.of = of, !.creator = loc[t].creator, !.cur = loc[t].cur]]
    BY DEF TInv, CallsInv, TypeOK, Release, Now
  <1>3. new[t] = Null
    BY DEF TInv, MapInv, Args, Putting
  <1>4. loc' \in [Threads -> Locals] /\ step' \in [Threads -> Steps] /\ Waits(t)' /\ Cleans(t)'
    BY <1>2 DEF Locals, NoLocals, Steps, Waits, Cleans, mapVars
  <1>5. Holds(t)'
    BY <1>2 DEF TInv, CallsInv, Holds, NoLocals, mapVars
  <1>6. loc'[t].cur = loc[t].cur /\ loc'[t].of = of /\ loc'[t].creator = loc[t].creator /\ step'[t] = "rel"
    BY <1>2 DEF NoLocals
  <1>7. (\E u \in Threads \ {t} : loc[u].cur # Null) => loc[t].cur = Null
    BY DEF TInv, CallsInv, Alone
  <1>8. CallsInv'
    BY <1>1, <1>2, <1>4, <1>5, <1>6, <1>7, CallsMove DEF TInv, mapVars
  <1>9. TypeOK'
    BY <1>1, <1>4 DEF TInv, TypeOK, MapInv, tabVars
  <1>10. 0 \in Indices
    BY FMapAssumption DEF Indices
  <1>11. InHand(t)' = of /\ TakenOut(t)' = Null /\ ToPut(t)' = Null /\ ToPut(t) = Null /\ Creator(t)' = Creator(t)
    BY <1>2, <1>3, <1>6 DEF InHand, TakenOut, ToPut, EntryOf, Creator, mapVars
  <1>12. \A o \in Ofiles : Refers(t, 0, o)' = Refers(t, 0, o)
    BY <1>2, <1>11, SMT DEF Refers, Is, mapVars
  <1>13. OfilesInv' /\ FilesInv'
    BY <1>1, <1>2, <1>6, <1>10, <1>11, <1>12, Plain DEF mapVars
  <1> QED
    BY <1>1, <1>8, <1>9, <1>13 DEF TInv

\* A function of the table that enters the map, with nothing in its hands, to look
\* up or to take an entry.
LEMMA Enters ==
    ASSUME Counting, TInv, NEW t \in Threads, Start(t) \/ Work(t), UNCHANGED tabVars,
           NEW place, NEW fd \in Indices, NEW s, NEW l \in Locals,
           Call(t, place, fd, Null), Now(t, s, l),
           step[t] \in {"idle", "cleanup"}, TakenOut(t) = Null, s = "get" => l.of = Null, l.creator = Null,
           \/ /\ NoCleanup /\ l.cur = Null
              /\ \/ s = "close" /\ place = "take"
                 \/ s = "flags" /\ place \in {"look", "ctake"}
                 \/ s = "get" /\ place = "ctake" /\ (l.then = "dup3" => l.newfd # Null)
           \/ /\ s = "cleanup" /\ l.cur = fd
              /\ \/ loc[t].cur # Null
                 \/ \A u \in Threads \ {t} : (On(u, "idle") \/ On(u, "using")) /\ loc[u].cur = Null
              /\ \/ place = "look" /\ l.then = Null
                 \/ place = "take" /\ l.then = "take" /\ map[fd] # Null
    PROVE  TInv'
  <1> USE NotNull
  <1>1. MapInv' /\ Others(t) /\ (map' # map => pc[t] # "out")
    BY OnMap DEF TInv
  <1>2. /\ loc \in [Threads -> Locals] /\ step \in [Threads -> Steps] /\ loc[t] \in Locals
        /\ step' = [step EXCEPT ![t] = s] /\ loc' = [loc EXCEPT ![t] = l]
        /\ step'[t] = s /\ loc'[t] = l
    BY DEF TInv, CallsInv, TypeOK, Now
  <1>3. /\ pc[t] = "out" /\ pc'[t] = place /\ idx'[t] = fd /\ new'[t] = Null /\ got'[t] = Null
        /\ map' = map
    BY DEF Call, At, Goto, TInv, MapInv, MapTypeOK
  <1>4. new[t] = Null
    BY <1>3 DEF TInv, MapInv, Args, Putting
  <1>5. loc' \in [Threads -> Locals] /\ step' \in [Threads -> Steps]
    BY <1>2 DEF Steps
  <1>6. Waits(t)'
    BY <1>2, <1>3 DEF Waits
  <1>7. Holds(t)'
    BY <1>2, <1>3 DEF Holds
  <1>8. Cleans(t)'
    BY <1>2, <1>3 DEF Cleans
  <1>9. ~ \E u \in Threads \ {t} : loc[u].cur # Null
    BY DEF NoCleanup, TInv, CallsInv, Alone
  <1>10. CallsInv'
    BY <1>1, <1>2, <1>5, <1>6, <1>7, <1>8, <1>9, CallsMove DEF TInv
  <1>11. TypeOK'
    BY <1>1, <1>5 DEF TInv, TypeOK, MapInv, tabVars
  <1>12. InHand(t) = Null /\ InHand(t)' = Null /\ TakenOut(t)' = Null /\ ToPut(t) = Null /\ ToPut(t)' = Null
    BY <1>2, <1>3, <1>4 DEF InHand, TakenOut, ToPut, EntryOf
  <1>13. \A o \in Ofiles : Refers(t, fd, o)' = Refers(t, fd, o)
    BY <1>3, <1>12 DEF Refers, Is
  <1>14. loc[t].creator = Null
    BY DEF TInv, CallsInv, Holds
  <1>15. Creator(t)' = Creator(t)
    BY <1>2, <1>14 DEF Creator
  <1>16. OfilesInv' /\ FilesInv'
    BY <1>1, <1>2, <1>3, <1>13, <1>15, Plain
  <1> QED
    BY <1>1, <1>10, <1>11, <1>16 DEF TInv

\* The operations that start with a lookup or by taking an entry.
LEMMA StartsInv ==
    ASSUME Counting, TInv, NEW t \in Threads, Start(t),
           \/ uk_fdtab_cloexec(t)
           \/ \E fd \in Indices :
                \/ uk_sys_close(t, fd)
                \/ uk_fdtab_getflags(t, fd)
                \/ \E cloexec \in BOOLEAN : \/ uk_fdtab_setflags(t, fd, cloexec)
                                            \/ _fdtab_get(t, fd, "use", Null, cloexec)
                                            \/ _fdtab_get(t, fd, "dup_min", Null, cloexec)
                                            \/ \E newfd \in Indices : _fdtab_get(t, fd, "dup3", newfd, cloexec)
    PROVE  TInv'
  <1> USE NotNull
  <1>1. On(t, "idle") => step[t] = "idle" /\ TakenOut(t) = Null
    BY DEF On, TakenOut
  <1>2. CASE uk_fdtab_cloexec(t)
    <2>5. 0 \in Indices
      BY DEF Indices
    <2>1. 0 \in Indices /\ [NoLocals EXCEPT !.cur = 0] \in Locals
      BY <2>5 DEF NoLocals, Locals
    <2>2. \A u \in Threads \ {t} : (On(u, "idle") \/ On(u, "using")) /\ loc[u].cur = Null
      BY <1>2 DEF uk_fdtab_cloexec, Starts, NoCleanup
    <2> DEFINE l == [NoLocals EXCEPT !.cur = 0]
    <2>3. l.of = Null /\ l.creator = Null /\ l.cur = 0 /\ l.then = Null
      BY DEF NoLocals
    <2>4. Call(t, "look", 0, Null) /\ Now(t, "cleanup", l) /\ UNCHANGED tabVars /\ On(t, "idle")
      BY <1>2 DEF uk_fdtab_cloexec, Starts, uk_fmap_lookup
    <2> HIDE DEF l
    <2> QED
      BY <1>1, <2>1, <2>2, <2>3, <2>4, Enters DEF l
  <1>3. ASSUME NEW fd \in Indices, uk_sys_close(t, fd) \/ uk_fdtab_getflags(t, fd)
        PROVE  TInv'
    <2>1. NoLocals \in Locals /\ NoLocals.of = Null /\ NoLocals.creator = Null /\ NoLocals.cur = Null
      BY DEF NoLocals, Locals
    <2> QED
      BY <1>1, <1>3, <2>1, Enters DEF uk_sys_close, uk_fdtab_getflags, Starts, uk_fmap_take, uk_fmap_lookup
  <1>4. ASSUME NEW fd \in Indices, NEW cloexec \in BOOLEAN, uk_fdtab_setflags(t, fd, cloexec)
        PROVE  TInv'
    <2> DEFINE l == [NoLocals EXCEPT !.cloexec = cloexec]
    <2>1. l \in Locals /\ l.of = Null /\ l.creator = Null /\ l.cur = Null
      BY DEF NoLocals, Locals
    <2>2. Call(t, "ctake", fd, Null) /\ Now(t, "flags", l) /\ UNCHANGED tabVars /\ On(t, "idle") /\ NoCleanup
      BY <1>4 DEF uk_fdtab_setflags, Starts, uk_fmap_critical_take
    <2> HIDE DEF l
    <2> QED
      BY <1>1, <2>1, <2>2, Enters
  <1>5. ASSUME NEW fd \in Indices, NEW cloexec \in BOOLEAN, NEW then \in {"use", "dup_min", "dup3"},
               NEW newfd \in Indices \cup {Null}, then = "dup3" => newfd # Null,
               _fdtab_get(t, fd, then, newfd, cloexec)
        PROVE  TInv'
    <2> DEFINE l == [NoLocals EXCEPT !.then = then, !.newfd = newfd, !.cloexec = cloexec]
    <2>1. l \in Locals /\ l.of = Null /\ l.creator = Null /\ l.cur = Null /\ (l.then = "dup3" => l.newfd # Null)
      BY <1>5 DEF NoLocals, Locals
    <2>2. Call(t, "ctake", fd, Null) /\ Now(t, "get", l) /\ UNCHANGED tabVars /\ On(t, "idle") /\ NoCleanup
      BY <1>5 DEF _fdtab_get, Starts, uk_fmap_critical_take
    <2> HIDE DEF l
    <2> QED
      BY <1>1, <2>1, <2>2, Enters
  <1> QED
    BY <1>2, <1>3, <1>4, <1>5

\* The steps in the map move a reference between the thread and its index, or
\* leave it where it is.
LEMMA InMapInv ==
    ASSUME Counting, TInv, NEW t \in Threads, InMap(t)
    PROVE  TInv'
  <1> USE NotNull
  <1>1. MapInv' /\ Others(t)
    BY OnMap DEF TInv, Work
  <1>2. /\ loc \in [Threads -> Locals] /\ step \in [Threads -> Steps] /\ loc[t] \in Locals
        /\ loc' = loc /\ step' = step
        /\ Waits(t) /\ Holds(t) /\ Cleans(t) /\ Args(t) /\ Args(t)'
    BY <1>1 DEF TInv, CallsInv, TypeOK, InMap, MapInv
  <1>3. /\ pc \in [Threads -> Places] /\ idx \in [Threads -> 0..Size] /\ map \in [Indices -> Entries \cup {Null}]
        /\ new \in [Threads -> Entries \cup {Null}] /\ got \in [Threads -> Entries \cup {Null}]
    BY DEF TInv, MapInv, MapTypeOK
  <1>4. idx[t] \in Indices => (idx[t] \in free => map[idx[t]] = Null)
    BY DEF TInv, MapInv, SlotOwned
  <1>5. SUFFICES /\ pc[t] # "out"
                 /\ Waits(t)' /\ Holds(t)' /\ Cleans(t)'
                 /\ \E i \in Indices : /\ \A j \in Indices \ {i} : map'[j] = map[j]
                                       /\ \A of \in Ofiles : Refers(t, i, of)' = Refers(t, i, of)
    <2>1. ~ \E u \in Threads \ {t} : loc[u].cur # Null
      BY <1>5 DEF TInv, CallsInv, Alone
    <2>2. CallsInv'
      BY <1>1, <1>2, <1>5, <2>1, CallsMove DEF TInv
    <2>3. step[t] \notin Releasing /\ Creator(t)' = Creator(t)
      BY <1>2, <1>5 DEF Waits, Creator
    <2>4. UNCHANGED tabVars
      BY DEF InMap
    <2>5. OfilesInv' /\ FilesInv'
      BY <1>1, <1>2, <1>5, <2>3, <2>4, Plain
    <2>6. TypeOK'
      BY <1>1, <1>2, <2>4 DEF TInv, TypeOK, MapInv, tabVars
    <2> QED
      BY <1>1, <2>2, <2>5, <2>6 DEF TInv
  <1>6. 0 \in Indices
    BY DEF Indices
  <1>7. CASE LookUp(t)
    <2>1. /\ pc[t] = "look" /\ new[t] = Null /\ new'[t] = Null /\ map' = map /\ idx' = idx
          /\ got'[t] = map[idx[t]] /\ pc'[t] = (IF map[idx[t]] = Null THEN "lookfree" ELSE "out")
      BY <1>2, <1>3, <1>7 DEF LookUp, Leave, Goto, At, Args, Putting
    <2>2. step[t] \in {"flags", "cleanup"} /\ (step[t] = "cleanup" => loc[t].then = Null)
      BY <1>2, <2>1 DEF Waits, Cleans, TInv, TypeOK, Steps
    <2>3. Waits(t)' /\ Holds(t)' /\ Cleans(t)'
      BY <1>2, <2>1, <2>2 DEF Waits, Holds, Cleans
    <2>4. InHand(t) = Null /\ InHand(t)' = Null /\ TakenOut(t) = Null /\ TakenOut(t)' = Null /\ ToPut(t)' = ToPut(t)
      BY <1>2, <2>1, <2>2 DEF InHand, TakenOut, ToPut
    <2>5. \A of \in Ofiles : Refers(t, 0, of)' = Refers(t, 0, of)
      BY <2>1, <2>4 DEF Refers
    <2> QED
      BY <1>6, <2>1, <2>3, <2>5
  <1>8. CASE FindNext(t)
    <2>1. /\ pc[t] = "find" /\ map' = map /\ got' = got /\ got[t] = Null
          /\ \/ idx[t] = Size /\ pc'[t] = "out" /\ idx' = idx /\ new'[t] = Null
             \/ pc'[t] \in {"find", "reserve"} /\ new'[t] = new[t]
      BY <1>2, <1>3, <1>8, FMapAssumption, SMT DEF FindNext, Leave, Goto, At, Args, Fetching, Indices
    <2>2. step[t] \in {"open", "dup_min"} /\ loc[t].of # Null /\ EntryOf(new[t]) = loc[t].of
      BY <1>2, <2>1 DEF Waits, Cleans, Holds, TInv, TypeOK, Steps
    <2>3. Waits(t)' /\ Holds(t)' /\ Cleans(t)'
      BY <1>2, <2>1, <2>2 DEF Waits, Holds, Cleans
    <2>4. /\ InHand(t) = Null /\ TakenOut(t) = Null /\ TakenOut(t)' = Null /\ ToPut(t) = loc[t].of
          /\ \/ InHand(t)' = loc[t].of /\ ToPut(t)' = Null
             \/ InHand(t)' = Null /\ ToPut(t)' = loc[t].of
      BY <1>2, <2>1, <2>2, FMapAssumption, SMT DEF InHand, TakenOut, ToPut, EntryOf
    <2>5. \A of \in Ofiles : Refers(t, 0, of)' = Refers(t, 0, of)
      BY <2>1, <2>4, SMT DEF Refers, Is
    <2> QED
      BY <1>6, <2>1, <2>3, <2>5
  <1>9. CASE \/ RequestReserve(t)
             \/ ExchangeReserve(t)
             \/ CriticalReserve(t, "creserve", "cstore")
             \/ CriticalReserve(t, "xput", "xstore")
    <2>1. /\ map' = map /\ got' = got /\ new' = new
          /\ \/ pc[t] = "reserve" /\ pc'[t] \in {"find", "store"}
             \/ pc[t] = "xreserve" /\ pc'[t] \in {"store", "xtake"} /\ idx' = idx
             \/ pc[t] = "creserve" /\ pc'[t] = "cstore" /\ idx' = idx
             \/ pc[t] = "xput" /\ pc'[t] = "xstore" /\ idx' = idx
      BY <1>3, <1>9 DEF RequestReserve, ExchangeReserve, CriticalReserve, Goto, At
    <2>2. Waits(t)' /\ Holds(t)' /\ Cleans(t)'
      BY <1>2, <2>1 DEF Waits, Holds, Cleans
    <2>3. InHand(t)' = InHand(t) /\ TakenOut(t)' = TakenOut(t) /\ ToPut(t)' = ToPut(t)
      BY <1>2, <2>1 DEF InHand, TakenOut, ToPut
    <2>4. \A of \in Ofiles : Refers(t, 0, of)' = Refers(t, 0, of)
      BY <2>1, <2>3 DEF Refers
    <2> QED
      BY <1>6, <2>1, <2>2, <2>4
  <1>10. ASSUME NEW at, NEW absent, NEW retry, IsFree(t, at, absent, retry),
               \/ at = "lookfree" /\ absent = "out" /\ retry = "look"
               \/ at = "take" /\ absent = "out" /\ retry = "takeout"
               \/ at = "cfree" /\ absent = "out" /\ retry = "ctake"
               \/ at = "xfree" /\ absent = "xreserve" /\ retry = "xtake"
         PROVE /\ pc[t] # "out"
               /\ Waits(t)' /\ Holds(t)' /\ Cleans(t)'
               /\ \E i \in Indices : /\ \A j \in Indices \ {i} : map'[j] = map[j]
                                     /\ \A of \in Ofiles : Refers(t, i, of)' = Refers(t, i, of)
    <2>1. /\ pc[t] = at /\ pc'[t] = (IF idx[t] \in free THEN absent ELSE retry)
          /\ map' = map /\ got' = got /\ got[t] = Null /\ idx' = idx /\ idx[t] \in Indices
      BY <1>2, <1>3, <1>10 DEF IsFree, Leave, Goto, At, Args, Fetching
    <2>2. new'[t] = new[t]
      BY <1>2, <1>3, <1>10 DEF IsFree, Leave, Goto, At, Args, Putting
    <2>3. Waits(t)'
      BY <1>2, <1>10, <2>1 DEF Waits
    <2>4. Holds(t)'
      BY <1>2, <1>10, <2>1, <2>2 DEF Waits, Holds
    <2>5. Cleans(t)'
      BY <1>2, <1>4, <1>10, <2>1 DEF Cleans
    <2>6. step[t] \notin {"open", "dup_min"}
      BY <1>2, <1>10, <2>1 DEF Waits
    <2>7. InHand(t)' = InHand(t) /\ TakenOut(t)' = Null /\ TakenOut(t) = Null /\ ToPut(t)' = ToPut(t)
      BY <1>2, <2>1, <2>2, <2>6 DEF InHand, TakenOut, ToPut, EntryOf
    <2>8. \A of \in Ofiles : Refers(t, 0, of)' = Refers(t, 0, of)
      BY <2>1, <2>7 DEF Refers
    <2> QED
      BY <1>6, <1>10, <2>1, <2>3, <2>4, <2>5, <2>8
  <1>11. ASSUME NEW at \in {"store", "cstore", "xstore"}, Store(t, at)
         PROVE /\ pc[t] # "out"
               /\ Waits(t)' /\ Holds(t)' /\ Cleans(t)'
               /\ \E i \in Indices : /\ \A j \in Indices \ {i} : map'[j] = map[j]
                                     /\ \A of \in Ofiles : Refers(t, i, of)' = Refers(t, i, of)
    <2>1. /\ pc[t] = at /\ pc'[t] = "out" /\ got' = got /\ idx' = idx /\ idx[t] \in Indices
          /\ new'[t] = Null /\ new[t] \in Entries /\ map' = [map EXCEPT ![idx[t]] = new[t]]
      BY <1>2, <1>3, <1>11 DEF Store, Leave, Goto, At, Args, Putting
    <2>2. map[idx[t]] = Null /\ map'[idx[t]] = new[t]
      BY <1>3, <2>1 DEF TInv, MapInv, SlotOwned, Owns, Owning
    <2>3. Waits(t)' /\ Holds(t)' /\ Cleans(t)'
      BY <1>2, <2>1 DEF Waits, Holds, Cleans
    <2>4. InHand(t)' = InHand(t)
      BY <1>2, <2>1, FMapAssumption, SMT DEF InHand, Waits, Indices
    <2>5. TakenOut(t)' = TakenOut(t) /\ ToPut(t)' = Null /\ ToPut(t) = EntryOf(new[t])
      BY <1>2, <2>1 DEF TakenOut, ToPut, EntryOf
    <2>6. EntryOf(map[idx[t]]) = Null /\ EntryOf(map[idx[t]])' = EntryOf(new[t])
      BY <2>1, <2>2, SMT DEF EntryOf
    <2>8. PICK i \in Indices : i = idx[t]
      BY <2>1
    <2>9. \A of \in Ofiles : Refers(t, i, of)' = Refers(t, i, of)
      BY <2>1, <2>2, <2>4, <2>5, <2>6, <2>8, SMT DEF Refers, Is
    <2> QED
      BY <1>3, <2>1, <2>3, <2>8, <2>9
  <1>12. CASE TakeUnreserve(t)
    <2>1. /\ pc[t] = "unreserve" /\ pc'[t] = "out" /\ got' = got /\ got[t] # Null
          /\ map' = map /\ new[t] = Null /\ new'[t] = Null
      BY <1>2, <1>3, <1>12 DEF TakeUnreserve, Leave, Goto, At, Args, Putting, Fetched
    <2>2. step[t] \in {"close", "cleanup"}
      BY <1>2, <2>1 DEF Waits, TInv, TypeOK, Steps
    <2>3. Waits(t)' /\ Holds(t)' /\ Cleans(t)'
      BY <1>2, <2>1, <2>2 DEF Waits, Holds, Cleans
    <2>4. InHand(t)' = InHand(t) /\ TakenOut(t)' = TakenOut(t) /\ ToPut(t)' = ToPut(t)
      BY <1>2, <2>1, <2>2 DEF InHand, TakenOut, ToPut
    <2>5. \A of \in Ofiles : Refers(t, 0, of)' = Refers(t, 0, of)
      BY <2>1, <2>4 DEF Refers
    <2> QED
      BY <1>6, <2>1, <2>3, <2>5
  <1>13. ASSUME NEW at, NEW done, NEW empty, TakeOut(t, at, done, empty),
               \/ at = "takeout" /\ done = "unreserve" /\ empty = "take"
               \/ at = "ctake" /\ done = "critical" /\ empty = "cfree"
               \/ at = "xtake" /\ done = "xput" /\ empty = "xfree"
         PROVE /\ pc[t] # "out"
               /\ Waits(t)' /\ Holds(t)' /\ Cleans(t)'
               /\ \E i \in Indices : /\ \A j \in Indices \ {i} : map'[j] = map[j]
                                     /\ \A of \in Ofiles : Refers(t, i, of)' = Refers(t, i, of)
    <2>1. /\ pc[t] = at /\ pc'[t] = (IF map[idx[t]] = Null THEN empty ELSE done)
          /\ got[t] = Null /\ got'[t] = map[idx[t]] /\ new' = new /\ idx' = idx /\ idx[t] \in Indices
          /\ map' = [map EXCEPT ![idx[t]] = Null]
      BY <1>2, <1>3, <1>13 DEF TakeOut, Leave, Goto, At, Args, Fetching
    <2>2. Waits(t)'
      BY <1>2, <1>13, <2>1 DEF Waits
    <2>3. Holds(t)'
      BY <1>2, <1>13, <2>1 DEF Waits, Holds
    <2>4. Cleans(t)'
      BY <1>2, <1>3, <1>13, <2>1 DEF Cleans
    <2>5. InHand(t)' = InHand(t) /\ TakenOut(t) = Null /\ ToPut(t)' = ToPut(t)
      BY <1>2, <1>13, <2>1 DEF InHand, TakenOut, ToPut, EntryOf, Waits
    <2>6. TakenOut(t)' = EntryOf(map[idx[t]])
      BY <1>2, <1>13, <2>1 DEF TakenOut, EntryOf, Waits, Cleans, TInv, TypeOK, Steps
    <2>7. PICK i \in Indices : i = idx[t]
      BY <2>1
    <2>8. EntryOf(map'[i]) = Null
      BY <1>3, <2>1, <2>7 DEF EntryOf
    <2>9. \A of \in Ofiles : Refers(t, i, of)' = Refers(t, i, of)
      BY <2>5, <2>6, <2>7, <2>8, SMT DEF Refers, Is
    <2> QED
      BY <1>3, <1>13, <2>1, <2>2, <2>3, <2>4, <2>7, <2>9
  <1> QED
    BY ONLY InMap(t), <1>7, <1>8, <1>9, <1>10, <1>11, <1>12, <1>13, Zenon DEF InMap, MapStep

\* After the map, an operation ends, or releases the open file that it is left with.
LEMMA DoneInv ==
    ASSUME Counting, TInv, NEW t \in Threads,
           Opened(t) \/ DupMinDone(t) \/ Dup3Done(t) \/ FlagsDone(t) \/ CloseDone(t) \/ uk_fdtab_ret(t)
    PROVE  TInv'
  <1> USE NotNull
  <1>1. /\ loc[t] \in Locals /\ Holds(t) /\ idx[t] \in 0..Size /\ got[t] \in Entries \cup {Null}
    BY DEF TInv, CallsInv, MapInv, MapTypeOK
  <1>2. UNCHANGED tabVars /\ pc[t] = "out" /\ (Work(t) \/ uk_fdtab_ret(t))
    BY DEF Opened, DupMinDone, Dup3Done, FlagsDone, CloseDone, uk_fdtab_ret, Work, On
  <1>3. CASE Opened(t) \/ DupMinDone(t)
    <2>1. /\ step[t] \in {"open", "dup_min"} /\ loc[t].of \in Ofiles /\ TakenOut(t) = Null
          /\ InHand(t) = (IF idx[t] < Size THEN Null ELSE loc[t].of)
      BY <1>1, <1>2, <1>3, FMapAssumption, SMT DEF Opened, DupMinDone, On, InHand, TakenOut, Holds, Locals
    <2>2. IF idx[t] < Size THEN Finish(t) ELSE Release(t, loc[t].of)
      BY <1>3 DEF Opened, DupMinDone
    <2>3. Work(t)
      BY <1>3 DEF Work
    <2> QED
      BY <1>2, <2>1, <2>2, <2>3, FinishInv, ReleaseInv, ZenonT(40)
  <1>4. CASE Dup3Done(t) \/ CloseDone(t)
    <2>1. step[t] \in {"dup3", "close"} /\ InHand(t) = Null /\ TakenOut(t) = EntryOf(got[t])
      BY <1>2, <1>4 DEF Dup3Done, CloseDone, On, InHand, TakenOut
    <2>2. IF got[t] = Null THEN Finish(t) ELSE Release(t, got[t].of)
      BY <1>4 DEF Dup3Done, CloseDone
    <2>3. Work(t)
      BY <1>4 DEF Work
    <2>4. got[t] # Null => got[t].of \in Ofiles /\ EntryOf(got[t]) = got[t].of
      BY <1>1, FdTabAssumption DEF EntryOf
    <2>5. got[t] = Null => EntryOf(got[t]) = Null
      BY DEF EntryOf
    <2> QED
      BY <1>2, <2>1, <2>2, <2>3, <2>4, <2>5, FinishInv, ReleaseInv
  <1>5. CASE FlagsDone(t)
    <2>1. step[t] = "flags" /\ InHand(t) = Null /\ TakenOut(t) = Null /\ Finish(t) /\ Work(t)
      BY <1>2, <1>5 DEF FlagsDone, On, InHand, TakenOut, Work
    <2> QED
      BY <1>2, <2>1, FinishInv
  <1>6. CASE uk_fdtab_ret(t)
    <2>1. /\ step[t] = "using" /\ loc[t].of \in Ofiles /\ InHand(t) = loc[t].of /\ TakenOut(t) = Null
          /\ Release(t, loc[t].of) /\ Use(t)
      BY <1>1, <1>2, <1>6 DEF uk_fdtab_ret, On, InHand, TakenOut, Use, Holds, Locals
    <2> QED
      BY <1>2, <2>1, ReleaseInv
  <1> QED
    BY <1>3, <1>4, <1>5, <1>6

\* One turn of fdtab_cleanup(): the entry taken is the one that was looked up, for
\* nobody else is in the table.
LEMMA CleanupInv ==
    ASSUME Counting, TInv, NEW t \in Threads, Cleanup(t)
    PROVE  TInv'
  <1> USE NotNull
  <1> DEFINE l == loc[t]
  <1>1. /\ l \in Locals /\ Cleans(t) /\ Holds(t) /\ got[t] \in Entries \cup {Null}
        /\ step[t] = "cleanup" /\ pc[t] = "out" /\ UNCHANGED tabVars /\ Work(t)
    BY DEF TInv, CallsInv, MapInv, MapTypeOK, Cleanup, On, Work
  <1>2. l.cur \in Indices /\ l.creator = Null
    BY <1>1 DEF Cleans, Holds, Locals
  <1>3. InHand(t) = Null /\ (l.then # "take" => TakenOut(t) = Null)
    BY <1>1 DEF InHand, TakenOut
  <1>4. CASE /\ l.then = Null /\ got[t] # Null
             /\ uk_fmap_take(t, l.cur)
             /\ Now(t, "cleanup", [l EXCEPT !.then = "take"])
    <2> DEFINE m == [l EXCEPT !.then = "take"]
    <2>1. m \in Locals /\ m.cur = l.cur /\ m.then = "take" /\ m.creator = Null
      BY <1>1, <1>2 DEF Locals
    <2>2. map[l.cur] # Null
      BY <1>1, <1>4 DEF Cleans
    <2> HIDE DEF m
    <2> QED
      BY <1>1, <1>2, <1>3, <1>4, <2>1, <2>2, Enters DEF uk_fmap_take, m
  <1>5. CASE l.then = "take" /\ Release(t, got[t].of)
    <2>1. got[t] # Null
      BY <1>1, <1>5 DEF Cleans
    <2>2. got[t].of \in Ofiles /\ TakenOut(t) = got[t].of
      BY <1>1, <1>5, <2>1, FdTabAssumption DEF TakenOut, EntryOf
    <2> QED
      BY <1>1, <1>3, <1>5, <2>2, ReleaseInv
  <1>6. CASE /\ l.then # "take" /\ l.cur + 1 < Size
             /\ uk_fmap_lookup(t, l.cur + 1)
             /\ Now(t, "cleanup", [NoLocals EXCEPT !.cur = l.cur + 1])
    <2> DEFINE m == [NoLocals EXCEPT !.cur = l.cur + 1]
    <2>1. l.cur + 1 \in Indices
      BY <1>2, <1>6, FMapAssumption, SMT DEF Indices
    <2>2. m \in Locals /\ m.cur = l.cur + 1 /\ m.then = Null /\ m.creator = Null /\ m.of = Null
      BY <2>1 DEF Locals, NoLocals
    <2> HIDE DEF m
    <2> QED
      BY <1>1, <1>2, <1>3, <1>6, <2>1, <2>2, Enters DEF uk_fmap_lookup, m
  <1>7. CASE l.then # "take" /\ Now(t, "idle", NoLocals) /\ Forget(t)
    <2>1. MapInv' /\ Others(t)
      BY <1>1, OnMap DEF TInv
    <2>2. /\ loc \in [Threads -> Locals] /\ step \in [Threads -> Steps] /\ map' = map /\ pc' = pc
          /\ new' = new /\ new[t] = Null
          /\ step' = [step EXCEPT ![t] = "idle"] /\ loc' = [loc EXCEPT ![t] = NoLocals]
      BY <1>1, <1>7 DEF TInv, CallsInv, TypeOK, Now, Forget, MapInv, Args, Putting
    <2>3. loc' \in [Threads -> Locals] /\ step' \in [Threads -> Steps] /\ Waits(t)' /\ Holds(t)' /\ Cleans(t)'
      BY <1>1, <2>2, ZenonT(40) DEF Locals, NoLocals, Steps, Waits, Holds, Cleans
    <2>4. CallsInv'
      BY <1>1, <2>1, <2>2, <2>3, CallsMove DEF NoLocals, TInv
    <2>5. /\ InHand(t)' = Null /\ TakenOut(t)' = Null /\ ToPut(t) = Null /\ ToPut(t)' = Null
          /\ Creator(t)' = Creator(t)
      BY <1>1, <1>2, <2>2 DEF InHand, TakenOut, ToPut, EntryOf, Creator, NoLocals
    <2>6. 0 \in Indices /\ \A of \in Ofiles : Refers(t, 0, of)' = Refers(t, 0, of)
      BY <1>3, <1>7, <2>2, <2>5 DEF Refers, Is, Indices
    <2>7. TypeOK'
      BY <1>1, <2>1, <2>3 DEF TInv, TypeOK, MapInv, tabVars
    <2> QED
      BY <1>1, <2>1, <2>2, <2>4, <2>5, <2>6, <2>7, Plain DEF TInv
  <1> QED
    BY <1>1, <1>4, <1>5, <1>6, <1>7 DEF Cleanup

\* With the entry out of the map the thread owns its reference: _fdtab_get() adds
\* one and puts the entry back, setflags puts it back changed.
LEMMA CriticalInv ==
    ASSUME Counting, TInv, NEW t \in Threads, GetAcquire(t) \/ SetFlags(t)
    PROVE  TInv'
  <1> USE NotNull
  <1>1. MapInv' /\ Others(t)
    BY OnMap DEF TInv, Work
  <1>2. /\ pc[t] = "critical" /\ pc'[t] = "creserve" /\ map' = map /\ idx' = idx /\ got' = got
        /\ new[t] = Null /\ got[t] \in Entries /\ got[t].of \in Ofiles
        /\ EntryOf(new'[t]) = got[t].of
    <2>1. pc[t] = "critical" /\ got[t] \in Entries /\ new[t] = Null
      BY DEF GetAcquire, SetFlags, uk_fmap_critical_put, At, TInv, MapInv, MapTypeOK, Args, Fetched, Putting
    <2>2. [got[t] EXCEPT !.cloexec = loc[t].cloexec] \in Entries
      BY <2>1, FdTabAssumption DEF TInv, CallsInv, Locals
    <2> QED
      BY <2>1, <2>2, FdTabAssumption, SMT DEF GetAcquire, SetFlags, uk_fmap_critical_put, Goto, TInv, MapInv, MapTypeOK, EntryOf
  <1>3. /\ loc \in [Threads -> Locals] /\ step \in [Threads -> Steps] /\ loc[t] \in Locals
        /\ Waits(t) /\ Holds(t) /\ Cleans(t)
    BY DEF TInv, CallsInv, TypeOK
  <1>4. ~ \E u \in Threads \ {t} : loc[u].cur # Null
    BY <1>2 DEF TInv, CallsInv, Alone
  <1>5. TakenOut(t) = got[t].of /\ TakenOut(t)' = Null /\ ToPut(t) = Null /\ ToPut(t)' = got[t].of
    <2>1. step[t] \in {"get", "flags"} /\ step'[t] = step[t]
      BY <1>3 DEF GetAcquire, SetFlags, Now
    <2> QED
      BY <1>2, <2>1 DEF TakenOut, ToPut, EntryOf
  <1>6. 0 \in Indices
    BY DEF Indices
  <1>7. CASE SetFlags(t)
    <2>1. step[t] = "flags" /\ UNCHANGED <<step, loc, tabVars>>
      BY <1>7 DEF SetFlags
    <2>2. Waits(t)' /\ Holds(t)' /\ Cleans(t)'
      BY <1>2, <1>3, <2>1 DEF Waits, Holds, Cleans
    <2>3. CallsInv'
      BY <1>1, <1>2, <1>3, <1>4, <2>1, <2>2, CallsMove DEF TInv
    <2>4. TypeOK'
      BY <1>1, <2>1 DEF TInv, TypeOK, MapInv, tabVars
    <2>5. InHand(t) = Null /\ InHand(t)' = Null /\ Creator(t)' = Creator(t)
      BY <2>1 DEF InHand, Creator
    <2>6. \A of \in Ofiles : Refers(t, 0, of)' = Refers(t, 0, of)
      BY <1>2, <1>5, <2>5, FdTabAssumption, SMT DEF Refers, Is
    <2> QED
      BY <1>1, <1>2, <1>6, <2>1, <2>3, <2>4, <2>5, <2>6, Plain DEF TInv
  <1>8. CASE GetAcquire(t)
    <2>1. /\ step[t] = "get" /\ step' = step /\ loc' = [loc EXCEPT ![t] = [loc[t] EXCEPT !.of = got[t].of]]
          /\ refcnt' = [refcnt EXCEPT ![got[t].of] = @ + 1] /\ UNCHANGED <<fileof, fileVars>>
      BY <1>3, <1>8 DEF GetAcquire, Now
    <2>2. loc' \in [Threads -> Locals] /\ Waits(t)' /\ Holds(t)' /\ Cleans(t)' /\ loc'[t].cur = Null
      BY <1>2, <1>3, <2>1, ZenonT(40) DEF Waits, Holds, Cleans, Locals
    <2>3. CallsInv'
      BY <1>1, <1>2, <1>3, <1>4, <2>1, <2>2, CallsMove DEF TInv
    <2>4. TypeOK'
      BY <1>1, <1>2, <2>1, SMT DEF TInv, TypeOK, MapInv, fileVars
    <2>5. InHand(t) = Null /\ InHand(t)' = got[t].of
      BY <1>2, <1>3, <2>1, SMT DEF InHand, Holds
    <2>6. \A of \in Ofiles : References(of)' = References(of) + Is(got[t].of, of)
      <3> TAKE of \in Ofiles
      <3>1. Refers(t, 0, of)' = Refers(t, 0, of) + Is(got[t].of, of) /\ Refers(t, 0, of) \in Int
        BY <1>2, <1>5, <2>5, FdTabAssumption, SMT DEF Refers, Is
      <3>2. References(of)' = References(of) + Refers(t, 0, of)' - Refers(t, 0, of)
        BY <1>1, <1>2, <1>6, ReferencesMove DEF TInv
      <3>3. References(of) \in Nat /\ Is(got[t].of, of) \in Nat
        BY Referred DEF Is
      <3> HIDE DEF References, Refers, Is
      <3> QED
        BY <3>1, <3>2, <3>3, SMT
    <2>7. References(got[t].of) > 0
      BY <1>2, <1>5, Referred
    <2>8. \A u \in Threads, of \in Ofiles : Dying(u, of)' <=> Dying(u, of)
      BY <2>1 DEF Dying, Others, TInv, CallsInv
    <2>9. \A u \in Threads : step[u] # "get" => loc'[u] = loc[u]
      BY <1>3, <2>1
    <2>10. OfilesInv'
      <3>1. \A of \in Ofiles : refcnt'[of] = refcnt[of] + Is(got[t].of, of) /\ refcnt[of] \in Nat
        <4>1. refcnt \in [Ofiles -> Nat]
          BY DEF TInv, TypeOK
        <4> QED
          BY <2>1, <4>1, SMT DEF Is
      <3>2. ~ \E u \in Threads : Dying(u, got[t].of)
        BY <1>2, <2>7, SMT DEF TInv, OfilesInv
      <3>3. \A of \in Ofiles : refcnt[of] = References(of) /\ (refcnt[of] > 0 => fileof[of] # Null)
        BY DEF TInv, OfilesInv
      <3>4. \A of \in Ofiles : refcnt'[of] = References(of)'
        BY <2>6, <3>1, <3>3, SMT
      <3>5. \A of \in Ofiles : /\ refcnt[of] > 0 => refcnt'[of] > 0
                               /\ of # got[t].of => refcnt'[of] = refcnt[of]
        BY <3>1, SMT DEF Is
      <3>6. fileof' = fileof /\ got[t].of \in Ofiles /\ fileof[got[t].of] # Null
        BY <1>2, <2>1, <2>7, <3>3
      <3>7. \A u \in Threads, of \in Ofiles : Dying(u, of) => loc'[u] = loc[u]
        BY <2>9 DEF Dying
      <3>8. \A of \in Ofiles : refcnt'[of] > 0 => fileof'[of] # Null
        BY <3>3, <3>5, <3>6
      <3>9. \A of \in Ofiles : fileof'[of] # Null => refcnt'[of] > 0 \/ \E u \in Threads : Dying(u, of)'
        BY <2>8, <3>5, <3>6 DEF OfilesInv, TInv
      <3>10. \A of \in Ofiles : \A u \in Threads : Dying(u, of)' => refcnt'[of] = 0 /\ fileof'[of] = loc'[u].file
        <4> TAKE of \in Ofiles
        <4> TAKE u \in Threads
        <4> HAVE Dying(u, of)'
        <4>1. Dying(u, of) /\ of # got[t].of
          BY <2>8, <3>2
        <4>2. refcnt[of] = 0 /\ fileof[of] = loc[u].file
          BY <4>1 DEF OfilesInv, TInv
        <4> QED
          BY <3>5, <3>6, <3>7, <4>1, <4>2
      <3>11. \A of \in Ofiles : \A u, v \in Threads : Dying(u, of)' /\ Dying(v, of)' => u = v
        BY <2>8 DEF OfilesInv, TInv
      <3> QED
        BY <3>4, <3>8, <3>9, <3>10, <3>11 DEF OfilesInv
    <2>11. FilesInv'
      <3>1. Creator(t)' = Creator(t)
        BY <1>3, <2>1 DEF Creator, Locals
      <3> QED
        BY <1>1, <2>1, <3>1, FilesStay DEF TInv
    <2> QED
      BY <1>1, <2>3, <2>4, <2>10, <2>11 DEF TInv
  <1> QED
    BY <1>7, <1>8

\* _fdtab_get() has returned: the open file is used, or goes on into the map under
\* another descriptor.
LEMMA GetDoneInv ==
    ASSUME Counting, TInv, NEW t \in Threads, GetDone(t)
    PROVE  TInv'
  <1> USE NotNull
  <1> DEFINE l == loc[t]
             entry == [of |-> l.of, cloexec |-> l.cloexec]
  <1>1. /\ step[t] = "get" /\ pc[t] = "out" /\ UNCHANGED tabVars /\ Work(t)
        /\ loc \in [Threads -> Locals] /\ step \in [Threads -> Steps] /\ l \in Locals /\ Holds(t)
        /\ MapInv /\ TypeOK /\ CallsInv
    BY DEF TInv, CallsInv, TypeOK, GetDone, On, Work
  <1>2. InHand(t) = l.of /\ TakenOut(t) = Null /\ ToPut(t) = Null /\ new[t] = Null /\ l.creator = Null
    BY <1>1 DEF InHand, TakenOut, ToPut, EntryOf, MapInv, Args, Putting, Holds
  <1>3. CASE l.of = Null /\ Finish(t)
    BY <1>1, <1>2, <1>3, FinishInv
  <1>4. ASSUME NEW s \in {"using", "dup_min", "dup3"}, NEW m \in Locals, l.of # Null, Now(t, s, m),
               m.creator = Null, m.cur = Null, s # "dup3" => m.of = l.of, map' = map,
               \/ s = "using" /\ pc' = pc /\ new' = new /\ idx' = idx
               \/ s = "dup_min" /\ pc'[t] = "find" /\ EntryOf(new'[t]) = l.of
               \/ s = "dup3" /\ pc'[t] = "xreserve" /\ EntryOf(new'[t]) = l.of /\ got'[t] = Null
        PROVE  TInv'
    <2>1. MapInv' /\ Others(t)
      BY <1>1, OnMap
    <2>2. /\ step' = [step EXCEPT ![t] = s] /\ loc' = [loc EXCEPT ![t] = m]
          /\ step'[t] = s /\ loc'[t] = m /\ loc' \in [Threads -> Locals] /\ step' \in [Threads -> Steps]
      BY <1>1, <1>4 DEF Now, Steps
    <2>3. Waits(t)' /\ Holds(t)' /\ Cleans(t)'
      BY <1>1, <1>4, <2>2 DEF Waits, Holds, Cleans
    <2>4. ~ \E u \in Threads \ {t} : loc[u].cur # Null
      BY <1>1 DEF CallsInv, Alone
    <2>5. CallsInv'
      BY <1>1, <1>4, <2>1, <2>2, <2>3, <2>4, CallsMove
    <2>6. TypeOK'
      BY <1>1, <2>1, <2>2 DEF TypeOK, MapInv, tabVars
    <2>7. /\ TakenOut(t)' = Null /\ Creator(t)' = Creator(t)
          /\ \/ InHand(t)' = l.of /\ ToPut(t)' = Null
             \/ InHand(t)' = Null /\ ToPut(t)' = l.of
      BY <1>1, <1>2, <1>4, <2>2 DEF InHand, TakenOut, ToPut, Creator, EntryOf
    <2>8. \A of \in Ofiles : Refers(t, 0, of)' = Refers(t, 0, of)
      <3>1. map' = map
        BY <1>4
      <3> QED
        BY <1>2, <2>7, <3>1, SMT DEF Refers, Is
    <2> QED
      BY <1>1, <1>4, <2>1, <2>2, <2>5, <2>6, <2>7, <2>8, Plain DEF TInv
  <1>5. l.of # Null => entry \in Entries /\ EntryOf(entry) = l.of
    BY <1>1, FdTabAssumption, SMT DEF Locals, EntryOf
  <1>6. NoLocals \in Locals /\ NoLocals.creator = Null /\ NoLocals.cur = Null
    BY DEF NoLocals, Locals
  <1> DEFINE m == [NoLocals EXCEPT !.of = l.of]
  <1>7. m \in Locals /\ m.creator = Null /\ m.cur = Null /\ m.of = l.of
    BY <1>1 DEF NoLocals, Locals
  <1>8. CASE l.of # Null /\ Now(t, "using", m) /\ UNCHANGED mapVars
    <2> HIDE DEF m
    <2> QED
      BY <1>4, <1>7, <1>8 DEF mapVars
  <1>9. ASSUME NEW min0 \in Indices, l.of # Null, uk_fmap_put(t, entry, min0), Now(t, "dup_min", m)
        PROVE  TInv'
    <2>1. pc'[t] = "find" /\ new'[t] = entry /\ map' = map
      BY <1>1, <1>9 DEF uk_fmap_put, Call, Goto, MapInv, MapTypeOK
    <2> HIDE DEF m, entry
    <2> QED
      BY <1>4, <1>5, <1>7, <1>9, <2>1
  <1>10. CASE l.of # Null /\ uk_fmap_xchg(t, l.newfd, entry) /\ Now(t, "dup3", NoLocals)
    <2>1. pc'[t] = "xreserve" /\ new'[t] = entry /\ map' = map /\ got'[t] = Null
      BY <1>1, <1>10 DEF uk_fmap_xchg, Call, Goto, MapInv, MapTypeOK
    <2> HIDE DEF entry
    <2> QED
      BY <1>4, <1>5, <1>6, <1>10, <2>1
  <1> QED
    BY <1>3, <1>8, <1>9, <1>10 DEF GetDone

\* uk_fdtab_open() of a file: the open file and, when the file is new, the file had
\* no reference before.
LEMMA OpenInv ==
    ASSUME Counting, TInv, NEW t \in Threads, Start(t), NEW f \in Files, NEW of \in Ofiles,
           NEW cloexec \in BOOLEAN, uk_fdtab_open(t, f, of, cloexec)
    PROVE  TInv'
  <1> USE NotNull
  <1> DEFINE new_file == f \notin Static
             c == IF new_file THEN f ELSE Null
             l == [NoLocals EXCEPT !.of = of, !.creator = c]
  <1>1. MapInv' /\ Others(t)
    BY OnMap DEF TInv
  <1>2. /\ MapInv /\ TypeOK /\ CallsInv /\ OfilesInv /\ FilesInv
        /\ loc \in [Threads -> Locals] /\ step \in [Threads -> Steps] /\ Holds(t)
    BY DEF TInv, CallsInv, TypeOK
  <1>3. /\ step[t] = "idle" /\ pc[t] = "out" /\ NoCleanup /\ fileof[of] = Null /\ (new_file => refs[f] = 0 /\ \A u \in Threads : ~ Lingers(u, f))
        /\ step' = [step EXCEPT ![t] = "open"] /\ loc' = [loc EXCEPT ![t] = l] /\ watch' = watch
        /\ strong' = [strong EXCEPT ![f] = IF new_file THEN 2 ELSE @ + 1]
        /\ refs' = [refs EXCEPT ![f] = IF new_file THEN 2 ELSE @ + 1]
        /\ released' = [released EXCEPT ![f] = {}]
        /\ refcnt' = [refcnt EXCEPT ![of] = 1]
        /\ fileof' = [fileof EXCEPT ![of] = f]
    BY DEF uk_fdtab_open, Starts, On, Now
  <1>4. l \in Locals /\ l.of = of /\ l.creator = c /\ l.cur = Null /\ (c # Null => c = f)
    BY DEF NoLocals, Locals
  <1>5. EntryOf([of |-> of, cloexec |-> cloexec]) = of
    <2>1. [of |-> of, cloexec |-> cloexec] \in Entries
      BY FdTabAssumption
    <2> QED
      BY <2>1 DEF EntryOf
  <1>6. pc'[t] = "find" /\ EntryOf(new'[t]) = of /\ got'[t] = Null /\ map' = map /\ new[t] = Null
    BY <1>2, <1>3, <1>5 DEF uk_fdtab_open, uk_fmap_put, Call, Goto, MapInv, MapTypeOK, Args, Putting
  <1> HIDE DEF l
  <1>7. step'[t] = "open" /\ loc'[t] = l /\ loc' \in [Threads -> Locals] /\ step' \in [Threads -> Steps]
    BY <1>2, <1>3, <1>4 DEF Steps
  <1>8. Waits(t)' /\ Holds(t)' /\ Cleans(t)'
    BY <1>4, <1>6, <1>7 DEF Waits, Holds, Cleans
  <1>9. CallsInv'
    BY <1>1, <1>2, <1>3, <1>4, <1>6, <1>7, <1>8, CallsMove DEF NoCleanup
  <1>10. TypeOK'
    BY <1>1, <1>2, <1>3, <1>7, FdTabAssumption, SMT DEF TypeOK, MapInv
  <1>11. /\ InHand(t) = Null /\ InHand(t)' = Null /\ TakenOut(t) = Null /\ TakenOut(t)' = Null
         /\ ToPut(t) = Null /\ ToPut(t)' = of
    BY <1>3, <1>6, <1>7 DEF InHand, TakenOut, ToPut, EntryOf
  <1>12. \A o \in Ofiles : References(o)' = References(o) + Is(of, o)
    <2> TAKE o \in Ofiles
    <2>1. 0 \in Indices
      BY DEF Indices
    <2>2. Refers(t, 0, o)' = Refers(t, 0, o) + Is(of, o) /\ Refers(t, 0, o) \in Int /\ Is(of, o) \in Nat
      BY <1>6, <1>11, SMT DEF Refers, Is
    <2>3. References(o)' = References(o) + Refers(t, 0, o)' - Refers(t, 0, o)
      BY <1>1, <1>2, <1>6, <2>1, ReferencesMove
    <2>4. References(o) \in Nat
      BY Referred
    <2> HIDE DEF References, Refers, Is
    <2> QED
      BY <2>2, <2>3, <2>4, SMT
  <1>13. /\ \A u \in Threads : ~ Dying(u, of)
         /\ \A u \in Threads, o \in Ofiles : /\ Dying(u, o)' <=> Dying(u, o)
                                             /\ Dying(u, o) => loc'[u] = loc[u]
    <2>1. \A u \in Threads : ~ Dying(u, of)
      <3>1. \A u \in Threads : Dying(u, of) => fileof[of] = loc[u].file
        BY <1>2 DEF OfilesInv
      <3>2. \A u \in Threads : Dying(u, of) => loc[u].file # Null
        BY <1>2 DEF CallsInv, Holds, Dying
      <3> QED
        BY <1>3, <3>1, <3>2
    <2> QED
      BY <1>1, <1>3, <1>7, <2>1 DEF Dying, Others
  <1>14. OfilesInv'
    <2>1. \A o \in Ofiles : refcnt[o] = References(o) /\ refcnt[o] \in Nat /\ (refcnt[o] > 0 => fileof[o] # Null)
      BY <1>2 DEF OfilesInv, TypeOK
    <2>2. /\ refcnt'[of] = 1 /\ \A o \in Ofiles \ {of} : refcnt'[o] = refcnt[o]
          /\ fileof'[of] = f /\ \A o \in Ofiles \ {of} : fileof'[o] = fileof[o]
      BY <1>2, <1>3 DEF TypeOK
    <2>3. refcnt[of] = 0
      BY <1>3, <2>1, SMT
    <2>4. \A o \in Ofiles : refcnt'[o] = References(o)'
      BY <1>12, <2>1, <2>2, <2>3, SMT DEF Is
    <2>5. refcnt'[of] > 0
      BY <2>2, SMT
    <2>6. \A o \in Ofiles : fileof'[o] # Null => refcnt'[o] > 0 \/ \E u \in Threads : Dying(u, o)'
      <3>1. \A o \in Ofiles : fileof[o] # Null => refcnt[o] > 0 \/ \E u \in Threads : Dying(u, o)
        BY <1>2 DEF OfilesInv
      <3> QED
        BY <1>13, <2>2, <2>5, <3>1
    <2>7. \A o \in Ofiles, u \in Threads : Dying(u, o)' => refcnt'[o] = 0 /\ fileof'[o] = loc'[u].file
      <3>1. \A o \in Ofiles, u \in Threads : Dying(u, o) => refcnt[o] = 0 /\ fileof[o] = loc[u].file
        BY <1>2 DEF OfilesInv
      <3> TAKE o \in Ofiles, u \in Threads
      <3> HAVE Dying(u, o)'
      <3>2. Dying(u, o) /\ o # of /\ loc'[u] = loc[u]
        BY <1>13
      <3> QED
        BY <2>2, <3>1, <3>2, ZenonT(40)
    <2>8. \A o \in Ofiles, u, v \in Threads : Dying(u, o)' /\ Dying(v, o)' => u = v
      <3>1. \A o \in Ofiles, u, v \in Threads : Dying(u, o) /\ Dying(v, o) => u = v
        BY <1>2 DEF OfilesInv
      <3> QED
        BY <1>13, <3>1
    <2>9. \A o \in Ofiles : refcnt'[o] > 0 => fileof'[o] # Null
      BY <2>1, <2>2
    <2> QED
      BY <2>4, <2>6, <2>7, <2>8, <2>9 DEF OfilesInv
  <1>15. FileRef(of) = Null /\ FileRef(of)' = f /\ \A o \in Ofiles \ {of} : FileRef(o)' = FileRef(o)
    <2>1. ~ \E u \in Threads : step[u] \in GivenBack /\ loc[u].of = of
      BY <1>13 DEF Dying
    <2>2. \A o : (\E u \in Threads : step[u] \in GivenBack /\ loc[u].of = o)' <=> \E u \in Threads : step[u] \in GivenBack /\ loc[u].of = o
      BY <1>1, <1>3, <1>7 DEF Others
    <2> QED
      BY <1>2, <1>3, <2>1, <2>2, FdTabAssumption, SMT DEF FileRef, TypeOK
  <1>16. Creator(t) = Null /\ Creator(t)' = c /\ Weak(t) = Null /\ Weak(t)' = Null
    BY <1>2, <1>3, <1>4, <1>7 DEF Creator, Weak, Holds
  <1>17. \A g \in Files : /\ Strongs(g)' = Strongs(g) + Is(f, g) + Is(c, g)
                          /\ Weaks(g)' = Weaks(g)
    <2> TAKE g \in Files
    <2> DEFINE W == {u \in Threads : Weak(u) = g}
    <2>1. /\ Strongs(g)' = Strongs(g) + (IF of \in Ofiles THEN Is(FileRef(of), g)' - Is(FileRef(of), g) ELSE 0)
                                      + Is(Creator(t), g)' - Is(Creator(t), g)
          /\ Cardinality(W') = Cardinality(W) + Is(Weak(t), g)' - Is(Weak(t), g)
      BY <1>1, <1>15, FilesMove
    <2>2. Strongs(g) \in Nat
      BY <1>2, FileReferred
    <2>3. Cardinality(W) \in Nat
      BY AllFinite
    <2>4. Weaks(g) = Cardinality(W) + Cardinality(Registrations(g)) /\ Weaks(g)' = Cardinality(W') + Cardinality(Registrations(g)')
      BY DEF Weaks
    <2>5. Registrations(g)' = Registrations(g)
      BY <1>3 DEF Registrations
    <2> HIDE DEF W, Strongs, Weaks, FileRef, Creator, c
    <2>6. Cardinality(W') = Cardinality(W)
      BY <1>16, <2>1, <2>3, SMT DEF Is
    <2>7. Strongs(g)' = Strongs(g) + Is(f, g) + Is(c, g)
      BY <1>15, <1>16, <2>1, <2>2, SMT DEF Is
    <2> QED
      BY <2>4, <2>5, <2>6, <2>7
  <1>18. \A u \in Threads : step'[u] = "weak" => step[u] = "weak" /\ loc'[u] = loc[u]
    BY <1>1, <1>7 DEF Others
  <1>19. FilesInv'
    <2>1. \A g \in Files : Strongs(g) \in Nat /\ Weaks(g) \in Nat /\ strong[g] = Strongs(g) /\ refs[g] = strong[g] + Weaks(g)
      BY <1>2, FileReferred DEF FilesInv
    <2>2. ASSUME NEW g \in Files, g # f
          PROVE  /\ strong'[g] = Strongs(g)' /\ refs'[g] = strong'[g] + Weaks(g)'
                 /\ strong'[g] > 0 => released'[g] = {}
                 /\ "obj" \in released'[g] => refs'[g] = 0
                 /\ \A u \in Threads : step'[u] = "weak" /\ loc'[u].file = g /\ loc'[u].res => strong'[g] = 0
      <3>1. Strongs(g)' = Strongs(g) /\ Weaks(g)' = Weaks(g)
        BY <1>17, <2>1, <2>2, FdTabAssumption, SMT DEF Is
      <3> QED
        BY <1>2, <1>3, <1>18, <2>1, <2>2, <3>1, ZenonT(30) DEF FilesInv, TypeOK
    <2>3. /\ strong'[f] = Strongs(f)' /\ refs'[f] = strong'[f] + Weaks(f)'
          /\ released'[f] = {}
          /\ \A u \in Threads : ~ (step'[u] = "weak" /\ loc'[u].file = f /\ loc'[u].res)
      <3>1. released'[f] = {} /\ Weaks(f)' = Weaks(f) /\ strong[f] \in Nat
        BY <1>2, <1>3, <1>17 DEF TypeOK
      <3>2. CASE new_file
        <4>1. Strongs(f) = 0 /\ Weaks(f) = 0 /\ strong[f] = 0
          BY <1>3, <2>1, <3>2, FdTabAssumption, SMT
        <4>2. Strongs(f)' = 2 /\ strong'[f] = 2 /\ refs'[f] = 2
          BY <1>2, <1>3, <1>17, <3>2, <4>1, FdTabAssumption, SMT DEF Is, TypeOK
        <4>3. \A u \in Threads : Weak(u) # f
          BY <1>2, <4>1, FileReferred, FdTabAssumption, SMT
        <4> QED
          BY <1>18, <3>1, <4>1, <4>2, <4>3, FdTabAssumption, SMT DEF Weak
      <3>3. CASE ~ new_file
        <4>1. strong[f] > 0
          BY <1>2, <2>1, <3>3, FileReferred
        <4>2. Strongs(f)' = Strongs(f) + 1
          BY <1>17, <2>1, <3>3, FdTabAssumption, SMT DEF Is
        <4>3. strong'[f] = strong[f] + 1 /\ refs'[f] = refs[f] + 1
          BY <1>2, <1>3, <3>3 DEF TypeOK
        <4>4. strong'[f] = Strongs(f)' /\ refs'[f] = strong'[f] + Weaks(f)'
          BY <2>1, <3>1, <4>2, <4>3, FMapAssumption, SMT
        <4>5. \A u \in Threads : step[u] = "weak" /\ loc[u].file = f /\ loc[u].res => strong[f] = 0
          BY <1>2 DEF FilesInv
        <4>6. strong[f] # 0
          BY <4>1, SMT
        <4> QED
          BY <1>18, <3>1, <4>4, <4>5, <4>6
      <3> QED
        BY <3>2, <3>3
    <2>4. ReleasesInv'
      <3>1. \A u \in Threads : step'[u] = "release" => step[u] = "release" /\ loc'[u] = loc[u]
        BY <1>1, <1>7 DEF Others
      <3>2. \A u \in Threads : step[u] = "release" /\ loc[u].file = f => ~ loc[u].res /\ ~ loc[u].obj
        <4>1. CASE new_file
          BY <1>3, <4>1 DEF Lingers
        <4>2. CASE ~ new_file
          <5>1. Strongs(f) > 0
            BY <1>2, <4>2, FileReferred
          <5>2. strong[f] # 0 /\ refs[f] # 0
            BY <2>1, <5>1, SMT
          <5> QED
            BY <1>2, <5>2 DEF FilesInv, ReleasesInv, Frees
        <4> QED
          BY <4>1, <4>2
      <3>3. \A g \in Files \ {f} : strong'[g] = strong[g] /\ refs'[g] = refs[g] /\ released'[g] = released[g]
        BY <1>2, <1>3 DEF TypeOK
      <3>4. ReleasesInv
        BY <1>2 DEF FilesInv
      <3> QED
        BY <3>1, <3>2, <3>3, <3>4, ReleasesStay
    <2> QED
      BY <1>2, <1>3, <2>2, <2>3, <2>4 DEF FilesInv
  <1> QED
    BY <1>1, <1>9, <1>10, <1>14, <1>19 DEF TInv

\* ofile_rel(): whoever takes the count to zero frees the open file, alone.
LEMMA RelInv ==
    ASSUME Counting, TInv, NEW t \in Threads, ofile_rel(t)
    PROVE  TInv'
  <1> USE NotNull
  <1>1. PICK of \in Ofiles : of = loc[t].of
    BY DEF TInv, CallsInv, Holds, Locals, ofile_rel, On
  <1>2. /\ MapInv /\ TypeOK /\ CallsInv /\ OfilesInv /\ FilesInv /\ Holds(t) /\ loc[t] \in Locals
        /\ loc \in [Threads -> Locals] /\ step \in [Threads -> Steps] /\ refcnt \in [Ofiles -> Nat]
    BY DEF TInv, CallsInv, TypeOK
  <1>3. /\ step[t] = "rel" /\ pc[t] = "out" /\ refcnt' = [refcnt EXCEPT ![of] = @ - 1]
        /\ UNCHANGED <<fileof, fileVars>> /\ Work(t)
        /\ IF refcnt[of] > 1 THEN Finish(t)
           ELSE /\ step' = [step EXCEPT ![t] = "strong"]
                /\ loc' = [loc EXCEPT ![t] = [loc[t] EXCEPT !.file = fileof[of]]]
                /\ UNCHANGED mapVars
    BY <1>1 DEF ofile_rel, On, Now, Work
  <1>4. MapInv' /\ Others(t)
    BY <1>2, <1>3, OnMap
  <1>5. InHand(t) = of /\ TakenOut(t) = Null /\ ToPut(t) = Null /\ Creator(t) = loc[t].creator /\ new[t] = Null
    BY <1>1, <1>2, <1>3 DEF InHand, TakenOut, ToPut, EntryOf, Creator, MapInv, Args, Putting
  <1>6. References(of) > 0 /\ refcnt[of] = References(of) /\ refcnt[of] > 0
    BY <1>2, <1>5, Referred, ZenonT(40) DEF OfilesInv
  <1>7. fileof[of] \in Files /\ \A u \in Threads : ~ Dying(u, of)
    <2>1. fileof[of] \in Files /\ \A u \in Threads : Dying(u, of) => refcnt[of] = 0
      BY <1>2, <1>6 DEF OfilesInv, TypeOK
    <2>2. refcnt[of] # 0
      BY <1>6, SMT
    <2> QED
      BY <2>1, <2>2
  <1>8. /\ CallsInv' /\ step' \in [Threads -> Steps] /\ map' = map
        /\ step'[t] \notin GivenBack /\ InHand(t)' = Null /\ TakenOut(t)' = Null /\ ToPut(t)' = Null
        /\ Creator(t)' = Creator(t)
        /\ \/ refcnt[of] > 1 /\ loc'[t].of = Null
           \/ refcnt[of] = 1 /\ step'[t] = "strong" /\ loc'[t].of = of /\ loc'[t].file = fileof[of]
    <2>1. CASE refcnt[of] > 1
      BY <1>2, <1>3, <1>4, <1>5, <2>1, Finishes
    <2>2. CASE ~ (refcnt[of] > 1)
      <3>1. /\ step'[t] = "strong" /\ loc'[t] = [loc[t] EXCEPT !.file = fileof[of]]
            /\ loc' \in [Threads -> Locals] /\ step' \in [Threads -> Steps]
        BY <1>2, <1>3, <1>7, <2>2, SMT DEF Locals, Steps
      <3>2. /\ loc'[t].of = of /\ loc'[t].file = fileof[of] /\ loc'[t].creator = loc[t].creator
            /\ loc'[t].cur = loc[t].cur
        BY <1>1, <1>2, <3>1 DEF Locals
      <3>3. map' = map /\ pc' = pc /\ new' = new /\ refcnt[of] = 1
        BY <1>2, <1>3, <1>6, <2>2, SMT DEF mapVars
      <3>4. Waits(t)' /\ Holds(t)' /\ Cleans(t)'
        BY <1>2, <1>3, <1>7, <3>1, <3>2, <3>3 DEF Waits, Holds, Cleans
      <3>5. (\E u \in Threads \ {t} : loc[u].cur # Null) => loc[t].cur = Null
        BY <1>2 DEF CallsInv, Alone
      <3>6. CallsInv'
        BY <1>2, <1>3, <1>4, <3>1, <3>2, <3>3, <3>4, <3>5, CallsMove
      <3>7. InHand(t)' = Null /\ TakenOut(t)' = Null /\ ToPut(t)' = Null /\ Creator(t)' = Creator(t)
        BY <1>3, <1>5, <3>1, <3>2, <3>3 DEF InHand, TakenOut, ToPut, EntryOf, Creator
      <3> QED
        BY <3>1, <3>2, <3>3, <3>6, <3>7
    <2> QED
      BY <2>1, <2>2
  <1>9. TypeOK'
    <2>1. refcnt' \in [Ofiles -> Nat]
      BY <1>2, <1>3, <1>6, SMT
    <2> QED
      BY <1>2, <1>3, <1>4, <1>8, <2>1 DEF TypeOK, MapInv, fileVars
  <1>10. FilesInv'
    BY <1>2, <1>3, <1>4, <1>8, FilesStay
  <1>11. \A o \in Ofiles : References(o)' = References(o) - Is(of, o)
    <2> TAKE o \in Ofiles
    <2>1. 0 \in Indices
      BY DEF Indices
    <2>2. Refers(t, 0, o)' = Refers(t, 0, o) - Is(of, o) /\ Refers(t, 0, o) \in Int /\ Is(of, o) \in Nat
      BY <1>5, <1>8, FdTabAssumption, SMT DEF Refers, Is
    <2>3. References(o)' = References(o) + Refers(t, 0, o)' - Refers(t, 0, o)
      BY <1>2, <1>4, <1>8, <2>1, ReferencesMove
    <2>4. References(o) \in Nat
      BY Referred
    <2> HIDE DEF References, Refers, Is
    <2> QED
      BY <2>2, <2>3, <2>4, SMT
  <1>12. \A u \in Threads \ {t}, o \in Ofiles : (Dying(u, o)' <=> Dying(u, o)) /\ loc'[u] = loc[u]
    BY <1>4 DEF Dying, Others
  <1>13. \A o \in Ofiles : ~ Dying(t, o) /\ (Dying(t, o)' => o = of /\ refcnt[of] = 1 /\ loc'[t].file = fileof[of])
    BY <1>3, <1>8 DEF Dying
  <1>14. refcnt[of] = 1 => Dying(t, of)'
    BY <1>8, SMT DEF Dying
  <1>15. OfilesInv'
    <2>1. ASSUME NEW o \in Ofiles, o # of
          PROVE  /\ refcnt'[o] = References(o)'
                 /\ refcnt'[o] > 0 => fileof'[o] # Null
                 /\ fileof'[o] # Null => refcnt'[o] > 0 \/ \E u \in Threads : Dying(u, o)'
                 /\ \A u \in Threads : Dying(u, o)' => refcnt'[o] = 0 /\ fileof'[o] = loc'[u].file
                 /\ \A u, v \in Threads : Dying(u, o)' /\ Dying(v, o)' => u = v
      <3>1. refcnt'[o] = refcnt[o] /\ fileof' = fileof
        BY <1>2, <1>3, <2>1
      <3>2. refcnt[o] = References(o) /\ refcnt[o] \in Nat
        BY <1>2, <2>1 DEF OfilesInv
      <3>3. References(o)' = References(o)
        BY <1>11, <2>1, <3>2, SMT DEF Is
      <3>4. \A u \in Threads : (Dying(u, o)' <=> Dying(u, o)) /\ (Dying(u, o) => loc'[u] = loc[u])
        BY <1>12, <1>13, <2>1
      <3>5. /\ refcnt[o] > 0 => fileof[o] # Null
            /\ fileof[o] # Null => refcnt[o] > 0 \/ \E u \in Threads : Dying(u, o)
            /\ \A u \in Threads : Dying(u, o) => refcnt[o] = 0 /\ fileof[o] = loc[u].file
            /\ \A u, v \in Threads : Dying(u, o) /\ Dying(v, o) => u = v
        BY <1>2, <2>1 DEF OfilesInv
      <3> QED
        BY <3>1, <3>2, <3>3, <3>4, <3>5
    <2>2. /\ refcnt'[of] = References(of)'
          /\ fileof'[of] # Null /\ (refcnt'[of] > 0 \/ Dying(t, of)')
          /\ \A u \in Threads : Dying(u, of)' => u = t /\ refcnt'[of] = 0 /\ fileof'[of] = loc'[u].file
      <3>1. refcnt'[of] = refcnt[of] - 1 /\ fileof' = fileof /\ References(of)' = References(of) - 1
        BY <1>2, <1>3, <1>6, <1>11 DEF Is
      <3>2. refcnt'[of] > 0 \/ Dying(t, of)'
        BY <1>2, <1>6, <1>14, <3>1, FdTabAssumption, SMT
      <3>3. \A u \in Threads : Dying(u, of)' => u = t /\ refcnt[of] = 1 /\ loc'[t].file = fileof[of]
        BY <1>7, <1>12, <1>13
      <3> QED
        BY <1>6, <1>7, <3>1, <3>2, <3>3, FdTabAssumption, SMT
    <2> HIDE DEF References, Dying
    <2>3. ASSUME NEW o \in Ofiles
          PROVE  /\ refcnt'[o] = References(o)'
                 /\ refcnt'[o] > 0 => fileof'[o] # Null
                 /\ fileof'[o] # Null => refcnt'[o] > 0 \/ \E u \in Threads : Dying(u, o)'
                 /\ \A u \in Threads : Dying(u, o)' => refcnt'[o] = 0 /\ fileof'[o] = loc'[u].file
                 /\ \A u, v \in Threads : Dying(u, o)' /\ Dying(v, o)' => u = v
      <3>1. CASE o = of
        BY <2>2, <3>1
      <3> QED
        BY <2>1, <3>1
    <2> QED
      BY <2>3 DEF OfilesInv
  <1> QED
    BY <1>4, <1>8, <1>9, <1>10, <1>15 DEF TInv

\* The strong count is given back: the thread keeps the weak reference, and knows
\* if it gave back the last strong one.
LEMMA StrongInv ==
    ASSUME Counting, TInv, NEW t \in Threads, ReleaseStrong(t)
    PROVE  TInv'
  <1> USE NotNull
  <1>1. PICK f \in Files : f = loc[t].file
    BY DEF TInv, CallsInv, Holds, Locals, ReleaseStrong, On
  <1>2. /\ MapInv /\ TypeOK /\ CallsInv /\ OfilesInv /\ FilesInv /\ Holds(t) /\ loc[t] \in Locals
        /\ loc \in [Threads -> Locals] /\ step \in [Threads -> Steps] /\ strong \in [Files -> Nat]
    BY DEF TInv, CallsInv, TypeOK
  <1>3. /\ step[t] = "strong" /\ pc[t] = "out" /\ strong' = [strong EXCEPT ![f] = @ - 1]
        /\ step' = [step EXCEPT ![t] = "weak"]
        /\ loc' = [loc EXCEPT ![t] = [loc[t] EXCEPT !.res = strong[f] = 1]]
        /\ UNCHANGED <<mapVars, refcnt, fileof, refs, released, watch>> /\ Work(t)
    BY <1>1 DEF ReleaseStrong, On, Now, Work
  <1>4. MapInv' /\ Others(t)
    BY <1>2, <1>3, OnMap
  <1>5. /\ step'[t] = "weak" /\ loc'[t] = [loc[t] EXCEPT !.res = strong[f] = 1]
        /\ loc' \in [Threads -> Locals] /\ step' \in [Threads -> Steps]
    BY <1>2, <1>3 DEF Locals, Steps
  <1>6. /\ loc'[t].of = loc[t].of /\ loc'[t].file = f /\ loc'[t].creator = loc[t].creator
        /\ loc'[t].cur = loc[t].cur /\ (loc'[t].res => strong[f] = 1)
    BY <1>1, <1>2, <1>5 DEF Locals
  <1>7. CallsInv'
    <2>1. map' = map /\ pc' = pc
      BY <1>3 DEF mapVars
    <2>2. Waits(t)' /\ Holds(t)' /\ Cleans(t)'
      BY <1>1, <1>2, <1>3, <1>5, <1>6, <2>1 DEF Waits, Holds, Cleans
    <2>3. (\E u \in Threads \ {t} : loc[u].cur # Null) => loc[t].cur = Null
      BY <1>2 DEF CallsInv, Alone
    <2> QED
      BY <1>2, <1>3, <1>4, <1>5, <1>6, <2>1, <2>2, <2>3, CallsMove
  <1>8. OfilesInv'
    <2>1. \A u \in Threads, of \in Ofiles : /\ Dying(u, of)' <=> Dying(u, of)
                                            /\ loc'[u].file = loc[u].file
      BY <1>1, <1>3, <1>4, <1>5, <1>6, ZenonT(40) DEF Dying, Others
    <2>2. \A of \in Ofiles : References(of)' = References(of)
      <3> TAKE of \in Ofiles
      <3>1. \A u \in Threads : InHand(u)' = InHand(u) /\ ToPut(u)' = ToPut(u) /\ TakenOut(u)' = TakenOut(u)
        BY <1>3, <1>4, <1>5 DEF InHand, ToPut, TakenOut, Others, mapVars
      <3>2. /\ {u \in Threads : InHand(u) = of}' = {u \in Threads : InHand(u) = of}
            /\ {u \in Threads : ToPut(u) = of}' = {u \in Threads : ToPut(u) = of}
            /\ {u \in Threads : TakenOut(u) = of}' = {u \in Threads : TakenOut(u) = of}
        BY <3>1
      <3> QED
        BY <1>3, <3>2 DEF References, Slots, mapVars
    <2> QED
      BY <1>2, <1>3, <2>1, <2>2, SMT DEF OfilesInv
  <1>9. PICK o : o = loc[t].of
    OBVIOUS
  <1>10. \A of \in Ofiles \ {o} : FileRef(of)' = FileRef(of)
    <2> TAKE of \in Ofiles \ {o}
    <2>1. (\E u \in Threads : step[u] \in GivenBack /\ loc[u].of = of)' <=> \E u \in Threads : step[u] \in GivenBack /\ loc[u].of = of
      BY <1>3, <1>4, <1>5, <1>6, <1>9 DEF Others
    <2> QED
      BY <1>3, <2>1 DEF FileRef
  <1>11. /\ Weak(t) = Null /\ Weak(t)' = f
         /\ \/ o \in Ofiles /\ FileRef(o) = f /\ FileRef(o)' = Null /\ Creator(t)' = Creator(t)
            \/ o \notin Ofiles /\ Creator(t) = f /\ Creator(t)' = Null
    <2>1. Weak(t) = Null /\ Weak(t)' = f
      BY <1>3, <1>5, <1>6 DEF Weak
    <2>2. CASE o \in Ofiles
      <3>1. Dying(t, o) /\ fileof[o] = f
        <4>1. Dying(t, o)
          BY <1>3, <1>9 DEF Dying
        <4> QED
          BY <1>1, <1>2, <2>2, <4>1 DEF OfilesInv
      <3>2. ~ \E u \in Threads : step[u] \in GivenBack /\ loc[u].of = o
        <4>1. \A u \in Threads : Dying(u, o) => u = t
          BY <1>2, <2>2, <3>1 DEF OfilesInv
        <4> QED
          BY <1>3, <4>1 DEF Dying
      <3>3. FileRef(o) = f /\ FileRef(o)' = Null
        BY <1>5, <1>6, <1>9, <3>1, <3>2 DEF FileRef
      <3>4. Creator(t)' = Creator(t)
        BY <1>3, <1>5, <1>6, <1>9, <2>2 DEF Creator
      <3> QED
        BY <2>1, <2>2, <3>3, <3>4
    <2>3. CASE o \notin Ofiles
      <3>1. loc[t].of = Null /\ loc[t].creator = Null
        BY <1>2, <1>3, <1>9, <2>3 DEF Locals, Holds
      <3> QED
        BY <1>1, <1>3, <1>5, <1>6, <2>1, <2>3, <3>1 DEF Creator
    <2> QED
      BY <2>2, <2>3
  <1>12. strong[f] > 0
    BY <1>2, <1>11, FileReferred DEF FilesInv
  <1>13. TypeOK'
    <2>1. strong' \in [Files -> Nat]
      BY <1>2, <1>3, <1>12, SMT
    <2> QED
      BY <1>2, <1>3, <1>4, <1>5, <2>1 DEF TypeOK, MapInv
  <1>14. \A g \in Files : Strongs(g)' = Strongs(g) - Is(f, g) /\ Weaks(g)' = Weaks(g) + Is(f, g)
    <2> TAKE g \in Files
    <2> DEFINE W == {u \in Threads : Weak(u) = g}
    <2>1. /\ Strongs(g)' = Strongs(g) + (IF o \in Ofiles THEN Is(FileRef(o), g)' - Is(FileRef(o), g) ELSE 0)
                                      + Is(Creator(t), g)' - Is(Creator(t), g)
          /\ Cardinality(W') = Cardinality(W) + Is(Weak(t), g)' - Is(Weak(t), g)
      BY <1>4, <1>10, FilesMove, ZenonT(40)
    <2>2. Strongs(g) \in Nat /\ Weaks(g) \in Nat
      BY <1>2, FileReferred
    <2>3. Cardinality(W) \in Nat
      BY AllFinite
    <2>4. Weaks(g) = Cardinality(W) + Cardinality(Registrations(g)) /\ Weaks(g)' = Cardinality(W') + Cardinality(Registrations(g)')
      BY DEF Weaks
    <2>5. Registrations(g)' = Registrations(g) /\ Cardinality(Registrations(g)) \in Nat
      <3>1. Registrations(g) \subseteq watch /\ IsFiniteSet(watch)
        BY <1>2 DEF Registrations, FilesInv
      <3> QED
        BY <1>3, <3>1 DEF Counting, Registrations
    <2> HIDE DEF W, Strongs, Weaks, FileRef, Creator
    <2>6. Cardinality(W') = Cardinality(W) + Is(f, g) /\ Is(f, g) \in Nat
      BY <1>11, <2>1, <2>3, SMT DEF Is
    <2>7. Strongs(g)' = Strongs(g) - Is(f, g)
      BY <1>11, <2>1, <2>2, SMT DEF Is
    <2> QED
      BY <2>3, <2>4, <2>5, <2>6, <2>7, SMT
  <1>15. FilesInv'
    <2>1. \A g \in Files : Strongs(g) \in Nat /\ Weaks(g) \in Nat /\ strong[g] = Strongs(g) /\ refs[g] = strong[g] + Weaks(g)
      BY <1>2, FileReferred DEF FilesInv
    <2>2. \A g \in Files : strong'[g] = strong[g] - Is(f, g) /\ Is(f, g) \in Nat
      BY <1>2, <1>3, SMT DEF Is
    <2>3. \A g \in Files : strong'[g] = Strongs(g)' /\ refs'[g] = strong'[g] + Weaks(g)'
      <3>1. refs' = refs
        BY <1>3
      <3> QED
        BY <1>14, <2>1, <2>2, <3>1, SMT
    <2>4. \A g \in Files : strong'[g] > 0 => strong[g] > 0
      <3>1. \A g \in Files : strong[g] \in Nat
        BY <1>2
      <3> QED
        BY <2>2, <3>1, SMT
    <2>5. \A g \in Files, u \in Threads : step'[u] = "weak" /\ loc'[u].file = g /\ loc'[u].res => strong'[g] = 0
      <3>1. ASSUME NEW u \in Threads, u # t, NEW g \in Files, step'[u] = "weak" /\ loc'[u].file = g /\ loc'[u].res
            PROVE  strong'[g] = 0
        <4>1. step'[u] = step[u] /\ loc'[u] = loc[u]
          BY <1>4, <3>1 DEF Others
        <4>2. strong[g] = 0
          BY <1>2, <3>1, <4>1 DEF FilesInv
        <4> QED
          BY <1>12, <2>2, <4>2, SMT DEF Is
      <3>2. loc'[t].res => strong'[f] = 0
        BY <1>6, <2>2, SMT DEF Is
      <3> QED
        BY <1>6, <3>1, <3>2
    <2>6. ReleasesInv'
      <3>1. \A u \in Threads : step'[u] = "release" => step[u] = "release" /\ loc'[u] = loc[u]
        BY <1>4, <1>5 DEF Others
      <3>2. \A g \in Files : strong[g] = 0 => strong'[g] = 0
        BY <1>2, <1>3, <1>12, SMT
      <3>3. refs' = refs /\ released' = released /\ ReleasesInv
        BY <1>2, <1>3 DEF FilesInv
      <3> QED
        BY <3>1, <3>2, <3>3, ReleasesStay
    <2> QED
      BY <1>2, <1>3, <2>3, <2>4, <2>5, <2>6 DEF FilesInv
  <1> QED
    BY <1>4, <1>7, <1>8, <1>13, <1>15 DEF TInv

\* The steps of a release that leave the open file alone: only the counts of the
\* file may change.
LEMMA WithinRelease ==
    ASSUME Counting, TInv, NEW t \in Threads, Work(t), UNCHANGED <<mapVars, refcnt, fileof>>,
           step[t] \in {"weak", "release"}, NEW place \in {"release", "finalize"}, NEW last \in BOOLEAN,
           step' = [step EXCEPT ![t] = place], loc' = [loc EXCEPT ![t] = [loc[t] EXCEPT !.obj = last]]
    PROVE  /\ MapInv' /\ CallsInv' /\ OfilesInv' /\ Others(t)
           /\ step' \in [Threads -> Steps] /\ step'[t] = place
           /\ loc'[t] = [loc[t] EXCEPT !.obj = last]
           /\ loc'[t].file = loc[t].file /\ loc'[t].res = loc[t].res /\ loc'[t].obj = last
           /\ \A g \in Files : /\ Strongs(g)' = Strongs(g)
                               /\ Cardinality({u \in Threads : Weak(u) = g}') =
                                    Cardinality({u \in Threads : Weak(u) = g}) - Is(Weak(t), g)
  <1> USE NotNull
  <1>1. /\ MapInv /\ TypeOK /\ CallsInv /\ OfilesInv /\ FilesInv /\ Holds(t) /\ Waits(t) /\ loc[t] \in Locals
        /\ loc \in [Threads -> Locals] /\ step \in [Threads -> Steps]
    BY DEF TInv, CallsInv, TypeOK
  <1>2. MapInv' /\ Others(t)
    BY <1>1, OnMap
  <1>3. /\ step'[t] = place /\ loc'[t] = [loc[t] EXCEPT !.obj = last]
        /\ loc' \in [Threads -> Locals] /\ step' \in [Threads -> Steps]
    BY <1>1 DEF Locals, Steps
  <1>4. /\ loc'[t].of = loc[t].of /\ loc'[t].file = loc[t].file /\ loc'[t].creator = loc[t].creator
        /\ loc'[t].cur = loc[t].cur /\ loc'[t].res = loc[t].res /\ loc'[t].obj = last
    BY <1>1, <1>3 DEF Locals
  <1>5. CallsInv'
    <2>1. map' = map /\ pc' = pc
      BY DEF mapVars
    <2>2. pc[t] = "out" /\ loc[t].file # Null
      BY <1>1 DEF Waits, Holds
    <2>3. Waits(t)' /\ Cleans(t)'
      BY <1>3, <2>1, <2>2 DEF Waits, Cleans
    <2>4. Holds(t)'
      BY <1>1, <1>3, <1>4 DEF Holds
    <2>5. (\E u \in Threads \ {t} : loc[u].cur # Null) => loc[t].cur = Null
      BY <1>1 DEF CallsInv, Alone
    <2> QED
      BY <1>1, <1>2, <1>3, <1>4, <2>1, <2>2, <2>3, <2>4, <2>5, CallsMove
  <1>6. OfilesInv'
    <2>1. \A u \in Threads, of \in Ofiles : /\ Dying(u, of)' <=> Dying(u, of)
                                            /\ loc'[u].file = loc[u].file
      BY <1>2, <1>3, <1>4, ZenonT(40) DEF Dying, Others
    <2>2. \A of \in Ofiles : References(of)' = References(of)
      <3> TAKE of \in Ofiles
      <3>1. \A u \in Threads : InHand(u)' = InHand(u) /\ ToPut(u)' = ToPut(u) /\ TakenOut(u)' = TakenOut(u)
        BY <1>2, <1>3, ZenonT(40) DEF InHand, ToPut, TakenOut, Others, mapVars
      <3>2. /\ {u \in Threads : InHand(u) = of}' = {u \in Threads : InHand(u) = of}
            /\ {u \in Threads : ToPut(u) = of}' = {u \in Threads : ToPut(u) = of}
            /\ {u \in Threads : TakenOut(u) = of}' = {u \in Threads : TakenOut(u) = of}
        BY <3>1
      <3> QED
        BY <3>2 DEF References, Slots, mapVars
    <2> QED
      BY <1>1, <2>1, <2>2, SMT DEF OfilesInv
  <1>7. \A of \in Ofiles : FileRef(of)' = FileRef(of)
    <2> TAKE of \in Ofiles
    <2>1. \A u \in Threads : /\ step'[u] \in GivenBack <=> step[u] \in GivenBack
                            /\ loc'[u].of = loc[u].of
      BY <1>2, <1>3, <1>4 DEF Others
    <2>2. (\E u \in Threads : step[u] \in GivenBack /\ loc[u].of = of)' <=> \E u \in Threads : step[u] \in GivenBack /\ loc[u].of = of
      BY <2>1
    <2> QED
      BY <2>2 DEF FileRef
  <1>8. Weak(t)' = Null /\ Creator(t)' = Creator(t)
    BY <1>3, <1>4 DEF Weak, Creator
  <1>9. ASSUME NEW g \in Files
        PROVE  /\ Strongs(g)' = Strongs(g)
               /\ Cardinality({u \in Threads : Weak(u) = g}') =
                    Cardinality({u \in Threads : Weak(u) = g}) - Is(Weak(t), g)
    <2> DEFINE W == {u \in Threads : Weak(u) = g}
    <2>1. /\ Strongs(g)' = Strongs(g) + (IF Null \in Ofiles THEN Is(FileRef(Null), g)' - Is(FileRef(Null), g) ELSE 0)
                                      + Is(Creator(t), g)' - Is(Creator(t), g)
          /\ Cardinality(W') = Cardinality(W) + Is(Weak(t), g)' - Is(Weak(t), g)
      BY <1>2, <1>7, FilesMove
    <2>2. Strongs(g) \in Nat /\ Cardinality(W) \in Nat
      BY <1>1, FileReferred, AllFinite
    <2> HIDE DEF W, Strongs, FileRef, Creator, Weak
    <2>3. Strongs(g)' = Strongs(g) /\ Cardinality(W') = Cardinality(W) - Is(Weak(t), g)
      BY <1>8, <2>1, <2>2, SMT DEF Is
    <2> QED
      BY <2>3 DEF W
  <1> QED
    BY <1>2, <1>3, <1>4, <1>5, <1>6, <1>9

\* The weak reference is given back: the thread knows if it was the last one, and
\* then nobody else does.
LEMMA WeakInv ==
    ASSUME Counting, TInv, NEW t \in Threads, ReleaseWeak(t)
    PROVE  TInv'
  <1> USE NotNull
  <1>1. PICK f \in Files : f = loc[t].file
    BY DEF TInv, CallsInv, Holds, Locals, ReleaseWeak, On
  <1>2. /\ TypeOK /\ FilesInv /\ refs \in [Files -> Nat]
    BY DEF TInv, TypeOK
  <1> DEFINE last == refs[f] = 1
             place == IF loc[t].res \/ last THEN "release" ELSE "finalize"
  <1>3. /\ step[t] = "weak" /\ refs' = [refs EXCEPT ![f] = @ - 1]
        /\ step' = [step EXCEPT ![t] = place] /\ loc' = [loc EXCEPT ![t] = [loc[t] EXCEPT !.obj = last]]
        /\ UNCHANGED <<mapVars, refcnt, fileof, strong, released, watch>> /\ Work(t)
    BY <1>1 DEF ReleaseWeak, On, Now, Work
  <1>4. place \in {"release", "finalize"} /\ last \in BOOLEAN
    OBVIOUS
  <1> HIDE DEF place
  <1>5. /\ MapInv' /\ CallsInv' /\ OfilesInv' /\ Others(t)
        /\ step' \in [Threads -> Steps] /\ step'[t] = place
        /\ loc'[t].file = f /\ loc'[t].res = loc[t].res /\ loc'[t].obj = last
        /\ \A g \in Files : /\ Strongs(g)' = Strongs(g)
                            /\ Cardinality({u \in Threads : Weak(u) = g}') =
                                 Cardinality({u \in Threads : Weak(u) = g}) - Is(Weak(t), g)
    <2> HIDE DEF last
    <2> QED
      BY <1>1, <1>3, <1>4, WithinRelease
  <1>6. Weak(t) = f
    BY <1>1, <1>3 DEF Weak
  <1>7. \A g \in Files : Strongs(g)' = Strongs(g) /\ Weaks(g)' = Weaks(g) - Is(f, g)
    <2> TAKE g \in Files
    <2> DEFINE W == {u \in Threads : Weak(u) = g}
    <2>1. Cardinality(W) \in Nat /\ Cardinality(W') = Cardinality(W) - Is(f, g)
      BY <1>5, <1>6, AllFinite
    <2>2. Weaks(g) = Cardinality(W) + Cardinality(Registrations(g)) /\ Weaks(g)' = Cardinality(W') + Cardinality(Registrations(g)')
      BY DEF Weaks
    <2>3. Registrations(g)' = Registrations(g) /\ Cardinality(Registrations(g)) \in Nat
      <3>1. Registrations(g) \subseteq watch /\ IsFiniteSet(watch)
        BY <1>2 DEF Registrations, FilesInv
      <3> QED
        BY <1>3, <3>1 DEF Counting, Registrations
    <2>4. Strongs(g)' = Strongs(g)
      BY <1>5
    <2> HIDE DEF W, Strongs, Weaks
    <2> QED
      BY <2>1, <2>2, <2>3, <2>4, SMT DEF Is
  <1>8. \A g \in Files : /\ Strongs(g) \in Nat /\ Weaks(g) \in Nat /\ strong[g] = Strongs(g)
                         /\ refs[g] = strong[g] + Weaks(g)
    BY <1>2, FileReferred DEF FilesInv
  <1>9. refs[f] > 0 /\ refs[f] # 0 /\ refs[f] \in Nat
    <2>1. Weaks(f) > 0
      BY <1>2, <1>6, FileReferred
    <2> QED
      BY <1>8, <2>1, SMT
  <1>10. (\A g \in Files \ {f} : refs'[g] = refs[g]) /\ refs'[f] = refs[f] - 1
    BY <1>2, <1>3
  <1>11. TypeOK'
    <2>1. refs' \in [Files -> Nat]
      BY <1>2, <1>3, <1>9, SMT
    <2> QED
      BY <1>2, <1>3, <1>5, <2>1 DEF TypeOK, MapInv
  <1>12. FilesInv'
    <2>1. \A g \in Files : strong'[g] = Strongs(g)' /\ refs'[g] = strong'[g] + Weaks(g)'
      <3> TAKE g \in Files
      <3>1. strong'[g] = Strongs(g)' /\ strong'[g] = strong[g] /\ strong[g] \in Nat
        BY <1>3, <1>7, <1>8
      <3>2. Weaks(g)' = Weaks(g) - Is(f, g) /\ refs'[g] = refs[g] - Is(f, g)
        BY <1>2, <1>7, <1>10, SMT DEF Is
      <3> HIDE DEF Weaks
      <3>3. Is(f, g) \in Nat
        BY DEF Is
      <3> QED
        BY <1>8, <3>1, <3>2, <3>3, SMT
    <2>2. \A u \in Threads : step'[u] = "weak" => step[u] = "weak" /\ loc'[u] = loc[u]
      BY <1>4, <1>5 DEF Others
    <2>3. \A g \in Files : "obj" \in released'[g] => refs'[g] = 0
      <3>1. \A g \in Files : "obj" \in released[g] => refs[g] = 0
        BY <1>2 DEF FilesInv
      <3> QED
        BY <1>3, <1>9, <1>10, <3>1
    <2>4. ReleasesInv'
      <3>1. \A u \in Threads \ {t} : step'[u] = step[u] /\ loc'[u] = loc[u]
        BY <1>5 DEF Others
      <3>2. \A u \in Threads \ {t} : ~ Frees(u, f)
        BY <1>2, <1>9 DEF FilesInv, ReleasesInv
      <3>3. loc[t].res => strong[f] = 0
        BY <1>1, <1>2, <1>3 DEF FilesInv
      <3>4. last => refs'[f] = 0
        BY <1>9, <1>10, SMT
      <3>5. "obj" \notin released[f]
        BY <1>2, <1>9 DEF FilesInv
      <3>6. strong' = strong /\ released' = released /\ ReleasesInv
        BY <1>2, <1>3 DEF FilesInv
      <3> HIDE DEF last
      <3>7. ASSUME NEW u \in Threads, NEW g \in Files, step'[u] = "release", loc'[u].file = g, loc'[u].res
            PROVE  strong'[g] = 0
        <4>1. CASE u = t
          BY <1>5, <3>3, <3>6, <3>7, <4>1
        <4>2. CASE u # t
          <5>1. step[u] = "release" /\ loc[u].file = g /\ loc[u].res
            BY <3>1, <3>7, <4>2
          <5>2. strong[g] = 0
            BY <3>6, <5>1 DEF ReleasesInv
          <5> QED
            BY <3>6, <5>2
        <4> QED
          BY <4>1, <4>2
      <3>8. ASSUME NEW u \in Threads, NEW g \in Files, Frees(u, g)'
            PROVE  /\ refs'[g] = 0 /\ "obj" \notin released'[g]
                   /\ \A v \in Threads : Frees(v, g)' => v = u
        <4>1. CASE g = f
          <5>1. \A v \in Threads : Frees(v, f)' => v = t
            BY <3>1, <3>2 DEF Frees
          <5> QED
            BY <1>5, <3>4, <3>5, <3>6, <3>8, <4>1, <5>1 DEF Frees
        <4>2. CASE g # f
          <5>1. \A v \in Threads : Frees(v, g)' => v # t /\ Frees(v, g)
            BY <1>5, <3>1, <4>2 DEF Frees
          <5> QED
            BY <1>10, <3>6, <3>8, <4>2, <5>1 DEF ReleasesInv
        <4> QED
          BY <4>1, <4>2
      <3> QED
        BY <3>7, <3>8 DEF ReleasesInv
    <2>5. IsFiniteSet(watch)' /\ \A g \in Files :
            /\ strong'[g] > 0 => released'[g] = {}
            /\ \A u \in Threads : step'[u] = "weak" /\ loc'[u].file = g /\ loc'[u].res => strong'[g] = 0
      <3>1. IsFiniteSet(watch) /\ \A g \in Files :
              /\ strong[g] > 0 => released[g] = {}
              /\ \A u \in Threads : step[u] = "weak" /\ loc[u].file = g /\ loc[u].res => strong[g] = 0
        BY <1>2 DEF FilesInv
      <3>2. watch' = watch /\ strong' = strong /\ released' = released
        BY <1>3
      <3> QED
        BY <2>2, <3>1, <3>2
    <2> HIDE DEF Strongs, Weaks
    <2> QED
      BY <2>1, <2>3, <2>4, <2>5 DEF FilesInv
  <1> QED
    BY <1>5, <1>11, <1>12 DEF TInv

\* _release() is told what nobody refers to any more.
LEMMA GiveUpInv ==
    ASSUME Counting, TInv, NEW t \in Threads, _release(t)
    PROVE  TInv'
  <1> USE NotNull
  <1>1. PICK f \in Files : f = loc[t].file
    BY DEF TInv, CallsInv, Holds, Locals, _release, On
  <1>2. /\ TypeOK /\ FilesInv /\ ReleasesInv /\ loc[t] \in Locals
        /\ released \in [Files -> SUBSET {"res", "obj"}]
    BY DEF TInv, TypeOK, CallsInv, FilesInv
  <1> DEFINE what == {x \in {"res", "obj"} : IF x = "res" THEN loc[t].res ELSE loc[t].obj}
  <1>3. /\ step[t] = "release" /\ released' = [released EXCEPT ![f] = @ \cup what]
        /\ step' = [step EXCEPT ![t] = "finalize"] /\ loc' = [loc EXCEPT ![t] = loc[t]]
        /\ UNCHANGED <<mapVars, refcnt, fileof, strong, refs, watch>> /\ Work(t)
    BY <1>1 DEF _release, On, Now, Work
  <1>4. loc[t] = [loc[t] EXCEPT !.obj = loc[t].obj] /\ loc[t].obj \in BOOLEAN
    BY <1>2 DEF Locals
  <1>5. "obj" \in what <=> loc[t].obj
    OBVIOUS
  <1>6. ~ loc[t].res /\ ~ loc[t].obj => what = {}
    OBVIOUS
  <1>7. what \subseteq {"res", "obj"}
    OBVIOUS
  <1> HIDE DEF what
  <1>8. /\ MapInv' /\ CallsInv' /\ OfilesInv' /\ Others(t)
        /\ step' \in [Threads -> Steps] /\ step'[t] = "finalize"
        /\ \A g \in Files : /\ Strongs(g)' = Strongs(g)
                            /\ Cardinality({u \in Threads : Weak(u) = g}') =
                                 Cardinality({u \in Threads : Weak(u) = g}) - Is(Weak(t), g)
    BY <1>3, <1>4, WithinRelease
  <1>9. \A g \in Files : Strongs(g)' = Strongs(g) /\ Weaks(g)' = Weaks(g)
    <2> TAKE g \in Files
    <2> DEFINE W == {u \in Threads : Weak(u) = g}
    <2>1. Is(Weak(t), g) = 0
      BY <1>3 DEF Is, Weak
    <2>2. Cardinality(W) \in Nat /\ Cardinality(W') = Cardinality(W) - 0
      BY <1>8, <2>1, AllFinite
    <2>3. Weaks(g) = Cardinality(W) + Cardinality(Registrations(g)) /\ Weaks(g)' = Cardinality(W') + Cardinality(Registrations(g)')
      BY DEF Weaks
    <2>4. Registrations(g)' = Registrations(g) /\ Strongs(g)' = Strongs(g)
      BY <1>3, <1>8 DEF Registrations
    <2> HIDE DEF W, Strongs, Weaks
    <2>5. Cardinality(W') = Cardinality(W)
      BY <2>2, SMT
    <2> QED
      BY <2>3, <2>4, <2>5
  <1>10. (\A g \in Files \ {f} : released'[g] = released[g]) /\ released'[f] = released[f] \cup what
    BY <1>2, <1>3
  <1>11. TypeOK'
    <2>1. released' \in [Files -> SUBSET {"res", "obj"}]
      BY <1>2, <1>3, <1>7
    <2> QED
      BY <1>2, <1>3, <1>8, <2>1 DEF TypeOK, MapInv
  <1>12. (loc[t].res => strong[f] = 0) /\ (loc[t].obj => Frees(t, f) /\ refs[f] = 0)
    BY <1>1, <1>2, <1>3 DEF ReleasesInv, Frees
  <1>13. FilesInv'
    <2>1. strong'[f] > 0 => released'[f] = {}
      <3>1. strong[f] > 0 => released[f] = {}
        BY <1>2 DEF FilesInv
      <3>2. strong[f] = Strongs(f) /\ Strongs(f) \in Nat /\ Weaks(f) \in Nat /\ refs[f] = strong[f] + Weaks(f)
        BY <1>2, FileReferred DEF FilesInv
      <3> HIDE DEF Strongs, Weaks
      <3>3. strong[f] > 0 => strong[f] # 0 /\ refs[f] # 0
        BY <3>2, SMT
      <3>4. strong[f] > 0 => what = {}
        BY <1>6, <1>12, <3>3
      <3> QED
        BY <1>3, <1>10, <3>1, <3>4
    <2>2. "obj" \in released'[f] => refs'[f] = 0
      <3>1. "obj" \in released[f] => refs[f] = 0
        BY <1>2 DEF FilesInv
      <3> QED
        BY <1>3, <1>5, <1>10, <1>12, <3>1
    <2>3. \A u \in Threads : step'[u] \in {"weak", "release"} => u # t /\ step[u] = step'[u] /\ loc'[u] = loc[u]
      BY <1>8 DEF Others
    <2>4. ReleasesInv'
      <3>1. \A u \in Threads, g \in Files : Frees(u, g)' => u # t /\ Frees(u, g)
        BY <2>3 DEF Frees
      <3>2. \A u \in Threads : Frees(u, f)' => ~ loc[t].obj
        BY <1>2, <1>12, <3>1 DEF ReleasesInv
      <3>3. ASSUME NEW u \in Threads, NEW g \in Files, Frees(u, g)'
            PROVE  /\ refs'[g] = 0 /\ "obj" \notin released'[g]
                   /\ \A v \in Threads : Frees(v, g)' => v = u
        <4>1. Frees(u, g) /\ refs[g] = 0 /\ "obj" \notin released[g] /\ \A v \in Threads : Frees(v, g) => v = u
          BY <1>2, <3>1, <3>3 DEF ReleasesInv
        <4>2. "obj" \notin released'[g]
          BY <1>5, <1>10, <3>2, <3>3, <4>1
        <4> QED
          BY <1>3, <3>1, <4>1, <4>2
      <3>4. ASSUME NEW u \in Threads, NEW g \in Files, step'[u] = "release", loc'[u].file = g, loc'[u].res
            PROVE  strong'[g] = 0
        <4>1. step[u] = "release" /\ loc[u].file = g /\ loc[u].res
          BY <2>3, <3>4
        <4>2. strong[g] = 0
          BY <1>2, <4>1 DEF ReleasesInv
        <4> QED
          BY <1>3, <4>2
      <3> QED
        BY <3>3, <3>4 DEF ReleasesInv
    <2>5. IsFiniteSet(watch)' /\ \A g \in Files :
            /\ strong'[g] = Strongs(g)' /\ refs'[g] = strong'[g] + Weaks(g)'
            /\ \A u \in Threads : step'[u] = "weak" /\ loc'[u].file = g /\ loc'[u].res => strong'[g] = 0
      <3> HIDE DEF Strongs, Weaks
      <3>1. IsFiniteSet(watch) /\ \A g \in Files :
              /\ strong[g] = Strongs(g) /\ refs[g] = strong[g] + Weaks(g)
              /\ \A u \in Threads : step[u] = "weak" /\ loc[u].file = g /\ loc[u].res => strong[g] = 0
        BY <1>2 DEF FilesInv
      <3>2. watch' = watch /\ strong' = strong /\ refs' = refs
        BY <1>3
      <3>3. \A u \in Threads : step'[u] = "weak" => step[u] = "weak" /\ loc'[u] = loc[u]
        BY <2>3
      <3> QED
        BY <1>9, <3>1, <3>2, <3>3
    <2>6. \A g \in Files \ {f} : (strong'[g] > 0 => released'[g] = {}) /\ ("obj" \in released'[g] => refs'[g] = 0)
      BY <1>2, <1>3, <1>10 DEF FilesInv
    <2> HIDE DEF Strongs, Weaks
    <2> QED
      BY <2>1, <2>2, <2>4, <2>5, <2>6 DEF FilesInv
  <1> QED
    BY <1>8, <1>11, <1>13 DEF TInv

\* The last part of a release: the registrations go, the object goes with the last
\* of them, and the open file is deleted.
LEMMA FinalizeInv ==
    ASSUME Counting, TInv, NEW t \in Threads, uk_file_refcnt_finalize(t)
    PROVE  TInv'
  <1> USE NotNull
  <1>1. PICK f \in Files : f = loc[t].file
    BY DEF TInv, CallsInv, Holds, Locals, uk_file_refcnt_finalize, On
  <1> DEFINE fins == Registrations(f)
             n == Cardinality(fins)
  <1>2. /\ MapInv /\ TypeOK /\ CallsInv /\ OfilesInv /\ FilesInv /\ Holds(t) /\ loc[t] \in Locals
        /\ refs \in [Files -> Nat] /\ released \in [Files -> SUBSET {"res", "obj"}]
        /\ fileof \in [Ofiles -> Files \cup {Null}]
    BY DEF TInv, CallsInv, TypeOK
  <1>3. /\ step[t] = "finalize" /\ pc[t] = "out" /\ Finish(t) /\ Work(t)
        /\ refs' = [refs EXCEPT ![f] = @ - n]
        /\ released' = IF n > 0 /\ refs[f] = n THEN [released EXCEPT ![f] = @ \cup {"obj"}] ELSE released
        /\ watch' = watch \ fins
        /\ fileof' = IF loc[t].of = Null THEN fileof ELSE [fileof EXCEPT ![loc[t].of] = Null]
        /\ refcnt' = refcnt /\ strong' = strong
    BY <1>1 DEF uk_file_refcnt_finalize, On, Unwatch, Work
  <1>4. MapInv' /\ Others(t)
    BY <1>2, <1>3, OnMap
  <1>5. /\ CallsInv' /\ step' \in [Threads -> Steps] /\ map' = map
        /\ step'[t] \in {"strong", "cleanup", "idle"} /\ loc'[t].of = Null
        /\ InHand(t)' = Null /\ TakenOut(t)' = Null /\ ToPut(t) = Null /\ ToPut(t)' = Null
        /\ Creator(t)' = loc[t].creator
    BY <1>2, <1>3, <1>4, Finishes
  <1>6. PICK o : o = loc[t].of
    OBVIOUS
  <1>7. o \in Ofiles => Dying(t, o) /\ refcnt[o] = 0 /\ \A u \in Threads : Dying(u, o) => u = t
    <2>1. o \in Ofiles => Dying(t, o)
      BY <1>3, <1>6 DEF Dying
    <2>2. o \in Ofiles => /\ \A u \in Threads : Dying(u, o) => refcnt[o] = 0
                         /\ \A u, v \in Threads : Dying(u, o) /\ Dying(v, o) => u = v
      BY <1>2 DEF OfilesInv
    <2> QED
      BY <2>1, <2>2
  <1>8. /\ \A of \in Ofiles \ {o} : fileof'[of] = fileof[of]
        /\ o \in Ofiles => fileof'[o] = Null
        /\ fileof' \in [Ofiles -> Files \cup {Null}]
    BY <1>2, <1>3, <1>6 DEF Locals
  <1>9. OfilesInv'
    <2>1. \A of \in Ofiles : References(of)' = References(of)
      <3> TAKE of \in Ofiles
      <3>1. 0 \in Indices
        BY DEF Indices
      <3>2. InHand(t) = Null /\ TakenOut(t) = Null
        BY <1>3 DEF InHand, TakenOut
      <3>3. Refers(t, 0, of)' = Refers(t, 0, of) /\ Refers(t, 0, of) \in Int
        BY <1>5, <3>2, FdTabAssumption, SMT DEF Refers, Is
      <3>4. References(of)' = References(of) + Refers(t, 0, of)' - Refers(t, 0, of)
        BY <1>2, <1>4, <1>5, <3>1, ReferencesMove
      <3>5. References(of) \in Nat
        BY Referred
      <3> HIDE DEF References, Refers
      <3> QED
        BY <3>3, <3>4, <3>5, SMT
    <2>2. \A of \in Ofiles, u \in Threads : /\ Dying(u, of)' <=> Dying(u, of) /\ u # t
                                            /\ Dying(u, of)' => loc'[u] = loc[u]
      BY <1>4, <1>5, ZenonT(30) DEF Dying, Others
    <2>3. \A of \in Ofiles \ {o} : ~ Dying(t, of)
      BY <1>6 DEF Dying
    <2>4. \A of \in Ofiles : /\ refcnt'[of] = References(of)'
                             /\ refcnt'[of] > 0 => fileof'[of] # Null
      <3> TAKE of \in Ofiles
      <3>1. refcnt[of] = References(of) /\ (refcnt[of] > 0 => fileof[of] # Null)
        BY <1>2 DEF OfilesInv
      <3>2. refcnt' = refcnt /\ References(of)' = References(of)
        BY <1>3, <2>1
      <3>3. of # o => fileof'[of] = fileof[of]
        BY <1>8
      <3>4. of = o => ~ (refcnt[of] > 0)
        BY <1>7, SMT
      <3> QED
        BY <3>1, <3>2, <3>3, <3>4
    <2>5. \A of \in Ofiles : fileof'[of] # Null => refcnt'[of] > 0 \/ \E u \in Threads : Dying(u, of)'
      <3> TAKE of \in Ofiles
      <3> HAVE fileof'[of] # Null
      <3>1. of # o /\ fileof[of] # Null
        BY <1>8
      <3>2. refcnt[of] > 0 \/ \E u \in Threads : Dying(u, of)
        BY <1>2, <3>1 DEF OfilesInv
      <3> QED
        BY <1>3, <2>2, <2>3, <3>1, <3>2
    <2>6. \A of \in Ofiles, u \in Threads : Dying(u, of)' => refcnt'[of] = 0 /\ fileof'[of] = loc'[u].file
      <3> TAKE of \in Ofiles, u \in Threads
      <3> HAVE Dying(u, of)'
      <3>1. Dying(u, of) /\ u # t /\ loc'[u] = loc[u]
        BY <2>2
      <3>2. of # o
        BY <1>7, <3>1
      <3>3. refcnt[of] = 0 /\ fileof[of] = loc[u].file
        BY <1>2, <3>1 DEF OfilesInv
      <3> QED
        BY <1>3, <1>8, <3>1, <3>2, <3>3
    <2>7. \A of \in Ofiles, u, v \in Threads : Dying(u, of)' /\ Dying(v, of)' => u = v
      <3>1. \A of \in Ofiles, u, v \in Threads : Dying(u, of) /\ Dying(v, of) => u = v
        BY <1>2 DEF OfilesInv
      <3> QED
        BY <2>2, <3>1
    <2> QED
      BY <2>4, <2>5, <2>6, <2>7 DEF OfilesInv
  <1>10. \A of \in Ofiles : FileRef(of)' = FileRef(of)
    <2> TAKE of \in Ofiles
    <2>1. CASE of = o
      BY <1>3, <1>6, <1>8, <2>1 DEF FileRef
    <2>2. CASE of # o
      <3>1. (\E u \in Threads : step[u] \in GivenBack /\ loc[u].of = of)' <=> \E u \in Threads : step[u] \in GivenBack /\ loc[u].of = of
        BY <1>3, <1>4, <1>5, <1>6, <2>2 DEF Others
      <3> QED
        BY <1>8, <2>2, <3>1 DEF FileRef
    <2> QED
      BY <2>1, <2>2
  <1>11. Weak(t) = Null /\ Weak(t)' = Null /\ Creator(t)' = Creator(t)
    BY <1>1, <1>3, <1>5 DEF Weak, Creator
  <1>12. /\ Registrations(f)' = {} /\ IsFiniteSet(watch')
         /\ \A g \in Files \ {f} : Registrations(g)' = Registrations(g)
         /\ \A g \in Files : Cardinality(Registrations(g)) \in Nat
         /\ Cardinality({}) = 0
    <2>1. IsFiniteSet(watch) /\ watch' \subseteq watch /\ \A g \in Files : Registrations(g) \subseteq watch
      BY <1>2, <1>3 DEF FilesInv, Registrations
    <2>2. IsFiniteSet(watch') /\ \A g \in Files : Cardinality(Registrations(g)) \in Nat
      BY <2>1 DEF Counting
    <2>3. Registrations(f)' = {} /\ \A g \in Files \ {f} : Registrations(g)' = Registrations(g)
      BY <1>3 DEF Registrations
    <2> QED
      BY <2>2, <2>3 DEF Counting
  <1>13. \A g \in Files : /\ Strongs(g)' = Strongs(g)
                          /\ Weaks(g)' = Weaks(g) - (IF g = f THEN n ELSE 0)
    <2> TAKE g \in Files
    <2> DEFINE W == {u \in Threads : Weak(u) = g}
    <2>1. /\ Strongs(g)' = Strongs(g) + (IF Null \in Ofiles THEN Is(FileRef(Null), g)' - Is(FileRef(Null), g) ELSE 0)
                                      + Is(Creator(t), g)' - Is(Creator(t), g)
          /\ Cardinality(W') = Cardinality(W) + Is(Weak(t), g)' - Is(Weak(t), g)
      BY <1>4, <1>10, FilesMove
    <2>2. Strongs(g) \in Nat
      BY <1>2, FileReferred
    <2>3. Cardinality(W) \in Nat
      BY AllFinite
    <2>4. Weaks(g) = Cardinality(W) + Cardinality(Registrations(g)) /\ Weaks(g)' = Cardinality(W') + Cardinality(Registrations(g)')
      BY DEF Weaks
    <2> HIDE DEF W, Strongs, Weaks, FileRef, Creator, Weak
    <2>5. Cardinality(W') = Cardinality(W)
      BY <1>11, <2>1, <2>3, SMT DEF Is
    <2>6. Strongs(g)' = Strongs(g)
      BY <1>11, <2>1, <2>2, SMT DEF Is
    <2>7. CASE g = f
      <3>1. Cardinality(Registrations(g)') = 0 /\ n = Cardinality(Registrations(g))
        BY <1>12, <2>7
      <3> HIDE DEF n
      <3> QED
        BY <1>12, <2>3, <2>4, <2>5, <2>6, <2>7, <3>1, SMT
    <2>8. CASE g # f
      BY <1>12, <2>3, <2>4, <2>5, <2>6, <2>8, FdTabAssumption, SMT DEF Is
    <2> QED
      BY <2>7, <2>8
  <1>14. \A g \in Files : /\ Strongs(g) \in Nat /\ Weaks(g) \in Nat /\ strong[g] = Strongs(g)
                          /\ refs[g] = strong[g] + Weaks(g)
    BY <1>2, FileReferred DEF FilesInv
  <1>15. n \in Nat /\ Weaks(f) >= n
    <2> DEFINE W == {u \in Threads : Weak(u) = f}
    <2>1. Cardinality(W) \in Nat
      BY AllFinite
    <2>2. Weaks(f) = Cardinality(W) + Cardinality(Registrations(f))
      BY DEF Weaks
    <2> HIDE DEF W
    <2> QED
      BY <1>12, <2>1, <2>2, FdTabAssumption, SMT
  <1>16. /\ \A g \in Files \ {f} : refs'[g] = refs[g] /\ released'[g] = released[g]
         /\ refs'[f] = refs[f] - n
         /\ released'[f] = IF n > 0 /\ refs[f] = n THEN released[f] \cup {"obj"} ELSE released[f]
    BY <1>2, <1>3
  <1> HIDE DEF n, fins
  <1>17. TypeOK'
    <2>1. refs' \in [Files -> Nat]
      BY <1>2, <1>3, <1>14, <1>15, FdTabAssumption, SMT
    <2>2. released' \in [Files -> SUBSET {"res", "obj"}]
      BY <1>2, <1>3
    <2>3. watch' \subseteq [fd : Indices, file : Files]
      BY <1>2, <1>3 DEF TypeOK
    <2> QED
      BY <1>2, <1>3, <1>4, <1>5, <1>8, <2>1, <2>2, <2>3 DEF TypeOK, MapInv
  <1>18. FilesInv'
    <2>1. \A u \in Threads : step'[u] = "weak" => step[u] = "weak" /\ loc'[u] = loc[u]
      BY <1>4, <1>5 DEF Others
    <2>2. \A g \in Files : strong'[g] = Strongs(g)' /\ refs'[g] = strong'[g] + Weaks(g)'
      <3> TAKE g \in Files
      <3>1. strong'[g] = Strongs(g)' /\ strong'[g] = strong[g] /\ strong[g] \in Nat
        BY <1>3, <1>13, <1>14
      <3>2. CASE g = f
        <4>1. Weaks(g)' = Weaks(g) - n /\ refs'[g] = refs[g] - n /\ refs[g] = strong[g] + Weaks(g)
          BY <1>13, <1>14, <1>16, <3>2
        <4> QED
          BY <1>14, <1>15, <3>1, <4>1, SMT
      <3>3. CASE g # f
        <4>1. Weaks(g)' = Weaks(g) - 0 /\ refs'[g] = refs[g] /\ refs[g] = strong[g] + Weaks(g)
          BY <1>13, <1>14, <1>16, <3>3
        <4> QED
          BY <1>14, <3>1, <4>1, SMT
      <3> QED
        BY <3>2, <3>3
    <2>3. strong'[f] > 0 => released'[f] = {}
      <3>1. strong[f] > 0 => released[f] = {}
        BY <1>2 DEF FilesInv
      <3>2. strong[f] > 0 => refs[f] # n
        BY <1>14, <1>15, SMT
      <3> QED
        BY <1>3, <1>16, <3>1, <3>2
    <2>4. refs[f] = 0 => n = 0 /\ ~ (n > 0)
      BY <1>14, <1>15, SMT
    <2>5. (refs[f] = n => refs[f] - n = 0) /\ (refs[f] = 0 => refs[f] - n = 0)
      BY <1>14, <1>15, <2>4, SMT
    <2>6. "obj" \in released'[f] => refs'[f] = 0
      <3>1. "obj" \in released[f] => refs[f] = 0
        BY <1>2 DEF FilesInv
      <3> QED
        BY <1>16, <2>5, <3>1
    <2>7. ReleasesInv'
      <3>1. \A u \in Threads : step'[u] = "release" => step[u] = "release" /\ loc'[u] = loc[u]
        BY <1>4, <1>5 DEF Others
      <3>2. refs[f] = 0 => refs'[f] = 0 /\ released'[f] = released[f]
        BY <1>16, <2>4, <2>5
      <3>3. \A g \in Files : refs[g] = 0 => refs'[g] = 0 /\ released'[g] = released[g]
        BY <1>16, <3>2
      <3>4. strong' = strong /\ ReleasesInv
        BY <1>2, <1>3 DEF FilesInv
      <3> QED
        BY <3>1, <3>3, <3>4, ReleasesStay
    <2>8. \A g \in Files \ {f} : (strong'[g] > 0 => released'[g] = {}) /\ ("obj" \in released'[g] => refs'[g] = 0)
      BY <1>2, <1>3, <1>16 DEF FilesInv
    <2>9. \A g \in Files, u \in Threads : step'[u] = "weak" /\ loc'[u].file = g /\ loc'[u].res => strong'[g] = 0
      <3>1. strong' = strong
        BY <1>3
      <3>2. \A g \in Files, u \in Threads : step[u] = "weak" /\ loc[u].file = g /\ loc[u].res => strong[g] = 0
        BY <1>2 DEF FilesInv
      <3> QED
        BY <2>1, <3>1, <3>2
    <2> HIDE DEF Strongs, Weaks
    <2> QED
      BY <1>12, <2>2, <2>3, <2>8, <2>9, <2>6, <2>7 DEF FilesInv
  <1> QED
    BY <1>4, <1>5, <1>9, <1>17, <1>18 DEF TInv

\* Where nobody moves, nothing is referred to from elsewhere.
LEMMA Unmoved ==
    ASSUME MapInv, CallsInv, UNCHANGED <<mapVars, step, loc>>
    PROVE  /\ MapInv' /\ CallsInv'
           /\ \A of : References(of)' = References(of)
           /\ \A u, of : Dying(u, of)' <=> Dying(u, of)
  <1>1. /\ step' = step /\ loc' = loc /\ map' = map /\ free' = free /\ pc' = pc
        /\ idx' = idx /\ min' = min /\ new' = new /\ got' = got
    BY DEF mapVars
  <1>2. MapInv'
    <2>1. MapTypeOK'
      BY <1>1 DEF MapInv, MapTypeOK
    <2>2. SlotOwned'
      BY <1>1, FdTabAssumption, SMT DEF MapInv, SlotOwned, Owns
    <2>3. \A t \in Threads : Args(t)'
      BY <1>1 DEF MapInv, Args
    <2> QED
      BY <2>1, <2>2, <2>3 DEF MapInv
  <1>3. CallsInv'
    <2>1. \A u \in Threads : Waits(u)'
      BY <1>1 DEF CallsInv, Waits
    <2>2. \A u \in Threads : Holds(u)'
      BY <1>1 DEF CallsInv, Holds
    <2>3. \A u \in Threads : Cleans(u)'
      BY <1>1 DEF CallsInv, Cleans
    <2>4. Alone'
      BY <1>1, FdTabAssumption, SMT DEF CallsInv, Alone
    <2> QED
      BY <1>1, <2>1, <2>2, <2>3, <2>4 DEF CallsInv
  <1>4. \A of : References(of)' = References(of)
    BY <1>1 DEF References, Slots, InHand, ToPut, TakenOut
  <1>5. \A u, of : Dying(u, of)' <=> Dying(u, of)
    BY <1>1 DEF Dying
  <1> QED
    BY <1>2, <1>3, <1>4, <1>5

\* epoll registrations of an open file in use come and go with a weak reference to
\* its file, which has a strong one.
LEMMA EpollInv ==
    ASSUME Counting, TInv, NEW t \in Threads, epoll_add(t) \/ epoll_entry_del(t)
    PROVE  TInv'
  <1> USE NotNull
  <1>1. /\ MapInv /\ TypeOK /\ CallsInv /\ OfilesInv /\ FilesInv /\ Holds(t) /\ loc[t] \in Locals
        /\ refs \in [Files -> Nat] /\ released \in [Files -> SUBSET {"res", "obj"}]
        /\ watch \subseteq [fd : Indices, file : Files] /\ IsFiniteSet(watch)
    BY DEF TInv, CallsInv, TypeOK, FilesInv
  <1>2. /\ step[t] = "using" /\ UNCHANGED <<mapVars, step, loc, refcnt, fileof, strong>>
    BY DEF epoll_add, epoll_entry_del, On
  <1>3. PICK of \in Ofiles : of = loc[t].of
    BY <1>1, <1>2 DEF Holds, Locals
  <1>4. InHand(t) = of
    BY <1>2, <1>3 DEF InHand
  <1>5. refcnt[of] > 0 /\ fileof[of] # Null
    BY <1>1, <1>4, Referred DEF OfilesInv
  <1>6. PICK f \in Files : f = fileof[of]
    BY <1>1, <1>5 DEF TypeOK
  <1>7. FileRef(of) = f
    <2>1. \A u \in Threads : Dying(u, of) => refcnt[of] = 0
      BY <1>1 DEF OfilesInv
    <2>2. refcnt[of] # 0
      BY <1>5, SMT
    <2> QED
      BY <1>6, <2>1, <2>2 DEF FileRef, Dying
  <1>8. \A g \in Files : /\ Strongs(g) \in Nat /\ Weaks(g) \in Nat /\ strong[g] = Strongs(g)
                         /\ refs[g] = strong[g] + Weaks(g)
    BY <1>1, FileReferred DEF FilesInv
  <1>9. strong[f] > 0 /\ released[f] = {}
    BY <1>1, <1>7, <1>8, FileReferred DEF FilesInv
  <1> DEFINE w == [fd |-> idx[t], file |-> f]
  <1>10. w \in [fd : Indices, file : Files] /\ w.file = f
    BY <1>1, <1>2 DEF Holds
  <1>11. \/ w \notin watch /\ watch' = watch \cup {w} /\ refs' = [refs EXCEPT ![f] = @ + 1] /\ released' = released
         \/ /\ w \in watch /\ watch' = watch \ {w} /\ refs' = [refs EXCEPT ![f] = @ - 1]
            /\ refs[f] # 1 => released' = released
            /\ released' \in {released, [released EXCEPT ![f] = @ \cup {"obj"}]}
    <2>1. CASE epoll_add(t)
      BY <1>3, <1>6, <1>10, <2>1 DEF epoll_add
    <2>2. CASE epoll_entry_del(t)
      <3>1. Cardinality({w}) = 1
        <4>1. {w} = {} \cup {w} /\ w \notin {}
          OBVIOUS
        <4>2. Cardinality({} \cup {w}) = Cardinality({}) + 1 /\ Cardinality({}) = 0
          BY DEF Counting
        <4> HIDE DEF w
        <4> QED
          BY <4>1, <4>2, SMT
      <3>2. 1 > 0
        BY SMT
      <3> QED
        BY <1>3, <1>6, <1>10, <2>2, <3>1, <3>2 DEF epoll_entry_del, Unwatch
    <2> QED
      BY <2>1, <2>2
  <1> HIDE DEF w
  <1>12. /\ Cardinality(Registrations(f)) \in Nat /\ IsFiniteSet(watch')
         /\ Cardinality(Registrations(f)') = Cardinality(Registrations(f)) + (IF w \in watch THEN -1 ELSE 1)
         /\ \A g \in Files \ {f} : Registrations(g)' = Registrations(g)
    <2>1. IsFiniteSet(watch')
      BY <1>1, <1>11 DEF Counting
    <2>2. \A g \in Files \ {f} : Registrations(g)' = Registrations(g)
      BY <1>10, <1>11 DEF Registrations
    <2>3. /\ \A y : y # w => (y \in Registrations(f)' <=> y \in Registrations(f))
          /\ w \in Registrations(f) <=> w \in watch
          /\ w \in Registrations(f)' <=> w \notin watch
      BY <1>10, <1>11 DEF Registrations
    <2>4. Registrations(f) \subseteq watch
      BY DEF Registrations
    <2>5. IsFiniteSet(Registrations(f))
      BY <1>1, <2>4 DEF Counting
    <2> QED
      BY <2>1, <2>2, <2>3, <2>5, CountMoves, FdTabAssumption, SMT
  <1>13. \A g \in Files : Strongs(g)' = Strongs(g)
    BY <1>2 DEF Strongs, FileRef, Creator, One
  <1>14. /\ Weaks(f)' = Weaks(f) + (IF w \in watch THEN -1 ELSE 1)
         /\ \A g \in Files \ {f} : Weaks(g)' = Weaks(g)
    <2>1. ASSUME NEW g \in Files
          PROVE  \E k \in Nat : /\ Weaks(g) = k + Cardinality(Registrations(g))
                               /\ Weaks(g)' = k + Cardinality(Registrations(g)')
      <3> DEFINE W == {u \in Threads : Weak(u) = g}
      <3>1. W' = W
        BY <1>2 DEF Weak
      <3>2. Cardinality(W) \in Nat
        BY AllFinite
      <3> QED
        BY <3>1, <3>2 DEF Weaks
    <2>2. \A g \in Files \ {f} : Weaks(g)' = Weaks(g)
      BY <1>12, <2>1
    <2>3. Weaks(f)' = Weaks(f) + (IF w \in watch THEN -1 ELSE 1)
      <3>1. PICK k \in Nat : Weaks(f) = k + Cardinality(Registrations(f)) /\ Weaks(f)' = k + Cardinality(Registrations(f)')
        BY <2>1
      <3> QED
        BY <1>12, <3>1, FdTabAssumption, SMT
    <2> QED
      BY <2>2, <2>3
  <1>15. w \in watch => Weaks(f) > 0
    BY <1>1, <1>10, FileReferred
  <1>16. TypeOK'
    <2>1. refs' \in [Files -> Nat]
      <3>1. refs[f] \in Nat /\ refs[f] > 0
        BY <1>8, <1>9, SMT
      <3>2. refs[f] + 1 \in Nat /\ refs[f] - 1 \in Nat
        BY <3>1, SMT
      <3> QED
        BY <1>1, <1>11, <3>2
    <2>2. released' \in [Files -> SUBSET {"res", "obj"}]
      BY <1>1, <1>11, SMT
    <2>3. watch' \subseteq [fd : Indices, file : Files]
      BY <1>1, <1>10, <1>11
    <2> QED
      BY <1>1, <1>2, <2>1, <2>2, <2>3 DEF TypeOK, MapTypeOK, mapVars
  <1>18. /\ MapInv' /\ CallsInv'
         /\ \A o : References(o)' = References(o)
         /\ \A u, o : Dying(u, o)' <=> Dying(u, o)
    BY <1>1, <1>2, Unmoved
  <1>19. OfilesInv'
    BY <1>1, <1>2, <1>18 DEF OfilesInv
  <1>20. FilesInv'
    <2>1. \A g \in Files : refs'[g] = strong[g] + Weaks(g)'
      BY <1>1, <1>8, <1>11, <1>14, FdTabAssumption, SMT
    <2>2. \A g \in Files : released'[g] = released[g]
      <3>1. w \in watch => refs[f] # 1
        BY <1>8, <1>9, <1>15, SMT
      <3>3. CASE w \in watch
        BY <1>11, <3>1, <3>3
      <3>4. CASE w \notin watch
        BY <1>11, <3>4
      <3> QED
        BY <3>3, <3>4
    <2>3. "obj" \notin released[f] /\ \A g \in Files \ {f} : refs'[g] = refs[g]
      BY <1>1, <1>9, <1>11
    <2>4. ReleasesInv'
      <3>1. refs[f] # 0 /\ ReleasesInv
        BY <1>1, <1>8, <1>9, SMT DEF FilesInv
      <3>2. \A u \in Threads : ~ Frees(u, f)
        BY <3>1 DEF ReleasesInv
      <3>3. step' = step /\ loc' = loc /\ strong' = strong
        BY <1>2
      <3>4. \A u \in Threads, g \in Files : Frees(u, g)' <=> Frees(u, g)
        BY <3>3 DEF Frees
      <3> QED
        BY <2>2, <2>3, <3>1, <3>2, <3>3, <3>4 DEF ReleasesInv
    <2> QED
      BY <1>1, <1>2, <1>8, <1>12, <1>13, <2>1, <2>2, <2>3, <2>4, ZenonT(40) DEF FilesInv
  <1> QED
    BY <1>16, <1>18, <1>19, <1>20 DEF TInv

\* An empty table: nothing is allocated, and the console has its own reference.
LEMMA TabInitInv == ASSUME Counting, Init PROVE TInv
  <1> USE NotNull
  <1>1. MapInv
    BY MapInitOK DEF Init
  <1>2. TypeOK
    BY <1>1 DEF Init, TypeOK, MapInv, Steps, One
  <1>3. \A t \in Threads : step[t] = "idle" /\ loc[t] = NoLocals /\ pc[t] = "out" /\ new[t] = Null
    BY DEF Init, MapInit
  <1>4. NoLocals \in Locals /\ NoLocals.of = Null /\ NoLocals.creator = Null /\ NoLocals.cur = Null
    BY DEF NoLocals, Locals
  <1>5. CallsInv
    <2>1. loc \in [Threads -> Locals]
      BY <1>4 DEF Init
    <2>2. \A t \in Threads : Waits(t) /\ Holds(t) /\ Cleans(t)
      BY <1>3, <1>4 DEF Waits, Holds, Cleans
    <2>3. Alone
      BY <1>3, <1>4 DEF Alone
    <2> QED
      BY <2>1, <2>2, <2>3 DEF CallsInv
  <1>6. Cardinality({}) = 0 /\ IsFiniteSet({})
    BY DEF Counting
  <1>7. OfilesInv
    <2>1. ASSUME NEW of \in Ofiles PROVE References(of) = 0
      <3> DEFINE H == {t \in Threads : InHand(t) = of}
                 P == {t \in Threads : ToPut(t) = of}
                 G == {t \in Threads : TakenOut(t) = of}
      <3>1. Slots(of) = {}
        BY DEF Slots, Init, MapInit
      <3>2. H = {} /\ P = {} /\ G = {}
        BY <1>3 DEF InHand, ToPut, TakenOut, EntryOf
      <3>3. References(of) = Cardinality(Slots(of)) + Cardinality(H) + Cardinality(P) + Cardinality(G)
        BY DEF References
      <3> HIDE DEF H, P, G
      <3> QED
        BY <1>6, <3>1, <3>2, <3>3, FdTabAssumption, SMT
    <2>2. \A t \in Threads, of \in Ofiles : ~ Dying(t, of)
      BY <1>3 DEF Dying
    <2> QED
      BY <2>1, <2>2, FdTabAssumption, SMT DEF OfilesInv, Init
  <1>8. FilesInv
    <2>1. ASSUME NEW f \in Files PROVE Strongs(f) = One(f) /\ Weaks(f) = 0 /\ One(f) \in Nat
      <3>1. {of \in Ofiles : FileRef(of) = f} = {}
        BY <1>3 DEF FileRef, Init
      <3>2. {t \in Threads : Creator(t) = f} = {} /\ {t \in Threads : Weak(t) = f} = {}
        BY <1>3, <1>4 DEF Creator, Weak
      <3>3. Registrations(f) = {}
        BY DEF Registrations, Init
      <3>4. One(f) \in Nat
        BY DEF One
      <3> QED
        BY <1>6, <3>1, <3>2, <3>3, <3>4, SMTT(20) DEF Strongs, Weaks
    <2>2. ReleasesInv
      BY <1>3 DEF ReleasesInv, Frees
    <2> QED
      BY <1>3, <1>6, <2>1, <2>2, FdTabAssumption, SMT DEF FilesInv, Init
  <1> QED
    BY <1>1, <1>2, <1>5, <1>7, <1>8 DEF TInv

\* Every step of every thread keeps the counts.
LEMMA TabNextInv == ASSUME Counting, TInv, [Next]_vars PROVE TInv'
  <1> USE NotNull
  <1>1. CASE UNCHANGED vars
    <2>1. /\ MapInv' /\ CallsInv'
          /\ \A o : References(o)' = References(o)
          /\ \A u, o : Dying(u, o)' <=> Dying(u, o)
      BY <1>1, Unmoved DEF TInv, vars
    <2>2. TypeOK'
      BY <1>1, <2>1 DEF TInv, TypeOK, MapInv, vars
    <2>3. OfilesInv'
      BY <1>1, <2>1 DEF TInv, OfilesInv, vars
    <2>4. FilesInv'
      <3>1. \A f : Strongs(f)' = Strongs(f) /\ Weaks(f)' = Weaks(f)
        BY <1>1 DEF Strongs, Weaks, FileRef, Creator, Weak, Registrations, One, vars
      <3>2. ReleasesInv'
        BY <1>1 DEF TInv, FilesInv, ReleasesInv, Frees, vars
      <3> QED
        BY <1>1, <3>1, <3>2 DEF TInv, FilesInv, vars
    <2> QED
      BY <2>1, <2>2, <2>3, <2>4 DEF TInv
  <1>2. ASSUME NEW t \in Threads, Start(t) PROVE TInv'
    <2>0. OpenFlags \subseteq BOOLEAN
      BY FdTabAssumption
    <2>1. CASE \E f \in Files, of \in Ofiles, cloexec \in OpenFlags : uk_fdtab_open(t, f, of, cloexec)
      BY <1>2, <2>0, <2>1, OpenInv
    <2>2. CASE ~ \E f \in Files, of \in Ofiles, cloexec \in OpenFlags : uk_fdtab_open(t, f, of, cloexec)
      BY <1>2, <2>0, <2>2, StartsInv DEF Start
    <2> QED
      BY <2>1, <2>2
  <1>3. ASSUME NEW t \in Threads, Work(t) PROVE TInv'
    BY <1>3, InMapInv, DoneInv, CriticalInv, GetDoneInv, CleanupInv, RelInv, StrongInv, WeakInv,
       GiveUpInv, FinalizeInv DEF Work
  <1>4. ASSUME NEW t \in Threads, Use(t) PROVE TInv'
    BY <1>4, DoneInv, EpollInv DEF Use
  <1> QED
    BY <1>1, <1>2, <1>3, <1>4 DEF Next

Library == INSTANCE FiniteSetTheorems

\* The theorems of the instance are about the same operators.
LEMMA SameOperators ==
    \A S : Cardinality(S) = Library!Cardinality(S) /\ (IsFiniteSet(S) <=> Library!IsFiniteSet(S))
  BY DEF Cardinality, IsFiniteSet, Library!Cardinality, Library!IsFiniteSet

\* What the counts rest on holds of all finite sets, and of the indices.
LEMMA CountingHolds == Counting
  <1>1. IsFiniteSet({}) /\ Cardinality({}) = 0
    BY SameOperators, Library!FS_EmptySet
  <1>2. IsFiniteSet(Indices)
    BY FMapAssumption, SameOperators, Library!FS_Interval, SMT DEF Indices
  <1>3. \A S : IsFiniteSet(S) => Cardinality(S) \in Nat /\ (Cardinality(S) = 0 => S = {})
    BY SameOperators, Library!FS_CardinalityType, Library!FS_EmptySet
  <1>4. \A S, T : IsFiniteSet(S) /\ T \subseteq S => IsFiniteSet(T)
    BY SameOperators, Library!FS_Subset
  <1>5. \A S, x : IsFiniteSet(S) =>
          IsFiniteSet(S \cup {x}) /\ (x \notin S => Cardinality(S \cup {x}) = Cardinality(S) + 1)
    BY SameOperators, Library!FS_AddElement
  <1>6. \A S, x : IsFiniteSet(S) =>
          IsFiniteSet(S \ {x}) /\ (x \in S => Cardinality(S \ {x}) = Cardinality(S) - 1)
    BY SameOperators, Library!FS_RemoveElement
  <1> QED
    BY <1>1, <1>2, <1>3, <1>4, <1>5, <1>6 DEF Counting

\* For any threads, files and size of the table: every place that refers to an open
\* file or to a file is counted once, in the middle of any call.
THEOREM TabInvariance == Spec => []TInv
  <1>1. Init => TInv
    BY CountingHolds, TabInitInv
  <1>2. TInv /\ [Next]_vars => TInv'
    BY CountingHolds, TabNextInv
  <1> QED
    BY <1>1, <1>2, PTL DEF Spec

\* No index of the table has two owners, under the calls that fdtab.c makes.
THEOREM TabSlotOwned == Spec => []SlotOwned
  <1>1. TInv => SlotOwned
    BY DEF TInv, MapInv
  <1> QED
    BY <1>1, TabInvariance, PTL

\* Nothing is freed under a reference: open files in the table or in use have a
\* positive count and a file with its resources; registrations, and threads that
\* have yet to give a reference back, a file's object; and that is freed once.
THEOREM TabNoDangling == Spec => []NoDangling
  <1>1. ASSUME TInv PROVE NoDangling
    <2> USE NotNull
    <2>1. /\ MapInv /\ TypeOK /\ CallsInv /\ OfilesInv /\ FilesInv
      BY <1>1 DEF TInv
    <2>2. \A i \in Indices : map[i] # Null => refcnt[map[i].of] > 0
      <3> SUFFICES ASSUME NEW i \in Indices, map[i] # Null PROVE refcnt[map[i].of] > 0
        OBVIOUS
      <3>1. map[i].of \in Ofiles /\ EntryOf(map[i]) = map[i].of
        BY <2>1, FdTabAssumption DEF MapInv, MapTypeOK, EntryOf
      <3> QED
        BY <2>1, <3>1, Referred, CountingHolds DEF OfilesInv
    <2>3. \A t \in Threads : step[t] \in {"using", "rel"} => refcnt[loc[t].of] > 0
      <3> SUFFICES ASSUME NEW t \in Threads, step[t] \in {"using", "rel"} PROVE refcnt[loc[t].of] > 0
        OBVIOUS
      <3>1. loc[t].of \in Ofiles /\ InHand(t) = loc[t].of
        BY <2>1 DEF CallsInv, Holds, Locals, InHand
      <3> QED
        BY <2>1, <3>1, Referred, CountingHolds DEF OfilesInv
    <2>4. ASSUME NEW of \in Ofiles, refcnt[of] > 0
          PROVE  fileof[of] # Null /\ strong[fileof[of]] > 0 /\ released[fileof[of]] = {}
      <3>1. fileof[of] # Null /\ \A t \in Threads : ~ Dying(t, of)
        BY <2>1, <2>4, FdTabAssumption, SMT DEF OfilesInv, TypeOK
      <3>2. PICK f \in Files : f = fileof[of]
        BY <2>1, <3>1 DEF TypeOK
      <3>3. FileRef(of) = f
        BY <3>1, <3>2 DEF FileRef, Dying
      <3>4. Strongs(f) > 0
        BY <2>1, <3>3, FileReferred, CountingHolds
      <3> QED
        BY <2>1, <3>1, <3>2, <3>4 DEF FilesInv
    <2>5. ASSUME NEW w \in watch PROVE "obj" \notin released[w.file] /\ refs[w.file] > 0
      <3>1. w.file \in Files
        BY <2>1 DEF TypeOK
      <3>2. /\ strong[w.file] = Strongs(w.file) /\ refs[w.file] = strong[w.file] + Weaks(w.file)
            /\ "obj" \in released[w.file] => refs[w.file] = 0
        BY <2>1, <3>1 DEF FilesInv
      <3>3. Strongs(w.file) \in Nat /\ Weaks(w.file) \in Nat /\ Weaks(w.file) > 0
        BY <2>1, <3>1, FileReferred, CountingHolds
      <3> QED
        BY <3>2, <3>3, SMT
    <2>6. ASSUME NEW t \in Threads, step[t] \in {"strong", "weak"}
          PROVE  "obj" \notin released[loc[t].file] /\ refs[loc[t].file] > 0
      <3>1. PICK f \in Files : f = loc[t].file
        BY <2>1, <2>6 DEF CallsInv, Holds, Locals
      <3>2. /\ strong[f] = Strongs(f) /\ refs[f] = strong[f] + Weaks(f)
            /\ "obj" \in released[f] => refs[f] = 0
        BY <2>1 DEF FilesInv
      <3>3. Strongs(f) \in Nat /\ Weaks(f) \in Nat
        BY <2>1, FileReferred, CountingHolds
      <3>4. CASE step[t] = "weak"
        <4>1. Weaks(f) > 0
          BY <2>1, <3>1, <3>4, FileReferred, CountingHolds DEF Weak
        <4> QED
          BY <3>1, <3>2, <3>3, <4>1, SMT
      <3>5. CASE step[t] = "strong"
        <4>1. CASE loc[t].of = Null
          <5>1. Strongs(f) > 0
            BY <2>1, <3>1, <3>5, <4>1, FileReferred, CountingHolds DEF Creator
          <5> QED
            BY <3>1, <3>2, <3>3, <5>1, SMT
        <4>2. CASE loc[t].of # Null
          <5>1. PICK of \in Ofiles : of = loc[t].of
            BY <2>1, <4>2 DEF CallsInv, Locals
          <5>2. Dying(t, of)
            BY <3>5, <5>1 DEF Dying
          <5>3. fileof[of] = f /\ \A u \in Threads : Dying(u, of) => u = t
            BY <2>1, <3>1, <5>2 DEF OfilesInv
          <5>4. FileRef(of) = f
            BY <3>5, <5>3 DEF FileRef, Dying
          <5>5. Strongs(f) > 0
            BY <2>1, <5>4, FileReferred, CountingHolds
          <5> QED
            BY <3>1, <3>2, <3>3, <5>5, SMT
        <4> QED
          BY <4>1, <4>2
      <3> QED
        BY <2>6, <3>4, <3>5
    <2>7. \A t \in Threads, f \in Files : Frees(t, f) =>
            "obj" \notin released[f] /\ \A u \in Threads : Frees(u, f) => u = t
      BY <2>1 DEF FilesInv, ReleasesInv
    <2> QED
      BY <2>2, <2>3, <2>4, <2>5, <2>6, <2>7 DEF NoDangling
  <1> QED
    BY <1>1, TabInvariance, PTL

\* Between calls no reference has leaked and none is missing: an open file counts
\* its descriptors and users, a file its open files and registrations.
THEOREM TabRefsExact == Spec => []RefsExact
  <1>1. ASSUME TInv PROVE RefsExact
    <2> SUFFICES ASSUME Quiet
                 PROVE  /\ \A of \in Ofiles :
                             /\ refcnt[of] = Cardinality(Slots(of)) + Cardinality(Users(of))
                             /\ fileof[of] # Null <=> refcnt[of] > 0
                        /\ \A f \in Files :
                             /\ strong[f] = Cardinality(OfilesOf(f)) + One(f)
                             /\ refs[f] = strong[f] + Cardinality(Registrations(f))
                             /\ strong[f] > 0 => released[f] = {}
      BY DEF RefsExact
    <2> USE NotNull
    <2>1. /\ MapInv /\ TypeOK /\ CallsInv /\ OfilesInv /\ FilesInv
      BY <1>1 DEF TInv
    <2>2. \A t \in Threads : /\ pc[t] = "out" /\ step[t] \in {"idle", "using"} /\ new[t] = Null
                             /\ loc[t].creator = Null
      BY <2>1 DEF Quiet, On, MapInv, Args, Putting, CallsInv, Holds
    <2>3. Cardinality({}) = 0
      BY CountingHolds DEF Counting
    <2>4. ASSUME NEW of \in Ofiles
          PROVE  /\ refcnt[of] = Cardinality(Slots(of)) + Cardinality(Users(of))
                 /\ fileof[of] # Null <=> refcnt[of] > 0
      <3> DEFINE H == {t \in Threads : InHand(t) = of}
                 P == {t \in Threads : ToPut(t) = of}
                 G == {t \in Threads : TakenOut(t) = of}
      <3>1. H = Users(of) /\ P = {} /\ G = {}
        BY <2>2 DEF InHand, ToPut, TakenOut, EntryOf, Users
      <3>2. References(of) = Cardinality(Slots(of)) + Cardinality(H) + Cardinality(P) + Cardinality(G)
        BY DEF References
      <3>3. Cardinality(Slots(of)) \in Nat /\ Cardinality(Users(of)) \in Nat
        BY AllFinite, CountingHolds DEF Slots, Users
      <3>4. References(of) = Cardinality(Slots(of)) + Cardinality(Users(of))
        <4> HIDE DEF H, P, G
        <4> QED
          BY <2>3, <3>1, <3>2, <3>3, SMT
      <3>5. \A t \in Threads : ~ Dying(t, of)
        BY <2>2 DEF Dying
      <3> QED
        BY <2>1, <3>4, <3>5 DEF OfilesInv
    <2>5. ASSUME NEW f \in Files
          PROVE  /\ strong[f] = Cardinality(OfilesOf(f)) + One(f)
                 /\ refs[f] = strong[f] + Cardinality(Registrations(f))
                 /\ strong[f] > 0 => released[f] = {}
      <3> DEFINE R == {of \in Ofiles : FileRef(of) = f}
                 C == {t \in Threads : Creator(t) = f}
                 W == {t \in Threads : Weak(t) = f}
      <3>1. R = OfilesOf(f)
        BY <2>2 DEF FileRef, OfilesOf
      <3>2. C = {} /\ W = {}
        BY <2>2 DEF Creator, Weak
      <3>3. Cardinality(OfilesOf(f)) \in Nat /\ One(f) \in Nat
        BY AllFinite, CountingHolds DEF OfilesOf, One
      <3>4. Registrations(f) \subseteq watch /\ IsFiniteSet(watch)
        BY <2>1 DEF Registrations, FilesInv
      <3>5. Cardinality(Registrations(f)) \in Nat
        BY <3>4, CountingHolds DEF Counting
      <3>6. Strongs(f) = Cardinality(OfilesOf(f)) + One(f) /\ Weaks(f) = Cardinality(Registrations(f))
        <4>1. /\ Strongs(f) = One(f) + Cardinality(R) + Cardinality(C)
              /\ Weaks(f) = Cardinality(W) + Cardinality(Registrations(f))
          BY DEF Strongs, Weaks
        <4> HIDE DEF R, C, W
        <4> QED
          BY <2>3, <3>1, <3>2, <3>3, <3>5, <4>1, SMT
      <3> QED
        BY <2>1, <3>6 DEF FilesInv
    <2> QED
      BY <2>4, <2>5
  <1> QED
    BY <1>1, TabInvariance, PTL
=============================================================================
