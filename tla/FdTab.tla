-------------------------------- MODULE FdTab --------------------------------
(***************************************************************************)
(* The descriptor table (lib/posix-fdtab/fdtab.c) over the lock-free map   *)
(* of FMap: open files with their reference counts, and the strong and     *)
(* weak references of the files under them (uk/weak_refcount.h, uk/file.h, *)
(* uk/file/final.h).                                                       *)
(*                                                                         *)
(* An entry of the map is an open file and its close-on-exec flag, which   *)
(* the code keeps in the low bits of the pointer.  Weak references are     *)
(* held by epoll registrations, which are finalizers of their file.        *)
(***************************************************************************)
EXTENDS FMap, FiniteSets

CONSTANTS Ofiles, Files,
          Static,     \* files that are not allocated: a reference of theirs is
                      \* never given back (the serial console of posix-tty)
          OpenFlags,  \* bound: the flags that open and dup are called with
          Watches     \* bound: the epoll registrations that may be made

ASSUME FdTabAssumption == /\ Static \subseteq Files
                          /\ Entries = [of : Ofiles, cloexec : BOOLEAN]
                          /\ OpenFlags \subseteq BOOLEAN
                          /\ Size > 0
                          /\ IsFiniteSet(Threads) /\ IsFiniteSet(Ofiles)
                          /\ Null \notin Ofiles \cup Files
                          /\ Null \notin Indices /\ Null \notin {"take", "next"}

VARIABLES step,      \* where each thread is in a function of fdtab.c
          loc,       \* its local variables
          refcnt,    \* of each open file
          fileof,    \* the file of each allocated open file, or Null
          strong,    \* strong references to each file
          refs,      \* all references to each file
          released,  \* what _release() has been told to give up, per file
          watch      \* the epoll registrations: [fd, file]

fileVars == <<strong, refs, released, watch>>
tabVars == <<refcnt, fileof, strong, refs, released, watch>>
vars == <<mapVars, step, loc, refcnt, fileof, strong, refs, released, watch>>

\* of: the open file in hand; creator: the file whose first reference the thread
\* holds; file, res, obj: the file being released, if that was the last strong
\* reference and if it was the last of all; then, newfd, cloexec: what a get is
\* for; cur: index of a cleanup
NoLocals == [of |-> Null, creator |-> Null, file |-> Null, res |-> FALSE, obj |-> FALSE,
             then |-> Null, newfd |-> Null, cloexec |-> FALSE, cur |-> Null]

Steps == {"idle", "open", "get", "dup_min", "dup3", "using", "flags", "close",
          "cleanup", "rel", "strong", "weak", "release", "finalize"}

TypeOK == /\ MapTypeOK
          /\ step \in [Threads -> Steps]
          /\ refcnt \in [Ofiles -> Nat]
          /\ fileof \in [Ofiles -> Files \cup {Null}]
          /\ strong \in [Files -> Nat] /\ refs \in [Files -> Nat]
          /\ released \in [Files -> SUBSET {"res", "obj"}]
          /\ watch \subseteq [fd : Indices, file : Files]

One(f) == IF f \in Static THEN 1 ELSE 0

Init == /\ MapInit
        /\ step = [t \in Threads |-> "idle"]
        /\ loc = [t \in Threads |-> NoLocals]
        /\ refcnt = [of \in Ofiles |-> 0]
        /\ fileof = [of \in Ofiles |-> Null]
        /\ strong = [f \in Files |-> One(f)]
        /\ refs = [f \in Files |-> One(f)]
        /\ released = [f \in Files |-> {}]
        /\ watch = {}

On(t, place) == step[t] = place /\ pc[t] = "out"

\* The thread is at a place and has these locals
Now(t, place, locals) == /\ step' = [step EXCEPT ![t] = place]
                         /\ loc' = [loc EXCEPT ![t] = locals]

\* The operation is over: the creator of a file releases it, a cleanup goes on
Finish(t) ==
    LET l == loc[t] IN
    IF l.creator # Null
    THEN Now(t, "strong", [NoLocals EXCEPT !.file = l.creator]) /\ UNCHANGED mapVars
    ELSE IF l.cur # Null
    THEN Now(t, "cleanup", [NoLocals EXCEPT !.cur = l.cur, !.then = "next"]) /\ UNCHANGED mapVars
    ELSE Now(t, "idle", NoLocals) /\ Forget(t)

\* file_rel() of an open file is next
Release(t, of) ==
    /\ Now(t, "rel", [NoLocals EXCEPT !.of = of, !.creator = loc[t].creator, !.cur = loc[t].cur])
    /\ UNCHANGED mapVars

\* posix-fdtab.h: a cleanup assumes that nobody else touches the table
NoCleanup == \A u \in Threads : loc[u].cur = Null

Starts(t) == On(t, "idle") /\ NoCleanup

-----------------------------------------------------------------------------
(* Operations on the table                                                  *)

\* A call of uk_file_release() goes on with the file after it has given its
\* reference back
Lingers(t, f) == step[t] \in {"release", "finalize"} /\ loc[t].file = f

\* A file is created and opened: uk_fdtab_open() up to uk_fmap_put().  The
\* creator of an allocated file releases it afterwards.  A freed file comes back
\* from the allocator only when nobody lingers in it: what one who does would
\* find there is not defined (see ReleaseReadsLive).
uk_fdtab_open(t, f, of, cloexec) ==
    LET new_file == f \notin Static IN
    /\ Starts(t)
    /\ new_file => refs[f] = 0 /\ \A u \in Threads : ~Lingers(u, f)
    /\ fileof[of] = Null
    /\ strong' = [strong EXCEPT ![f] = IF new_file THEN 2 ELSE @ + 1]
    /\ refs' = [refs EXCEPT ![f] = IF new_file THEN 2 ELSE @ + 1]
    /\ released' = [released EXCEPT ![f] = {}]
    /\ refcnt' = [refcnt EXCEPT ![of] = 1]
    /\ fileof' = [fileof EXCEPT ![of] = f]
    /\ uk_fmap_put(t, [of |-> of, cloexec |-> cloexec], 0)
    /\ Now(t, "open", [NoLocals EXCEPT !.of = of, !.creator = IF new_file THEN f ELSE Null])
    /\ UNCHANGED watch

\* Mutant: a full table leaks the open file
OpenedLeaks(t) == On(t, "open") /\ Finish(t) /\ UNCHANGED tabVars

\* When the table is full the open file is released
Opened(t) ==
    /\ On(t, "open")
    /\ IF idx[t] < Size THEN Finish(t) ELSE Release(t, loc[t].of)
    /\ UNCHANGED tabVars

\* _fdtab_get(), for its caller's purpose
_fdtab_get(t, fd, then, newfd, cloexec) ==
    /\ Starts(t)
    /\ uk_fmap_critical_take(t, fd)
    /\ Now(t, "get", [NoLocals EXCEPT !.then = then, !.newfd = newfd, !.cloexec = cloexec])
    /\ UNCHANGED tabVars

\* Mutant: the reference is taken after the entry has been put back
GetAcquireLate(t) ==
    /\ step[t] = "get"
    /\ uk_fmap_critical_put(t, got[t])
    /\ Now(t, "get", [loc[t] EXCEPT !.of = got[t].of])
    /\ UNCHANGED tabVars

\* file_acq() with the entry out of the map, then uk_fmap_critical_put()
GetAcquire(t) ==
    /\ step[t] = "get"
    /\ uk_fmap_critical_put(t, got[t])
    /\ refcnt' = [refcnt EXCEPT ![got[t].of] = @ + 1]
    /\ Now(t, "get", [loc[t] EXCEPT !.of = got[t].of])
    /\ UNCHANGED <<fileof, fileVars>>

\* The get has returned: -EBADF, or the caller goes on with the open file
GetDone(t) ==
    LET l == loc[t]
        entry == [of |-> l.of, cloexec |-> l.cloexec] IN
    /\ On(t, "get")
    /\ \/ /\ l.of = Null
          /\ Finish(t)
       \/ /\ l.of # Null /\ l.then = "use"
          /\ Now(t, "using", [NoLocals EXCEPT !.of = l.of])
          /\ UNCHANGED mapVars
       \/ /\ l.of # Null /\ l.then = "dup_min"
          /\ \E min0 \in Indices : uk_fmap_put(t, entry, min0)
          /\ Now(t, "dup_min", [NoLocals EXCEPT !.of = l.of])
       \/ /\ l.of # Null /\ l.then = "dup3"
          /\ uk_fmap_xchg(t, l.newfd, entry)
          /\ Now(t, "dup3", NoLocals)
    /\ UNCHANGED tabVars

\* uk_sys_dup_min() after uk_fmap_put()
DupMinDone(t) ==
    /\ On(t, "dup_min")
    /\ IF idx[t] < Size THEN Finish(t) ELSE Release(t, loc[t].of)
    /\ UNCHANGED tabVars

\* uk_sys_dup3() after uk_fmap_xchg(): what was there is closed
Dup3Done(t) ==
    /\ On(t, "dup3")
    /\ IF got[t] = Null THEN Finish(t) ELSE Release(t, got[t].of)
    /\ UNCHANGED tabVars

\* uk_fdtab_ret()
uk_fdtab_ret(t) ==
    /\ On(t, "using")
    /\ Release(t, loc[t].of)
    /\ UNCHANGED tabVars

\* uk_fdtab_getflags(), and uk_sys_dup2() of a descriptor to itself
uk_fdtab_getflags(t, fd) ==
    /\ Starts(t)
    /\ uk_fmap_lookup(t, fd)
    /\ Now(t, "flags", NoLocals)
    /\ UNCHANGED tabVars

uk_fdtab_setflags(t, fd, cloexec) ==
    /\ Starts(t)
    /\ uk_fmap_critical_take(t, fd)
    /\ Now(t, "flags", [NoLocals EXCEPT !.cloexec = cloexec])
    /\ UNCHANGED tabVars

SetFlags(t) ==
    /\ step[t] = "flags"
    /\ uk_fmap_critical_put(t, [got[t] EXCEPT !.cloexec = loc[t].cloexec])
    /\ UNCHANGED <<step, loc, tabVars>>

FlagsDone(t) == On(t, "flags") /\ Finish(t) /\ UNCHANGED tabVars

uk_sys_close(t, fd) ==
    /\ Starts(t)
    /\ uk_fmap_take(t, fd)
    /\ Now(t, "close", NoLocals)
    /\ UNCHANGED tabVars

CloseDone(t) ==
    /\ On(t, "close")
    /\ IF got[t] = Null THEN Finish(t) ELSE Release(t, got[t].of)
    /\ UNCHANGED tabVars

\* fdtab_cleanup(0): nobody else is in the table until it is done
uk_fdtab_cloexec(t) ==
    /\ Starts(t)
    /\ \A u \in Threads \ {t} : On(u, "idle") \/ On(u, "using")
    /\ uk_fmap_lookup(t, 0)
    /\ Now(t, "cleanup", [NoLocals EXCEPT !.cur = 0])
    /\ UNCHANGED tabVars

\* One turn of its loop: after the lookup, take and release; then the next index
Cleanup(t) ==
    LET l == loc[t]
        hit == got[t] # Null /\ got[t].cloexec IN
    /\ On(t, "cleanup")
    /\ \/ /\ l.then = Null /\ hit
          /\ uk_fmap_take(t, l.cur)
          /\ Now(t, "cleanup", [l EXCEPT !.then = "take"])
       \/ /\ l.then = "take"
          /\ Release(t, got[t].of)
       \/ /\ l.then = "next" \/ (l.then = Null /\ ~hit)
          /\ IF l.cur + 1 < Size
             THEN /\ uk_fmap_lookup(t, l.cur + 1)
                  /\ Now(t, "cleanup", [NoLocals EXCEPT !.cur = l.cur + 1])
             ELSE Now(t, "idle", NoLocals) /\ Forget(t)
    /\ UNCHANGED tabVars

-----------------------------------------------------------------------------
(* References to open files and to files                                    *)

\* ofile_rel(): the last reference releases the file
ofile_rel(t) ==
    LET of == loc[t].of IN
    /\ On(t, "rel")
    /\ refcnt' = [refcnt EXCEPT ![of] = @ - 1]
    /\ IF refcnt[of] > 1 THEN Finish(t)
       ELSE Now(t, "strong", [loc[t] EXCEPT !.file = fileof[of]]) /\ UNCHANGED mapVars
    /\ UNCHANGED <<fileof, fileVars>>

\* uk_swrefcount_release(): first the strong count
ReleaseStrong(t) ==
    LET f == loc[t].file IN
    /\ On(t, "strong")
    /\ strong' = [strong EXCEPT ![f] = @ - 1]
    /\ Now(t, "weak", [loc[t] EXCEPT !.res = strong[f] = 1])
    /\ UNCHANGED <<mapVars, refcnt, fileof, refs, released, watch>>

\* Then all references
ReleaseWeak(t) ==
    LET f == loc[t].file
        last == refs[f] = 1 IN
    /\ On(t, "weak")
    /\ refs' = [refs EXCEPT ![f] = @ - 1]
    /\ Now(t, IF loc[t].res \/ last THEN "release" ELSE "finalize", [loc[t] EXCEPT !.obj = last])
    /\ UNCHANGED <<mapVars, refcnt, fileof, strong, released, watch>>

\* uk_file_release() calls _release(), which gives up the file's resources after
\* the last strong reference and frees its object after the last one
_release(t) ==
    LET l == loc[t]
        what == {x \in {"res", "obj"} : IF x = "res" THEN l.res ELSE l.obj} IN
    /\ On(t, "release")
    /\ released' = [released EXCEPT ![l.file] = @ \cup what]
    /\ Now(t, "finalize", l)
    /\ UNCHANGED <<mapVars, refcnt, fileof, strong, refs, watch>>

Registrations(f) == {w \in watch : w.file = f}

\* Registrations of f are deleted, each with its weak reference: the last one
\* frees the object
Unwatch(f, ws) ==
    LET n == Cardinality(ws) IN
    /\ watch' = watch \ ws
    /\ refs' = [refs EXCEPT ![f] = @ - n]
    /\ released' = IF n > 0 /\ refs[f] = n THEN [released EXCEPT ![f] = @ \cup {"obj"}] ELSE released

\* At last it reads f->refcnt for the finalizers: the condition on their call,
\* r | UK_SWREFCOUNT_LAST_STRONG, is true of every release.  A finalizer is
\* epoll_autodel() of a registration.  After the release of its file, an open
\* file is deleted.
uk_file_refcnt_finalize(t) ==
    /\ On(t, "finalize")
    /\ Unwatch(loc[t].file, Registrations(loc[t].file))
    /\ fileof' = IF loc[t].of = Null THEN fileof ELSE [fileof EXCEPT ![loc[t].of] = Null]
    /\ Finish(t)
    /\ UNCHANGED <<refcnt, strong>>

\* uk_sys_epoll_ctl() on the descriptor of an open file in use: ADD takes a weak
\* reference to the file and registers the finalizer
epoll_add(t) ==
    LET w == [fd |-> idx[t], file |-> fileof[loc[t].of]] IN
    /\ On(t, "using")
    /\ w \in Watches \ watch
    /\ watch' = watch \cup {w}
    /\ refs' = [refs EXCEPT ![w.file] = @ + 1]
    /\ UNCHANGED <<mapVars, step, loc, refcnt, fileof, strong, released>>

\* DEL, and EPOLL_CTL_DEL by the fd of the registration
epoll_entry_del(t) ==
    LET w == [fd |-> idx[t], file |-> fileof[loc[t].of]] IN
    /\ On(t, "using")
    /\ w \in watch
    /\ Unwatch(w.file, {w})
    /\ UNCHANGED <<mapVars, step, loc, refcnt, fileof, strong>>

-----------------------------------------------------------------------------
InMap(t) == MapStep(t) /\ UNCHANGED <<step, loc, tabVars>>

Start(t) == \/ \E f \in Files, of \in Ofiles, cloexec \in OpenFlags :
                   uk_fdtab_open(t, f, of, cloexec)
            \/ \E fd \in Indices :
                 \/ uk_sys_close(t, fd)
                 \/ uk_fdtab_getflags(t, fd)
                 \/ \E cloexec \in BOOLEAN : uk_fdtab_setflags(t, fd, cloexec)
                 \/ _fdtab_get(t, fd, "use", Null, FALSE)
                 \/ \E cloexec \in OpenFlags :
                      \/ _fdtab_get(t, fd, "dup_min", Null, cloexec)
                      \/ \E newfd \in Indices \ {fd} : _fdtab_get(t, fd, "dup3", newfd, cloexec)
            \/ uk_fdtab_cloexec(t)

Work(t) == \/ InMap(t)
           \/ Opened(t) \/ GetAcquire(t) \/ GetDone(t) \/ DupMinDone(t) \/ Dup3Done(t)
           \/ SetFlags(t) \/ FlagsDone(t) \/ CloseDone(t) \/ Cleanup(t)
           \/ ofile_rel(t) \/ ReleaseStrong(t) \/ ReleaseWeak(t)
           \/ _release(t) \/ uk_file_refcnt_finalize(t)

Use(t) == uk_fdtab_ret(t) \/ epoll_add(t) \/ epoll_entry_del(t)

Next == \E t \in Threads : Start(t) \/ Work(t) \/ Use(t)

Spec == Init /\ [][Next]_vars

-----------------------------------------------------------------------------
Slots(of) == {i \in Indices : map[i] # Null /\ map[i].of = of}
Users(of) == {t \in Threads : loc[t].of = of /\ step[t] = "using"}
OfilesOf(f) == {of \in Ofiles : fileof[of] = f}
Quiet == \A t \in Threads : On(t, "idle") \/ On(t, "using")

-----------------------------------------------------------------------------
(* Where references are: what makes the properties below inductive           *)

EntryOf(entry) == IF entry = Null THEN Null ELSE entry.of

\* A reference to an open file is in an index of the map, in the hands of a thread
\* that uses or releases it, in an entry to be put, or in one taken out
InHand(t) == IF \/ step[t] \in {"get", "using", "rel"}
                \/ step[t] \in {"open", "dup_min"} /\ pc[t] = "out" /\ idx[t] >= Size
             THEN loc[t].of ELSE Null
ToPut(t) == EntryOf(new[t])
TakenOut(t) == IF \/ step[t] \in {"close", "dup3"}
                  \/ pc[t] = "critical"
                  \/ step[t] = "cleanup" /\ loc[t].then = "take"
               THEN EntryOf(got[t]) ELSE Null

References(of) == Cardinality(Slots(of))
                    + Cardinality({t \in Threads : InHand(t) = of})
                    + Cardinality({t \in Threads : ToPut(t) = of})
                    + Cardinality({t \in Threads : TakenOut(t) = of})

\* In uk_file_release(), and there after the strong count has been given back
Releasing == {"strong", "weak", "release", "finalize"}
GivenBack == Releasing \ {"strong"}

\* The thread that dropped the last reference to an open file frees it
Dying(t, of) == step[t] \in Releasing /\ loc[t].of = of

\* A strong reference to a file is in an open file, or with the file's creator; a
\* thread that gave one back still holds the weak one that came with it
FileRef(of) == IF \E t \in Threads : step[t] \in GivenBack /\ loc[t].of = of
               THEN Null ELSE fileof[of]
Creator(t) == IF step[t] = "strong" /\ loc[t].of = Null THEN loc[t].file ELSE loc[t].creator
Weak(t) == IF step[t] = "weak" THEN loc[t].file ELSE Null

Strongs(f) == One(f) + Cardinality({of \in Ofiles : FileRef(of) = f})
                     + Cardinality({t \in Threads : Creator(t) = f})
Weaks(f) == Cardinality({t \in Threads : Weak(t) = f}) + Cardinality(Registrations(f))

Locals == [of : Ofiles \cup {Null}, creator : Files \cup {Null}, file : Files \cup {Null},
           res : BOOLEAN, obj : BOOLEAN, then : {Null, "use", "dup_min", "dup3", "take", "next"},
           newfd : Indices \cup {Null}, cloexec : BOOLEAN, cur : Indices \cup {Null}]

\* The function of the map that a function of the table waits for
Waits(t) ==
    /\ step[t] \in {"idle", "using", "rel"} \cup Releasing => pc[t] = "out"
    /\ step[t] \in {"open", "dup_min"} => pc[t] \in {"out", "find", "reserve", "store"}
    /\ step[t] = "get" => pc[t] \in {"out", "ctake", "cfree", "critical", "creserve", "cstore"}
    /\ step[t] = "dup3" =>
         pc[t] \in {"out", "store", "xreserve", "xtake", "xfree", "xput", "xstore"}
    /\ step[t] = "flags" =>
         pc[t] \in {"out", "look", "lookfree", "ctake", "cfree", "critical", "creserve", "cstore"}
    /\ step[t] = "close" => pc[t] \in {"out", "take", "takeout", "unreserve"}

\* What its locals are
Holds(t) ==
    LET l == loc[t] IN
    /\ step[t] \in {"open", "dup_min", "using", "rel"} => l.of # Null
    /\ step[t] \in {"get", "using"} => idx[t] \in Indices
    /\ step[t] \in {"open", "dup_min"} /\ pc[t] # "out" => EntryOf(new[t]) = l.of
    /\ step[t] = "get" =>
         /\ pc[t] \in {"ctake", "cfree", "critical"} => l.of = Null
         /\ pc[t] \in {"creserve", "cstore"} => l.of # Null
         /\ l.then = "dup3" => l.newfd # Null
    /\ step[t] \in Releasing => l.file # Null /\ (l.of = Null => l.creator = Null)
    /\ l.creator # Null => step[t] \in {"open", "rel"} \cup Releasing /\ l.cur = Null
    /\ l.cur # Null => step[t] \in {"cleanup", "rel"} \cup Releasing

\* Each turn of fdtab_cleanup() finds the entry that it looked up
Cleans(t) ==
    LET l == loc[t] IN
    step[t] = "cleanup" =>
        /\ l.cur # Null
        /\ \/ /\ l.then = Null
              /\ pc[t] \in {"look", "lookfree"} /\ idx[t] = l.cur
           \/ l.then = Null /\ pc[t] = "out" /\ got[t] = map[l.cur]
           \/ /\ l.then = "take" /\ pc[t] \in {"take", "takeout"}
              /\ idx[t] = l.cur /\ map[l.cur] # Null
           \/ l.then = "take" /\ pc[t] \in {"unreserve", "out"} /\ got[t] # Null
           \/ l.then = "next" /\ pc[t] = "out"

\* Nobody else is in the table during a cleanup, but who releases what it used
Alone == \A t, u \in Threads :
             loc[t].cur # Null /\ u # t =>
                 /\ pc[u] = "out"
                 /\ step[u] \in {"idle", "using", "rel"} \cup Releasing
                 /\ loc[u].cur = Null

CallsInv == /\ loc \in [Threads -> Locals]
            /\ \A t \in Threads : Waits(t) /\ Holds(t) /\ Cleans(t)
            /\ Alone

\* Each open file is counted exactly, and allocated until it has been freed
OfilesInv ==
    /\ \A of \in Ofiles :
         /\ refcnt[of] = References(of)
         /\ refcnt[of] > 0 => fileof[of] # Null
         /\ fileof[of] # Null => refcnt[of] > 0 \/ \E t \in Threads : Dying(t, of)
         /\ \A t \in Threads : Dying(t, of) => refcnt[of] = 0 /\ fileof[of] = loc[t].file
         /\ \A t, u \in Threads : Dying(t, of) /\ Dying(u, of) => t = u

\* The thread has dropped the last reference to the file and will free it
Frees(t, f) == step[t] = "release" /\ loc[t].file = f /\ loc[t].obj

\* What a call of _release() has been told is still so when it is made
ReleasesInv ==
    \A t \in Threads, f \in Files :
        /\ step[t] = "release" /\ loc[t].file = f /\ loc[t].res => strong[f] = 0
        /\ Frees(t, f) => /\ refs[f] = 0 /\ "obj" \notin released[f]
                          /\ \A u \in Threads : Frees(u, f) => u = t

\* Each file is counted exactly, and released when that count says so
FilesInv ==
    /\ IsFiniteSet(watch)
    /\ \A f \in Files :
         /\ strong[f] = Strongs(f)
         /\ refs[f] = strong[f] + Weaks(f)
         /\ strong[f] > 0 => released[f] = {}
         /\ "obj" \in released[f] => refs[f] = 0
         /\ \A t \in Threads : step[t] = "weak" /\ loc[t].file = f /\ loc[t].res => strong[f] = 0
    /\ ReleasesInv

TabInv == TypeOK /\ SlotOwned /\ CallsInv /\ OfilesInv /\ FilesInv

-----------------------------------------------------------------------------
\* No reference leaks and none is lost: whenever no call is under way, each open
\* file is counted once per descriptor and per user, each file once per open
\* file and per registration, and what nobody refers to has been freed.
RefsExact ==
    Quiet =>
        /\ \A of \in Ofiles :
             /\ refcnt[of] = Cardinality(Slots(of)) + Cardinality(Users(of))
             /\ fileof[of] # Null <=> refcnt[of] > 0
        /\ \A f \in Files :
             /\ strong[f] = Cardinality(OfilesOf(f)) + One(f)
             /\ refs[f] = strong[f] + Cardinality(Registrations(f))
             /\ strong[f] > 0 => released[f] = {}

\* Nothing is freed under a reference, in the middle of any call: descriptors and
\* threads refer to allocated open files with a positive count, these to files
\* whose resources are there, registrations and the threads that have yet to give
\* a reference back to files whose object is; and a file is freed once.
NoDangling ==
    /\ \A i \in Indices : map[i] # Null => refcnt[map[i].of] > 0
    /\ \A t \in Threads : step[t] \in {"using", "rel"} => refcnt[loc[t].of] > 0
    /\ \A of \in Ofiles : refcnt[of] > 0 =>
          fileof[of] # Null /\ strong[fileof[of]] > 0 /\ released[fileof[of]] = {}
    /\ \A w \in watch : "obj" \notin released[w.file] /\ refs[w.file] > 0
    /\ \A t \in Threads : step[t] \in {"strong", "weak"} =>
          "obj" \notin released[loc[t].file] /\ refs[loc[t].file] > 0
    /\ \A t \in Threads, f \in Files : Frees(t, f) =>
          "obj" \notin released[f] /\ \A u \in Threads : Frees(u, f) => u = t

\* What the code does not promise: that uk_file_release() finds the file still
\* there when, its reference given back, it reads f->_release and f->refcnt.
ReleaseReadsLive ==
    \A t \in Threads : \A f \in Files : Lingers(t, f) => "obj" \notin released[f]

\* final.h: "Finalizers are called when the last strong reference is released."
FinalizersAtLast ==
    [][\A t \in Threads : uk_file_refcnt_finalize(t) /\ ~loc[t].res
          => Registrations(loc[t].file) = {}]_vars
=============================================================================
