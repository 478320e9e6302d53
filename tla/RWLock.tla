------------------------------- MODULE RWLock -------------------------------
(***************************************************************************)
(* uk_rwlock (lib/uklock/rwlock.c): many readers or one writer, with a     *)
(* wait queue for each.  The waits give up the spinlock sl only while they *)
(* sleep, so a section under sl is one step; the wakeups of the unlocks    *)
(* come after sl is released.                                              *)
(***************************************************************************)
EXTENDS WaitQueue, Integers, FiniteSets

ASSUME RWLockAssumption == Queues = {"shared", "exclusive"} /\ IsFiniteSet(Threads)

VARIABLES nactive, npending_reads, npending_writes

vars == <<pc, wait_list, blocked, nactive, npending_reads, npending_writes>>

counters == <<nactive, npending_reads, npending_writes>>

\* "first" and "second" are the two waits of uk_rwlock_rlock(), "write" is the
\* wait of uk_rwlock_wlock(); "wake_one" and "wake_all" end the unlocks
Places == {"out", "first", "second", "write", "reading", "writing",
           "wake_one", "wake_all"}

TypeOK == /\ WaitTypeOK
          /\ pc \in [Threads -> Places]
          /\ nactive \in Nat \cup {-1}
          /\ npending_reads \in Nat
          /\ npending_writes \in Nat

Init == /\ WaitInit
        /\ pc = [t \in Threads |-> "out"]
        /\ nactive = 0
        /\ npending_reads = 0
        /\ npending_writes = 0

\* Under sl: enqueue, block, release sl and sleep
Sleep(t, q, place) ==
    /\ uk_waitq_add(q, t)
    /\ blocked' = blocked \cup {t}
    /\ Goto(t, place)

\* The end of a wait: awake, and not on the queue
Unqueue(t, q) ==
    /\ blocked' = blocked \ {t}
    /\ wait_list' = [wait_list EXCEPT ![q] = UK_TAILQ_REMOVE(@, t)]

\* The second wait has an entry of its own, behind that of the first
SecondSleep(t) ==
    IF At(t, "first")
    THEN /\ wait_list' = [wait_list EXCEPT !["shared"] = Append(UK_TAILQ_REMOVE(@, t), t)]
         /\ blocked' = blocked \cup {t}
         /\ Goto(t, "second")
    ELSE Sleep(t, "shared", "second")

\* Mutant: a reader that has been woken gives way to writers that still sleep
ReadWaitPolite(t, reads) ==
    /\ \/ /\ nactive >= 0 /\ npending_writes = 0
          /\ Unqueue(t, "shared")
          /\ nactive' = nactive + 1
          /\ npending_reads' = reads - 1
          /\ Goto(t, "reading")
       \/ /\ nactive >= 0 /\ npending_writes > 0
          /\ UNCHANGED <<pc, waitVars, nactive, npending_reads>>
       \/ /\ nactive < 0
          /\ SecondSleep(t)
          /\ npending_reads' = reads
          /\ UNCHANGED nactive
    /\ UNCHANGED npending_writes

\* uk_rwlock_rlock() from the second wait on, `reads' readers being announced
ReadWait(t, reads) ==
    /\ \/ /\ nactive >= 0
          /\ Unqueue(t, "shared")
          /\ nactive' = nactive + 1
          /\ npending_reads' = reads - 1
          /\ Goto(t, "reading")
       \/ /\ nactive < 0
          /\ SecondSleep(t)
          /\ npending_reads' = reads
          /\ UNCHANGED nactive
    /\ UNCHANGED npending_writes

uk_rwlock_rlock(t) ==
    /\ At(t, "out")
    /\ \/ /\ npending_writes = 0
          /\ ReadWait(t, npending_reads + 1)
       \/ /\ npending_writes > 0
          /\ Sleep(t, "shared", "first")
          /\ npending_reads' = npending_reads + 1
          /\ UNCHANGED <<nactive, npending_writes>>

\* Woken in the first or second wait; leaving the first wait and entering the
\* second are one section under sl
ReadResume(t) ==
    /\ At(t, "first") \/ At(t, "second")
    /\ t \notin blocked
    /\ ReadWait(t, npending_reads)

\* Mutant: a writer enters although a writer is inside
WriteWaitOffByOne(t, writes) ==
    /\ \/ /\ nactive <= 0
          /\ Unqueue(t, "exclusive")
          /\ nactive' = -1
          /\ npending_writes' = writes - 1
          /\ Goto(t, "writing")
       \/ /\ nactive > 0
          /\ Sleep(t, "exclusive", "write")
          /\ npending_writes' = writes
          /\ UNCHANGED nactive
    /\ UNCHANGED npending_reads

\* uk_rwlock_wlock(), `writes' writers being announced
WriteWait(t, writes) ==
    /\ \/ /\ nactive = 0
          /\ Unqueue(t, "exclusive")
          /\ nactive' = -1
          /\ npending_writes' = writes - 1
          /\ Goto(t, "writing")
       \/ /\ nactive # 0
          /\ Sleep(t, "exclusive", "write")
          /\ npending_writes' = writes
          /\ UNCHANGED nactive
    /\ UNCHANGED npending_reads

uk_rwlock_wlock(t) == At(t, "out") /\ WriteWait(t, npending_writes + 1)

WriteResume(t) ==
    /\ At(t, "write")
    /\ t \notin blocked
    /\ WriteWait(t, npending_writes)

uk_rwlock_runlock(t) ==
    /\ At(t, "reading")
    /\ nactive' = nactive - 1
    /\ Goto(t, IF nactive' = 0 /\ npending_writes > 0 THEN "wake_one" ELSE "out")
    /\ UNCHANGED <<waitVars, npending_reads, npending_writes>>

\* Mutant: a writer only ever wakes a writer
WUnlockWakesWriter(t) ==
    /\ At(t, "writing")
    /\ nactive' = 0
    /\ Goto(t, "wake_one")
    /\ UNCHANGED <<waitVars, npending_reads, npending_writes>>

uk_rwlock_wunlock(t) ==
    /\ At(t, "writing")
    /\ nactive' = 0
    /\ Goto(t, IF npending_reads > 0 THEN "wake_all" ELSE "wake_one")
    /\ UNCHANGED <<waitVars, npending_reads, npending_writes>>

WakeReaders(t) ==
    /\ At(t, "wake_all")
    /\ uk_waitq_wake_up("shared")
    /\ Goto(t, "out")
    /\ UNCHANGED counters

WakeWriter(t) ==
    /\ At(t, "wake_one")
    /\ uk_waitq_wake_up_one("exclusive")
    /\ Goto(t, "out")
    /\ UNCHANGED counters

Release(t) == uk_rwlock_runlock(t) \/ uk_rwlock_wunlock(t)

Continue(t) == ReadResume(t) \/ WriteResume(t) \/ WakeReaders(t) \/ WakeWriter(t)

Next == \E t \in Threads :
            uk_rwlock_rlock(t) \/ uk_rwlock_wlock(t) \/ Release(t) \/ Continue(t)

Spec == Init /\ [][Next]_vars

\* A runnable thread runs, and who holds the lock releases it
FairSpec == Spec /\ \A t \in Threads : WF_vars(Continue(t)) /\ WF_vars(Release(t))

-----------------------------------------------------------------------------
In(places) == {t \in Threads : pc[t] \in places}

\* A writer is alone: no reader and no other writer is inside with it.
Exclusion == \A t \in In({"writing"}) : In({"reading", "writing"}) = {t}

\* The counters say who is inside and who waits, so that the assertions of
\* rwlock.c hold and wunlock's choice between readers and writers is right.
CountersExact ==
    /\ nactive = IF In({"writing"}) # {} THEN -1 ELSE Cardinality(In({"reading"}))
    /\ npending_reads = Cardinality(In({"first", "second"}))
    /\ npending_writes = Cardinality(In({"write"}))

\* Nobody sleeps for good.  While nobody is inside, a sleeping writer has somebody
\* on the way who will wake it or enter: a wakeup, or a thread that is awake.
\* (wake_up_one wakes one writer only, and wunlock wakes no writer at all when
\* readers are pending.)  A sleeping reader has a writer that is inside, waits, or
\* is about to wake the readers.
NoLostWaiter ==
    /\ (nactive = 0 /\ In({"write"}) # {}) =>
          \/ In({"wake_one", "wake_all"}) # {}
          \/ In({"first", "second", "write"}) \ blocked # {}
    /\ In({"first", "second"}) \cap blocked # {} =>
          In({"write", "writing", "wake_all"}) # {}

\* What makes NoLostWaiter inductive.  The queues hold exactly the waiting threads,
\* once each; and a wake_all only helps a writer while there are readers to wake.
Queued ==
    /\ wait_list \in [Queues -> Seq(Threads)]
    /\ \A q \in Queues : NoDuplicates(wait_list[q])
    /\ \A t \in Threads : /\ On(wait_list["shared"], t) <=> pc[t] \in {"first", "second"}
                          /\ On(wait_list["exclusive"], t) <=> pc[t] = "write"

WritersCovered ==
    (nactive = 0 /\ In({"write"}) # {}) =>
        \/ In({"wake_one"}) # {}
        \/ In({"first", "second", "write"}) \ blocked # {}
        \/ In({"wake_all"}) # {} /\ In({"first", "second"}) # {}

\* A lock that is free while somebody waits for it is taken again.
FreeLockIsTaken == (nactive = 0 /\ In({"first", "second", "write"}) # {}) ~> nactive # 0
=============================================================================
