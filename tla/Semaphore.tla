------------------------------ MODULE Semaphore ------------------------------
(***************************************************************************)
(* uk_semaphore (lib/uklock/include/uk/semaphore.h): a counter under a     *)
(* spinlock, and a wait queue whose condition reads the counter without    *)
(* that spinlock.  The semaphores are the Queues of WaitQueue; a component *)
(* built from several of them (Mbox) EXTENDS this module.                  *)
(*                                                                         *)
(* A deadline is reduced to whether it has passed: `late' holds the        *)
(* threads for which ukplat_monotonic_clock() >= deadline.                 *)
(***************************************************************************)
EXTENDS WaitQueue, Integers

CONSTANTS NoThread,
          InitCount,  \* uk_semaphore_init()
          MaxCount    \* bound on the counter

ASSUME SemaphoreAssumption == /\ NoThread \notin Threads
                              /\ InitCount \in [Queues -> Nat]
                              /\ MaxCount \in Nat

VARIABLES count,  \* of each semaphore
          sl,     \* who is in uk_semaphore_up(), holding the spinlock
          call,   \* the semaphore of each thread's call, and if it is _down_to()
          late

semVars == <<count, sl, call, late>>

CountTypeOK == /\ WaitTypeOK
               /\ count \in [Queues -> Int]
               /\ sl \in [Queues -> Threads \cup {NoThread}]
               /\ call \in [Threads -> [sem : Queues \cup {NoThread}, timed : BOOLEAN]]
               /\ late \subseteq {t \in Threads : call[t].timed}

NoCall == [sem |-> NoThread, timed |-> FALSE]

CountInit == /\ WaitInit
             /\ count = InitCount
             /\ sl = [s \in Queues |-> NoThread]
             /\ call = [t \in Threads |-> NoCall]
             /\ late = {}

Available(t) == count[call[t].sem] > 0

\* A call that returns ("out") loses its locals
Continue(t, place) ==
    /\ Goto(t, place)
    /\ call' = IF place = "out" THEN [call EXCEPT ![t] = NoCall] ELSE call
    /\ late' = IF place = "out" THEN late \ {t} ELSE late

SpinFree(s) == sl[s] = NoThread

\* uk_semaphore_down() and, timed, uk_semaphore_down_to()
uk_semaphore_down(t, s, timed) ==
    /\ At(t, "out")
    /\ call' = [call EXCEPT ![t] = [sem |-> s, timed |-> timed]]
    /\ Goto(t, "wait")
    /\ UNCHANGED <<waitVars, count, sl, late>>

DownWait(t) == /\ \/ WaitCheck(t, Available(t), "lock")
                  \/ WaitEnqueue(t, call[t].sem, Available(t))
                  \/ WaitYield(t)
                  \/ WaitRecheck(t, Available(t), t \in late)
                  \/ WaitDequeue(t, call[t].sem, "lock")
               /\ UNCHANGED semVars

\* Mutant: the counter is not looked at again under the spinlock
DownLockUnchecked(t, done, failed) ==
    LET s == call[t].sem IN
    /\ At(t, "lock")
    /\ SpinFree(s)
    /\ count' = [count EXCEPT ![s] = @ - 1]
    /\ Continue(t, done)
    /\ UNCHANGED <<waitVars, sl>>

\* Mutant: a deadline that has passed does not end the loop
DownLockRetries(t, done, failed) ==
    LET s == call[t].sem IN
    /\ At(t, "lock")
    /\ SpinFree(s)
    /\ count' = [count EXCEPT ![s] = IF Available(t) THEN @ - 1 ELSE @]
    /\ Continue(t, IF Available(t) THEN done ELSE "wait")
    /\ UNCHANGED <<waitVars, sl>>

\* Under the spinlock: take a token, give up, or wait again
DownLock(t, done, failed) ==
    LET s == call[t].sem IN
    /\ At(t, "lock")
    /\ SpinFree(s)
    /\ count' = [count EXCEPT ![s] = IF Available(t) THEN @ - 1 ELSE @]
    /\ Continue(t, IF Available(t) THEN done ELSE IF t \in late THEN failed ELSE "wait")
    /\ UNCHANGED <<waitVars, sl>>

uk_semaphore_down_try(t, s, done) ==
    /\ At(t, "out")
    /\ SpinFree(s)
    /\ count' = [count EXCEPT ![s] = IF @ > 0 THEN @ - 1 ELSE @]
    /\ IF count[s] > 0 /\ done # "out"
       THEN /\ Goto(t, done)
            /\ call' = [call EXCEPT ![t] = [sem |-> s, timed |-> FALSE]]
       ELSE UNCHANGED <<pc, call>>
    /\ UNCHANGED <<waitVars, sl, late>>

\* uk_semaphore_up() and uk_semaphore_up_isr(), holding the spinlock from the
\* increment to the end of the wakeup
uk_semaphore_up(t, s, from) ==
    /\ At(t, from)
    /\ SpinFree(s)
    /\ count[s] < MaxCount
    /\ count' = [count EXCEPT ![s] = @ + 1]
    /\ sl' = [sl EXCEPT ![s] = t]
    /\ Goto(t, "wake")
    /\ UNCHANGED <<waitVars, call, late>>

\* Mutant: up wakes nobody
UpWakeNobody(t, s) ==
    /\ At(t, "wake")
    /\ sl[s] = t
    /\ sl' = [sl EXCEPT ![s] = NoThread]
    /\ Continue(t, "out")
    /\ UNCHANGED <<waitVars, count>>

UpWake(t, s) ==
    /\ At(t, "wake")
    /\ sl[s] = t
    /\ uk_waitq_wake_up(s)
    /\ sl' = [sl EXCEPT ![s] = NoThread]
    /\ Continue(t, "out")
    /\ UNCHANGED count

\* The clock reaches the deadline of a call
Expire(t) ==
    /\ call[t].timed
    /\ pc[t] \in WaitPlaces \cup {"lock"}
    /\ t \notin late
    /\ late' = late \cup {t}
    /\ UNCHANGED <<pc, waitVars, count, sl, call>>

\* The scheduler wakes a thread whose wakeup_time has passed
TimedWake(t) ==
    /\ t \in blocked
    /\ t \in late
    /\ blocked' = blocked \ {t}
    /\ UNCHANGED <<pc, wait_list, semVars>>

-----------------------------------------------------------------------------
(* A semaphore used by itself                                               *)

vars_s == <<pc, wait_list, blocked, count, sl, call, late>>

SemInit == CountInit /\ pc = [t \in Threads |-> "out"]

SemStep(t) == \/ DownWait(t)
              \/ DownLock(t, "out", "out")
              \/ \E s \in Queues : UpWake(t, s)

SemCall(t) == \/ \E s \in Queues, timed \in BOOLEAN : uk_semaphore_down(t, s, timed)
              \/ \E s \in Queues : uk_semaphore_down_try(t, s, "out")
              \/ \E s \in Queues : uk_semaphore_up(t, s, "out")

Timer(t) == Expire(t) \/ TimedWake(t)

SemNext == \E t \in Threads : SemCall(t) \/ SemStep(t) \/ Timer(t)

SemSpec == SemInit /\ [][SemNext]_vars_s

\* Runnable threads run, the clock advances and the scheduler wakes sleepers.
\* Strong fairness: the spinlock is held with interrupts off, so on the only
\* CPU of the cooperative scheduler no thread ever finds it taken.
SemFairSpec ==
    SemSpec /\ \A t \in Threads : SF_vars_s(SemStep(t)) /\ WF_vars_s(Timer(t))

\* A token is never given out twice: the counter stays nonnegative although it
\* is tested outside of the spinlock.
NeverNegative == \A s \in Queues : count[s] >= 0

\* No wakeup is lost: while a thread sleeps on a semaphore with a token, an
\* up() is about to wake the queue; and a sleeper is always on the queue.
NoLostUp == \A t \in blocked : /\ On(wait_list[call[t].sem], t)
                               /\ Available(t) => ~SpinFree(call[t].sem)

\* A thread that has left down() leaves no entry (of its stack) on the queue.
NoStaleEntry ==
    \A t \in Threads, s \in Queues :
        On(wait_list[s], t) => /\ pc[t] \in {"enqueue", "sleep", "recheck", "dequeue"}
                               /\ call[t].sem = s

\* Nobody sleeps on while there is a token.
TokenWakes == \A t \in Threads :
    (t \in blocked /\ Available(t)) ~> (t \notin blocked \/ ~Available(t))

\* uk_semaphore_down_to() returns, with a token or on timeout, whatever the
\* other threads do.
TimedDownReturns == \A t \in Threads :
    (call[t].timed /\ pc[t] \in WaitPlaces \cup {"lock"}) ~> At(t, "out")

-----------------------------------------------------------------------------
(* The inductive invariant behind the safety properties                     *)

SemTyped == /\ WaitTypeOK
            /\ pc \in [Threads -> WaitPlaces \cup {"out", "lock", "wake"}]
            /\ count \in [Queues -> Nat]
            /\ sl \in [Queues -> Threads \cup {NoThread}]
            /\ call \in [Threads -> [sem : Queues \cup {NoThread}, timed : BOOLEAN]]
            /\ late \subseteq Threads

\* Who is in down() waits for a semaphore; sleepers sleep
SemCalls == /\ \A s \in Queues : NoDuplicates(wait_list[s])
            /\ \A t \in Threads : pc[t] \in WaitPlaces \cup {"lock"} => call[t].sem \in Queues
            /\ \A t \in blocked : At(t, "sleep")

SemInv == SemTyped /\ SemCalls /\ NoStaleEntry /\ NoLostUp
=============================================================================
