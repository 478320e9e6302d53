------------------------------ MODULE SchedCoop ------------------------------
(***************************************************************************)
(* The cooperative scheduler of one CPU: lib/ukschedcoop together with the *)
(* scheduler-independent thread operations of lib/uksched.                 *)
(*                                                                         *)
(* Threads run until they yield; interrupt handlers run between any two    *)
(* steps taken with interrupts enabled and may wake threads.  A critical   *)
(* section (interrupts disabled) of the code is one step, except for the   *)
(* scan of the sleep queue, which wakes one expired sleeper per step.      *)
(***************************************************************************)
EXTENDS Naturals, Sequences, TLC, TailQueues

CONSTANTS Threads,      \* thread structures that may be allocated
          Main,         \* the thread uk_sched_start() makes of the boot context
          Idle,         \* the scheduler's idle thread
          MaxTime,      \* bound on the clock and on deadlines
          CallPatterns  \* which of the rarer uses of the API occur

\* "add_blocked":    a blocked thread is handed to uk_sched_thread_add()
\* "block_other":    uk_thread_block*() is called on a thread other than the caller
\* "remove_sleeper": a thread that sleeps with a timeout is removed or terminated
Patterns == {"add_blocked", "block_other", "remove_sleeper"}

ASSUME ConstantsAssumption == /\ Main \in Threads
                              /\ Idle \notin Threads
                              /\ MaxTime \in Nat
                              /\ CallPatterns \subseteq Patterns

VARIABLES alive,            \* allocated threads
          attached,         \* threads with t->sched set
          runnable,         \* threads with UK_THREADF_RUNNABLE
          queueable,        \* threads with UK_THREADF_QUEUEABLE
          exited,           \* threads with UK_THREADF_EXITED
          wakeup_time,      \* t->wakeup_time, 0 for none
          run_queue,
          sleep_queue,
          exited_threads,   \* exited threads awaiting garbage collection
          current,          \* __uk_sched_thread_current
          next,             \* local of schedcoop_schedule(): the switch target
          idle_return_time,
          clock,            \* the monotonic clock
          now,              \* local of schedcoop_schedule(): the clock at entry
          pc,               \* where the CPU is
          corrupt           \* a TAILQ operation met a link it may not touch

lifeVars  == <<alive, attached, exited, exited_threads>>
flagVars  == <<runnable, queueable, wakeup_time>>
queueVars == <<run_queue, sleep_queue, corrupt>>
cpuVars   == <<current, next, idle_return_time, now, pc>>
vars      == <<lifeVars, flagVars, queueVars, cpuVars, clock>>

Contexts == Threads \cup {Idle}

\* "run":    a thread (or the idle loop) executes
\* "scan":   schedcoop_schedule() with interrupts disabled
\* "switch": interrupts are enabled again, uk_sched_thread_switch() to come
\* "halt":   the idle thread has halted the CPU until an interrupt
Locations == {"run", "scan", "switch", "halt"}

TypeOK ==
    /\ alive \subseteq Threads
    /\ attached \subseteq Threads
    /\ runnable \subseteq Contexts
    /\ queueable \subseteq Contexts
    /\ exited \subseteq Threads
    /\ wakeup_time \in [Threads -> Nat]
    /\ run_queue \in Seq(Threads)
    /\ sleep_queue \in Seq(Threads)
    /\ exited_threads \in Seq(Threads)
    /\ current \in Contexts
    /\ next \in Contexts
    /\ idle_return_time \in Nat
    /\ clock \in Nat
    /\ now \in Nat
    /\ pc \in Locations
    /\ corrupt \in BOOLEAN

\* The state uk_sched_start() leaves behind
Init ==
    /\ alive = {Main}
    /\ attached = {Main}
    /\ runnable = {Main, Idle}
    /\ queueable = {}
    /\ exited = {}
    /\ wakeup_time = [t \in Threads |-> 0]
    /\ run_queue = <<>>
    /\ sleep_queue = <<>>
    /\ exited_threads = <<>>
    /\ current = Main
    /\ next = Main
    /\ idle_return_time = 0
    /\ clock = 0
    /\ now = 0
    /\ pc = "run"
    /\ corrupt = FALSE

-----------------------------------------------------------------------------
\* run_queue and sleep_queue share the one link field t->queue: taking a thread
\* off a list it is not on, or putting it on one while it is on another,
\* damages both.
Linked(t) == On(run_queue, t) \/ On(sleep_queue, t)

uk_thread_is_runnable(t) == t \in runnable /\ t \notin exited

\* A thread's code runs and may call the API
Executing(t) == pc = "run" /\ current = t /\ t \in Threads

IrqsEnabled == pc # "scan"

-----------------------------------------------------------------------------
(* Blocking and waking                                                      *)

schedcoop_thread_blocked(t, until) ==
    /\ run_queue' = IF t # current THEN UK_TAILQ_REMOVE(run_queue, t) ELSE run_queue
    /\ sleep_queue' = IF until > 0 THEN Append(sleep_queue, t) ELSE sleep_queue
    /\ corrupt' = ( \/ corrupt
                    \/ t # current /\ ~On(run_queue, t)
                    \/ until > 0 /\ On(sleep_queue, t))

Blockable == {current} \cup (IF "block_other" \in CallPatterns THEN attached ELSE {})

\* Threads call this while they are runnable: none blocks twice before it yields,
\* which would only change its wakeup_time
uk_thread_block_until(t, until) ==
    /\ Executing(current)
    /\ t \in Blockable
    /\ uk_thread_is_runnable(t)
    /\ wakeup_time' = [wakeup_time EXCEPT ![t] = until]
    /\ runnable' = runnable \ {t}
    /\ schedcoop_thread_blocked(t, until)
    /\ UNCHANGED <<queueable, lifeVars, cpuVars, clock>>

\* Mutant: the queueable flag is not consulted
WokenIgnoresQueueable(t) ==
    /\ sleep_queue' = IF wakeup_time[t] > 0 THEN UK_TAILQ_REMOVE(sleep_queue, t) ELSE sleep_queue
    /\ run_queue' = Append(run_queue, t)
    /\ queueable' = queueable \ {t}
    /\ corrupt' = (corrupt \/ Linked(t))

\* Mutant: a woken thread goes to the head of the run queue
WokenFirst(t) ==
    /\ sleep_queue' = IF wakeup_time[t] > 0 THEN UK_TAILQ_REMOVE(sleep_queue, t) ELSE sleep_queue
    /\ run_queue' = IF t \in queueable THEN <<t>> \o run_queue ELSE run_queue
    /\ queueable' = queueable \ {t}
    /\ UNCHANGED corrupt

schedcoop_thread_woken_isr(t) ==
    LET slept == wakeup_time[t] > 0 IN
    /\ sleep_queue' = IF slept THEN UK_TAILQ_REMOVE(sleep_queue, t) ELSE sleep_queue
    /\ run_queue' = IF t \in queueable THEN Append(run_queue, t) ELSE run_queue
    /\ queueable' = queueable \ {t}
    /\ corrupt' = ( \/ corrupt
                    \/ slept /\ ~On(sleep_queue, t)
                    \/ t \in queueable /\ (On(run_queue, t) \/ (~slept /\ On(sleep_queue, t))))

\* Also uk_thread_wake_isr(): both call the same woken function.  Waking a
\* runnable thread only clears its deadline; waking an exited one also sets its
\* flag, but it has left its scheduler by then.
uk_thread_wake(t) ==
    /\ wakeup_time' = [wakeup_time EXCEPT ![t] = 0]
    /\ runnable' = runnable \cup {t}
    /\ IF ~uk_thread_is_runnable(t) /\ t \in attached
       THEN schedcoop_thread_woken_isr(t)
       ELSE UNCHANGED <<queueable, queueVars>>
    /\ UNCHANGED lifeVars

WakeByThread(t) ==
    /\ Executing(current)
    /\ t \in alive
    /\ uk_thread_wake(t)
    /\ UNCHANGED <<cpuVars, clock>>

-----------------------------------------------------------------------------
(* schedcoop_schedule()                                                     *)

EnterSchedule == pc' = "scan" /\ now' = clock

uk_sched_yield ==
    /\ Executing(current)
    /\ EnterSchedule
    /\ UNCHANGED <<current, next, idle_return_time, lifeVars, flagVars, queueVars, clock>>

Expired(i) == LET t == sleep_queue[i] IN wakeup_time[t] > 0 /\ wakeup_time[t] <= now

\* The foreach over the sleep queue wakes the expired sleepers, first to last
WakeExpired ==
    /\ pc = "scan"
    /\ \E i \in DOMAIN sleep_queue :
         /\ Expired(i)
         /\ \A j \in 1..(i - 1) : ~Expired(j)
         /\ uk_thread_wake(sleep_queue[i])
    /\ UNCHANGED <<cpuVars, clock>>

ScanDone == pc = "scan" /\ \A i \in DOMAIN sleep_queue : ~Expired(i)

\* Mutant: the thread being left is not marked queueable
LeaveUnmarked(n) ==
    /\ next' = n
    /\ queueable' = queueable \ {n}
    /\ pc' = "switch"

Leave(n) ==
    /\ next' = n
    /\ queueable' = (queueable \cup {current}) \ {n}
    /\ pc' = "switch"

\* Mutant: the previous context is always put back
PickFirstRequeues ==
    /\ ScanDone
    /\ run_queue # <<>>
    /\ run_queue' = Append(Tail(run_queue), current)
    /\ Leave(Head(run_queue))
    /\ UNCHANGED <<runnable, wakeup_time, sleep_queue, corrupt, current, idle_return_time, now,
                   lifeVars, clock>>

\* The head of the run queue is next; a previous thread that can still run
\* goes to the tail
PickFirst ==
    LET again == current # Idle /\ uk_thread_is_runnable(current) IN
    /\ ScanDone
    /\ run_queue # <<>>
    /\ run_queue' = IF again THEN Append(Tail(run_queue), current) ELSE Tail(run_queue)
    /\ corrupt' = (corrupt \/ (again /\ Linked(current)))
    /\ Leave(Head(run_queue))
    /\ UNCHANGED <<runnable, wakeup_time, sleep_queue, current, idle_return_time, now,
                   lifeVars, clock>>

\* Nobody else can run: schedule() returns to its caller
PickSame ==
    /\ ScanDone
    /\ run_queue = <<>>
    /\ uk_thread_is_runnable(current)
    /\ pc' = "run"
    /\ UNCHANGED <<current, next, idle_return_time, now, lifeVars, flagVars, queueVars, clock>>

Deadlines == {wakeup_time[sleep_queue[i]] : i \in DOMAIN sleep_queue} \ {0}

\* min_wakeup_time of the scan: 0 when nobody sleeps with a timeout
MinWakeup(m) == \/ m = 0 /\ Deadlines = {}
                \/ m \in Deadlines /\ \A d \in Deadlines : m <= d

\* Mutant: the return time of the idle thread is not refreshed
PickIdleStale ==
    /\ ScanDone
    /\ run_queue = <<>>
    /\ ~uk_thread_is_runnable(current)
    /\ Leave(Idle)
    /\ UNCHANGED <<runnable, wakeup_time, queueVars, current, idle_return_time, now, lifeVars, clock>>

PickIdle ==
    /\ ScanDone
    /\ run_queue = <<>>
    /\ ~uk_thread_is_runnable(current)
    /\ \E m \in {0} \cup Deadlines : MinWakeup(m) /\ idle_return_time' = m
    /\ Leave(Idle)
    /\ UNCHANGED <<runnable, wakeup_time, queueVars, current, now, lifeVars, clock>>

uk_sched_thread_switch ==
    /\ pc = "switch"
    /\ current' = next
    /\ pc' = "run"
    /\ UNCHANGED <<next, idle_return_time, now, lifeVars, flagVars, queueVars, clock>>

-----------------------------------------------------------------------------
(* Creating, adding, removing and terminating threads                       *)

\* A container comes blocked, a thread created with a function runnable
uk_thread_create(t, ready) ==
    /\ Executing(current)
    /\ t \notin alive
    /\ alive' = alive \cup {t}
    /\ runnable' = IF ready THEN runnable \cup {t} ELSE runnable
    /\ wakeup_time' = [wakeup_time EXCEPT ![t] = 0]
    /\ UNCHANGED <<attached, exited, exited_threads, queueable, queueVars, cpuVars, clock>>

\* uk_thread_container_init_fn*(): the container gets its entry point
uk_thread_container_init(t) ==
    /\ Executing(current)
    /\ t \in alive \ (attached \cup exited)
    /\ t \notin runnable
    /\ runnable' = runnable \cup {t}
    /\ UNCHANGED <<queueable, wakeup_time, lifeVars, queueVars, cpuVars, clock>>

Addable == {t \in alive \ (attached \cup exited) :
                uk_thread_is_runnable(t) \/ "add_blocked" \in CallPatterns}

uk_sched_thread_add(t) ==
    /\ Executing(current)
    /\ t \in Addable
    /\ attached' = attached \cup {t}
    /\ run_queue' = IF uk_thread_is_runnable(t) THEN Append(run_queue, t) ELSE run_queue
    /\ corrupt' = (corrupt \/ (uk_thread_is_runnable(t) /\ Linked(t)))
    /\ UNCHANGED <<alive, exited, exited_threads, sleep_queue, flagVars, cpuVars, clock>>

\* A caller may only remove itself while it does not sleep
Removable == {t \in attached : \/ wakeup_time[t] = 0
                               \/ t # current /\ "remove_sleeper" \in CallPatterns}

\* schedcoop_thread_remove() and the bookkeeping of its caller
uk_sched_thread_remove(t) ==
    LET queued == t # current /\ uk_thread_is_runnable(t) IN
    /\ Executing(current)
    /\ t \in Removable
    /\ attached' = attached \ {t}
    /\ run_queue' = IF queued THEN UK_TAILQ_REMOVE(run_queue, t) ELSE run_queue
    /\ corrupt' = (corrupt \/ (queued /\ ~On(run_queue, t)))
    /\ UNCHANGED <<sleep_queue, clock>>

RemoveOther(t) ==
    /\ t # current
    /\ uk_sched_thread_remove(t)
    /\ UNCHANGED <<alive, exited, exited_threads, flagVars, cpuVars>>

\* The memory of the threads of S is returned to the allocator
Free(S) ==
    /\ alive' = alive \ S
    /\ runnable' = runnable \ S
    /\ queueable' = queueable \ S
    /\ exited' = exited \ S
    /\ UNCHANGED wakeup_time

TerminateOther(t) ==
    /\ t # current
    /\ uk_sched_thread_remove(t)
    /\ Free({t})
    /\ UNCHANGED <<exited_threads, cpuVars>>

\* Mutant: the exiting thread is freed at once
TerminateSelfFrees ==
    /\ uk_sched_thread_remove(current)
    /\ Free({current})
    /\ EnterSchedule
    /\ UNCHANGED <<exited_threads, current, next, idle_return_time>>

\* uk_sched_thread_exit(): a terminated thread cannot free its own stack
TerminateSelf ==
    /\ uk_sched_thread_remove(current)
    /\ exited' = exited \cup {current}
    /\ exited_threads' = Append(exited_threads, current)
    /\ EnterSchedule
    /\ UNCHANGED <<alive, flagVars, current, next, idle_return_time>>

\* A thread that is not, or no longer, with a scheduler is released directly
uk_thread_release(t) ==
    /\ Executing(current)
    /\ t \in alive \ (attached \cup exited \cup {current})
    /\ Free({t})
    /\ UNCHANGED <<attached, exited_threads, queueVars, cpuVars, clock>>

-----------------------------------------------------------------------------
(* The idle thread                                                          *)

Idling == pc = "run" /\ current = Idle

\* uk_sched_thread_gc(), then schedule
IdleCollect ==
    /\ Idling
    /\ exited_threads # <<>>
    /\ Free({exited_threads[i] : i \in DOMAIN exited_threads})
    /\ exited_threads' = <<>>
    /\ EnterSchedule
    /\ UNCHANGED <<attached, current, next, idle_return_time, queueVars, clock>>

MayHalt == idle_return_time = 0 \/ idle_return_time > clock

\* A thread became ready, or the deadline passed, since the last schedule
IdleSchedule ==
    /\ Idling
    /\ exited_threads = <<>>
    /\ run_queue # <<>> \/ ~MayHalt
    /\ EnterSchedule
    /\ UNCHANGED <<current, next, idle_return_time, lifeVars, flagVars, queueVars, clock>>

\* Mutant: the run queue is not checked again before halting
IdleHaltUnchecked ==
    /\ Idling
    /\ MayHalt
    /\ pc' = "halt"
    /\ UNCHANGED <<current, next, idle_return_time, now, lifeVars, flagVars, queueVars, clock>>

IdleHalt ==
    /\ Idling
    /\ exited_threads = <<>>
    /\ run_queue = <<>>
    /\ MayHalt
    /\ pc' = "halt"
    /\ UNCHANGED <<current, next, idle_return_time, now, lifeVars, flagVars, queueVars, clock>>

-----------------------------------------------------------------------------
(* Interrupts and time                                                      *)

\* An interrupt ends the halt; the idle thread then calls schedule
Resume == /\ IF pc = "halt" THEN EnterSchedule ELSE UNCHANGED <<pc, now>>
          /\ UNCHANGED <<current, next, idle_return_time, clock>>

InterruptWake(t) ==
    /\ IrqsEnabled
    /\ t \in alive
    /\ uk_thread_wake(t)
    /\ Resume

InterruptOther ==
    /\ pc = "halt"
    /\ Resume
    /\ UNCHANGED <<lifeVars, flagVars, queueVars>>

\* The timer armed by ukplat_lcpu_halt_irq_until(idle_return_time)
InterruptTimer ==
    /\ pc = "halt"
    /\ idle_return_time # 0
    /\ idle_return_time <= clock
    /\ Resume
    /\ UNCHANGED <<lifeVars, flagVars, queueVars>>

Tick ==
    /\ clock < MaxTime
    /\ clock' = clock + 1
    /\ UNCHANGED <<lifeVars, flagVars, queueVars, cpuVars>>

-----------------------------------------------------------------------------
ThreadCall(t) ==
    \/ \E until \in 0..MaxTime : uk_thread_block_until(t, until)
    \/ WakeByThread(t)
    \/ \E ready \in BOOLEAN : uk_thread_create(t, ready)
    \/ uk_thread_container_init(t)
    \/ uk_sched_thread_add(t)
    \/ RemoveOther(t)
    \/ TerminateOther(t)
    \/ uk_thread_release(t)

Schedule == WakeExpired \/ PickFirst \/ PickSame \/ PickIdle \/ uk_sched_thread_switch

IdleLoop == IdleCollect \/ IdleSchedule \/ IdleHalt

Interrupt == (\E t \in Threads : InterruptWake(t)) \/ InterruptOther \/ InterruptTimer

Next == \/ \E t \in Threads : ThreadCall(t)
        \/ TerminateSelf
        \/ uk_sched_yield
        \/ Schedule
        \/ IdleLoop
        \/ Interrupt
        \/ Tick

Spec == Init /\ [][Next]_vars

\* schedule() and the idle loop run to their end, the clock advances, the timer
\* fires, and, the contract of cooperative scheduling, a thread yields eventually
Fairness == /\ WF_vars(Schedule)
            /\ WF_vars(IdleLoop)
            /\ WF_vars(InterruptTimer)
            /\ WF_vars(Tick)
            /\ WF_vars(uk_sched_yield)

FairSpec == Spec /\ Fairness

-----------------------------------------------------------------------------
(* Properties                                                               *)

\* The context that has, or is about to get, the CPU
OnCpu == IF pc = "switch" THEN next ELSE current

\* No sequence of calls and interrupts damages the intrusive lists: every
\* UK_TAILQ_REMOVE finds its thread, every UK_TAILQ_INSERT_TAIL inserts an
\* unlinked one, and no thread is on two queues through its single link.
QueueIntegrity == /\ ~corrupt
                  /\ NoDuplicates(run_queue)
                  /\ NoDuplicates(sleep_queue)
                  /\ \A t \in Threads : ~(On(run_queue, t) /\ On(sleep_queue, t))

\* Whatever schedcoop_schedule() takes from the run queue satisfies its three
\* assertions: it is not the thread being left, it is runnable, it has not
\* exited; and its memory has not been freed.
RunQueueReady ==
    \A t \in Threads : On(run_queue, t) =>
        /\ t \in alive \cap attached
        /\ uk_thread_is_runnable(t)
        /\ t # OnCpu

\* A thread that can run is never forgotten, wherever interrupts hit the window
\* between blocking, schedule() and the context switch: it is on the CPU or on
\* the run queue.
NoLostThread ==
    \A t \in attached : uk_thread_is_runnable(t) /\ t # OnCpu => On(run_queue, t)

\* The sleep queue holds exactly the scheduler's threads that have a deadline,
\* all of them blocked: no timeout is forgotten, none outlives its wait.
SleepersHaveDeadlines ==
    \A t \in Threads :
        /\ On(sleep_queue, t) <=> (t \in attached /\ wakeup_time[t] > 0)
        /\ On(sleep_queue, t) => (t \in alive /\ t \notin runnable)

\* The idle thread halts the CPU only when nobody can run, and never past the
\* deadline of a sleeper, although idle_return_time was computed by an earlier
\* schedule().
HaltIsSafe ==
    pc = "halt" => /\ run_queue = <<>>
                   /\ \A t \in Threads : On(sleep_queue, t) =>
                        0 < idle_return_time /\ idle_return_time <= wakeup_time[t]

\* Garbage collection never frees a stack in use: the contexts being left and
\* entered stay allocated until the switch is over.
NoFreedContext == {current, OnCpu} \subseteq alive \cup {Idle}

\* The run queue is first come, first served: no step moves a waiting thread
\* back, so a thread waits for at most the threads queued before it.
RoundRobin ==
    [][\A i \in DOMAIN run_queue, j \in DOMAIN run_queue' :
            run_queue[i] = run_queue'[j] => j <= i]_vars

\* A thread on the run queue eventually gets the CPU, unless it is removed.
ReadyThreadRuns ==
    \A t \in Threads : On(run_queue, t) ~> (current = t \/ t \notin attached)

\* A thread that sleeps with a deadline eventually becomes runnable again, also
\* when every thread sleeps and the CPU halts, unless it is terminated.
SleeperWakes ==
    \A t \in Threads : On(sleep_queue, t) ~> (uk_thread_is_runnable(t) \/ t \notin attached)

\* The thread life cycle of thread.h, as seen through the flags.
Life == INSTANCE ThreadStates WITH
            state <- [t \in Threads |->
                        IF t \notin alive THEN "none"
                        ELSE IF t \in exited THEN "exited"
                        ELSE IF t \in runnable THEN "runnable" ELSE "blocked"],
            cpu <- current

\* The scheduler implements the life cycle that thread.h draws: in particular
\* only runnable threads are switched to and no thread on the CPU is freed.
LifeCycle == Life!Spec

\* sched.c: uk_sched_thread_terminate() takes the thread from its scheduling
\* queue before freeing it, so no queue holds a freed thread.
TerminatedIsUnqueued == \A t \in Threads : Linked(t) => t \in alive

-----------------------------------------------------------------------------
(* The inductive invariant behind the safety properties                     *)

Membership ==
    /\ attached \subseteq alive \ exited
    /\ exited \subseteq alive
    /\ \A t \in Threads : On(exited_threads, t) => t \in exited
    /\ Idle \in runnable
    /\ \A t \in Threads : wakeup_time[t] > 0 => t \in attached

CpuPlace ==
    /\ pc \in {"run", "halt"} => current \in attached \cup {Idle}
    /\ pc = "scan" => current \in attached \cup exited \cup {Idle}
    /\ pc = "switch" => next \in (attached \cap runnable) \cup {Idle} /\ next # current
    /\ pc = "halt" => current = Idle /\ run_queue = <<>>

\* A blocked thread that has left the CPU will be queued when it is woken; one
\* that is still on it will be found by schedule() instead
Wakeable ==
    /\ OnCpu \notin queueable
    /\ \A t \in attached : t \notin runnable /\ t # OnCpu => t \in queueable

\* From the schedule() that selects the idle thread on
TimerArmed ==
    Idle \in {current, OnCpu} =>
        \A t \in Threads : On(sleep_queue, t) =>
            0 < idle_return_time /\ idle_return_time <= wakeup_time[t]

Inv == /\ TypeOK
       /\ QueueIntegrity
       /\ RunQueueReady
       /\ NoLostThread
       /\ SleepersHaveDeadlines
       /\ NoFreedContext
       /\ Membership
       /\ CpuPlace
       /\ Wakeable
       /\ TimerArmed
=============================================================================
