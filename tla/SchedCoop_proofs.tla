-------------------------- MODULE SchedCoop_proofs --------------------------
(***************************************************************************)
(* Proofs about SchedCoop, for any set of threads and any bound on time,   *)
(* under the discipline that the callers in the tree follow                *)
(* (CallPatterns = {}).                                                    *)
(***************************************************************************)
EXTENDS SchedCoop, TailQueues_proofs

\* The state left by uk_sched_start() satisfies the inductive invariant.
LEMMA InitInv == Init => Inv
<1> SUFFICES ASSUME Init PROVE Inv
  OBVIOUS
<1> USE ConstantsAssumption DEF Init
<1>1. \A t : ~On(run_queue, t) /\ ~On(sleep_queue, t) /\ ~On(exited_threads, t)
  BY DEF On
<1>2. NoDuplicates(run_queue) /\ NoDuplicates(sleep_queue)
  BY DEF NoDuplicates
<1>3. TypeOK
  <2>1. wakeup_time \in [Threads -> Nat]
    OBVIOUS
  <2>2. run_queue \in Seq(Threads) /\ sleep_queue \in Seq(Threads) /\ exited_threads \in Seq(Threads)
    OBVIOUS
  <2> QED
    BY <2>1, <2>2 DEF TypeOK, Contexts, Locations
<1>4. OnCpu = Main
  BY DEF OnCpu
<1> QED
  BY <1>1, <1>2, <1>3, <1>4 DEF Inv, QueueIntegrity, RunQueueReady, NoLostThread,
     SleepersHaveDeadlines, NoFreedContext, Membership, CpuPlace, Wakeable, TimerArmed,
     uk_thread_is_runnable

\* What uk_thread_wake(), called by a thread, an interrupt handler or the scan
\* of the sleep queue, does to the queues: the thread leaves the sleep queue and
\* joins the run queue when it is blocked and off the CPU, and no list is damaged.
LEMMA WakeQueues ==
    ASSUME Inv, NEW t \in alive, uk_thread_wake(t)
    PROVE  /\ run_queue' \in Seq(Threads) /\ sleep_queue' \in Seq(Threads)
           /\ corrupt' = FALSE
           /\ NoDuplicates(run_queue') /\ NoDuplicates(sleep_queue')
           /\ queueable' \subseteq queueable
           /\ \A u : On(sleep_queue', u) <=> On(sleep_queue, u) /\ u # t
           /\ \A u : On(run_queue', u) <=>
                \/ On(run_queue, u)
                \/ u = t /\ t \in attached /\ t \notin runnable /\ t # OnCpu
           /\ \A u : u # t => (u \in queueable' <=> u \in queueable)
<1> USE DEF Inv
<1>1. /\ run_queue \in Seq(Threads) /\ sleep_queue \in Seq(Threads) /\ ~corrupt
      /\ corrupt \in BOOLEAN /\ t \in Threads /\ wakeup_time[t] \in Nat
      /\ NoDuplicates(run_queue) /\ NoDuplicates(sleep_queue)
  BY DEF TypeOK, QueueIntegrity
<1>2. CASE ~uk_thread_is_runnable(t) /\ t \in attached
  <2>1. t \notin runnable /\ ~On(run_queue, t)
    BY <1>1, <1>2 DEF uk_thread_is_runnable, Membership, RunQueueReady
  <2>2. t \in queueable <=> t # OnCpu
    BY <1>2, <2>1 DEF Wakeable
  <2>3. On(sleep_queue, t) <=> wakeup_time[t] > 0
    BY <1>1, <1>2 DEF SleepersHaveDeadlines
  <2>4. schedcoop_thread_woken_isr(t)
    BY <1>2 DEF uk_thread_wake
  <2>5. /\ sleep_queue' \in Seq(Threads) /\ NoDuplicates(sleep_queue')
        /\ \A u : On(sleep_queue', u) <=> On(sleep_queue, u) /\ u # t
    BY <1>1, <2>3, <2>4, RemoveFacts DEF schedcoop_thread_woken_isr
  <2>6. /\ run_queue' \in Seq(Threads) /\ NoDuplicates(run_queue')
        /\ \A u : On(run_queue', u) <=> On(run_queue, u) \/ (u = t /\ t \in queueable)
    BY <1>1, <2>1, <2>4, AppendFacts DEF schedcoop_thread_woken_isr
  <2>7. corrupt' = FALSE /\ queueable' = queueable \ {t}
    BY <1>1, <2>1, <2>3, <2>4 DEF schedcoop_thread_woken_isr
  <2> QED
    BY <1>2, <2>1, <2>2, <2>5, <2>6, <2>7
<1>3. CASE ~(~uk_thread_is_runnable(t) /\ t \in attached)
  <2>1. UNCHANGED <<queueable, run_queue, sleep_queue, corrupt>>
    BY <1>3 DEF uk_thread_wake, queueVars
  <2>2. ~On(sleep_queue, t)
    BY <1>1, <1>3 DEF SleepersHaveDeadlines, uk_thread_is_runnable
  <2>3. ~(t \in attached /\ t \notin runnable)
    BY <1>3 DEF uk_thread_is_runnable
  <2> QED
    BY <1>1, <2>1, <2>2, <2>3
<1> QED
  BY <1>2, <1>3

\* Waking a thread preserves the inductive invariant, wherever it is called.
LEMMA WakeInv ==
    ASSUME Inv, NEW t \in alive, uk_thread_wake(t),
           UNCHANGED <<current, next, idle_return_time>>,
           pc' = (IF pc = "halt" THEN "scan" ELSE pc),
           clock' \in Nat, now' \in Nat
    PROVE  Inv'
<1>1. /\ run_queue' \in Seq(Threads) /\ sleep_queue' \in Seq(Threads)
      /\ corrupt' = FALSE
      /\ NoDuplicates(run_queue') /\ NoDuplicates(sleep_queue')
      /\ queueable' \subseteq queueable
      /\ \A u : On(sleep_queue', u) <=> On(sleep_queue, u) /\ u # t
      /\ \A u : On(run_queue', u) <=>
           \/ On(run_queue, u)
           \/ u = t /\ t \in attached /\ t \notin runnable /\ t # OnCpu
      /\ \A u : u # t => (u \in queueable' <=> u \in queueable)
  BY WakeQueues
<1>2. /\ runnable' = runnable \cup {t}
      /\ wakeup_time' = [wakeup_time EXCEPT ![t] = 0]
      /\ UNCHANGED <<alive, attached, exited, exited_threads>>
  BY DEF uk_thread_wake, lifeVars
<1> USE DEF Inv
<1>3. TypeOK'
  BY <1>1, <1>2 DEF TypeOK, Contexts, Locations
<1>4. OnCpu' = OnCpu
  BY DEF OnCpu
<1>5. t \in Threads /\ wakeup_time \in [Threads -> Nat]
  BY DEF TypeOK
<1>6. QueueIntegrity'
  BY <1>1, <1>2, <1>5 DEF QueueIntegrity, SleepersHaveDeadlines
<1>7. RunQueueReady'
  BY <1>1, <1>2, <1>4, <1>5 DEF RunQueueReady, uk_thread_is_runnable, Membership
<1>8. NoLostThread'
  BY <1>1, <1>2, <1>4, <1>5 DEF NoLostThread, uk_thread_is_runnable, Membership
<1>9. SleepersHaveDeadlines'
  BY <1>1, <1>2, <1>5 DEF SleepersHaveDeadlines
<1>10. NoFreedContext'
  BY <1>2, <1>4 DEF NoFreedContext
<1>11. Membership'
  BY <1>2, <1>5 DEF Membership
<1>12. CpuPlace'
  BY <1>2 DEF CpuPlace, TypeOK, Locations
<1>13. Wakeable'
  BY <1>1, <1>2, <1>4 DEF Wakeable
<1>14. TimerArmed'
  BY <1>1, <1>2, <1>4, <1>5 DEF TimerArmed
<1> QED
  BY <1>3, <1>6, <1>7, <1>8, <1>9, <1>10, <1>11, <1>12, <1>13, <1>14

\* The steps of schedcoop_schedule() after the scan preserve the invariant.
LEMMA PickFirstInv == ASSUME Inv, PickFirst PROVE Inv'
<1> DEFINE first == Head(run_queue)
           again == current # Idle /\ uk_thread_is_runnable(current)
<1> USE DEF Inv
<1>1. /\ pc = "scan" /\ pc' = "switch" /\ next' = first
      /\ queueable' = (queueable \cup {current}) \ {first}
      /\ run_queue # <<>>
      /\ run_queue' = IF again THEN Append(Tail(run_queue), current) ELSE Tail(run_queue)
      /\ corrupt' = (corrupt \/ (again /\ Linked(current)))
      /\ UNCHANGED <<runnable, wakeup_time, sleep_queue, current, idle_return_time, now, clock>>
      /\ UNCHANGED <<alive, attached, exited, exited_threads>>
  BY DEF PickFirst, ScanDone, Leave, lifeVars
<1>2. /\ run_queue \in Seq(Threads) /\ NoDuplicates(run_queue) /\ ~corrupt
      /\ current \in Contexts /\ OnCpu = current /\ OnCpu' = first
  BY <1>1 DEF TypeOK, QueueIntegrity, OnCpu
<1>3. /\ Tail(run_queue) \in Seq(Threads) /\ NoDuplicates(Tail(run_queue))
      /\ first \in Threads /\ On(run_queue, first)
      /\ \A u : On(Tail(run_queue), u) <=> On(run_queue, u) /\ u # first
  BY <1>1, <1>2, TailFacts
<1>4. /\ first \in alive \cap attached /\ uk_thread_is_runnable(first)
      /\ first # current /\ ~(current \in Threads /\ On(run_queue, current))
  BY <1>2, <1>3 DEF RunQueueReady
<1>5. again => current \in Threads /\ current \in attached /\ ~On(sleep_queue, current)
  BY <1>1, <1>2 DEF CpuPlace, Contexts, uk_thread_is_runnable, SleepersHaveDeadlines
<1>6. corrupt' = FALSE
  BY <1>1, <1>2, <1>4, <1>5 DEF Linked, TypeOK
<1>7. /\ run_queue' \in Seq(Threads) /\ NoDuplicates(run_queue')
      /\ \A u : On(run_queue', u) <=> (On(run_queue, u) /\ u # first) \/ (again /\ u = current)
  <2>1. CASE again
    <3>1. run_queue' = Append(Tail(run_queue), current) /\ current \in Threads
      BY <1>1, <1>5, <2>1
    <3>2. ~On(Tail(run_queue), current)
      BY <1>3, <1>4, <3>1
    <3>3. /\ run_queue' \in Seq(Threads) /\ NoDuplicates(run_queue')
          /\ \A u : On(run_queue', u) <=> On(Tail(run_queue), u) \/ u = current
      BY <1>3, <3>1, <3>2, AppendFacts
    <3> QED
      BY <1>3, <2>1, <3>3
  <2>2. CASE ~again
    BY <1>1, <1>3, <2>2
  <2> QED
    BY <2>1, <2>2
<1> HIDE DEF first
<1>8. TypeOK'
  BY <1>1, <1>2, <1>3, <1>6, <1>7 DEF TypeOK, Contexts, Locations
<1>9. QueueIntegrity'
  BY <1>1, <1>5, <1>6, <1>7 DEF QueueIntegrity
<1>10. RunQueueReady'
  BY <1>1, <1>2, <1>4, <1>5, <1>7 DEF RunQueueReady, uk_thread_is_runnable, Membership
<1>11. NoLostThread'
  BY <1>1, <1>2, <1>7, ConstantsAssumption DEF NoLostThread, uk_thread_is_runnable, TypeOK
<1>12. SleepersHaveDeadlines'
  BY <1>1 DEF SleepersHaveDeadlines
<1>13. NoFreedContext'
  BY <1>1, <1>2, <1>4 DEF NoFreedContext
<1>14. Membership'
  BY <1>1 DEF Membership
<1>15. CpuPlace'
  BY <1>1, <1>4 DEF CpuPlace, uk_thread_is_runnable
<1>16. Wakeable'
  BY <1>1, <1>2, <1>4 DEF Wakeable, uk_thread_is_runnable
<1>17. TimerArmed'
  BY <1>1, <1>2, <1>3, ConstantsAssumption DEF TimerArmed
<1> QED
  BY <1>8, <1>9, <1>10, <1>11, <1>12, <1>13, <1>14, <1>15, <1>16, <1>17

\* Selecting the idle thread arms its timer with the earliest deadline.
LEMMA PickIdleInv == ASSUME Inv, PickIdle PROVE Inv'
<1> USE DEF Inv
<1>1. /\ pc = "scan" /\ pc' = "switch" /\ next' = Idle
      /\ queueable' = (queueable \cup {current}) \ {Idle}
      /\ run_queue = <<>> /\ ~uk_thread_is_runnable(current)
      /\ UNCHANGED <<runnable, wakeup_time, run_queue, sleep_queue, corrupt, current, now, clock>>
      /\ UNCHANGED <<alive, attached, exited, exited_threads>>
  BY DEF PickIdle, ScanDone, Leave, lifeVars, queueVars
<1>2. OnCpu = current /\ OnCpu' = Idle /\ current # Idle
  BY <1>1, ConstantsAssumption DEF OnCpu, uk_thread_is_runnable, Membership, TypeOK
<1>3. PICK m \in {0} \cup Deadlines : MinWakeup(m) /\ idle_return_time' = m
  BY DEF PickIdle
<1>4. ASSUME NEW t \in Threads, On(sleep_queue, t) PROVE wakeup_time[t] \in Deadlines
  <2>1. wakeup_time[t] > 0
    BY <1>4 DEF SleepersHaveDeadlines
  <2>2. PICK i \in DOMAIN sleep_queue : sleep_queue[i] = t
    BY <1>4 DEF On
  <2> QED
    BY <2>1, <2>2 DEF Deadlines, TypeOK
<1>5. Deadlines \subseteq Nat \ {0}
  BY DEF Deadlines, TypeOK
<1>6. m \in Nat
  BY <1>3, <1>5
<1>7. TypeOK'
  BY <1>1, <1>3, <1>6 DEF TypeOK, Contexts, Locations
<1>8. QueueIntegrity' /\ SleepersHaveDeadlines' /\ Membership'
  BY <1>1 DEF QueueIntegrity, SleepersHaveDeadlines, Membership
<1>9. \A t : ~On(run_queue, t)
  BY <1>1 DEF On
<1>10. RunQueueReady' /\ NoFreedContext'
  BY <1>1, <1>2, <1>9 DEF RunQueueReady, NoFreedContext
<1>11. NoLostThread'
  BY <1>1, <1>2, <1>9 DEF NoLostThread, uk_thread_is_runnable
<1>12. CpuPlace'
  BY <1>1, <1>2 DEF CpuPlace
<1>13. Wakeable'
  BY <1>1, <1>2, ConstantsAssumption DEF Wakeable, TypeOK
<1>14. TimerArmed'
  <2> SUFFICES ASSUME NEW t \in Threads, On(sleep_queue, t)
               PROVE  0 < m /\ m <= wakeup_time[t]
    BY <1>1, <1>3 DEF TimerArmed
  <2>1. wakeup_time[t] \in Deadlines
    BY <1>4
  <2>2. m \in Deadlines /\ \A d \in Deadlines : m <= d
    BY <1>3, <2>1 DEF MinWakeup
  <2>3. m \in Nat \ {0}
    BY <1>5, <2>2
  <2>4. m <= wakeup_time[t]
    BY <2>1, <2>2, Zenon
  <2>5. 0 < m
    BY <2>3
  <2> QED
    BY <2>4, <2>5
<1> QED
  BY <1>7, <1>8, <1>10, <1>11, <1>12, <1>13, <1>14

\* schedule() returns to a thread that is still the only runnable one.
LEMMA PickSameInv == ASSUME Inv, PickSame PROVE Inv'
<1> USE DEF Inv
<1>1. /\ pc = "scan" /\ pc' = "run" /\ uk_thread_is_runnable(current)
      /\ UNCHANGED <<runnable, queueable, wakeup_time, run_queue, sleep_queue, corrupt>>
      /\ UNCHANGED <<current, next, idle_return_time, now, clock>>
      /\ UNCHANGED <<alive, attached, exited, exited_threads>>
  BY DEF PickSame, ScanDone, lifeVars, flagVars, queueVars
<1>2. OnCpu = current /\ OnCpu' = OnCpu
  BY <1>1 DEF OnCpu
<1>3. TypeOK'
  BY <1>1 DEF TypeOK, Locations
<1>4. CpuPlace'
  BY <1>1 DEF CpuPlace, uk_thread_is_runnable
<1> QED
  BY <1>1, <1>2, <1>3, <1>4 DEF QueueIntegrity, RunQueueReady, NoLostThread,
     SleepersHaveDeadlines, NoFreedContext, Membership, Wakeable, TimerArmed,
     uk_thread_is_runnable

\* The context switch itself moves nothing but the CPU.
LEMMA SwitchInv == ASSUME Inv, uk_sched_thread_switch PROVE Inv'
<1> USE DEF Inv
<1>1. /\ pc = "switch" /\ pc' = "run" /\ current' = next
      /\ UNCHANGED <<runnable, queueable, wakeup_time, run_queue, sleep_queue, corrupt>>
      /\ UNCHANGED <<next, idle_return_time, now, clock>>
      /\ UNCHANGED <<alive, attached, exited, exited_threads>>
  BY DEF uk_sched_thread_switch, lifeVars, flagVars, queueVars
<1>2. OnCpu = next /\ OnCpu' = next
  BY <1>1 DEF OnCpu
<1>3. TypeOK'
  BY <1>1 DEF TypeOK, Locations
<1>4. CpuPlace'
  BY <1>1 DEF CpuPlace
<1> QED
  BY <1>1, <1>2, <1>3, <1>4 DEF QueueIntegrity, RunQueueReady, NoLostThread,
     SleepersHaveDeadlines, NoFreedContext, Membership, Wakeable, TimerArmed,
     uk_thread_is_runnable

\* A thread that blocks itself goes to the sleep queue if it has a deadline.
LEMMA BlockInv ==
    ASSUME Inv, CallPatterns = {}, NEW t \in Threads, NEW until \in Nat,
           uk_thread_block_until(t, until)
    PROVE  Inv'
<1> USE DEF Inv
<1>1. /\ t = current /\ pc = "run" /\ uk_thread_is_runnable(t)
      /\ wakeup_time' = [wakeup_time EXCEPT ![t] = until]
      /\ runnable' = runnable \ {t}
      /\ UNCHANGED <<queueable, current, next, idle_return_time, now, pc, clock>>
      /\ UNCHANGED <<alive, attached, exited, exited_threads>>
  BY DEF uk_thread_block_until, Blockable, Executing, lifeVars, cpuVars
<1>2. /\ run_queue' = run_queue
      /\ sleep_queue' = IF until > 0 THEN Append(sleep_queue, t) ELSE sleep_queue
      /\ corrupt' = (corrupt \/ (until > 0 /\ On(sleep_queue, t)))
  BY <1>1 DEF uk_thread_block_until, schedcoop_thread_blocked
<1>3. /\ run_queue \in Seq(Threads) /\ sleep_queue \in Seq(Threads) /\ corrupt = FALSE
      /\ NoDuplicates(run_queue) /\ NoDuplicates(sleep_queue)
      /\ wakeup_time \in [Threads -> Nat]
      /\ OnCpu = t /\ OnCpu' = t
      /\ t # Idle /\ t \in attached
  BY <1>1, ConstantsAssumption DEF TypeOK, QueueIntegrity, OnCpu, CpuPlace
<1>4. ~On(sleep_queue, t) /\ ~On(run_queue, t)
  BY <1>1, <1>3 DEF SleepersHaveDeadlines, RunQueueReady, uk_thread_is_runnable
<1>5. corrupt' = FALSE
  BY <1>2, <1>3, <1>4
<1>6. /\ sleep_queue' \in Seq(Threads) /\ NoDuplicates(sleep_queue')
      /\ \A u : On(sleep_queue', u) <=> On(sleep_queue, u) \/ (until > 0 /\ u = t)
  BY <1>2, <1>3, <1>4, AppendFacts
<1>7. TypeOK'
  BY <1>1, <1>2, <1>3, <1>5, <1>6 DEF TypeOK, Contexts
<1>8. QueueIntegrity'
  BY <1>2, <1>4, <1>5, <1>6 DEF QueueIntegrity
<1>9. RunQueueReady'
  BY <1>1, <1>2, <1>3, <1>4 DEF RunQueueReady, uk_thread_is_runnable
<1>10. NoLostThread'
  BY <1>1, <1>2, <1>3 DEF NoLostThread, uk_thread_is_runnable
<1>11. SleepersHaveDeadlines'
  BY <1>1, <1>3, <1>4, <1>6 DEF SleepersHaveDeadlines, Membership
<1>12. NoFreedContext'
  BY <1>1, <1>3 DEF NoFreedContext
<1>13. Membership'
  BY <1>1, <1>3 DEF Membership
<1>14. CpuPlace'
  BY <1>1, <1>2 DEF CpuPlace
<1>15. Wakeable'
  BY <1>1, <1>3 DEF Wakeable
<1>16. TimerArmed'
  BY <1>1, <1>3 DEF TimerArmed
<1> QED
  BY <1>7, <1>8, <1>9, <1>10, <1>11, <1>12, <1>13, <1>14, <1>15, <1>16

\* Entering schedule(), halting, being interrupted and the clock touch neither
\* threads nor queues.
LEMMA PlaceInv ==
    ASSUME Inv,
           UNCHANGED <<alive, attached, exited, exited_threads>>,
           UNCHANGED <<runnable, queueable, wakeup_time, run_queue, sleep_queue, corrupt>>,
           UNCHANGED <<current, next, idle_return_time>>,
           clock' \in Nat, now' \in Nat,
           \/ pc' = pc
           \/ pc \in {"run", "halt"} /\ pc' = "scan"
           \/ pc = "run" /\ pc' = "halt" /\ current = Idle /\ run_queue = <<>>
    PROVE  Inv'
<1> USE DEF Inv
<1>1. OnCpu' = OnCpu
  BY DEF OnCpu
<1>2. TypeOK'
  BY DEF TypeOK, Locations
<1>3. CpuPlace'
  BY DEF CpuPlace
<1> QED
  BY <1>1, <1>2, <1>3 DEF QueueIntegrity, RunQueueReady, NoLostThread,
     SleepersHaveDeadlines, NoFreedContext, Membership, Wakeable, TimerArmed,
     uk_thread_is_runnable

\* A new thread is outside the scheduler: it is on no queue.
LEMMA CreateInv ==
    ASSUME Inv, NEW t \in Threads,
           \/ \E ready \in BOOLEAN : uk_thread_create(t, ready)
           \/ uk_thread_container_init(t)
    PROVE  Inv'
<1> USE DEF Inv
<1>1. /\ alive \subseteq alive' /\ alive' \subseteq alive \cup {t}
      /\ runnable \subseteq runnable' /\ runnable' \subseteq runnable \cup {t}
      /\ wakeup_time' \in {wakeup_time, [wakeup_time EXCEPT ![t] = 0]}
      /\ t \notin attached
      /\ UNCHANGED <<attached, exited, exited_threads, queueable, clock>>
      /\ UNCHANGED <<current, next, idle_return_time, now, pc, run_queue, sleep_queue, corrupt>>
  BY DEF uk_thread_create, uk_thread_container_init, lifeVars, queueVars, cpuVars, Membership
<1>2. OnCpu' = OnCpu /\ ~On(run_queue, t) /\ ~On(sleep_queue, t)
  BY <1>1 DEF OnCpu, RunQueueReady, SleepersHaveDeadlines
<1>3. wakeup_time \in [Threads -> Nat] /\ wakeup_time[t] = 0
  BY <1>1 DEF TypeOK, Membership
<1>4. wakeup_time' = wakeup_time
  BY <1>1, <1>3
<1>5. TypeOK'
  BY <1>1, <1>4 DEF TypeOK, Contexts
<1>6. RunQueueReady'
  BY <1>1, <1>2 DEF RunQueueReady, uk_thread_is_runnable
<1>7. NoLostThread'
  BY <1>1, <1>2 DEF NoLostThread, uk_thread_is_runnable
<1>8. SleepersHaveDeadlines'
  BY <1>1, <1>2, <1>4 DEF SleepersHaveDeadlines
<1>9. Membership'
  BY <1>1, <1>4 DEF Membership
<1>10. Wakeable'
  BY <1>1, <1>2 DEF Wakeable
<1>11. QueueIntegrity' /\ NoFreedContext' /\ CpuPlace' /\ TimerArmed'
  BY <1>1, <1>2, <1>4 DEF QueueIntegrity, NoFreedContext, CpuPlace, TimerArmed
<1> QED
  BY <1>5, <1>6, <1>7, <1>8, <1>9, <1>10, <1>11

\* uk_sched_thread_add() queues a runnable thread that was on no queue.
LEMMA AddInv ==
    ASSUME Inv, CallPatterns = {}, NEW t \in Threads, uk_sched_thread_add(t)
    PROVE  Inv'
<1> USE DEF Inv
<1>1. /\ uk_thread_is_runnable(t) /\ t \in alive /\ t \notin attached /\ t \notin exited
      /\ pc = "run" /\ current \in Threads
      /\ attached' = attached \cup {t}
      /\ run_queue' = Append(run_queue, t)
      /\ corrupt' = (corrupt \/ Linked(t))
      /\ UNCHANGED <<alive, exited, exited_threads, sleep_queue, clock>>
      /\ UNCHANGED <<runnable, queueable, wakeup_time>>
      /\ UNCHANGED <<current, next, idle_return_time, now, pc>>
  BY DEF uk_sched_thread_add, Addable, Executing, flagVars, cpuVars
<1>2. /\ run_queue \in Seq(Threads) /\ NoDuplicates(run_queue) /\ corrupt = FALSE
      /\ OnCpu = current /\ OnCpu' = current
  BY <1>1 DEF TypeOK, QueueIntegrity, OnCpu
<1>3. ~On(run_queue, t) /\ ~On(sleep_queue, t) /\ t # current
  BY <1>1, ConstantsAssumption DEF RunQueueReady, SleepersHaveDeadlines, CpuPlace
<1>4. corrupt' = FALSE
  BY <1>1, <1>2, <1>3, Zenon DEF Linked
<1>5. /\ run_queue' \in Seq(Threads) /\ NoDuplicates(run_queue')
      /\ \A u : On(run_queue', u) <=> On(run_queue, u) \/ u = t
  BY <1>1, <1>2, <1>3, AppendFacts
<1>6. TypeOK'
  BY <1>1, <1>4, <1>5 DEF TypeOK
<1>7. QueueIntegrity'
  BY <1>1, <1>3, <1>4, <1>5 DEF QueueIntegrity
<1>8. RunQueueReady'
  BY <1>1, <1>2, <1>3, <1>5 DEF RunQueueReady, uk_thread_is_runnable
<1>9. NoLostThread'
  BY <1>1, <1>2, <1>5 DEF NoLostThread, uk_thread_is_runnable
<1>10. wakeup_time[t] = 0
  BY <1>1 DEF TypeOK, Membership
<1>11. SleepersHaveDeadlines'
  BY <1>1, <1>3, <1>10 DEF SleepersHaveDeadlines
<1>12. Membership' /\ NoFreedContext'
  BY <1>1, <1>2 DEF Membership, NoFreedContext
<1>13. CpuPlace'
  BY <1>1 DEF CpuPlace
<1>14. Wakeable' /\ TimerArmed'
  BY <1>1, <1>2 DEF Wakeable, TimerArmed, uk_thread_is_runnable
<1> QED
  BY <1>6, <1>7, <1>8, <1>9, <1>11, <1>12, <1>13, <1>14

\* What uk_sched_thread_remove() does to the run queue.
LEMMA RemoveQueues ==
    ASSUME Inv, CallPatterns = {}, NEW t \in Threads, uk_sched_thread_remove(t)
    PROVE  /\ pc = "run" /\ current \in attached /\ t \in attached
           /\ attached' = attached \ {t}
           /\ run_queue' \in Seq(Threads) /\ NoDuplicates(run_queue')
           /\ \A u : On(run_queue', u) <=> On(run_queue, u) /\ u # t
           /\ ~On(sleep_queue, t) /\ wakeup_time[t] = 0
           /\ corrupt' = FALSE
           /\ UNCHANGED <<sleep_queue, clock>>
<1> USE DEF Inv
<1> DEFINE queued == t # current /\ uk_thread_is_runnable(t)
<1>1. /\ pc = "run" /\ current \in Threads
      /\ t \in attached /\ wakeup_time[t] = 0
      /\ attached' = attached \ {t}
      /\ run_queue' = IF queued THEN UK_TAILQ_REMOVE(run_queue, t) ELSE run_queue
      /\ corrupt' = (corrupt \/ (queued /\ ~On(run_queue, t)))
      /\ UNCHANGED <<sleep_queue, clock>>
  BY DEF uk_sched_thread_remove, Removable, Executing
<1>2. /\ run_queue \in Seq(Threads) /\ NoDuplicates(run_queue) /\ corrupt = FALSE
      /\ OnCpu = current /\ current \in attached
  BY <1>1, ConstantsAssumption DEF TypeOK, QueueIntegrity, OnCpu, CpuPlace
<1>3. queued <=> On(run_queue, t)
  BY <1>1, <1>2 DEF NoLostThread, RunQueueReady
<1>4. corrupt' = FALSE
  BY <1>1, <1>2, <1>3, Zenon
<1>5. ~On(sleep_queue, t)
  BY <1>1 DEF SleepersHaveDeadlines
<1>6. /\ run_queue' \in Seq(Threads) /\ NoDuplicates(run_queue')
      /\ \A u : On(run_queue', u) <=> On(run_queue, u) /\ u # t
  BY <1>1, <1>2, <1>3, RemoveFacts
<1> QED
  BY <1>1, <1>2, <1>4, <1>5, <1>6

\* Removing or terminating another thread.
LEMMA RemoveInv ==
    ASSUME Inv, CallPatterns = {}, NEW t \in Threads, RemoveOther(t) \/ TerminateOther(t)
    PROVE  Inv'
<1> USE DEF Inv
<1>1. uk_sched_thread_remove(t) /\ t # current
  BY DEF RemoveOther, TerminateOther
<1>2. /\ pc = "run" /\ current \in attached /\ t \in attached
      /\ attached' = attached \ {t}
      /\ run_queue' \in Seq(Threads) /\ NoDuplicates(run_queue')
      /\ \A u : On(run_queue', u) <=> On(run_queue, u) /\ u # t
      /\ ~On(sleep_queue, t) /\ wakeup_time[t] = 0
      /\ corrupt' = FALSE
      /\ UNCHANGED <<sleep_queue, clock>>
  BY <1>1, RemoveQueues
<1>3. /\ alive' \subseteq alive /\ alive \subseteq alive' \cup {t}
      /\ runnable' \subseteq runnable /\ runnable \subseteq runnable' \cup {t}
      /\ queueable' \subseteq queueable /\ queueable \subseteq queueable' \cup {t}
      /\ exited' = exited
      /\ UNCHANGED <<wakeup_time, exited_threads, current, next, idle_return_time, now, pc>>
  BY <1>2 DEF RemoveOther, TerminateOther, Free, flagVars, cpuVars, Membership
<1>4. OnCpu = current /\ OnCpu' = current /\ t \notin exited /\ t # Idle /\ current # Idle
  BY <1>2, <1>3, ConstantsAssumption DEF OnCpu, Membership, TypeOK
<1>5. TypeOK'
  BY <1>2, <1>3 DEF TypeOK
<1>6. QueueIntegrity'
  BY <1>2, <1>3 DEF QueueIntegrity
<1>7. RunQueueReady'
  BY <1>2, <1>3, <1>4 DEF RunQueueReady, uk_thread_is_runnable
<1>8. NoLostThread'
  BY <1>2, <1>3, <1>4 DEF NoLostThread, uk_thread_is_runnable
<1>9. SleepersHaveDeadlines'
  BY <1>2, <1>3 DEF SleepersHaveDeadlines
<1>10. Membership'
  BY <1>2, <1>3, <1>4 DEF Membership, TypeOK
<1>11. NoFreedContext' /\ CpuPlace'
  BY <1>1, <1>2, <1>3, <1>4 DEF NoFreedContext, CpuPlace
<1>12. Wakeable' /\ TimerArmed'
  BY <1>2, <1>3, <1>4 DEF Wakeable, TimerArmed
<1> QED
  BY <1>5, <1>6, <1>7, <1>8, <1>9, <1>10, <1>11, <1>12

\* A thread that exits stays allocated, off every queue, until the idle thread
\* collects it.
LEMMA TerminateSelfInv ==
    ASSUME Inv, CallPatterns = {}, TerminateSelf
    PROVE  Inv'
<1> USE DEF Inv
<1>1. uk_sched_thread_remove(current) /\ current \in Threads
  BY DEF TerminateSelf, uk_sched_thread_remove, Executing
<1>2. /\ pc = "run" /\ current \in attached
      /\ attached' = attached \ {current}
      /\ run_queue' \in Seq(Threads) /\ NoDuplicates(run_queue')
      /\ \A u : On(run_queue', u) <=> On(run_queue, u) /\ u # current
      /\ ~On(sleep_queue, current) /\ wakeup_time[current] = 0
      /\ corrupt' = FALSE
      /\ UNCHANGED <<sleep_queue, clock>>
  BY <1>1, RemoveQueues
<1>3. /\ exited' = exited \cup {current} /\ exited_threads' = Append(exited_threads, current)
      /\ pc' = "scan" /\ now' = clock
      /\ UNCHANGED <<alive, runnable, queueable, wakeup_time, current, next, idle_return_time>>
  BY DEF TerminateSelf, EnterSchedule, flagVars
<1>4. /\ exited_threads' \in Seq(Threads)
      /\ \A u : On(exited_threads', u) <=> On(exited_threads, u) \/ u = current
  BY <1>1, <1>3, AppendFacts DEF TypeOK
<1>5. OnCpu = current /\ OnCpu' = current /\ current # Idle
  BY <1>1, <1>2, <1>3, ConstantsAssumption DEF OnCpu
<1>6. TypeOK'
  BY <1>1, <1>2, <1>3, <1>4 DEF TypeOK, Locations
<1>7. QueueIntegrity'
  BY <1>2, <1>3 DEF QueueIntegrity
<1>8. RunQueueReady'
  BY <1>2, <1>3, <1>5 DEF RunQueueReady, uk_thread_is_runnable
<1>9. NoLostThread'
  BY <1>2, <1>3, <1>5 DEF NoLostThread, uk_thread_is_runnable
<1>10. SleepersHaveDeadlines'
  BY <1>2, <1>3 DEF SleepersHaveDeadlines
<1>11. Membership'
  BY <1>2, <1>3, <1>4 DEF Membership, TypeOK
<1>12. NoFreedContext' /\ CpuPlace'
  BY <1>2, <1>3, <1>5 DEF NoFreedContext, CpuPlace
<1>13. Wakeable' /\ TimerArmed'
  BY <1>2, <1>3, <1>5 DEF Wakeable, TimerArmed
<1> QED
  BY <1>6, <1>7, <1>8, <1>9, <1>10, <1>11, <1>12, <1>13

\* Freeing threads that are neither with the scheduler nor on the CPU.
LEMMA FreeInv ==
    ASSUME Inv, NEW S \in SUBSET Threads, Free(S),
           S \cap attached = {}, {current, OnCpu} \cap S = {},
           UNCHANGED <<attached, run_queue, sleep_queue, corrupt>>,
           UNCHANGED <<current, next, idle_return_time, clock>>,
           \/ pc' = pc /\ now' = now /\ UNCHANGED exited_threads /\ S \cap exited = {}
           \/ pc = "run" /\ pc' = "scan" /\ now' = clock /\ exited_threads' = <<>>
    PROVE  Inv'
<1> USE DEF Inv
<1>1. /\ alive' = alive \ S /\ runnable' = runnable \ S /\ queueable' = queueable \ S
      /\ exited' = exited \ S /\ wakeup_time' = wakeup_time
  BY DEF Free
<1>2. OnCpu' = OnCpu
  BY DEF OnCpu
<1>3. \A t \in Threads : On(exited_threads', t) => On(exited_threads, t) /\ t \notin S
  <2>1. CASE exited_threads' = <<>>
    BY <2>1 DEF On
  <2>2. CASE UNCHANGED exited_threads /\ S \cap exited = {}
    BY <2>2 DEF Membership
  <2> QED
    BY <2>1, <2>2
<1>4. exited_threads' \in Seq(Threads)
  <2>1. <<>> \in Seq(Threads) /\ exited_threads \in Seq(Threads)
    BY DEF TypeOK
  <2> QED
    BY <2>1, Zenon
<1>5. TypeOK'
  BY <1>1, <1>4 DEF TypeOK, Locations
<1>6. QueueIntegrity' /\ TimerArmed'
  BY <1>1, <1>2 DEF QueueIntegrity, TimerArmed
<1>7. RunQueueReady'
  BY <1>1, <1>2 DEF RunQueueReady, uk_thread_is_runnable
<1>8. NoLostThread'
  BY <1>1, <1>2 DEF NoLostThread, uk_thread_is_runnable, Membership
<1>9. SleepersHaveDeadlines'
  BY <1>1 DEF SleepersHaveDeadlines
<1>10. Membership'
  BY <1>1, <1>3, ConstantsAssumption DEF Membership, TypeOK
<1>11. NoFreedContext' /\ CpuPlace'
  BY <1>1, <1>2 DEF NoFreedContext, CpuPlace
<1>12. Wakeable'
  BY <1>1, <1>2 DEF Wakeable
<1> QED
  BY <1>5, <1>6, <1>7, <1>8, <1>9, <1>10, <1>11, <1>12

\* Releasing a thread that is not with the scheduler.
LEMMA ReleaseInv == ASSUME Inv, NEW t \in Threads, uk_thread_release(t) PROVE Inv'
<1>1. /\ pc = "run" /\ Free({t}) /\ t \notin attached /\ t \notin exited /\ t # current
      /\ UNCHANGED <<attached, exited_threads, run_queue, sleep_queue, corrupt, clock>>
      /\ UNCHANGED <<current, next, idle_return_time, now, pc>>
  BY DEF uk_thread_release, Executing, queueVars, cpuVars
<1>2. OnCpu = current
  BY <1>1 DEF OnCpu
<1> QED
  BY <1>1, <1>2, FreeInv

\* Garbage collection by the idle thread frees exited threads only.
LEMMA CollectInv == ASSUME Inv, IdleCollect PROVE Inv'
<1> DEFINE S == {exited_threads[i] : i \in DOMAIN exited_threads}
<1>1. /\ pc = "run" /\ current = Idle /\ Free(S) /\ exited_threads' = <<>>
      /\ pc' = "scan" /\ now' = clock
      /\ UNCHANGED <<attached, run_queue, sleep_queue, corrupt, clock>>
      /\ UNCHANGED <<current, next, idle_return_time>>
  BY DEF IdleCollect, Idling, EnterSchedule, queueVars
<1>2. \A t \in S : t \in Threads /\ t \in exited
  BY DEF Inv, TypeOK, Membership, On
<1>3. S \in SUBSET Threads /\ S \cap attached = {}
  BY <1>2 DEF Inv, Membership
<1>4. OnCpu = Idle /\ Idle \notin S
  BY <1>1, <1>2, ConstantsAssumption DEF OnCpu
<1> HIDE DEF S
<1> QED
  BY <1>1, <1>3, <1>4, FreeInv

\* Every step of the scheduler preserves the inductive invariant.
LEMMA NextInv == ASSUME CallPatterns = {}, Inv, [Next]_vars PROVE Inv'
<1> USE DEF lifeVars, flagVars, queueVars, cpuVars
<1>1. clock \in Nat /\ now \in Nat /\ alive \subseteq Threads
  BY DEF Inv, TypeOK
<1>2. ASSUME NEW t \in Threads, ThreadCall(t) PROVE Inv'
  <2>1. ASSUME NEW until \in 0..MaxTime, uk_thread_block_until(t, until) PROVE Inv'
    BY <2>1, BlockInv, ConstantsAssumption
  <2>2. CASE WakeByThread(t)
    BY <1>1, <2>2, WakeInv DEF WakeByThread, Executing
  <2>3. CASE \/ \E ready \in BOOLEAN : uk_thread_create(t, ready)
             \/ uk_thread_container_init(t)
    BY <2>3, CreateInv
  <2>4. CASE uk_sched_thread_add(t)
    BY <2>4, AddInv
  <2>5. CASE RemoveOther(t) \/ TerminateOther(t)
    BY <2>5, RemoveInv
  <2>6. CASE uk_thread_release(t)
    BY <2>6, ReleaseInv
  <2> QED
    BY <1>2, <2>1, <2>2, <2>3, <2>4, <2>5, <2>6 DEF ThreadCall
<1>3. CASE TerminateSelf
  BY <1>3, TerminateSelfInv
<1>4. CASE uk_sched_yield
  BY <1>1, <1>4, PlaceInv DEF uk_sched_yield, Executing, EnterSchedule
<1>5. CASE WakeExpired
  <2>1. PICK i \in DOMAIN sleep_queue : uk_thread_wake(sleep_queue[i])
    BY <1>5 DEF WakeExpired
  <2>2. sleep_queue[i] \in alive
    BY DEF Inv, TypeOK, SleepersHaveDeadlines, On
  <2> QED
    BY <1>1, <1>5, <2>1, <2>2, WakeInv DEF WakeExpired
<1>6. CASE PickFirst \/ PickSame \/ PickIdle \/ uk_sched_thread_switch
  BY <1>6, PickFirstInv, PickSameInv, PickIdleInv, SwitchInv
<1>7. CASE IdleCollect
  BY <1>7, CollectInv
<1>8. CASE IdleSchedule
  BY <1>1, <1>8, PlaceInv DEF IdleSchedule, Idling, EnterSchedule
<1>9. CASE IdleHalt
  BY <1>1, <1>9, PlaceInv DEF IdleHalt, Idling
<1>10. ASSUME NEW t \in Threads, InterruptWake(t) PROVE Inv'
  <2>1. t \in alive /\ uk_thread_wake(t) /\ UNCHANGED <<current, next, idle_return_time, clock>>
    BY <1>10 DEF InterruptWake, Resume
  <2>2. pc' = (IF pc = "halt" THEN "scan" ELSE pc) /\ now' \in Nat
    BY <1>1, <1>10 DEF InterruptWake, Resume, EnterSchedule
  <2> QED
    BY <1>1, <2>1, <2>2, WakeInv
<1>11. CASE InterruptOther \/ InterruptTimer
  BY <1>1, <1>11, PlaceInv DEF InterruptOther, InterruptTimer, Resume, EnterSchedule
<1>12. CASE Tick
  BY <1>1, <1>12, PlaceInv DEF Tick
<1>13. CASE UNCHANGED vars
  BY <1>1, <1>13, PlaceInv DEF vars
<1> QED
  BY <1>2, <1>3, <1>4, <1>5, <1>6, <1>7, <1>8, <1>9, <1>10, <1>11, <1>12, <1>13
  DEF Next, Schedule, IdleLoop, Interrupt

\* The inductive invariant holds in every reachable state.
THEOREM Invariance == ASSUME CallPatterns = {} PROVE Spec => []Inv
<1>1. Inv /\ [Next]_vars => Inv'
  BY NextInv
<1> QED
  BY InitInv, <1>1, PTL DEF Spec

\* The state variables keep their types.
THEOREM TypeCorrect == ASSUME CallPatterns = {} PROVE Spec => []TypeOK
<1>1. Inv => TypeOK
  BY DEF Inv
<1> QED
  BY Invariance, <1>1, PTL

\* No call or interrupt, in any order, damages the run or the sleep queue.
THEOREM QueuesStayIntact == ASSUME CallPatterns = {} PROVE Spec => []QueueIntegrity
<1>1. Inv => QueueIntegrity
  BY DEF Inv
<1> QED
  BY Invariance, <1>1, PTL

\* The assertions of schedcoop_schedule() about the next thread never fail.
THEOREM NextThreadIsReady == ASSUME CallPatterns = {} PROVE Spec => []RunQueueReady
<1>1. Inv => RunQueueReady
  BY DEF Inv
<1> QED
  BY Invariance, <1>1, PTL

\* A runnable thread is always on the CPU or on the run queue.
THEOREM NoThreadIsLost == ASSUME CallPatterns = {} PROVE Spec => []NoLostThread
<1>1. Inv => NoLostThread
  BY DEF Inv
<1> QED
  BY Invariance, <1>1, PTL

\* The sleep queue holds exactly the threads with a pending deadline.
THEOREM NoTimeoutIsLost == ASSUME CallPatterns = {} PROVE Spec => []SleepersHaveDeadlines
<1>1. Inv => SleepersHaveDeadlines
  BY DEF Inv
<1> QED
  BY Invariance, <1>1, PTL

\* The CPU is halted only when no thread can run, and never past a deadline.
THEOREM HaltingIsSafe == ASSUME CallPatterns = {} PROVE Spec => []HaltIsSafe
<1>1. Inv => HaltIsSafe
  BY DEF Inv, CpuPlace, TimerArmed, HaltIsSafe
<1> QED
  BY Invariance, <1>1, PTL

\* No thread is freed while the CPU still uses its stack.
THEOREM ContextsStayAllocated == ASSUME CallPatterns = {} PROVE Spec => []NoFreedContext
<1>1. Inv => NoFreedContext
  BY DEF Inv
<1> QED
  BY Invariance, <1>1, PTL

-----------------------------------------------------------------------------
(* The scheduler implements the life cycle of thread.h                      *)

\* The state of a thread in the life cycle, read off its flags
LifeState(t) == IF t \notin alive THEN "none"
                ELSE IF t \in exited THEN "exited"
                ELSE IF t \in runnable THEN "runnable" ELSE "blocked"

\* A step that moves one thread along an edge of the diagram and leaves the
\* other threads and the CPU alone is a step of the life cycle.
LEMMA LifeMove ==
    ASSUME NEW t \in Threads, UNCHANGED current,
           \A u \in Threads \ {t} : LifeState(u)' = LifeState(u),
           \/ LifeState(t)' = LifeState(t)
           \/ LifeState(t) = "none" /\ LifeState(t)' \in {"blocked", "runnable"}
           \/ LifeState(t) = "blocked" /\ LifeState(t)' = "runnable"
           \/ LifeState(t) = "runnable" /\ LifeState(t)' = "blocked"
           \/ LifeState(t) \in {"blocked", "runnable"} /\ LifeState(t)' = "exited"
           \/ LifeState(t) \in {"blocked", "runnable"} /\ LifeState(t)' = "none" /\ t # current
    PROVE  [Life!Next]_(Life!vars)
<1> DEFINE st == [u \in Threads |-> LifeState(u)]
<1>1. st' = [st EXCEPT ![t] = LifeState(t)']
  OBVIOUS
<1>2. st[t] = LifeState(t)
  OBVIOUS
<1>3. st = [u \in Threads |-> IF u \notin alive THEN "none"
                        ELSE IF u \in exited THEN "exited"
                        ELSE IF u \in runnable THEN "runnable" ELSE "blocked"]
  BY DEF LifeState
<1>4. st' = [u \in Threads |-> IF u \notin alive' THEN "none"
                        ELSE IF u \in exited' THEN "exited"
                        ELSE IF u \in runnable' THEN "runnable" ELSE "blocked"]
  BY DEF LifeState
<1> HIDE DEF st
<1>5. CASE LifeState(t)' = LifeState(t)
  <2>1. st' = st
    BY <1>1, <1>2, <1>5 DEF st
  <2> QED
    BY <2>1, <1>3, <1>4 DEF Life!vars
<1>6. CASE LifeState(t) = "none" /\ LifeState(t)' \in {"blocked", "runnable"}
  BY <1>1, <1>2, <1>3, <1>4, <1>6 DEF Life!Next, Life!Create, Life!Move
<1>7. CASE LifeState(t) = "blocked" /\ LifeState(t)' = "runnable"
  BY <1>1, <1>2, <1>3, <1>4, <1>7 DEF Life!Next, Life!Wake, Life!Move
<1>8. CASE LifeState(t) = "runnable" /\ LifeState(t)' = "blocked"
  BY <1>1, <1>2, <1>3, <1>4, <1>8 DEF Life!Next, Life!Block, Life!Move
<1>9. CASE LifeState(t) \in {"blocked", "runnable"} /\ LifeState(t)' = "exited"
  BY <1>1, <1>2, <1>3, <1>4, <1>9 DEF Life!Next, Life!Terminate, Life!Move
<1>10. CASE LifeState(t) \in {"blocked", "runnable"} /\ LifeState(t)' = "none" /\ t # current
  BY <1>1, <1>2, <1>3, <1>4, <1>10 DEF Life!Next, Life!Destroy, Life!Move
<1> QED
  BY <1>5, <1>6, <1>7, <1>8, <1>9, <1>10

\* A step that leaves the flags and the CPU alone is a stutter of the life cycle.
LEMMA LifeStutter ==
    ASSUME UNCHANGED <<alive, exited, runnable, current>>
    PROVE  [Life!Next]_(Life!vars)
BY DEF Life!vars

\* Every step of the scheduler is a step, or a stutter, of the life cycle.
LEMMA LifeStep ==
    ASSUME CallPatterns = {}, Inv, [Next]_vars
    PROVE  [Life!Next]_(Life!vars)
<1> USE DEF lifeVars, flagVars, queueVars, cpuVars
<1>1. /\ attached \subseteq alive \ exited /\ exited \subseteq alive
      /\ alive \subseteq Threads /\ Idle \notin Threads
      /\ \A t \in Threads : On(sleep_queue, t) => t \in alive
  BY ConstantsAssumption DEF Inv, Membership, TypeOK, SleepersHaveDeadlines
<1>2. ASSUME NEW t \in Threads, t \in alive, uk_thread_wake(t), UNCHANGED current
      PROVE  [Life!Next]_(Life!vars)
  <2>1. runnable' = runnable \cup {t} /\ UNCHANGED <<alive, exited>>
    BY <1>2 DEF uk_thread_wake
  <2> QED
    BY <1>2, <2>1, LifeMove DEF LifeState
<1>3. ASSUME NEW t \in Threads, ThreadCall(t) PROVE [Life!Next]_(Life!vars)
  <2>1. ASSUME NEW until \in 0..MaxTime, uk_thread_block_until(t, until)
        PROVE  [Life!Next]_(Life!vars)
    <3>1. /\ t \in alive /\ t \notin exited /\ t \in runnable /\ runnable' = runnable \ {t}
          /\ UNCHANGED <<alive, exited, current>>
      BY <1>1, <2>1 DEF uk_thread_block_until, Blockable, uk_thread_is_runnable, Executing,
         Inv, CpuPlace
    <3> QED
      BY <3>1, LifeMove DEF LifeState
  <2>2. CASE WakeByThread(t)
    BY <1>2, <2>2 DEF WakeByThread
  <2>3. ASSUME NEW ready \in BOOLEAN, uk_thread_create(t, ready)
        PROVE  [Life!Next]_(Life!vars)
    <3>1. /\ t \notin alive /\ alive' = alive \cup {t}
          /\ runnable' \in {runnable, runnable \cup {t}}
          /\ UNCHANGED <<exited, current>>
      BY <2>3 DEF uk_thread_create
    <3> QED
      BY <1>1, <3>1, LifeMove DEF LifeState
  <2>4. CASE uk_thread_container_init(t)
    <3>1. /\ t \in alive /\ t \notin exited /\ t \notin runnable /\ runnable' = runnable \cup {t}
          /\ UNCHANGED <<alive, exited, current>>
      BY <2>4 DEF uk_thread_container_init
    <3> QED
      BY <3>1, LifeMove DEF LifeState
  <2>5. CASE uk_sched_thread_add(t) \/ RemoveOther(t)
    BY <2>5, LifeStutter DEF uk_sched_thread_add, RemoveOther
  <2>6. CASE TerminateOther(t) \/ uk_thread_release(t)
    <3>1. /\ t \in alive /\ t \notin exited /\ t # current
          /\ alive' = alive \ {t} /\ runnable' = runnable \ {t} /\ exited' = exited \ {t}
          /\ UNCHANGED current
      BY <1>1, <2>6 DEF TerminateOther, uk_thread_release, uk_sched_thread_remove, Removable, Free
    <3> QED
      BY <3>1, LifeMove DEF LifeState
  <2> QED
    BY <1>3, <2>1, <2>2, <2>3, <2>4, <2>5, <2>6 DEF ThreadCall
<1>4. CASE TerminateSelf
  <2>1. /\ current \in Threads /\ current \in alive /\ current \notin exited
        /\ exited' = exited \cup {current} /\ UNCHANGED <<alive, runnable, current>>
    BY <1>1, <1>4 DEF TerminateSelf, uk_sched_thread_remove, Executing, Removable
  <2> QED
    BY <2>1, LifeMove DEF LifeState
<1>5. CASE WakeExpired
  <2>1. PICK i \in DOMAIN sleep_queue : uk_thread_wake(sleep_queue[i])
    BY <1>5 DEF WakeExpired
  <2>2. sleep_queue[i] \in Threads /\ sleep_queue[i] \in alive
    BY <1>1 DEF Inv, TypeOK, On
  <2> QED
    BY <1>2, <1>5, <2>1, <2>2 DEF WakeExpired
<1>6. CASE uk_sched_thread_switch
  <2>1. /\ current' = next /\ UNCHANGED <<alive, exited, runnable>>
        /\ next \in Threads => next \in alive /\ next \in runnable /\ next \notin exited
    BY <1>1, <1>6 DEF uk_sched_thread_switch, Inv, CpuPlace
  <2> QED
    BY <2>1 DEF Life!Next, Life!Dispatch
<1>7. CASE IdleCollect
  <2> DEFINE S == {exited_threads[i] : i \in DOMAIN exited_threads}
  <2>1. /\ alive' = alive \ S /\ exited' = exited \ S /\ runnable' = runnable \ S
        /\ current = Idle /\ UNCHANGED current
    BY <1>7 DEF IdleCollect, Idling, Free
  <2>2. S \subseteq exited
    BY DEF Inv, TypeOK, Membership, On
  <2> HIDE DEF S
  <2>3. S \in SUBSET Threads /\ current \notin S
    BY <1>1, <2>1, <2>2
  <2>4. PICK X \in SUBSET Threads : X = S
    BY <2>3
  <2>5. Life!Release(X)
    BY <1>1, <2>1, <2>2, <2>3, <2>4 DEF Life!Release
  <2>6. Life!Next
    BY <2>5 DEF Life!Next
  <2> QED
    BY <2>6
<1>8. ASSUME NEW t \in Threads, InterruptWake(t) PROVE [Life!Next]_(Life!vars)
  BY <1>2, <1>8 DEF InterruptWake, Resume
<1>9. CASE uk_sched_yield \/ PickFirst \/ PickSame \/ PickIdle \/ IdleSchedule \/ IdleHalt
  BY <1>9, LifeStutter
  DEF uk_sched_yield, PickFirst, PickSame, PickIdle, IdleSchedule, IdleHalt
<1>10. CASE InterruptOther \/ InterruptTimer \/ Tick \/ UNCHANGED vars
  BY <1>10, LifeStutter DEF InterruptOther, InterruptTimer, Resume, Tick, vars
<1> QED
  BY <1>3, <1>4, <1>5, <1>6, <1>7, <1>8, <1>9, <1>10 DEF Next, Schedule, IdleLoop, Interrupt

\* The scheduler implements the thread life cycle that thread.h documents.
THEOREM ImplementsLifeCycle == ASSUME CallPatterns = {} PROVE Spec => LifeCycle
<1>1. Init => Life!Init
  BY ConstantsAssumption DEF Init, Life!Init
<1>2. Inv /\ [Next]_vars => [Life!Next]_(Life!vars)
  BY LifeStep
<1> QED
  BY Invariance, <1>1, <1>2, PTL DEF Spec, LifeCycle, Life!Spec
-----------------------------------------------------------------------------
(* The run queue is first come, first served                                *)

\* Every step leaves the threads on the run queue where they are or moves them up.
LEMMA QueueStep ==
    ASSUME CallPatterns = {}, Inv, [Next]_vars
    PROVE  NoneMovesBack(run_queue, run_queue')
<1> USE DEF lifeVars, flagVars, queueVars, cpuVars
<1>1. /\ run_queue \in Seq(Threads) /\ NoDuplicates(run_queue) /\ Idle \notin Threads
      /\ sleep_queue \in Seq(Threads) /\ alive \subseteq Threads
  BY ConstantsAssumption DEF Inv, TypeOK, QueueIntegrity
<1>2. CASE UNCHANGED run_queue
  <2>1. \A i, j \in DOMAIN run_queue : run_queue[i] = run_queue[j] => i = j
    BY <1>1 DEF NoDuplicates
  <2>2. DOMAIN run_queue \subseteq Int
    BY <1>1
  <2> QED
    BY <1>2, <2>1, <2>2 DEF NoneMovesBack
<1>3. ASSUME NEW t \in Threads, uk_thread_wake(t) PROVE NoneMovesBack(run_queue, run_queue')
  <2>1. CASE run_queue' = Append(run_queue, t) /\ ~On(run_queue, t)
    BY <1>1, <2>1, AppendMovesUp
  <2>2. ~uk_thread_is_runnable(t) => ~On(run_queue, t)
    BY DEF Inv, RunQueueReady
  <2> QED
    BY <1>2, <1>3, <2>1, <2>2 DEF uk_thread_wake, schedcoop_thread_woken_isr
<1>4. ASSUME NEW t \in Threads, uk_sched_thread_add(t) PROVE NoneMovesBack(run_queue, run_queue')
  <2>1. ~On(run_queue, t)
    BY <1>4 DEF Inv, RunQueueReady, uk_sched_thread_add, Addable
  <2>2. CASE run_queue' = Append(run_queue, t)
    BY <1>1, <2>1, <2>2, AppendMovesUp
  <2> QED
    BY <1>2, <1>4, <2>2 DEF uk_sched_thread_add
<1>5. ASSUME NEW t, run_queue' = UK_TAILQ_REMOVE(run_queue, t) \/ UNCHANGED run_queue
      PROVE  NoneMovesBack(run_queue, run_queue')
  BY <1>1, <1>2, <1>5, RemoveMovesUp
<1>6. ASSUME NEW t \in Threads, ThreadCall(t) PROVE NoneMovesBack(run_queue, run_queue')
  <2>1. CASE WakeByThread(t)
    BY <1>3, <2>1 DEF WakeByThread
  <2>2. CASE uk_sched_thread_add(t)
    BY <1>4, <2>2
  <2>3. CASE \E until \in 0..MaxTime : uk_thread_block_until(t, until)
    BY <1>5, <2>3 DEF uk_thread_block_until, schedcoop_thread_blocked
  <2>4. CASE RemoveOther(t) \/ TerminateOther(t)
    BY <1>5, <2>4 DEF RemoveOther, TerminateOther, uk_sched_thread_remove
  <2>5. CASE (\E ready \in BOOLEAN : uk_thread_create(t, ready)) \/ uk_thread_container_init(t) \/ uk_thread_release(t)
    BY <1>2, <2>5 DEF uk_thread_create, uk_thread_container_init, uk_thread_release
  <2> QED
    BY <1>6, <2>1, <2>2, <2>3, <2>4, <2>5 DEF ThreadCall
<1>7. CASE TerminateSelf
  BY <1>5, <1>7 DEF TerminateSelf, uk_sched_thread_remove
<1>8. CASE WakeExpired
  <2>1. PICK i \in DOMAIN sleep_queue : uk_thread_wake(sleep_queue[i])
    BY <1>8 DEF WakeExpired
  <2>2. sleep_queue[i] \in Threads
    BY <1>1
  <2> QED
    BY <1>3, <2>1, <2>2
<1>9. CASE PickFirst
  <2>1. run_queue # <<>> /\ pc = "scan"
    BY <1>9 DEF PickFirst, ScanDone
  <2>2. current # Idle => current \in Threads /\ ~On(run_queue, current)
    BY <2>1 DEF Inv, TypeOK, Contexts, RunQueueReady, OnCpu
  <2>3. \/ run_queue' = Tail(run_queue)
        \/ current # Idle /\ run_queue' = Append(Tail(run_queue), current)
    BY <1>9 DEF PickFirst
  <2> QED
    BY <1>1, <2>1, <2>2, <2>3, TailMovesUp
<1>10. CASE uk_sched_yield \/ PickSame \/ PickIdle \/ uk_sched_thread_switch \/ IdleLoop
  BY <1>2, <1>10 DEF uk_sched_yield, PickSame, PickIdle, uk_sched_thread_switch, IdleLoop,
     IdleCollect, IdleSchedule, IdleHalt
<1>11. CASE Interrupt
  BY <1>2, <1>3, <1>11 DEF Interrupt, InterruptWake, InterruptOther, InterruptTimer
<1>12. CASE Tick \/ UNCHANGED vars
  BY <1>2, <1>12 DEF Tick, vars
<1> QED
  BY <1>6, <1>7, <1>8, <1>9, <1>10, <1>11, <1>12 DEF Next, Schedule

\* No step of any thread or interrupt moves a waiting thread back on the run queue
\* of schedcoop.c, so a thread waits for those queued before it and nobody else.
THEOREM FirstComeFirstServed == ASSUME CallPatterns = {} PROVE Spec => RoundRobin
<1>1. Inv /\ [Next]_vars => [\A i \in DOMAIN run_queue, j \in DOMAIN run_queue' :
                                run_queue[i] = run_queue'[j] => j <= i]_vars
  BY QueueStep DEF NoneMovesBack
<1> QED
  BY Invariance, <1>1, PTL DEF Spec, RoundRobin
=============================================================================
