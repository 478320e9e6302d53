------------------------------ MODULE WaitQueue ------------------------------
(***************************************************************************)
(* Wait queues (lib/uksched/include/uk/wait.h), as the locks use them.     *)
(*                                                                         *)
(* The scheduler is reduced to what SchedCoop establishes: a blocked       *)
(* thread does not run, a woken one runs again.  A section under the       *)
(* spinlock of the queue is one step; the conditions are also evaluated    *)
(* outside of it.  Threads interleave between any two steps, which covers  *)
(* every interleaving of the cooperative scheduler.                        *)
(***************************************************************************)
EXTENDS TailQueues

CONSTANTS Threads,  \* threads (or interrupt contexts, which never wait)
          Queues    \* the wait queues of the lock

VARIABLES pc,         \* where each thread is
          wait_list,  \* the entries of each queue, by thread
          blocked     \* threads that are not runnable

waitVars == <<wait_list, blocked>>

WaitPlaces == {"wait", "enqueue", "sleep", "recheck", "dequeue"}

WaitTypeOK == /\ wait_list \in [Queues -> Seq(Threads)]
              /\ blocked \subseteq Threads

WaitInit == /\ wait_list = [q \in Queues |-> <<>>]
            /\ blocked = {}

At(t, place) == pc[t] = place

Goto(t, place) == pc' = [pc EXCEPT ![t] = place]

\* __wq_wait_event_deadline(): the first look at the condition, without lock
WaitCheck(t, condition, done) ==
    /\ At(t, "wait")
    /\ Goto(t, IF condition THEN done ELSE "enqueue")
    /\ UNCHANGED waitVars

\* uk_waitq_add() ignores an entry that is already waiting
uk_waitq_add(q, t) ==
    wait_list' = IF On(wait_list[q], t) THEN wait_list
                 ELSE [wait_list EXCEPT ![q] = Append(@, t)]

\* Mutant: the condition is not looked at again under the spinlock
WaitEnqueueUnchecked(t, q, condition) ==
    /\ At(t, "enqueue")
    /\ uk_waitq_add(q, t)
    /\ blocked' = blocked \cup {t}
    /\ Goto(t, "sleep")

\* Under the spinlock: look again, and if it is in vain, enqueue and block
WaitEnqueue(t, q, condition) ==
    /\ At(t, "enqueue")
    /\ \/ /\ condition
          /\ Goto(t, "dequeue")
          /\ UNCHANGED waitVars
       \/ /\ ~condition
          /\ uk_waitq_add(q, t)
          /\ blocked' = blocked \cup {t}
          /\ Goto(t, "sleep")

\* uk_sched_yield() returns once the thread is runnable
WaitYield(t) ==
    /\ At(t, "sleep")
    /\ t \notin blocked
    /\ Goto(t, "recheck")
    /\ UNCHANGED waitVars

WaitRecheck(t, condition, late) ==
    /\ At(t, "recheck")
    /\ Goto(t, IF condition \/ late THEN "dequeue" ELSE "enqueue")
    /\ UNCHANGED waitVars

\* Mutant: the entry is left on the queue
WaitDequeueKeeps(t, q, done) ==
    /\ At(t, "dequeue")
    /\ blocked' = blocked \ {t}
    /\ UNCHANGED wait_list
    /\ Goto(t, done)

\* Under the spinlock: leave the queue
WaitDequeue(t, q, done) ==
    /\ At(t, "dequeue")
    /\ blocked' = blocked \ {t}
    /\ wait_list' = [wait_list EXCEPT ![q] = UK_TAILQ_REMOVE(@, t)]
    /\ Goto(t, done)

uk_waitq_wake_up(q) ==
    /\ blocked' = {t \in blocked : ~On(wait_list[q], t)}
    /\ UNCHANGED wait_list

\* The entry stays at the head until its thread has left the wait
uk_waitq_wake_up_one(q) ==
    /\ blocked' = IF wait_list[q] = <<>> THEN blocked ELSE blocked \ {Head(wait_list[q])}
    /\ UNCHANGED wait_list

=============================================================================
