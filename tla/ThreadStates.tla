---------------------------- MODULE ThreadStates ----------------------------
(***************************************************************************)
(* The life cycle that the thread API promises (the state diagram of       *)
(* lib/uksched/include/uk/thread.h): a thread is created blocked or        *)
(* runnable, block() and wake() move it between the two, terminate() makes *)
(* it exited for good and release() frees it.  The CPU is only ever given  *)
(* to a runnable thread and a thread is never freed under the CPU.         *)
(***************************************************************************)
CONSTANT Threads

VARIABLES state, cpu

vars == <<state, cpu>>

State == {"none", "blocked", "runnable", "exited"}

TypeOK == state \in [Threads -> State]

Init == /\ state \in [Threads -> {"none", "runnable"}]
        /\ cpu \in Threads => state[cpu] = "runnable"

Move(t, from, to) == /\ state[t] \in from
                     /\ state' = [state EXCEPT ![t] = to]
                     /\ UNCHANGED cpu

Create(t) == \E s \in {"blocked", "runnable"} : Move(t, {"none"}, s)

Wake(t) == Move(t, {"blocked"}, "runnable")

Block(t) == Move(t, {"runnable"}, "blocked")

Terminate(t) == Move(t, {"blocked", "runnable"}, "exited")

\* uk_sched_thread_terminate() of another thread releases it at once
Destroy(t) == cpu # t /\ Move(t, {"blocked", "runnable"}, "none")

\* Garbage collection releases every exited thread at once
Release(S) == /\ cpu \notin S
              /\ \A t \in S : state[t] = "exited"
              /\ state' = [t \in Threads |-> IF t \in S THEN "none" ELSE state[t]]
              /\ UNCHANGED cpu

\* A context switch; the idle context, outside Threads, can always be entered
Dispatch == /\ cpu' \in Threads => state[cpu'] = "runnable"
            /\ UNCHANGED state

Next == \/ \E t \in Threads : Create(t) \/ Wake(t) \/ Block(t) \/ Terminate(t) \/ Destroy(t)
        \/ \E S \in SUBSET Threads : Release(S)
        \/ Dispatch

Spec == Init /\ [][Next]_vars
=============================================================================
