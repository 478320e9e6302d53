-------------------------------- MODULE Futex --------------------------------
(***************************************************************************)
(* Futexes (lib/posix-futex/futex.c): one global list of waiters, each an  *)
(* entry on the waiting thread's stack.  Threads are scheduled             *)
(* cooperatively and interrupts do not touch futexes, so what a call does  *)
(* up to its uk_sched_yield(), and after it, is one step.                  *)
(***************************************************************************)
EXTENDS Integers, SequencesExt

CONSTANTS Threads, Addrs, NoAddr,
          Values,     \* of a futex word
          Counts,     \* how many threads to wake or to requeue
          RequeueTimed \* may FUTEX_CMP_REQUEUE meet a waiter with a timeout?

ASSUME FutexAssumption == /\ NoAddr \notin Addrs
                          /\ 0 \in Values
                          /\ Counts \subseteq Nat
                          /\ RequeueTimed \in BOOLEAN

VARIABLES word,        \* the futex words
          futex_list,  \* the entries, [uaddr, thread]
          waits,       \* the address a thread waits at, NoAddr if it does not
          blocked,
          late,        \* waiters whose deadline has passed
          timed,       \* waiters with a deadline
          result,      \* of the last futex_wait() of each thread
          alive,
          child_tid_clear_ref,
          woken        \* ghost: waiters a futex_wake() has chosen

vars == <<word, futex_list, waits, blocked, late, timed, result, alive,
          child_tid_clear_ref, woken>>

Results == {"none", "0", "EAGAIN", "ETIMEDOUT"}

TypeOK == /\ word \in [Addrs -> Values]
          /\ futex_list \in Seq([uaddr : Addrs, thread : Threads])
          /\ waits \in [Threads -> Addrs \cup {NoAddr}]
          /\ blocked \subseteq Threads /\ alive \subseteq Threads
          /\ late \subseteq timed /\ timed \subseteq Threads
          /\ result \in [Threads -> Results]
          /\ child_tid_clear_ref \in [Threads -> Addrs \cup {NoAddr}]
          /\ woken \subseteq Threads

Init == /\ word = [a \in Addrs |-> 0]
        /\ futex_list = <<>>
        /\ waits = [t \in Threads |-> NoAddr]
        /\ blocked = {} /\ late = {} /\ timed = {} /\ woken = {}
        /\ result = [t \in Threads |-> "none"]
        /\ alive = Threads
        /\ child_tid_clear_ref \in [Threads -> Addrs \cup {NoAddr}]

Running(t) == t \in alive /\ waits[t] = NoAddr

\* futex_wait() up to its yield
futex_wait(t, uaddr, val, timeout) ==
    /\ Running(t)
    /\ \/ /\ word[uaddr] # val
          /\ result' = [result EXCEPT ![t] = "EAGAIN"]
          /\ woken' = woken \ {t}
          /\ UNCHANGED <<futex_list, waits, blocked, timed>>
       \/ /\ word[uaddr] = val
          /\ futex_list' = Append(futex_list, [uaddr |-> uaddr, thread |-> t])
          /\ waits' = [waits EXCEPT ![t] = uaddr]
          /\ blocked' = blocked \cup {t}
          /\ timed' = IF timeout THEN timed \cup {t} ELSE timed
          /\ result' = [result EXCEPT ![t] = "none"]
          /\ woken' = woken \ {t}
    /\ UNCHANGED <<word, late, alive, child_tid_clear_ref>>

Expire(t) ==
    /\ t \in timed \ late
    /\ late' = late \cup {t}
    /\ UNCHANGED <<word, futex_list, waits, blocked, timed, result, alive,
                   child_tid_clear_ref, woken>>

\* The scheduler wakes a thread whose deadline has passed
TimedWake(t) ==
    /\ t \in blocked \cap late
    /\ blocked' = blocked \ {t}
    /\ UNCHANGED <<word, futex_list, waits, late, timed, result, alive,
                   child_tid_clear_ref, woken>>

\* The first n of a set of positions
Firsts(hits, n) == {i \in hits : Cardinality({j \in hits : j <= i}) <= n}

\* The positions of the entries at an address, and of a thread's
WaitingAt(list, uaddr) == {i \in DOMAIN list : list[i].uaddr = uaddr}

EntriesOf(list, t) == {i \in DOMAIN list : list[i].thread = t}

Without(list, positions) ==
    LET keep == SetToSortSeq(DOMAIN list \ positions, <)
    IN  [i \in DOMAIN keep |-> list[keep[i]]]

\* futex_wait() after its yield: an entry that is still there has timed out
WokeUp(t) ==
    LET own == Firsts(WaitingAt(futex_list, waits[t]) \cap EntriesOf(futex_list, t), 1)
    IN
    /\ waits[t] # NoAddr
    /\ t \in alive \ blocked
    /\ futex_list' = Without(futex_list, own)
    /\ result' = [result EXCEPT ![t] = IF own = {} THEN "0" ELSE "ETIMEDOUT"]
    /\ waits' = [waits EXCEPT ![t] = NoAddr]
    /\ late' = late \ {t} /\ timed' = timed \ {t}
    /\ UNCHANGED <<word, blocked, alive, child_tid_clear_ref, woken>>

\* Mutant: the entry stays on the list of a waiter that is woken
WakeKeepsEntry(list, uaddr, val) ==
    LET n == IF val = 0 THEN 1 ELSE val
        hits == Firsts(WaitingAt(list, uaddr), n)
    IN  [list |-> list, threads |-> {list[i].thread : i \in hits}]

\* futex_wake(): the loop counts before it compares, so val = 0 is like 1
Wake(list, uaddr, val) ==
    LET n == IF val = 0 THEN 1 ELSE val
        hits == Firsts(WaitingAt(list, uaddr), n)
    IN  [list |-> Without(list, hits), threads |-> {list[i].thread : i \in hits}]

Wakeup(threads) == /\ blocked' = blocked \ threads
                   /\ woken' = woken \cup threads

futex_wake(t, uaddr, val) ==
    LET w == Wake(futex_list, uaddr, val) IN
    /\ Running(t)
    /\ futex_list' = w.list
    /\ Wakeup(w.threads)
    /\ UNCHANGED <<word, waits, late, timed, result, alive, child_tid_clear_ref>>

\* Requeueing moves entries to the end, at the other address.  At the same one the
\* loop comes to them again, until it has moved val2
Requeue(list, uaddr, val2, uaddr2) ==
    LET hits == Firsts(WaitingAt(list, uaddr), val2)
        moved == SetToSortSeq(hits, <)
        turns == IF uaddr2 = uaddr THEN val2 ELSE 0
        Nth(i) == moved[((i - 1 + turns) % Len(moved)) + 1]
    IN  Without(list, hits)
          \o [i \in DOMAIN moved |-> [uaddr |-> uaddr2, thread |-> list[Nth(i)].thread]]

futex_cmp_requeue(t, uaddr, val, val2, uaddr2, val3) ==
    LET w == Wake(futex_list, uaddr, val) IN
    /\ Running(t)
    /\ word[uaddr] = val3
    /\ futex_list' = Requeue(w.list, uaddr, val2, uaddr2)
    /\ Wakeup(w.threads)
    /\ UNCHANGED <<word, waits, late, timed, result, alive, child_tid_clear_ref>>

\* The user changes a futex word
Store(t, uaddr, val) ==
    /\ Running(t)
    /\ word[uaddr] # val
    /\ word' = [word EXCEPT ![uaddr] = val]
    /\ UNCHANGED <<futex_list, waits, blocked, late, timed, result, alive,
                   child_tid_clear_ref, woken>>

\* set_tid_address()
set_tid_address(t, tid_ref) ==
    /\ Running(t)
    /\ child_tid_clear_ref' = [child_tid_clear_ref EXCEPT ![t] = tid_ref]
    /\ UNCHANGED <<word, futex_list, waits, blocked, late, timed, result, alive, woken>>

\* Mutant: the entry of a thread that is terminated while it waits stays
ExitKeepsEntry(t) ==
    LET ref == child_tid_clear_ref[t]
        w == IF ref = NoAddr THEN [list |-> futex_list, threads |-> {}]
             ELSE Wake(futex_list, ref, 0)
    IN
    /\ t \in alive
    /\ alive' = alive \ {t}
    /\ word' = IF ref = NoAddr THEN word ELSE [word EXCEPT ![ref] = 0]
    /\ futex_list' = w.list
    /\ blocked' = blocked \ (w.threads \cup {t})
    /\ woken' = woken \cup w.threads
    /\ waits' = [waits EXCEPT ![t] = NoAddr]
    /\ late' = late \ {t} /\ timed' = timed \ {t}
    /\ UNCHANGED <<result, child_tid_clear_ref>>

\* thread_exit_handler(), for a thread that exits or is terminated by another
thread_exit_handler(t) ==
    LET ref == child_tid_clear_ref[t]
        w == IF ref = NoAddr THEN [list |-> futex_list, threads |-> {}]
             ELSE Wake(futex_list, ref, 0)
    IN
    /\ t \in alive
    /\ alive' = alive \ {t}
    /\ word' = IF ref = NoAddr THEN word ELSE [word EXCEPT ![ref] = 0]
    /\ futex_list' = Without(w.list, Firsts(EntriesOf(w.list, t), 1))
    /\ blocked' = blocked \ (w.threads \cup {t})
    /\ woken' = woken \cup w.threads
    /\ waits' = [waits EXCEPT ![t] = NoAddr]
    /\ late' = late \ {t} /\ timed' = timed \ {t}
    /\ UNCHANGED <<result, child_tid_clear_ref>>

futex(t) ==
    \/ \E a \in Addrs, v \in Values, timeout \in BOOLEAN : futex_wait(t, a, v, timeout)
    \/ \E a \in Addrs, n \in Counts : futex_wake(t, a, n)
    \/ \E a, a2 \in Addrs, n, n2 \in Counts, v \in Values :
          /\ RequeueTimed \/ \A u \in timed : waits[u] # a
          /\ futex_cmp_requeue(t, a, n, n2, a2, v)

Timer(t) == Expire(t) \/ TimedWake(t)

Next == \E t \in Threads : \/ futex(t) \/ WokeUp(t) \/ Timer(t)
                           \/ \E a \in Addrs : set_tid_address(t, a)
                           \/ \E a \in Addrs, v \in Values : Store(t, a, v)
                           \/ thread_exit_handler(t)

Spec == Init /\ [][Next]_vars

-----------------------------------------------------------------------------
\* An entry lives on the stack of a thread that is inside futex_wait(): it is on
\* the list for no other thread, at most once, and a blocked thread has one.
EntriesAreWaiters ==
    /\ \A i \in DOMAIN futex_list : waits[futex_list[i].thread] # NoAddr
    /\ \A i, j \in DOMAIN futex_list : futex_list[i].thread = futex_list[j].thread => i = j
    /\ \A t \in blocked : \E i \in DOMAIN futex_list : futex_list[i].thread = t

\* futex.c, futex_wait(): "If the futex was not removed from the list when the
\* thread was unblocked, then it means that it timed out."  A waiter gets 0
\* exactly when a waker has chosen it, also when its deadline has passed by then.
ResultIsRight ==
    \A t \in Threads : /\ result[t] = "0" => t \in woken
                       /\ result[t] = "ETIMEDOUT" => t \notin woken
=============================================================================
