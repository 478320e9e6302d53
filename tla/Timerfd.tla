------------------------------- MODULE Timerfd -------------------------------
(***************************************************************************)
(* Timers as files (lib/posix-timerfd/timerfd.c).  Each has a thread that  *)
(* sleeps until the next expiration and then updates the value and the     *)
(* events.  Reads share the I/O lock of the file, everything else has it   *)
(* alone until it has notified.                                            *)
(*                                                                         *)
(* Time is counted in expirations: exp is what _timerfd_valnext() finds    *)
(* now, and a deadline is the count at which it passes.                    *)
(***************************************************************************)
EXTENDS FileIO

CONSTANTS Updater,  \* upthread
          MaxExp    \* bound on the expirations of a timer

ASSUME TimerfdAssumption == Updater \in Setters \ Pollers /\ MaxExp \in Nat \ {0}

TIMERFD_VOLID == "timerfd"

Never == MaxExp + 2   \* no deadline

Disarmed == [armed |-> FALSE, periodic |-> FALSE, exp |-> 0, val |-> 0,
             up |-> "awake", until |-> Never]

\* uk_timerfile_create()
TimerfdInit == /\ vol = TIMERFD_VOLID
               /\ node = Disarmed
               /\ call = [t \in Threads |-> NoCall]
               /\ InitWith({})

IsTimerfd == vol = TIMERFD_VOLID

\* The I/O lock can be taken, and the file has not been released
Usable == /\ IsTimerfd
          /\ \A u \in Threads : ~At(u, "notify")
          /\ node.up # "gone"

\* deadline of _timerfd_update(): after its only expiration, it is always now
NextDeadline == IF ~node.armed THEN Never
                ELSE IF node.exp > 0 /\ ~node.periodic THEN node.exp ELSE node.exp + 1

\* _timerfd_update(), of the timer n: a value that changes changes the events
_timerfd_update(t, op, n) ==
    LET changes(to) == n.exp # n.val /\ to IN
    /\ node' = [n EXCEPT !.val = n.exp]
    /\ Done(t, NewCall(op, 0, FALSE, FALSE), IF changes(n.exp = 0) THEN {POLLIN} ELSE {},
            IF changes(n.exp > 0) THEN {POLLIN} ELSE {}, <<>>)
    /\ UNCHANGED vol

\* A round of timerfd_updatefn() up to its sleep
timerfd_updatefn ==
    /\ Usable
    /\ node.up = "awake"
    /\ _timerfd_update(Updater, "update", [node EXCEPT !.up = "asleep", !.until = NextDeadline])

\* The deadline of the sleep passes
UpdaterWakes ==
    /\ IsTimerfd
    /\ node.up = "asleep" /\ At(Updater, "out")
    /\ node.until <= node.exp
    /\ node' = [node EXCEPT !.up = "awake", !.until = Never]
    /\ UNCHANGED <<vars, vol, call>>

\* _timerfd_set(): the timer and, woken, its thread
_timerfd_set(armed, periodic, exp) ==
    IF armed THEN [node EXCEPT !.armed = TRUE, !.periodic = periodic, !.exp = exp,
                               !.up = "awake", !.until = Never]
    ELSE IF node.armed THEN [Disarmed EXCEPT !.val = node.val]
    ELSE node

\* An absolute time may have passed already
uk_sys_timerfd_settime(t) ==
    /\ Usable
    /\ At(t, "out") /\ call[t] = NoCall
    /\ \E armed, periodic \in BOOLEAN, exp \in 0..1 :
          _timerfd_update(t, "settime", _timerfd_set(armed, periodic, exp))

timerfd_read(t, c) ==
    /\ Usable
    /\ c.op = "read" /\ Tries(t, c, TRUE)
    /\ node' = [node EXCEPT !.val = 0]
    /\ IF node.val = 0 THEN Again(t, c, {POLLIN}) ELSE Done(t, c, {POLLIN}, {}, <<>>)
    /\ UNCHANGED vol

\* The last descriptor is closed: uk_thread_terminate() of upthread
timerfd_release ==
    /\ Usable
    /\ \A u \in Threads : call[u] = NoCall
    /\ node' = [Disarmed EXCEPT !.up = "gone"]
    /\ UNCHANGED <<vars, vol, call>>

\* The clock reaches the next expiration
Elapse ==
    /\ IsTimerfd
    /\ node.armed /\ (node.exp = 0 \/ node.periodic)
    /\ node.exp < MaxExp
    /\ node' = [node EXCEPT !.exp = @ + 1]
    /\ UNCHANGED <<vars, vol, call>>

TimerfdCalls == {NewCall("read", 1, block, FALSE) : block \in Blocking}

\* The thread of a timer sleeps no longer than to the next expiration
TimerServed == node.armed /\ node.up = "asleep" => node.until <= node.exp + 1
=============================================================================
