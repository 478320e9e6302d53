------------------------------- MODULE FileIO -------------------------------
(***************************************************************************)
(* Blocking reads and writes (lib/posix-fdio/fdio.c) over a file driver    *)
(* and the poll queue of its file: try, and while the driver says -EAGAIN, *)
(* poll for the event and try again.                                       *)
(*                                                                         *)
(* A driver's operation changes its node and the events in one step: the   *)
(* scheduler is cooperative and nothing in it yields.  The walk over the   *)
(* waiters that ends it, and each look of a poll, are steps of PollQueue.  *)
(***************************************************************************)
EXTENDS PollQueue

CONSTANTS Lens,      \* bound: sizes of the buffers that calls pass
          Blocking,  \* bound: if calls block, or the file is open with O_NONBLOCK
          NoCall

\* UKFD_POLLIN, UKFD_POLLOUT and UKFD_POLL_ALWAYS
POLLIN == "in"
POLLOUT == "out"
POLL_ALWAYS == "always"

ASSUME FileIOAssumption == /\ Events = {POLLIN, POLLOUT, POLL_ALWAYS}
                           /\ Lens \subseteq Nat /\ Blocking \subseteq BOOLEAN /\ -1 \in Limits

VARIABLES vol,   \* what kind of file it is
          node,  \* the data of its driver
          call   \* the call of each thread, or NoCall

queue == <<queueVars, pc, callVars, late, blocked>>
fileVars == <<vars, vol, node, call>>

SetCall(t, c) == call' = [call EXCEPT ![t] = c]

\* A call of uk_sys_readv() or uk_sys_writev(): a pipe reads the direct flag, got
\* is what a read returns
NewCall(op, n, block, direct) ==
    [op |-> op, n |-> n, block |-> block, direct |-> direct, got |-> <<>>]

\* The driver is tried, for the first time in a new call or again after a poll
Tries(t, c, new) == At(t, "out") /\ IF call[t] = NoCall THEN new ELSE c = call[t]

Wanted(op) == {IF op = "read" THEN POLLIN ELSE POLLOUT, POLL_ALWAYS}

\* It clears events and returns -EAGAIN: _SHOULD_BLOCK() and uk_file_poll()
Again(t, c, clr) ==
    /\ events' = events \ clr
    /\ IF c.block THEN SetCall(t, c) /\ BeginPoll(t, Wanted(c.op), FALSE)
       ELSE SetCall(t, NoCall) /\ UNCHANGED queue

\* It clears events, sets events and notifies, and returns
Done(t, c, clr, set, got) ==
    /\ events' = (events \ clr) \cup set
    /\ IF set = {} THEN SetCall(t, NoCall) /\ UNCHANGED queue
       ELSE SetCall(t, [c EXCEPT !.got = got]) /\ BeginNotify(t, set, -1)

\* The end of a call that has notified
Notified(t) == pollq_notify_n(t) /\ SetCall(t, NoCall) /\ UNCHANGED <<vol, node>>

InQueue(t) == Step(t) /\ UNCHANGED <<vol, node, call>>
=============================================================================
