-------------------------------- MODULE Files --------------------------------
(* Threads that read, write and close one file: an eventfd, a pipe or a     *)
(* timerfd, whose own thread joins them.                                    *)
EXTENDS Eventfd, Pipe, Timerfd

CONSTANT Counts   \* bound: initial values of an eventfd

FilesInit == PipeInit \/ TimerfdInit \/ \E count \in Counts : EventfdInit(count)

FilesNext ==
    \/ \E t \in Pollers :
         \/ \E c \in EventfdCalls : evfd_read(t, c) \/ evfd_write(t, c)
         \/ \E c \in PipeCalls : pipe_read(t, c) \/ pipe_write(t, c)
         \/ \E end \in {"read", "write"} : pipe_release(t, end)
         \/ \E c \in TimerfdCalls : timerfd_read(t, c)
         \/ uk_sys_timerfd_settime(t)
    \/ timerfd_updatefn \/ UpdaterWakes \/ Elapse \/ timerfd_release
    \/ \E t \in Threads : InQueue(t) \/ Notified(t)

FilesSpec == FilesInit /\ [][FilesNext]_fileVars

-----------------------------------------------------------------------------
Ready(c) == CASE IsPipe -> PipeReady(c)
              [] IsEventfd -> EventfdReady(c)
              [] IsTimerfd -> node.val > 0

\* Nobody sleeps in a read or a write that could return, across the driver, its
\* events and the walk of the poll queue: unless the notification is still to
\* come, or a walk has left the ticket without a look at it.  Nor do they wait
\* for a timer whose own thread would sleep through the next expiration.
NoneStranded ==
    \A t \in blocked \ passed :
        /\ Ready(call[t]) => \E u \in Threads : At(u, "notify") /\ mask[u] \cap mask[t] # {}
        /\ IsTimerfd => TimerServed

\* After -EAGAIN of a pipe or a timer no event is set that ends the poll at once: the loop
\* of uk_sys_readv() and uk_sys_writev() sleeps, it does not spin and keep the
\* other threads of the cooperative scheduler from ever changing the file.
SleepsAfterAgain ==
    [][\A t \in Threads : ~IsEventfd /\ At(t, "out") /\ At(t, "look")'
          => mask'[t] \cap events' = {}]_fileVars

Promise ==
    INSTANCE PipePromise WITH
        Readers <- Threads, PipeSize <- PIPE_SIZE,
        next <- IF IsPipe THEN node.next ELSE 0,
        chunks <- IF ~IsPipe THEN <<>>
                  ELSE [i \in DOMAIN node.msgs |->
                          LET m == node.msgs[i] IN
                          [data |-> _pipebuf_read(node.buf, m.start, PIPE_USED(m.start, m.end)),
                           stream |-> m.stream]],
        out <- [t \in Threads |-> IF call[t] = NoCall THEN <<>> ELSE call[t].got]

\* The ring buffer and its messages are a queue of bytes: whatever the order of
\* reads and writes, of wrap-arounds, packets and streams, a read gets the bytes
\* that were written first, in order, and a full pipe takes no more.
KeepsPromise == Promise!Spec

\* README.md of posix-pipe: pipes work "just like you would for a Linux system";
\* there, an end whose last descriptor is closed is hung up.
HangsUp == IsPipe /\ node.open # {"read", "write"} => node.hup
=============================================================================
