-------------------------------- MODULE Pipe --------------------------------
(***************************************************************************)
(* Pipes (lib/posix-pipe/pipe.c): a ring buffer with a list of messages    *)
(* that lie in it, packets first, at most one stream last.                 *)
(*                                                                         *)
(* The list from head to tail is a sequence, the list of free messages a   *)
(* count.  The bytes written are numbered, so that a byte out of place     *)
(* shows.  A byte that has been read or dropped is Stale, whatever it was. *)
(***************************************************************************)
EXTENDS FileIO, SequencesExt

CONSTANTS PIPE_SIZE, PIPE_MSGCOUNT,
          Released,  \* if the creator of the pipe releases the ends
          Labels     \* bound: how many numbers for the bytes

ASSUME PipeAssumption == /\ PIPE_SIZE \in Nat \ {0} /\ PIPE_MSGCOUNT \in Nat \ {0}
                         /\ Released \subseteq BOOLEAN /\ Labels \in Nat \ {0}

PIPE_VOLID == "pipe"

Offsets == 0..(PIPE_SIZE - 1)

Stale == -1

PIPE_IDX(x) == x % PIPE_SIZE

PIPE_SPACE(start, lim) == IF start <= lim THEN lim - start ELSE PIPE_SIZE - start + lim

PIPE_USED(start, lim) == IF start = lim THEN PIPE_SIZE ELSE PIPE_SPACE(start, lim)

\* uk_pipefile_create().  The reference that every file is created with goes when
\* the creator releases it; uk_sys_pipe() never does, the sockets do.
PipeInit ==
    /\ vol = PIPE_VOLID
    /\ \E released \in Released :
         node = [msgs |-> <<>>, free |-> PIPE_MSGCOUNT, buf |-> [i \in Offsets |-> Stale],
                 hup |-> FALSE, open |-> {"read", "write"}, released |-> released, next |-> 0]
    /\ call = [t \in Threads |-> NoCall]
    /\ InitWith({POLLOUT})

IsPipe == vol = PIPE_VOLID

\* iolock: reads share it, a write has it alone, until they have notified
Reading(t) == At(t, "notify") /\ call[t].op = "read"
Writing(t) == At(t, "notify") /\ call[t].op = "write"

_pipebuf_read(buf, head, n) == [i \in 1..n |-> buf[PIPE_IDX(head + i - 1)]]

\* Mutant: one copy, although the buffer is not contiguous
PipebufWriteOnce(buf, head, in) ==
    [i \in Offsets |-> IF i >= head /\ i - head < Len(in) THEN in[i - head + 1] ELSE buf[i]]

_pipebuf_write(buf, head, in) ==
    [i \in Offsets |-> LET k == PIPE_IDX(i + PIPE_SIZE - head) IN
                       IF k < Len(in) THEN in[k + 1] ELSE buf[i]]

Empty == node.msgs = <<>>
Extends == ~Empty /\ Last(node.msgs).stream
WriteHead == IF Empty THEN 0 ELSE Last(node.msgs).end
Capacity == PIPE_SPACE(WriteHead, IF Empty THEN PIPE_SIZE ELSE Head(node.msgs).start)

\* n bytes from head are not in the pipe any more
Used(buf, head, n) == _pipebuf_write(buf, head, [i \in 1..n |-> Stale])

\* Mutant: writers are told only when the buffer was full
ConsumeWhenFull(t, c, got) ==
    LET m == Head(node.msgs) IN
    /\ node' = [node EXCEPT !.msgs = Tail(@), !.free = @ + 1,
                            !.buf = Used(@, m.start, PIPE_USED(m.start, m.end))]
    /\ Done(t, c, IF Len(node.msgs) = 1 THEN {POLLIN} ELSE {},
            IF Capacity = 0 THEN {POLLOUT} ELSE {}, got)

\* The first message is consumed: freed, and POLLIN cleared when it was the last
Consume(t, c, got) ==
    LET m == Head(node.msgs) IN
    /\ node' = [node EXCEPT !.msgs = Tail(@), !.free = @ + 1,
                            !.buf = Used(@, m.start, PIPE_USED(m.start, m.end))]
    /\ Done(t, c, IF Len(node.msgs) = 1 THEN {POLLIN} ELSE {}, {POLLOUT}, got)

pipe_read(t, c) ==
    LET m == Head(node.msgs)
        avail == PIPE_USED(m.start, m.end)
        canread == Min({avail, c.n})
        got == _pipebuf_read(node.buf, m.start, canread) IN
    /\ IsPipe
    /\ c.op = "read" /\ Tries(t, c, "read" \in node.open)
    /\ \A u \in Threads : ~Writing(u)
    /\ \/ /\ node.msgs = <<>> /\ node.hup
          /\ Done(t, c, {POLLIN}, {}, <<>>)
          /\ UNCHANGED node
       \/ /\ node.msgs = <<>> /\ ~node.hup
          /\ Again(t, c, {POLLIN})
          /\ UNCHANGED node
       \/ /\ node.msgs # <<>> /\ (~m.stream \/ canread = avail)
          /\ Consume(t, c, got)
       \/ /\ node.msgs # <<>> /\ m.stream /\ canread < avail
          /\ node' = [node EXCEPT !.msgs[1].start = PIPE_IDX(m.start + canread),
                                  !.buf = Used(@, m.start, canread)]
          /\ Done(t, c, {}, {POLLOUT}, got)
    /\ UNCHANGED vol

\* The next n bytes of the writers
Data(n) == [i \in 1..n |-> (node.next + i) % Labels]

\* Mutant: a full pipe stays writable
OutFullWritable(t, c) == Again(t, c, {})

\* out_full
OutFull(t, c) == Again(t, c, {POLLOUT})

pipe_write(t, c) ==
    LET canwrite == Min({Capacity, c.n})
        end == PIPE_IDX(WriteHead + canwrite) IN
    /\ IsPipe
    /\ c.op = "write" /\ Tries(t, c, "write" \in node.open)
    /\ \A u \in Threads : ~Writing(u) /\ ~Reading(u)
    /\ \/ /\ node.hup
          /\ Done(t, c, {}, {}, <<>>)
          /\ UNCHANGED node
       \/ /\ ~node.hup
          /\ canwrite = 0 \/ (~Extends /\ node.free = 0)
          /\ OutFull(t, c)
          /\ UNCHANGED node
       \/ /\ ~node.hup
          /\ canwrite > 0 /\ (Extends \/ node.free > 0)
          /\ node' = [node EXCEPT
                !.msgs = IF Extends THEN [@ EXCEPT ![Len(@)].end = end]
                         ELSE Append(@, [start |-> WriteHead, end |-> end, stream |-> ~c.direct]),
                !.free = IF Extends THEN @ ELSE @ - 1,
                !.buf = _pipebuf_write(@, WriteHead, Data(canwrite)),
                !.next = (@ + canwrite) % Labels]
          /\ Done(t, c, IF canwrite = Capacity THEN {POLLOUT} ELSE {},
                  IF Empty THEN {POLLIN} ELSE {}, <<>>)
    /\ UNCHANGED vol

\* An end is closed when no call uses it: the last reference hangs up.  PIPE_FIN is
\* that an end is not in node.open; with the second one the pipe is freed, after
\* its walk, which leaves nobody to look at it.
pipe_release(t, end) ==
    /\ IsPipe
    /\ At(t, "out") /\ call[t] = NoCall
    /\ end \in node.open
    /\ \A u \in Threads : call[u] # NoCall => call[u].op # end
    /\ node' = [node EXCEPT !.open = @ \ {end}, !.hup = @ \/ node.released]
    /\ IF node.released
       THEN /\ events' = events \cup {POLL_ALWAYS, POLLIN}
            /\ BeginNotify(t, {POLL_ALWAYS, POLLIN}, -1)
            /\ SetCall(t, NewCall("close", 0, FALSE, FALSE))
       ELSE UNCHANGED <<events, queue, call>>
    /\ UNCHANGED vol

PipeCalls == {NewCall("read", n, block, FALSE) : n \in Lens, block \in Blocking}
             \cup {NewCall("write", n, block, direct) : n \in Lens, block \in Blocking, direct \in BOOLEAN}

\* The call would return now
PipeReady(c) == \/ node.hup
                \/ c.op = "read" /\ ~Empty
                \/ c.op = "write" /\ Capacity > 0 /\ (Extends \/ node.free > 0)
=============================================================================
