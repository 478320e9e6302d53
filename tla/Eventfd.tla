------------------------------- MODULE Eventfd -------------------------------
(* Event counters (lib/posix-eventfd/eventfd.c).                            *)
EXTENDS FileIO

CONSTANTS CounterMax,   \* UINT64_MAX - 1
          Adds   \* bound: the values written

ASSUME EventfdAssumption == CounterMax \in Nat \ {0} /\ Adds \subseteq 0..(CounterMax + 1)

EVENTFD_VOLID == "eventfd"
EVENTFD_SEM_VOLID == "eventfd_sem"

\* uk_eventfile_create()
EventfdInit(count) ==
    /\ vol \in {EVENTFD_VOLID, EVENTFD_SEM_VOLID}
    /\ node = count
    /\ call = [t \in Threads |-> NoCall]
    /\ InitWith({POLLOUT} \cup IF count > 0 THEN {POLLIN} ELSE {})

IsEventfd == vol \in {EVENTFD_VOLID, EVENTFD_SEM_VOLID}

evfd_read(t, c) ==
    LET left == IF vol = EVENTFD_SEM_VOLID THEN node - 1 ELSE 0 IN
    /\ IsEventfd
    /\ c.op = "read" /\ Tries(t, c, TRUE)
    /\ \/ /\ node = 0
          /\ Again(t, c, {})
          /\ UNCHANGED node
       \/ /\ node # 0
          /\ node' = left
          /\ Done(t, c, IF left = 0 THEN {POLLIN} ELSE {}, {POLLOUT}, <<>>)
    /\ UNCHANGED vol

\* The value UINT64_MAX is -EINVAL, one that does not fit -EAGAIN
evfd_write(t, c) ==
    LET add == c.n IN
    /\ IsEventfd
    /\ c.op = "write" /\ Tries(t, c, TRUE)
    /\ \/ /\ add = CounterMax + 1
          /\ Done(t, c, {}, {}, <<>>)
          /\ UNCHANGED node
       \/ /\ add # CounterMax + 1
          /\ add > CounterMax - node
          /\ Again(t, c, {})
          /\ UNCHANGED node
       \/ /\ add <= CounterMax - node
          /\ node' = node + add
          /\ Done(t, c, IF node' = CounterMax THEN {POLLOUT} ELSE {}, {POLLIN}, <<>>)
    /\ UNCHANGED vol

EventfdCalls == {NewCall("read", 1, block, FALSE) : block \in Blocking}
                \cup {NewCall("write", add, block, FALSE) : add \in Adds, block \in Blocking}

\* The call would return now
EventfdReady(c) == IF c.op = "read" THEN node > 0 ELSE c.n <= CounterMax - node
=============================================================================
