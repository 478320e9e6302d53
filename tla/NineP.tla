-------------------------------- MODULE NineP --------------------------------
(***************************************************************************)
(* 9P requests over virtio: the request pool of lib/uk9p (9pdev.c,         *)
(* 9preq.c), the calls of 9p.c that create, send, await and remove one,    *)
(* and the transport (drivers/virtio/9p/virtio_9p.c), whose interrupt      *)
(* handler completes them.                                                 *)
(*                                                                         *)
(* Threads wait on two kinds of queue: xmit_wq of the device, for          *)
(* descriptors, and wq of their request, for the reply.  There is one CPU: *)
(* no thread runs while the handler does; the host always may.  Sections   *)
(* with interrupts off are one step.                                       *)
(***************************************************************************)
EXTENDS WaitQueue, Virtqueue

CONSTANTS Reqs,     \* bound: requests that can be allocated
          Xmit,     \* the queue xmit_wq
          Segments, \* bound: descriptors a message may need (zero-copy needs more)
          NoReq,
          Replies,  \* bound: what the host may have written to the buffers, "ok" or not
          NumTags   \* UK_9P_NUMTAGS

ASSUME NinePAssumption == /\ Cookies = Reqs /\ Queues = Reqs \cup {Xmit}
                          /\ Xmit \notin Reqs /\ NoReq \notin Reqs
                          /\ NumTags > Cardinality(Reqs)

NOTAG == NumTags - 1

VARIABLES state, tag, refcount, segs,  \* of each request
          req_list, req_free_list,
          req,      \* the request of each thread
          queue,    \* and the queue it waits on
          version,  \* the session is set up: uk_9p_version() has returned
          isr       \* where the interrupt handler is

reqVars == <<state, tag, refcount, segs, req_list, req_free_list>>
vars == <<pc, waitVars, vqVars, reqVars, req, queue, version, isr>>

Init == /\ WaitInit /\ VqInit
        /\ pc = [t \in Threads |-> "out"]
        /\ state = [r \in Reqs |-> "none"]
        /\ tag = [r \in Reqs |-> 0]
        /\ refcount = [r \in Reqs |-> 0]
        /\ segs = [r \in Reqs |-> 0]
        /\ req_list = {} /\ req_free_list = <<>>
        /\ req = [t \in Threads |-> NoReq]
        /\ queue = [t \in Threads |-> Xmit]
        /\ version = FALSE
        /\ isr = "off"

tag_bm == {tag[r] : r \in req_list}

\* _req_mgmt_next_tag_locked()
NextTag == CHOOSE n \in 0..NumTags : n \notin tag_bm /\ \A m \in 0..(n - 1) : m \in tag_bm

\* _req_mgmt_from_freelist_locked(), else uk_calloc()
Pooled == IF req_free_list = <<>> THEN {r \in Reqs : state[r] = "none"} ELSE {Head(req_free_list)}

\* request_create(), the message, if it fits, and uk_9preq_ready().  The first
\* call of a session is uk_9p_version(), alone; it has no tag
uk_9pdev_req_create(t) ==
    /\ At(t, "out")
    /\ version \/ req_list = {}
    /\ \E r \in Pooled :
          /\ req' = [req EXCEPT ![t] = r]
          /\ req_free_list' = IF req_free_list = <<>> THEN <<>> ELSE Tail(req_free_list)
          /\ wait_list' = [wait_list EXCEPT ![r] = <<>>]
          /\ refcount' = [refcount EXCEPT ![r] = 1]
          /\ tag' = [tag EXCEPT ![r] = IF version THEN NextTag ELSE NOTAG]
          /\ req_list' = req_list \cup {r}
          /\ \/ /\ state' = [state EXCEPT ![r] = "initialized"]
                /\ Goto(t, "remove")
                /\ UNCHANGED segs
             \/ \E n \in Segments : /\ segs' = [segs EXCEPT ![r] = n]
                                    /\ state' = [state EXCEPT ![r] = "ready"]
                                    /\ Goto(t, "wait")
    /\ UNCHANGED <<blocked, vqVars, queue, version, isr>>

Sending(t) == queue[t] = Xmit

\* virtio_9p_request() is the condition of the wait in uk_9pdev_request(): it
\* fails with -ENOSPC, or for good, and then keeps no reference; or it sends
TooLong(r) == segs[r] > Num
Enospc(r) == ~TooLong(r) /\ ~Fits(segs[r])

\* Mutant: the transport uses the request without a reference
RequestUncounted(r) ==
    \/ (TooLong(r) \/ Enospc(r)) /\ UNCHANGED <<vqVars, state, refcount>>
    \/ /\ virtqueue_buffer_enqueue(r, segs[r])
       /\ state' = [state EXCEPT ![r] = "sent"]
       /\ UNCHANGED refcount

virtio_9p_request(r) ==
    \/ (TooLong(r) \/ Enospc(r)) /\ UNCHANGED <<vqVars, state, refcount>>
    \/ /\ virtqueue_buffer_enqueue(r, segs[r])
       /\ state' = [state EXCEPT ![r] = "sent"]
       /\ refcount' = [refcount EXCEPT ![r] = @ + 1]

\* A look at the condition of the wait, which for a request to send sends it
Look(t) == IF Sending(t) THEN virtio_9p_request(req[t])
           ELSE UNCHANGED <<vqVars, state, refcount>>
Condition(t) == IF Sending(t) THEN ~Enospc(req[t]) ELSE state[req[t]] = "received"

\* send_and_wait_zc(): once sent, uk_9preq_waitreply(); an error ends the call
Waited(t) == IF Sending(t) /\ ~TooLong(req[t]) THEN "wait" ELSE "remove"

Wait(t) ==
    /\ \/ WaitCheck(t, Condition(t), Waited(t)) /\ Look(t)
       \/ WaitEnqueue(t, queue[t], Condition(t)) /\ Look(t)
       \/ WaitRecheck(t, Condition(t), FALSE) /\ Look(t)
       \/ /\ WaitYield(t) \/ WaitDequeue(t, queue[t], Waited(t))
          /\ UNCHANGED <<vqVars, state, refcount>>
    /\ queue' = [queue EXCEPT ![t] = IF pc'[t] = "wait" THEN req[t] ELSE @]
    /\ UNCHANGED <<tag, segs, req_list, req_free_list, req, version, isr>>

\* The last reference gone, the request goes to the free list
uk_9preq_put(r) ==
    /\ refcount' = [refcount EXCEPT ![r] = @ - 1]
    /\ req_free_list' = IF refcount[r] = 1 THEN <<r>> \o req_free_list ELSE req_free_list

\* The call returns.  Nobody looks again at the fields of a request that is
\* removed: they are reset here, not in uk_9preq_init()
uk_9pdev_req_remove(t) ==
    LET r == req[t] IN
    /\ At(t, "remove")
    /\ req_list' = req_list \ {r}
    /\ uk_9preq_put(r)
    /\ req' = [req EXCEPT ![t] = NoReq]
    /\ queue' = [queue EXCEPT ![t] = Xmit]
    /\ version' = (version \/ state[r] = "received")
    /\ Goto(t, "out")
    /\ state' = [state EXCEPT ![r] = "removed"]
    /\ tag' = [tag EXCEPT ![r] = 0]
    /\ segs' = [segs EXCEPT ![r] = 0]
    /\ UNCHANGED <<waitVars, vqVars, isr>>

Thread(t) == isr = "off" /\ (uk_9pdev_req_create(t) \/ Wait(t) \/ uk_9pdev_req_remove(t))

\* virtqueue_ring_interrupt()
Interrupt == /\ irq /\ isr = "off"
             /\ irq' = FALSE
             /\ isr' = IF virtqueue_hasdata THEN "recv" ELSE "off"
             /\ UNCHANGED <<pc, waitVars, desc, head_free, desc_avail, vq_info, avail, used,
                            reqVars, req, queue, version>>

\* uk_9preq_receive_cb(): a reply that is short, or not to this tag, is dropped
uk_9preq_receive_cb(r, reply) ==
    IF state[r] = "sent" /\ reply = "ok"
    THEN /\ state' = [state EXCEPT ![r] = "received"]
         /\ uk_waitq_wake_up(r)
    ELSE UNCHANGED <<state, waitVars>>

\* A round of the loop of virtio_9p_recv(), which stops when all descriptors are
\* free, or nothing is left in the ring
virtio_9p_recv ==
    /\ isr = "recv"
    /\ \/ LET r == vq_info[Returned].cookie IN
          /\ virtqueue_buffer_dequeue
          /\ \E reply \in Replies : uk_9preq_receive_cb(r, reply)
          /\ uk_9preq_put(r)
          /\ isr' = IF desc_avail' = Num THEN "notify" ELSE "recv"
          /\ UNCHANGED irq
       \/ /\ ~virtqueue_hasdata
          /\ isr' = "notify"
          /\ UNCHANGED <<waitVars, vqVars, state, refcount, req_free_list>>
    /\ UNCHANGED <<pc, tag, segs, req_list, req, queue, version>>

\* Mutant: one thread is woken for the descriptors of all that was received
NotifyOne == /\ isr = "notify"
             /\ uk_waitq_wake_up_one(Xmit)
             /\ isr' = "off"
             /\ UNCHANGED <<pc, vqVars, reqVars, req, queue, version>>

uk_9pdev_xmit_notify == /\ isr = "notify"
                        /\ uk_waitq_wake_up(Xmit)
                        /\ isr' = "off"
                        /\ UNCHANGED <<pc, vqVars, reqVars, req, queue, version>>

Isr == Interrupt \/ virtio_9p_recv \/ uk_9pdev_xmit_notify

Device == Host /\ UNCHANGED <<pc, waitVars, reqVars, req, queue, version, isr>>

Next == (\E t \in Threads : Thread(t)) \/ Isr \/ Device

Spec == Init /\ [][Next]_vars

-----------------------------------------------------------------------------
Held(r) == Cardinality({t \in Threads : req[t] = r})
InFlight(r) == Cardinality({d \in Descs : vq_info[d].cookie = r})

\* A request has as many references as there are threads and chains in flight
\* that use it, at most one of each, and is in the free list, once, exactly when
\* none does; a request in flight is sent, and no two in the list share a tag.
RequestsExact ==
    /\ \A r \in Reqs :
          /\ refcount[r] = Held(r) + InFlight(r)
          /\ Held(r) <= 1 /\ InFlight(r) <= Held(r)
          /\ On(req_free_list, r) <=> (state[r] # "none" /\ refcount[r] = 0)
          /\ InFlight(r) = 1 => state[r] = "sent" /\ r \in req_list
    /\ NoDuplicates(req_free_list)
    /\ \A r, s \in req_list : tag[r] = tag[s] => r = s

\* No thread is asleep for a reply that has come, nor for descriptors when there
\* are enough of them, unless the interrupt handler is about to wake it.
NoneForgotten ==
    \A t \in blocked : /\ On(wait_list[queue[t]], t)
                       /\ Condition(t) => Sending(t) /\ isr # "off"
=============================================================================
