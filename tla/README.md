# Verification of Unikraft's concurrency core, files and heap

TLA+ models of the parts of Unikraft that everything else waits on: the
cooperative scheduler and its threads, wait queues, the locks, the mailbox, poll
queues and futexes; of what is built on them: the descriptor table, blocking
reads and writes, eventfd, pipes, timerfd, 9P requests over virtio; and of the
boot sequence with the page allocator and malloc.  The models are translated from
the C sources; TLC checks them on small instances, and for the scheduler, the
mutex, the semaphore, the rwlock, the mailbox, the poll queue, the descriptor table
and the boot table TLAPS proves the safety properties for every instance.

The repository is much larger than that: the definitions stand for some 45 hundred
lines of about 187,000, most of which are drivers, platforms, file systems and the
C library.  Section 6 says what is left out and why; nothing here is a claim about
those parts.

`PROJECT.json` holds the machine-readable side: components, runs, the map from
definitions to source lines, mutants, findings, hazards and theorems.

## 1. The system

### Parts and how they interact

| Part | Source | State | Operations | What makes it hard |
|---|---|---|---|---|
| Cooperative scheduler | `lib/ukschedcoop` | run queue, sleep queue, current thread, idle return time | schedule, add, remove, blocked, woken, idle loop | interrupts wake threads anywhere interrupts are on, also between `schedule()` and the switch; halting |
| Threads | `lib/uksched/{sched,thread}.c` | flags, wake-up time, list of exited threads | create, block, wake, terminate, release, gc | a thread cannot free its own stack; termination by others |
| Wait queues | `lib/uksched/include/uk/wait.h` | list of entries on the waiters' stacks | wait (with deadline), wake_up, wake_up_one | lost wakeups; entries that outlive their stack frame |
| Mutex | `lib/uklock/include/uk/mutex.h` | owner, lock_count, wait queue | lock, trylock, unlock | two words updated one after the other |
| Semaphore | `lib/uklock/include/uk/semaphore.h` | count, spinlock, wait queue | down, down_try, down_to, up | the count is tested outside of the spinlock; deadlines |
| Rwlock | `lib/uklock/rwlock.c` | nactive, two pending counters, two wait queues | rlock, wlock, runlock, wunlock | who has to wake whom; starvation |
| Mailbox | `lib/ukmpi` | ring, two positions, two semaphores | post, recv, each blocking, trying, timed, from interrupts | a ring guarded by tokens, used from interrupts |
| Poll queues | `lib/ukfile/pollqueue.c`, `.h` | event bits, ticket list, tail pointer, cached mask | poll, set, clear, assign, cancel | events change without the list's lock |
| Futex | `lib/posix-futex/futex.c` | one list of stack entries | wait, wake, cmp_requeue, exit handler | timeout and wakeup are told apart by list membership |
| Descriptor table | `lib/posix-fdtab`, `include/uk/weak_refcount.h`, `lib/ukfile` | bitmap, array of entries, three layers of reference counts | open, get, ret, dup, dup3, close, flags, close-on-exec, epoll registrations | lock-free, two words per index; who gives up the last reference |
| Blocking I/O | `lib/posix-fdio`, `lib/posix-eventfd`, `lib/posix-pipe`, `lib/posix-timerfd` | counter, ring buffer and messages, timer; event bits | read, write, close, settime, the timer's thread | events are a cached fact about the contents |
| Virtqueue, 9P | `drivers/virtio`, `lib/uk9p` | descriptor free list, rings, request pool and references | enqueue, dequeue, interrupt, request, wait, receive, remove | an interrupt handler and a host complete what threads wait for |
| Boot and heap | `lib/ukboot`, `lib/ukallocbbuddy`, `lib/ukalloc` | init table, free lists, bitmaps, metadata before objects | init loop, unwinding, term loop; palloc, pfree, malloc, realloc, memalign, free | partial failure; bookkeeping kept inside of the memory it describes |
| Sockets, file systems, network and block devices, virtual memory, platforms | | | | not modelled, section 6 |

The scheduler gives threads the CPU.  Wait queues block and wake threads through
it; the mutex, the semaphore and the rwlock are built from wait queues; the
mailbox from two semaphores; poll queues from an rwlock and block/wake; futexes
from block/wake directly.  A blocking read tries the driver of the file and, as
long as that says -EAGAIN, polls the file's queue.  A 9P call waits on one wait
queue for descriptors and on another for its reply.  Everything runs on one CPU,
threads give it up only in `uk_sched_yield()`, and interrupts come wherever they
are enabled.

### What should be true of each part

* **Scheduler**: the intrusive queues are never damaged; a runnable thread is on
  the CPU or queued; exactly the sleepers with a deadline are on the sleep queue;
  the CPU is not halted with work pending or past a deadline; no stack in use is
  freed; queueing is first come, first served; queued threads run; sleepers wake.
* **Wait queues and locks**: exclusion; counters that tell the truth; no wakeup
  is lost; no entry stays behind; a free lock with waiters is taken; timed calls
  return.
* **Mailbox**: it is a bounded FIFO, for every overlap of posts and receptions.
* **Poll queue**: no event is missed; tickets belong to waiting calls; the links
  lead to every ticket, and the tail pointer to their end.
* **Futex**: 0 is returned exactly to those who were woken, -ETIMEDOUT to the
  others; the list never refers to a thread that no longer waits.
* **Descriptor table**: an index has one owner; references are exact; nothing is
  freed under a reference or twice.
* **Files**: who could go on does not sleep; who must wait does not spin; a pipe
  is a queue of bytes and packets.
* **9P over virtio**: descriptors are neither lost nor shared; a request returns
  to the pool exactly when nobody uses it; replies and free descriptors wake
  those who wait for them.
* **Boot and heap**: after a failure exactly what was initialised is terminated;
  free memory and objects partition the heap; what was split is merged again.

## 2. Modules

| Module | Models | Built from |
|---|---|---|
| `TailQueues` | the lists of `uk/list.h` as sequences | |
| `ThreadStates` | abstract: the life cycle drawn in `thread.h` | |
| `SchedCoop` | scheduler, threads, idle loop, interrupts | `TailQueues`; implements `ThreadStates` |
| `WaitQueue` | the wait loop and the wakeups | `TailQueues` |
| `Mutex`, `Semaphore`, `RWLock` | the three locks | `WaitQueue` |
| `BoundedFifo` | abstract: what a mailbox promises | |
| `Mbox` | `uk_mbox` | `Semaphore`; implements `BoundedFifo` |
| `PollQueue` | `uk_pollq` | `TailQueues` |
| `Futex` | futex system call and exit handler | |
| `FMap` | the lock-free map of `fmap.h` | |
| `FdTab` | descriptors, open files, strong and weak references | `FMap` |
| `FileIO` | the try-and-poll loop of `fdio.c` | `PollQueue` |
| `Eventfd`, `Pipe`, `Timerfd` | the file drivers | `FileIO` |
| `PipePromise` | abstract: what a pipe promises | |
| `Files` | threads and one file of any of the three kinds | the drivers; implements `PipePromise` |
| `Virtqueue` | descriptors and rings, with an external host | |
| `NineP` | requests, their pool, the transport and its interrupt | `WaitQueue`, `Virtqueue` |
| `InitTable` | the three loops over callback tables | |
| `BBuddy` | the buddy page allocator, as operators on a heap | |
| `Malloc` | malloc and its kin on pages | `BBuddy` |
| `Boot` | heap, init table, application, shutdown | `InitTable`, `Malloc` |
| `*_proofs` | theorems about the module of that name | |
| `MC_*` | symmetry sets and values for TLC | |

Definitions carry the name of the C function they model where there is one; a
function that gives up the CPU, the spinlock or atomicity in its middle is split
into one action per stretch, and `pc` tells them apart.  Operators whose comment
begins with "Mutant:" are wrong variants of the definition after them.  They are
not part of the specifications; each shows that a property can fail.

### Correspondence with the code

**SchedCoop.** `alive`, `attached`, `runnable`, `queueable`, `exited` are the sets
of threads that are allocated, have `t->sched` set, or have the flag of that name;
`wakeup_time` is `t->wakeup_time`; `run_queue`, `sleep_queue`, `exited_threads`
the lists; `current` the per-CPU variable; `next` and `now` the locals of
`schedcoop_schedule()`.  `pc` is where the CPU is: in a thread ("run"), in the
part of `schedule()` with interrupts off ("scan"), between the enabling of
interrupts and the switch ("switch"), or halted ("halt").  The scan is one step
per expired sleeper (`WakeExpired`) followed by `PickFirst`, `PickSame` or
`PickIdle`; nothing can come between these, since interrupts are off.  Threads
act only at "run"; interrupts (`InterruptWake`, `InterruptOther`,
`InterruptTimer`) act wherever interrupts are on.  The life-cycle calls of a
thread are `uk_thread_create`, `uk_thread_container_init`, `uk_sched_thread_add`,
`uk_thread_block_until`, `WakeByThread`, `RemoveOther`, `TerminateOther`,
`TerminateSelf`, `uk_thread_release`.  `corrupt` becomes true when a TAILQ macro
is applied to an element whose link it may not touch; the C code would then write
through a stale pointer.  `CallPatterns` names three uses of the API that the tree
offers and that break an invariant (section 5); with `CallPatterns = {}` they do
not happen, and that is what the passing runs and the theorems assume.

**WaitQueue.** The places are those of `__wq_wait_event_deadline()`: look at the
condition ("wait"), look again under the spinlock and enqueue ("enqueue"), yield
("sleep"), look again ("recheck"), leave ("dequeue").  A blocked thread cannot
step; that a woken one eventually does is what `SchedCoop` shows.  Deadlines are
the set `late` of threads whose deadline has passed.

**Mutex, Semaphore, RWLock.** One action per atomic operation or per section
under a spinlock.  The mutex is modelled more finely than the single CPU needs
(threads may interleave between the swap of the owner and the write of the
count), so the results also hold if its callers are preempted.  `held` in `Mutex`
is a ghost: what the callers believe.  In `RWLock` the second wait of a reader
has an entry of its own; leaving the first wait and entering the second happen
under one hold of `sl` and are one step.

**Mbox.** A call takes a token ("wait" ... "lock" as in `Semaphore`), moves the
message with interrupts off ("do"), and raises the other semaphore ("up",
"wake").  Interrupt handlers are members of `Threads` in `Handlers` that use only
the `_try` calls; that their steps interleave with everything covers more than
the code allows.

**PollQueue.** The list is its links, as in the code: `next` leads from the list
head and from each ticket to the next one, `waitend` says whose link is the tail,
and a walk or a cancellation sees only the tickets that the links lead to
(`Linked`).  `_pollq_wait()` is two steps before it sleeps, the exchange of
`waitend`, which gives the poller the link that it has to fill (its local `tail`),
and the store to that link (`LinkTicket`); any number of pollers may be in between,
and fill their links in any order.  `wait` is the order of the exchanges, which the
code does not store: `GenuineTail` says that the links come to agree with it.
The walk of `pollq_notify_n()` is one step, since it holds
`waitlock` exclusively, and pollers hold it shared while they register
("register", "link").  `events` are read and updated without it.  The loop of the walk is
described by the set of positions it unlinks (`Hits`), the only one for which a
position is in it exactly when its ticket matches, `n` is not used up, and the
position before it was not unlinked: the loop's `p = &(*p)->next`, applied to the
pointer that just unlinked a ticket, steps over the one behind (`PassedOver`).

**Futex.** Interrupts do not touch futexes and threads are cooperative, so each
call is one step up to its yield and one after it.  A requeue to the address it
comes from is possible: its loop meets the entries it has moved again, until it has
moved `val2` of them.  `woken` is a ghost: the
waiters a wake has chosen.

**FMap and FdTab.** Every atomic operation of `fmap.h` is a step, so threads
interleave between any two of them: more than a cooperative scheduler needs, and
what the code, written without a lock, sets out to survive.  `free` is the bitmap,
`map` the array.  In `FdTab`, `step` is the function of `fdtab.c` a thread is in
and `loc` its locals; `refcnt` counts an open file, `strong` and `refs` a file.
`uk_file_release()` is four steps: the two counters of `weak_refcount.h`
(`ReleaseStrong`, `ReleaseWeak`), the call of `_release` when one of them has
reached zero, and the finalizers (`uk_file_refcnt_finalize`); others may run between
any two.  `released` records which of a file's resources and its object have been
given up.  In its last two steps the thread has no reference any more and still
goes through the file (`Lingers`), which may have been freed, by itself or by
another thread (section 5).  What it would find in freed memory is undefined; the
model takes it to be what was there, and lets the allocator hand the file out again
only when nobody lingers in it.  The loop over the finalizers is one step.  A
watch is an epoll registration: a weak reference and a finalizer.  A file in
`Static` is never freed, like the serial console.

**FileIO, Eventfd, Pipe, Timerfd.** `node` is the data of the driver and `call`
what each thread is in.  A driver's operation is one step up to the walk of the
poll queue (nothing in it yields), the walk another one (`Notified`), and a poll
goes through the steps of `PollQueue`.  A pipe keeps the list of messages as a
sequence with offsets into the ring buffer; bytes are numbered modulo `Labels`,
with which `PipePromise` recognises a byte out of place.  Time in `Timerfd` is
counted in expirations: `exp` is what `_timerfd_valnext()` would compute now.

**Virtqueue and NineP.** A free list is threaded through `desc` from `head_free`;
`used` is the part of the used ring that the driver has not seen.  The host is
external: it returns chains in any order and raises the interrupt.  `isr` is where
the handler is, and no thread runs while it is on; the host does.  What it writes,
a proper reply or one that is dropped, is chosen from `Replies`.

**InitTable.** `Rewind` is the distance between the entry that failed and the
first one that the unwinding looks at: 1 in `boot.c` (`init_entry--`), 2 in
`thread.c` and `clone.c` (`itr - 2`).  The table itself, an arbitrary mix of
entries with and without callbacks and matching flags, is chosen in `Init`.

**BBuddy, Malloc, Boot.** A chunk is named by its first page.  The bitmaps have
words, as in the code, and the level of a chunk is read from its memory, where its
last owner may have left anything: `Junk` compares equal to a level or not.
Sizes, alignments and addresses of `Malloc` are in bytes, so that the arithmetic
that finds an object's metadata from its address is the code's.  Loops that turn
over halves of a chunk are written as what they compute.

## 3. Runs

| Run | Instance | Shows |
|---|---|---|
| `sched` | 3 threads, clock up to 2 | safety, `RoundRobin`, refinement of `ThreadStates`; `ReadyThreadRuns`, `SleeperWakes` |
| `mutex` | 3 threads, recursion to 2 | exclusion, no lost wakeup; a free mutex is taken |
| `semaphore` | 3 threads, up to 2 tokens | wakeups, stack entries; tokens wake; a timed down returns |
| `mbox` | 2 threads, 1 handler, 2 slots, 2 messages | token accounting, refinement of `BoundedFifo` |
| `rwlock` | 5 threads | exclusion, the duty to wake; a free lock is taken |
| `pollq` | 3 pollers, 1 setter, 2 events, wake one or all | tickets, the tail pointer, no missed event |
| `futex` | 3 threads, 2 addresses, limits 0 to 2 | results and entries, with timeouts and requeueing to either address |
| `fdtab` | 2 threads, 2 indices, 2 open files, an ordinary and a static file, 1 registration | the owner of an index, exact references, nothing freed too early or twice |
| `files` | 3 threads; an eventfd with maximum 3, a pipe of 4 bytes and 2 messages, a timerfd with 2 expirations | nobody stranded, nobody spinning (pipe, timerfd), refinement of `PipePromise` |
| `ninep` | 3 threads, 3 requests, 4 descriptors, chains of 2, 3 and 5 | descriptors, requests, wakeups |
| `boot` | every table of 3 entries; 4 memory layouts of up to 16 pages with up to 3 objects | unwinding as in `boot.c`; free lists, bitmaps and objects; merging; metadata |
| `sched_terminate` | 2 threads | the finding of section 5 |

Symmetry is used in `mbox`, `pollq`, `futex`, `fdtab`, `files` and `ninep` only,
which check no liveness.

**Why the bounds are enough.**  Three threads give the scheduler a current
thread, one on the run queue and one asleep or being woken, and make the order on
the queue visible; a clock of 2 lets two sleepers have different deadlines.  Three
threads on a mutex or semaphore are a holder, a waiter and a newcomer that races
the wakeup.  Five on the rwlock are two readers, two writers and a newcomer.  A
ring of two slots wraps (three positions) and is empty, partly full and full;
two messages tell orders apart.  Three tickets are the fewest for a walk that
unlinks one, passes over one and visits one.  Two futex addresses are needed for
a requeue.  Two descriptors of two open files fill the table, duplicate one and
exchange the other while the second thread looks it up or closes it; one
registration (of descriptor 0, `Watches`) is enough to keep a file's object beyond
its last strong reference, and to lose it to another thread's release.  A pipe of
four bytes, written and read in twos and threes, wraps at every offset, is filled
exactly, takes part of a write, and runs out of messages before it runs out of
bytes.  Four descriptors hold two small requests or one larger one, so threads
wait for descriptors that come back in pieces; a request of five is refused.  Sixteen pages in
bitmap words of four give chunks of every order up to 16, runs that end on a word
and span several, and buddies in a neighbouring region; the sizes are one page and
its metadata exactly, and two pages and a bit.  Larger heaps (three sizes, or four
objects) hold as well but take longer than a run should.  For the scheduler, the
mutex, the semaphore, the rwlock, the mailbox, the poll queue, the descriptor table
and the boot table the theorems remove the bounds.

**Restrictions of the passing runs.**  Some constants keep an observation of
section 5 from hiding everything else: `CallPatterns = {}` (section 2),
`RequeueTimed = FALSE`, with which a requeue does not meet a waiter that has a
timeout, and `Released = {TRUE}`, with which the creator of a pipe gives up its
references.  In the same spirit `NoMissedEvent` and `NoneStranded` except the
tickets in the ghost `passed`, which a walk has left on the list without a look:
those behind an unlinked ticket and those beyond the limit n; and
`SleepsAfterAgain` excepts eventfd, so it says nothing about that driver.  The calls in `files` block; calls on a file
with O_NONBLOCK return at once and add nothing.  Descriptors in `fdtab` are opened
without the close-on-exec flag, which `SetFlags` then sets.

**Deadlock** is checked in `sched`, `mutex`, `rwlock`, `pollq` and `fdtab`.
Elsewhere the system may stop: everybody may wait for a token, a message, a
wakeup, a byte or a descriptor that nobody is left to give, and a system that has
shut down has no next step.

**Fairness.**  In `SchedCoop`: the idle loop, `schedule()` and the switch go on
(they are straight-line code), interrupts that the hardware has armed come, the
clock advances, and threads eventually yield, which a cooperative scheduler
demands of them.  In `Mutex`, `Semaphore` and `RWLock`, weak fairness of a
thread's steps is what `ReadyThreadRuns` shows of the scheduler.  For the steps of
`Semaphore` that need its spinlock fairness is strong: the spinlock is held only
with interrupts off on the only CPU, so it is never found taken.  Holders of a
mutex or rwlock are assumed to release it; calls are never assumed to be made.
The other runs state progress as invariants (a sleeper for whom the condition
holds has a wakeup on its way), which need no fairness.

## 4. Proofs

All proofs are checked by TLAPS, for every value of the constants.

* `TailQueues_proofs`: what removal, insertion and taking the head do to
  membership, to the order and to the absence of duplicates.
* `SchedCoop_proofs`: `Spec => []Inv` and from it each safety property of the
  scheduler, for any finite or infinite set of threads and any clock bound, under
  `CallPatterns = {}`; `FirstComeFirstServed`, that no step moves a thread back on
  the run queue (`RoundRobin`, an action property); and `ImplementsLifeCycle`, that
  every step is a step of `ThreadStates`.  `Inv` adds four facts to the properties themselves.
  `Membership` relates the sets (a thread with the scheduler is allocated and not
  exited; only such threads have a deadline).  `CpuPlace` says who may be on the
  CPU at each place.  `Wakeable` is the heart: a blocked thread that has left the
  CPU is queueable, and the one on the CPU is not.  It is what makes a wakeup in
  the switch window queue the thread exactly once, and `NoLostThread` is not
  inductive without it.  `TimerArmed` carries the earliest deadline from the
  `schedule()` that selects the idle thread to the halt.
* `Mutex_proofs`: `Spec => []Inv` for any threads and depth, and from it mutual
  exclusion, the assertions on owner and count, and that no wakeup is lost.
  `QueueInv` locates the entries and the sleepers, `OwnerInv` ties owner, count
  and the callers' view together through the two windows "count" and "reset", and
  `SleepInv` says that a sleeper is covered by an owner or by an unlock on its way
  to wake the queue.
* `Semaphore_proofs`: `SemSpec => []SemInv` for any threads and any number of
  semaphores, and from it that no up is lost, that no entry of a finished call is
  left on a queue, and that the counter stays a natural number although the wait
  tests it outside of the spinlock.  `SemInv` joins `NoStaleEntry` and `NoLostUp`
  with types and with `SemCalls`: queues have no duplicates, who is in down() has
  a semaphore, and only sleepers are blocked.  Each of the two properties needs
  the other three.
  The same module proves the mailbox: `Spec => []MboxInv` for any threads, handlers
  and size, hence `TokensConserved` and the assertions on the ring
  (`TokensCoverRing`), and `MboxIsFifo`, the refinement of `BoundedFifo`: the step
  that moves a message in or out of the ring is the abstract append or removal, all
  others are stutters.  The invariant counts, for each semaphore, the threads that
  hold one of its tokens; tokens, holders and messages add up to the slots.
* `RWLock_proofs`: exclusion and exact counters for any finite set of threads.
  Neither is inductive alone: the counters decide who enters, and who is inside
  decides what the counters should be.  Every action moves one thread between
  places and adjusts the counters by what that changes (`StepFollows`); how many
  threads are in a set of places after such a move is `Moving`, and the invariant
  follows from these two without a look at the queues.
  That nobody is lost (`NoLostWaiter`) does need them: `Queued` says that exactly
  the waiters are on the queues, `WritersCovered` that a free lock with a waiting
  writer has somebody awake who will enter or wake another, `ReadersCovered` that
  a reader sleeps only behind a writer that waits, is inside or is about to wake it.
* `FdTab_proofs`: first `SlotOwned` for any threads, any size and any use of the
  map (`MapSpec`).  It is inductive with the ranges of the arguments (`Args`): who
  is about to store has an index in the table and an entry.  A step acquires an
  index, releases one, or does neither (`Acquires`, `Releases`, `Moves`).  Then the
  table with its callers: `Spec => []TInv` for any finite sets of threads and open
  files and any positive size, and from it `SlotOwned`, `NoDangling` and
  `RefsExact`.  `NoDangling` speaks of references: what a release does after it has
  given its reference back is not safe (section 5), but it frees a file only when no
  reference is left, and of all threads that linger in a file at most one frees it
  (`ReleasesInv`).  `RefsExact` only speaks of moments between calls; `TInv` says in the
  middle of any call which places hold a reference (an index of the table, an entry
  that a thread has taken out or not yet put in, a descriptor looked up, a release
  half done) and that each count is the number of its places.  An action moves one
  reference from place to place, adds one or gives one up, so each proof is about
  the cardinality of a set that gains or loses one element; those few facts are
  stated once as `Counting` and derived from `FiniteSetTheorems` at the end.
* `PollQueue_proofs`: `Spec => []PollqInv` for any pollers, setters, events and
  limits, and from it that no ticket dangles, that the list and its tail are genuine,
  and that no event is missed.  `LinkInv` is what makes the tail genuine while pollers
  are between exchange and link: the link before a ticket leads to it, or it is empty
  and the ticket's owner knows that it has to fill it.  The three are not inductive
  without `QueueInv` either: `waitmask`
  covers every ticket that was not passed over, so a walk is not skipped wrongly;
  an event set while a poller registers has a setter that still has to walk
  (`NotifiedSoon`); a ticket whose owner is awake has timed out; and only tickets on
  the list are passed over.  A walk and a cancellation both keep a subset of the
  positions (`Keep`) and skip the links of the others; what that does to order,
  membership, links and the tail is proved once, from a lemma that a non-empty set of naturals has a least element.
* `InitTable_proofs`: for `Rewind = 1` and tables of any length, unwinding is
  complete and touches nothing that was not initialised.

Assumptions: the named `ASSUME`s on the constants, which TLC evaluates in every
run whose module extends theirs, and the hypotheses written in the theorems
(`CallPatterns = {}`, `Rewind = 1`).

**Proved and not in a run**, since the proof covers it: type correctness of the
scheduler, the mutex, the semaphore, the rwlock, the mailbox, the poll queue and the
descriptor table; `SleepersHaveDeadlines`, `CountMatchesOwner`, `CountersExact`, `NeverNegative`.

**Only model-checked**: everything about `Futex`, `Files`, `NineP` and the heap;
the refinement of `PipePromise`; and all liveness, since fairness and
ENABLED are outside of the prover's reach, as are induction over data and RECURSIVE
operators.

## 5. Findings

`sched_terminate` ends in a counterexample to a comment in the sources:
terminating a thread that sleeps with a timeout frees it while it is on the sleep
queue (`schedcoop.c:148`).  Closing an armed timerfd does this to the timer's
thread.

The following were met while modelling.  Where the models show one, this is how.

| Where | What | To see it |
|---|---|---|
| `pollqueue.c:18` | The loop passes over the ticket behind each one it unlinks, and then prunes that ticket's events from `waitmask`.  A second reader of a pipe stays asleep next to data. | `PollQueue_all.cfg`, `MC_PollQueue` |
| `thread.c:161`, `clone.c` | Unwinding starts at `itr - 2` and does not terminate the last entry that was initialised. | `UnwindComplete` in `Boot.cfg`, with `Rewind = 2` |
| `futex.c:142` | A requeued waiter that times out returns 0 and leaves its entry on the list. | `Futex_requeue.cfg`, `MC_Futex` |
| `file.h:278` | Finalizers run on every release (the test uses a bitwise or), where `final.h` says on the last strong one. | `FinalizersAtLast` as PROPERTY in `FdTab.cfg` |
| `file.h:277`, `file.h:279` | `uk_file_release()` reads `f->_release` and `f->refcnt` after it has given its reference back: `_release` may have freed the file, or another thread, whose reference was the last, may have. | `ReleaseReadsLive` as INVARIANT in `FdTab.cfg` |
| `epoll.c:239` | `epoll_autodel()` unlocks through `ent`, which `epoll_entry_del()` has just freed. | the code; entries are members of a set in `FdTab` |
| `posix-pipe` | `uk_sys_pipe()` never gives up the references its ends are created with: closing an end does not hang up. | `HangsUp` as INVARIANT in `Files.cfg`, with `Released = {FALSE}` |
| `eventfd.c` | A write of 0 sets POLLIN with the counter at 0, and a write that does not fit leaves POLLOUT set: the blocking loop of `fdio.c` then finds its event set and spins without a yield. | `SleepsAfterAgain` without `~IsEventfd` |

Smaller observations, visible in the models or in the code next to them:

* A yielding thread is on the run queue and marked queueable, against the comment
  on the flag (`thread.h:153`).  Harmless: a runnable thread is not woken.
* A thread that enters the scheduler blocked, or is blocked by another before its
  first run, is not queueable, and waking it does not queue it (the patterns
  "add_blocked" and "block_other").  No caller in the tree does this: clone()
  makes the child runnable first.
* `uk_thread_block_until()` sets `wakeup_time` also of a thread that is not runnable
  (`thread.c:1046`), which may already be on the sleep queue with another time.  No
  caller blocks twice before it yields, and the model has only the first call.
* A writer that relocks an rwlock at once overtakes the reader it woke
  (`rwlock.c:122` promises readers priority).
* `futex_wake()` of at most 0 waiters wakes one; the exit handler relies on it.
* A one-shot timerfd that has expired has the deadline "now": its thread does not
  sleep any more and sets the value and POLLIN again after each read.  The value
  of a periodic one counts since it was set, not since the last read.
* A packet written to a pipe whose last message is a stream becomes part of the
  stream.
* A 9P reply that is too short or carries another tag is dropped, and its thread
  goes on waiting; tags are handed out without a check that one is left.
* The padding that `uk_posix_memalign_ifpages()` adds is never needed, since pages
  are page-aligned.  A size within a page of 2^64 rounds to zero pages
  (`alloc.c:159`).  `uk_realloc_compat()` copies the new size from an object that
  may be smaller (`alloc.c:542`).

## 6. Not modelled

Left out of the modelled parts: execution-time statistics, mutex metrics,
allocation of stacks and TLS with its error paths, `uk_mbox_free()` (no shared
state), edge polls (no callers in the tree), several CPUs (the scheduler supports
one), the wrap of 64-bit deadlines and sizes (TLC's integers have 32 bits), the
shim for legacy files in the descriptor table, positions and seeking, connect and
disconnect of 9P and its fids, suppression of virtio interrupts and EVENT_IDX (the
9P transport does not use them; virtio_net, which does, is not modelled), the heap
on top of a frame allocator, the `_ifmalloc` functions (no allocator of the
repository uses them) and the `_compat` wrappers.

Parts that are not modelled, and why:

* **Chained poll queues**, and with them waiting in epoll and the events of
  sockets: a walk over several queues, each with pollers, tickets and masks,
  multiplies the state space of `PollQueue`, which is already a run of minutes.
* **Processes**: `wait4()` always fails with -ECHILD and the signal calls are
  stubs in this version, so there is no protocol between processes to check; the
  tables are changed without a yield in between.
* **ukring** has no user in the tree, so neither the number of producers nor the
  mode can be taken from the code.
* **uknetdev, ukblkdev** dispatch to drivers; their dispatcher threads are a
  semaphore and a callback.
* **Pool, region and stack allocators**: one step per operation.  **ukvmem** and
  the frame allocator work on page tables, which is hardware state.
* **File systems** (vfscore, ramfs, devfs, 9pfs): sequential code under coarse
  locks.
* **nolibc, the system call shim, parameter and argument parsing**: functions
  without shared state, and generated glue.
* **Platforms and architectures** enter the models as external actions: the clock,
  the interrupts, the context switch.
