# A TLA+ verification of cio

cio is a C++20 runtime for Go-style coroutines: an M:N work-stealing scheduler,
channels with `select`, synchronisation primitives, task groups, timers, an
epoll reactor, and sockets, processes and a resolver on top of them. This
directory holds TLA+ models of it, TLC configurations that check them on small
instances, and TLAPS proofs that hold for every size.

Paths below are relative to the repository (`include/cio/...`, `src/...`).
`PROJECT.json` lists, machine-readably, which definition models which lines,
what every run checks, and the hazards the models are aimed at.

## 1. The parts and how they meet

Every blocking operation parks a coroutine by putting a node, which lives in the
coroutine's frame, on some list; whoever completes the operation takes the node
off and hands the coroutine to the scheduler. The recurring obligations are
therefore the same everywhere: nobody sleeps while what it waits for is there; a
parked coroutine is resumed exactly once; nothing refers to a frame, a
descriptor or a block after it has been given up.

| Part | Module | What makes it hard |
|---|---|---|
| Channels, `chan.hpp` | `Channel` | wake-ups after the unlock; a popped waiter already won elsewhere |
| Select, `select.hpp` | `Select` | several locks at once; win before park; nodes left on other lists; callback against frame destruction |
| What both promise | `GoChannel` | abstract specification |
| Blocking in the poll, `scheduler.cpp`, `reactor_epoll.cpp` | `Poller` | wake token, idle bit and published deadline against a poller on its way to sleep |
| Scheduler, `scheduler.hpp`, `scheduler.cpp` | `Scheduler` over `Poller` | park against publish; collapsed wake-ups; searcher credit; fairness checkpoints |
| Rings, `detail/queue.hpp` | `RunQueue`, refining `Fifo` | copy before claim; wrap-around; reserve before publish |
| Timer service, `detail/timer.hpp`, `timer.cpp` | `TimerService` over `Poller` | disarm against a running callback; removal from the middle of a heap |
| Timer, Ticker, `timer.hpp`, `timer_handle.cpp` | `TimerHandle` | stop and reset against a driver that has just woken |
| Reactor and sockets, `reactor.hpp`, `reactor_common.cpp`, `reactor_epoll.cpp`, `net.cpp`, `scoped.hpp` | `Reactor` | readiness, deadline, cancellation and close at once; recycled descriptors and fd numbers |
| RWMutex, Mutex and Cond, WaitGroup, Once, `sync.hpp` | `RWMutex`, `Mutex`, `WaitGroup`, `Once` | fast path against slow path; hand-over; the last done() against a wait |
| Groups, `group.hpp` | `Groups` | a new generation against the last finish; a sentinel in the counter |
| Cancellation, `group.hpp`, `context.cpp` | `Cancel` | hook against cancel; channel made on demand |
| Spawn and join, `spawn.hpp` | `JoinHandle` | park against complete; who frees |
| Blocking pool, `blocking_pool.cpp`, `blocking.hpp` | `BlockingPool` | idle retirement against submit; thread that cannot be started; shutdown with jobs pending |
| Runtime, `runtime.cpp`, `completion.hpp`, `Scheduler::shutdown` | `Runtime` | registration against shutdown; a late completion for a dying scheduler |
| Processes, `process.cpp` | `Process` | failures after fork; wait, kill and destruction at once; two pipes |
| Pools, `pool.cpp`, `frame_pool.hpp` | `Buffers` | a thread cache that outlives its pool |
| Dialer, `net.cpp` | `Dialer` | a race of attempts, its winner, its losers, a deadline and a token |
| Monitor and driver of a shard, `scheduler.cpp` | `Driver` | a request for a poll against the poll for the request before |
| Resolver, `dns.cpp` | `Lookup` | late, lost, duplicated and truncated answers |

`Tasks` holds what the modules of the second half share: tasks with a program of
calls, a `pc`, and a list of the tasks they still have to wake. `Sync` puts those
modules side by side. They touch disjoint variables, and each behaviour uses one
part (`uses`), so one run explores all of them and their state spaces add up.

Where parts build on each other, the lower one is either composed or replaced by
what it is shown to promise. `Scheduler` and `TimerService` both extend
`Poller`, so that parking, nudging and waking are the same steps in both.
`Scheduler` has sequences where the code has rings, as `RunQueue` implements
`Fifo`. `Reactor` has timers that are idle, armed or firing, and a `disarm` that
waits for a callback, which is `CallbackOwnsNode`. `TimerHandle` takes any ready
case of its driver's select, which is what `Select` shows. The wake-ups of
`Sync`'s modules resume a task, which is `Runs` of `Scheduler`.

## 2. Modelling conventions

One step is one critical section that nobody else can look into, or one atomic
access outside of one. A compare-exchange loop is the exchange that succeeds.
Variables carry the names of the members they stand for, actions those of the
functions; the comment before each names what it covers.

* **Channels and select.** Per channel `ring`, `count`, `sendIndex`,
  `recvIndex`, `closed`, `senders`, `receivers` are members of `Channel<T>`;
  `mutex` is kept where a lock is held over several steps, which select alone
  does. Per task `winner` and `phase` are `SelectShared`, `toWake` the local wake
  list, `run` the resumptions handed to the scheduler. A send or receive is
  `Attempt` or `AwaitBlocked`/`TryBlocked`, then one `Wake` per woken waiter,
  `Resume`, `Return`. Select is `Lock` per channel, a scan, `EnqueueCase` per
  case, `Arm`, `Park`, `SelectResume`, `Retract` per case, `Disarm`. The timeout
  is `Expire`, `TimerClaim`, `TimerExchange`, `TimerFired`, `TimerSchedule`.
  Messages are distinct values; the random poll order is any order, and trying a
  blocked case pops lost waiters as the code does.
* **Scheduler.** A thread works through an agenda of the calls it still has to
  make, innermost first, each with the frames it carries. Programs say what a
  frame does when it is resumed: spawn, wake, hand off, yield, do I/O, never
  suspend, stop the runtime.
* **Reactor.** A program is a list of calls per task and what the peers send.
  Each public operation is a record of what distinguishes its loop (direction,
  lease, FIFO, hint, result), so that one set of steps stands for all of them.
  The kernel is external: bytes that can be read, edges not fetched yet, fd
  numbers as small as possible.
* **Timers.** A scenario says who owns which node, of which kind, and whether
  the monitor, parking or the stop take part. The heap is a sequence with the
  code's sifts.
* **Words that wrap** keep their width as a constant: `Bits` (WaitGroup),
  `GroupMod` (TaskGroup), `IndexMod` (ring), `SizeMod` (shared queue's size).
* **External**: the kernel's pipes, processes and sockets, and the network.

Abstractions that hold throughout: memory is sequentially consistent, so what is
shown is about interleavings of the atomic accesses and says nothing of their
memory orders; payloads are identities; deadlines are small instants; error codes
are the ones the properties tell apart.

## 3. What is checked

| Run | Instance | Shows |
|---|---|---|
| `select` | `MCChannels`: 3 interchangeable tasks; one operation each out of seven on an unbuffered and a 1-slot channel, or two plain ones each on a 2-slot ring | `NoneStranded`, `WaitersInPlace`, `StaysRegistered`, `ResumedOnce`, `FrameUnreferenced`; `ImplementsGoChannel`: no value lost, duplicated, reordered or sent through a losing case |
| `live` | `MCSelect`: selects naming two channels in both orders, one with a timeout, one with a default, a sender, a closer | `OperationsReturn`: what was decided returns, lock waits are not cyclic, a timeout ends its select |
| `sync` | `MCSync`: 3 tasks, every combination of a few programs per part | below |
| `timer` | `MCTimer`: 6 nodes in the heap; a node armed again while it fires; two threads against a parking poller; the stop; every kind of handle | `HeapSound`, `CallbackOwnsNode`, `NoOversleep`, `Paced`, `TimerFires`, `ChannelEnds` |
| `sched` | `MCSched`: eight programs of up to six frames on one or two workers | `OnePlace`, `NoLostWake`, `Runs`, `StopEnds` |
| `reactor` | `MCReactor`: 23 programs of 3 tasks, 2 sockets, one descriptor | `RefsCounted`, `LeasedFdIsMine`, `OneOperation`, `NoLostWakeup`, `OperationsEnd` |

`sync` checks, part by part:
`RWMutexSound` (exclusion; whoever waits is announced by the pending bit, and a
pending bit has somebody who will act on it), `WriterPreferred` (no reader enters
past a queued writer), `MutexExclusion`, `HandedInOrder` (a contended mutex goes
to the first in line), `WaitGroupSound` (a wait returns only if the count was zero
meanwhile; at zero no `done()` touches the group any more), `OnceAndBefore` (one
initialiser, and nobody returns before it has ended), `JoinWaitsAll` (no child
outlives the join of its group), `CancelReaches` (what a cancel meets half-way, a
`done()` or a scope being made, it still reaches), `JoinStateSound` (freed once, by
the last owner; a joiner finds a result), `PoolSound` (accepted jobs are counted,
within their limits, and have a thread), `RingsAreFifo` (each ring implements
`Fifo`), `RuntimeSound` (no waker holds a lease on a scheduler that has ended, and
a graceful shutdown leaves no admitted root), `ChildAccounted` (a process that is
not reaped has somebody who will reap it, and no status is stolen), `BlocksOwned`
(a block is in one place, of the right size, also after its pool has gone),
`DialSound` (a race leaves no attempt, watcher or socket behind but the one it
returns), `LookupSound` (an answer is the one to the last query of its family), `DriverSound`
(the control frame is queued or run once, no request counts as served without a
poll, and no shard goes unpolled for longer than a ticket, a request and its grace),
and `EveryWaitEnds` (no wake-up is lost in any of them).

### Bounds, and why they are enough

*Channels.* Two channels and two cases give every order of locks, every pair of
winner and loser, and both directions of one channel in one select; three tasks
give two wakers for one select, and a waker that loses while a third waits.
Capacities 0, 1 and 2 are the rendezvous, the slot that is both first and last,
and a ring that wraps.
*Sync.* Three tasks are a holder, a waiter and a newcomer, and every multiset of
programs is tried for the primitives. Three-bit words reach their sentinel and
wrap in a few calls. A ring of four with six pushes fills, spills and wraps; two
thieves copy the same items. One file slot, a queue of two and two threads reach
every limit of the blocking pool. A cache depth of one and batches of two
overflow in both directions. Dials have up to three addresses of two families
that accept, refuse or stay silent. Lookups have two servers and one attempt per
server, so every change of server, and two port numbers, so one is reused. Five
passes of the monitor with `Stale` and `Grace` of one pass reach its own poll.
*Scheduler.* A FIFO of four, an inbox of one and service intervals of two and
three make overflow and every checkpoint happen within six frames.
*Timers.* Fan-out two and six nodes give three levels, so a removal repairs the
order upwards and downwards.
*Reactor.* One descriptor and two fd numbers force recycling; two sockets are the
old and the new owner; three tasks are two queued operations and whoever closes,
cancels or sets deadlines.

Deadlock is not checked where a task may wait for ever by design (a receive
nobody answers) or where programs end.

### Fairness

`Select`, `Scheduler`, `TimerService` and `Reactor` have weak fairness of each
task's or thread's steps, of the timer service and of the poll: an operating
system thread keeps executing the step it is in, the scheduler runs what is ready,
the shard is polled. Starting an operation, the peers and the timer passes of the monitor
promise nothing, except that in `Scheduler` the monitor passes over busy shards
again and again, as its loop does every 50 us to 10 ms. `Tick` is fair in `TimerService` and `TimerHandle` only, whose
properties are about deadlines. `Sync` has one weak fairness of all steps
together: programs are finite, so a wake-up that is lost leaves a task waiting
when nothing else can happen. That is weaker than fairness of each task, and so
`EveryWaitEnds` assumes less. `OperationsReturn` says only that lock waits are not
cyclic under these bounds; the spin lock is not fair, and an unbounded stream of
operations could overtake a waiter in the code.

## 4. Disagreements between the code and what it says

Six runs are expected to fail. Each checks one sentence of the repository, quoted
in `PROJECT.json` under `findings`, and TLC finds a behaviour of the code against
it.

| Run | Property | What happens |
|---|---|---|
| `once_throws` | `GateHasRunner` | an initialiser throws; `running_` stays set and the gate open for ever |
| `timer_stop` | `StopIsHonest` | `Timer::stop()` returns true although its driver has left its select and goes on to fire |
| `reactor_eof` | `EndOfStreamIsSeen` | last bytes and FIN are one edge; the short read clears the hint and the next read parks although `recv` would return 0 |
| `reactor_cancel` | `CancelledByOwnToken` | a socket on a recycled descriptor inherits the cancellation flag of its predecessor |
| `group_wrap` | `JoinWaitsAll` | two tasks spawn while children end; the count wraps from its sentinel to zero and `join()` returns with a child running |
| `process_output` | `OutputReturns` | a stream exceeds `max_output`; `output()` stops reading it and waits for a child that the full pipe blocks |

The passing runs leave these cases out where they would hide everything else:
the reactor's programs end no stream together with its last bytes and bind tokens
to one socket only, one task spawns into a group at a time, and `Stranded` excuses
the callers at the gate of a failed initialiser.

Read while modelling, and not the subject of a run:

* `Ticker::reset`: "the next tick is one full period from now" (`timer.hpp`), but a
  driver between its load and its store of the deadline overwrites it
  (`timer_handle.cpp:63`).
* `schedule_batch_to` (`scheduler.cpp:1486`): a batch of one in the shared queue
  wakes one worker, the preferred one if it sleeps. Its poll may give it a
  completion that never suspends before it looks at the shared queue; nobody else
  is woken, though another worker sleeps. The comment at `scheduler.hpp:244-246`
  says a CPU-bound preferred worker cannot strand the batch.
* `shutdown()` concurrent with `block_on` or `graceful_shutdown` leaves their
  callers waiting.
* `Command::start` that fails after the fork can wait in `waitpid` for a child that
  blocks on pipes still open in `start`; two concurrent `wait()` calls on one
  `Child` give the second ECHILD; the destructor's hand-over to the reaper gives up
  silently when `dup` fails, despite "cannot leave a zombie" (`process.hpp`).
* `Dialer::timeout`: "Covers resolution and every connection attempt"
  (`net.hpp`), but `lookup_host` is not bounded by the overall deadline.
* `Config::attempts`: "Attempts per server before moving to the next" (`dns.hpp`),
  but the loops of `dns.cpp:377-378` go over all servers in each attempt; and "a
  malformed or negative answer is [a failure of this attempt]" (`dns.cpp:313`), but
  EBADMSG keeps the attempt waiting for its deadline. `lookup()` reports two
  timeouts as ENOENT.
* `CancelToken::err` of a cancelled scope changes from cancelled to timed out when
  its deadline passes later.

## 5. What is proved

Channels and select, for all tasks, channels, capacities, sets of operations and
bounds that satisfy `ChannelAssumption` (channels are a finite set of positive
numbers, capacities are naturals, a plain operation has one case on a real
channel):

| Theorem (`SelectProofs`) | Statement |
|---|---|
| `Invariance` | `Spec => []IndInv` |
| `TypeCorrect` | `Spec => []TypeOK` |
| `NoLostWakeup` | `Spec => []NoneStranded` |
| `ListsInOrder` | `Spec => []WaitersInPlace` |
| `ExactlyOneResume` | `Spec => []ResumedOnce` |
| `NoDanglingNode` | `Spec => []FrameUnreferenced` |

`IndInv` is `TypeOK /\ WaitersInPlace /\ NoneStranded /\ ResumedOnce /\
ProgressInPlace`. The last conjunct is the strengthening: it ties each task's `pc`
to the rest of its state. `OpInPlace`: which operations can be at which place,
which locks are held there. `PhaseInPlace`, `TimerInPlace`: which values of phase,
winner and timer go with it. `StillBlocked`: while a select enqueues under all its
locks, its cases stay as blocked as the scan found them, without which enqueueing
could strand a waiter. There is one lemma per action. Steps that only move one
task (`SelectInvariant`) keep everything through frame lemmas about the others.
Settling steps go through one description (`Deals` in `SelectDeals`): an operation
decides itself and a set of peers taken from the lists, whose claims move to the
settling task's wake list. Appending steps go through `Grow...` lemmas, wake-ups
through `Wake...` lemmas.

The mutex with its condition variable, for any set of tasks that does not contain
`NoTask` and any programs of locks, try_locks and uses of the Cond:

| Theorem (`MutexProofs`) | Statement |
|---|---|
| `MutexInvariant` | `MutexSpec => []MutexInv` |
| `MutexExclusive` | `MutexSpec => []MutexExclusion` |
| `MutexHandsInOrder` | `MutexSpec => HandedInOrder` |

Exclusion alone is not inductive: `unlock_contended` passes the lock on without
ever clearing the bit, so for a while the owner is a parked task that somebody's
wake list names. `MutexInv` therefore says who owns (a task at a holding place, or
the one task being handed to), that the locked bit is set exactly while somebody
does (`OneOwner`), what the word says while the spin lock is held between
publishing contention and claiming or queueing (`SpinInPlace`), that a non-empty
queue keeps both bits set and holds distinct parked tasks that nobody is handing
to (`QueueInPlace`), and that there is at most one hand-over (`HandoverInPlace`).
`MutexHandsInOrder` needs it because the step that pops the queue must be the only
one that does.

Only model-checked: everything about the other modules, `StaysRegistered`, the
refinements of `GoChannel` and `Fifo`, and all liveness properties (reasoning
under fairness is outside of the prover).

## 6. Not modelled

* **kqueue and IOCP back ends**: not compiled in this configuration.
* **TLS**: drives OpenSSL, whose state machine is not in the repository.
* **Files and signals**: one job of the blocking pool, or one read of a
  `PollableFd`; what is concurrent about them is in `BlockingPool` and `Reactor`.
* **Buffered and generic I/O, results, address parsing, DNS wire format, hosts
  file, resolv.conf, metrics**: sequential code of one task on bytes, or counters
  that nothing reads back. Unit tests reach them.
* **`task.hpp`**: promises and awaiters are the C++ coroutine protocol itself.
* **`Pool<T>`**: a vector under a lock.
* **Memory orders**: see section 2.
* **Coinciding query ids** of the resolver's two families, which are drawn at
  random from 16 bits.
