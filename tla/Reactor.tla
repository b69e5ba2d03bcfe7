------------------------------- MODULE Reactor -------------------------------
(***************************************************************************)
(* The readiness core of a reactor shard (reactor.hpp, reactor_common.cpp, *)
(* reactor_epoll.cpp) under the socket operations that use it (net.cpp,    *)
(* scoped.hpp): descriptors recycled from a slab, the waiter slot of each  *)
(* direction, the FIFO of whole operations, the syscall lease that close   *)
(* waits for, deadlines, cancellation and the edge-triggered kernel.       *)
(*                                                                         *)
(* Each section under lifecycle_lock is one step, and so is each access to *)
(* a word that is shared without it: the slots, the hints, the references  *)
(* and the owner words, which dispatch(), close() and the uncontended      *)
(* guard touch without the lock.  A timer is idle, armed or firing, as     *)
(* TimerService promises: disarm() waits for a callback that is firing.    *)
(* Events are dispatched by one poller at a time (polling_).               *)
(***************************************************************************)
EXTENDS Naturals, Sequences, FiniteSetsExt, Functions

CONSTANTS
    Slab,       \* the descriptors of the shard's slab, numbered from 1
    Sock,       \* Socket objects
    Fd,         \* file descriptor numbers, as small as the kernel keeps them
    Task,       \* tasks that operate on the sockets
    Token,      \* cancellation tokens
    MaxNow,     \* bound: the clock stops here
    Plan        \* programs: the calls of each task, the sockets open at the
                \* start, what they hold then and what their peers send

Dirs == {"r", "w"}

\* Who is in a slot when no task is.
Null == "null"
IoReady == "kIoReady"

ASSUME ReactorAssumption ==
    /\ MaxNow \in Nat
    /\ Fd \subseteq Nat \ {0}
    /\ Null \notin Task /\ IoReady \notin Task

VARIABLES
    slab,       \* IoDesc of each slab entry
    sock,       \* Socket: desc_, fd_, cancel_token_ and its hook
    kern,       \* the kernel's side of each fd
    task,       \* per task: where it is, and its frame
    ops,        \* per task: the calls it has still to make
    poller,     \* the event being dispatched
    cancelled,  \* tokens whose flag is set
    swept,      \* tokens whose hooks have been taken out to be run
    hooks,      \* per token: the (descriptor, generation) pairs registered
    stop,       \* Scheduler::stop_
    now,        \* the clock
    input       \* what the peers will still send

vars == <<slab, sock, kern, task, ops, poller, cancelled, swept, hooks,
          stop, now, input>>

-----------------------------------------------------------------------------
(* Descriptors.                                                            *)

\* A slab entry that no socket has used yet.
IoDesc ==
    [slot |-> [d \in Dirs |-> Null], fd |-> 0, gen |-> 0, refs |-> 0,
     closing |-> TRUE, active |-> [d \in Dirs |-> FALSE],
     owner |-> [d \in Dirs |-> <<>>], pinned |-> [d \in Dirs |-> FALSE],
     queue |-> [d \in Dirs |-> <<>>], cancel |-> Null,
     timer |-> [d \in Dirs |-> [st |-> "idle", seq |-> 0, at |-> 0]],
     seq |-> [d \in Dirs |-> 1], expired |-> [d \in Dirs |-> 0],
     deadline |-> [d \in Dirs |-> 0], hint |-> [d \in Dirs |-> TRUE],
     updating |-> [d \in Dirs |-> Null]]

\* attach() prepares an entry for fd; its generation and its cancel_flag stay.
Attached(D, fd) ==
    [IoDesc EXCEPT !.fd = fd, !.gen = D.gen, !.refs = 1, !.closing = FALSE,
                   !.owner = D.owner, !.cancel = D.cancel]

free_desc(D) ==
    [D EXCEPT !.refs = 0, !.gen = @ + 1, !.fd = 0, !.closing = TRUE,
              !.slot = [d \in Dirs |-> Null], !.owner = [d \in Dirs |-> <<>>]]

release_desc(D) ==
    IF D.refs = 1 THEN free_desc(D) ELSE [D EXCEPT !.refs = @ - 1]

timed_out(D, d) ==
    /\ D.deadline[d] # 0
    /\ D.deadline[d] <= now \/ D.expired[d] = D.seq[d]

\* io_error(): the first reason for which an operation may not go on.
io_error(D, d, gen) ==
    CASE D.gen # gen \/ D.closing -> "closed"
      [] stop                     -> "shutdown"
      [] D.cancel \in cancelled   -> "cancelled"
      [] timed_out(D, d)          -> "timed_out"
      [] OTHER                    -> "ok"

\* Mutant: an edge that finds nobody waiting is dropped.
BugUnblocked(D, d) == [D EXCEPT !.slot[d] = IF @ \in Task THEN Null ELSE @]

\* unblock(): the slot afterwards, and the task that is taken out of it.
Unblocked(D, d) ==
    [D EXCEPT !.slot[d] = IF @ \in Task THEN Null ELSE IoReady]
Waiter(D, d) == {D.slot[d]} \cap Task

pin_operation(D, d) ==
    IF D.pinned[d] THEN D ELSE [D EXCEPT !.pinned[d] = TRUE, !.refs = @ + 1]

\* An operation of a foreign runtime pins the descriptor and its source.
publish_operation_lifetime(D, d, gen, foreign) ==
    IF foreign THEN [pin_operation(D, d) EXCEPT !.owner[d] = <<gen, TRUE>>]
    ELSE D

\* Mutant: the owner keeps its uncontended release.
BugJoined(D, d, g, t) ==
    [pin_operation(D, d) EXCEPT !.refs = @ + 1, !.queue[d] = Append(@, t)]
\* A waiter joins the FIFO: the owner is pinned and made to hand over.
Joined(D, d, g, t) ==
    [pin_operation(D, d) EXCEPT !.owner[d] = <<g, TRUE>>, !.refs = @ + 1,
                                !.queue[d] = Append(@, t)]

\* Mutant: the pin is dropped only when nobody takes over.
BugRelease(D, d, gen) ==
    IF D.gen # gen THEN D
    ELSE IF D.queue[d] # <<>> THEN [D EXCEPT !.queue[d] = Tail(@)]
    ELSE LET next == [D EXCEPT !.owner[d] = <<>>, !.pinned[d] = FALSE]
         IN  IF D.pinned[d] THEN release_desc(next) ELSE next
\* release_operation(): the next waiter becomes the owner, or nobody does.
release_operation(D, d, gen) ==
    LET next == IF D.queue[d] # <<>> THEN [D EXCEPT !.queue[d] = Tail(@)]
                ELSE [D EXCEPT !.owner[d] = <<>>, !.pinned[d] = FALSE]
    IN  IF D.gen # gen THEN D
        ELSE IF D.pinned[d] THEN release_desc(next) ELSE next

\* IoOperationGuard::reset().
GuardReset(D, d, gen) ==
    IF D.owner[d] = <<gen, FALSE>> THEN [D EXCEPT !.owner[d] = <<>>]
    ELSE release_operation(D, d, gen)
\* Mutant: a descriptor that is being closed resumes nobody.
BugNextOwner(D, d, gen) ==
    IF D.owner[d] = <<gen, FALSE>> \/ D.gen # gen \/ D.queue[d] = <<>>
       \/ D.closing THEN {}
    ELSE {Head(D.queue[d])}
NextOwner(D, d, gen) ==
    IF D.owner[d] = <<gen, FALSE>> \/ D.gen # gen \/ D.queue[d] = <<>> THEN {}
    ELSE {Head(D.queue[d])}

-----------------------------------------------------------------------------
(* The loops of the public operations, by shape: how the direction is      *)
(* entered (guard), whether may_be_ready() is asked first (hint), whether  *)
(* the native call runs under a lease, whether a short result clears the   *)
(* hint (short), and whether the call repeats until the span is out (all). *)

Loop(d, guard, hint, lease, short, all) ==
    [dir |-> d, guard |-> guard, hint |-> hint, lease |-> lease,
     short |-> short, all |-> all]

TcpRead       == Loop("r", "await", TRUE,  TRUE,  TRUE,  FALSE)
TcpWrite      == Loop("w", "await", TRUE,  TRUE,  TRUE,  TRUE)
TcpTryRead    == Loop("r", "try",   FALSE, TRUE,  TRUE,  FALSE)
TcpTryWrite   == Loop("w", "try",   FALSE, TRUE,  TRUE,  FALSE)
TcpAccept     == Loop("r", "await", TRUE,  TRUE,  FALSE, FALSE)
UdpReadFrom   == Loop("r", "await", FALSE, TRUE,  FALSE, FALSE)
UdpWriteTo    == Loop("w", "await", FALSE, TRUE,  FALSE, FALSE)
UnixRead      == Loop("r", "await", TRUE,  TRUE,  TRUE,  FALSE)
UnixWrite     == Loop("w", "await", TRUE,  TRUE,  TRUE,  TRUE)
UnixTryRead   == Loop("r", "try",   FALSE, TRUE,  TRUE,  FALSE)
UnixTryWrite  == Loop("w", "try",   FALSE, TRUE,  TRUE,  FALSE)
UnixAccept    == Loop("r", "await", FALSE, TRUE,  FALSE, FALSE)
PollableRead  == Loop("r", "none",  FALSE, FALSE, FALSE, FALSE)
PollableWrite == Loop("w", "none",  FALSE, FALSE, FALSE, TRUE)
AwaitConnect  == Loop("w", "connect", FALSE, FALSE, FALSE, FALSE)

\* The directions a deadline setter (set, set_..._timeout, clear) applies to.
TcpDeadline      == [all |-> <<"r", "w">>, read |-> <<"r">>, write |-> <<"w">>]
UdpDeadline      == [all |-> <<"r", "w">>, read |-> <<"r">>, write |-> <<"w">>]
UnixDeadline     == [all |-> <<"r", "w">>, read |-> <<"r">>, write |-> <<"w">>]
ListenerDeadline == [all |-> <<"r">>]

-----------------------------------------------------------------------------
(* Tasks.                                                                  *)

Idle == [pc |-> "idle", call |-> <<>>, x |-> 0, gen |-> 0, fd |-> 0, left |-> 0,
         n |-> 0, err |-> "ok", held |-> FALSE, ret |-> FALSE, todo |-> <<>>,
         list |-> {}, saved |-> 0]

Go(t, pc) == [task EXCEPT ![t].pc = pc]
Fail(t, pc, e) == [task EXCEPT ![t].pc = pc, ![t].err = e]
\* The call is over; its outcome stays in err until the next one.
Return(t, e) == [task EXCEPT ![t] = [Idle EXCEPT !.err = e, !.call = task[t].call,
                                                 !.saved = task[t].saved]]
\* The tasks of W are resumed with e; those of V now own the direction.
Resumed(f, W, e) ==
    [u \in Task |-> IF u \in W THEN [f[u] EXCEPT !.pc = "resume", !.err = e]
                    ELSE f[u]]
Admitted(f, V) ==
    [u \in Task |-> IF u \in V THEN [f[u] EXCEPT !.pc = "loop", !.held = TRUE,
                                                 !.ret = FALSE]
                    ELSE f[u]]

At(t, pc) == task[t].pc = pc
Desc(t) == slab[task[t].x]
Dir(t) == task[t].call.loop.dir
Store(t, D) == slab' = [slab EXCEPT ![task[t].x] = D]

KeepWorld == UNCHANGED <<sock, kern, ops, poller, cancelled, swept, hooks, stop,
                         now, input>>
KeepCalls == UNCHANGED <<poller, stop, now, input>>

\* capture_operation(): one incarnation of the socket, or why there is none.
Captured(s) ==
    LET x == sock[s].desc
    IN  CASE x = 0 -> "ebadf"
          [] x # 0 /\ (slab[x].closing \/ slab[x].fd # sock[s].fd) -> "closed"
          [] x # 0 /\ stop -> "shutdown"
          [] OTHER -> "ok"

\* The call starts on the incarnation it captures, at pc.
Enter(t, c, pc) ==
    LET x == sock[c.s].desc
    IN  /\ ops' = [ops EXCEPT ![t] = Tail(@)]
        /\ task' = [task EXCEPT ![t] = [Idle EXCEPT
                !.pc = pc, !.call = c, !.x = x, !.saved = task[t].saved,
                !.gen = IF x = 0 THEN 0 ELSE slab[x].gen, !.fd = sock[c.s].fd,
                !.left = c.want, !.todo = c.dirs]]

Refuse(t, c, e) ==
    /\ ops' = [ops EXCEPT ![t] = Tail(@)]
    /\ task' = [task EXCEPT ![t] = [Idle EXCEPT !.err = e, !.call = c,
                                                !.saved = task[t].saved]]

Calls(t, name) ==
    At(t, "idle") /\ ops[t] # <<>> /\ Head(ops[t]).name = name

-----------------------------------------------------------------------------
(* Opening a socket: adopt() and attach().                                 *)

Open(t) ==
    /\ Calls(t, "open")
    /\ LET c == Head(ops[t])
           f == Min({g \in Fd : kern[g].of = Null})
       IN  \/ /\ stop
              /\ Refuse(t, c, "shutdown")
              /\ UNCHANGED <<slab, kern>>
           \/ /\ ~stop
              /\ \A x \in Slab : slab[x].refs # 0
              /\ Refuse(t, c, "enomem")
              /\ UNCHANGED <<slab, kern>>
           \/ /\ ~stop
              /\ \E x \in Slab :
                    /\ slab[x].refs = 0
                    /\ slab' = [slab EXCEPT ![x] = Attached(@, f)]
                    /\ ops' = [ops EXCEPT ![t] = Tail(@)]
                    /\ task' = [task EXCEPT ![t] = [Idle EXCEPT
                            !.pc = "add", !.call = c, !.x = x, !.fd = f]]
              /\ kern' = [kern EXCEPT ![f] = [of |-> c.s, avail |-> c.avail,
                                    fin |-> FALSE, tok |-> <<>>, ev |-> FALSE]]
    /\ UNCHANGED <<sock, cancelled, swept, hooks>> /\ KeepCalls

\* The directions the kernel would report for fd now (Reactor::poll()).
ReadyDirs(f) ==
    (IF kern[f].avail["r"] > 0 \/ kern[f].fin THEN <<"r">> ELSE <<>>)
        \o (IF kern[f].avail["w"] > 0 THEN <<"w">> ELSE <<>>)

\* EPOLL_CTL_ADD reports at once what is ready; it refuses what has no poll.
EpollAdd(t) ==
    /\ At(t, "add")
    /\ LET f == task[t].fd
           s == task[t].call.s
       IN  IF task[t].call.want = 0
           THEN /\ Store(t, release_desc([Desc(t) EXCEPT !.closing = TRUE]))
                /\ kern' = [kern EXCEPT ![f].of = Null]
                /\ task' = Return(t, "eperm")
                /\ UNCHANGED sock
           ELSE /\ kern' = [kern EXCEPT ![f].tok = <<task[t].x, Desc(t).gen>>,
                                        ![f].ev = ReadyDirs(f) # <<>>]
                /\ sock' = [sock EXCEPT ![s] = [desc |-> task[t].x, fd |-> f,
                                                token |-> Null, hook |-> <<>>]]
                /\ task' = Return(t, "ok")
                /\ UNCHANGED slab
    /\ UNCHANGED <<ops, cancelled, swept, hooks>> /\ KeepCalls

-----------------------------------------------------------------------------
(* One read, write or accept.                                              *)

Begin(t) ==
    /\ Calls(t, "io")
    /\ LET c == Head(ops[t])
           e == IF c.loop.lease \/ sock[c.s].desc = 0 THEN Captured(c.s) ELSE "ok"
       IN  IF e # "ok" THEN Refuse(t, c, e)
           ELSE Enter(t, c, CASE c.loop.guard = "none" -> "loop"
                              [] c.loop.guard = "connect" -> "await"
                              [] OTHER -> "guard")
    /\ UNCHANGED <<slab, sock, kern, cancelled, swept, hooks>> /\ KeepCalls

\* IoOperationAwaiter::await_ready() and try_lock_io_operation(): the exchange.
TakeGuard(t) ==
    /\ At(t, "guard")
    /\ IF Desc(t).owner[Dir(t)] = <<>>
       THEN /\ Store(t, [Desc(t) EXCEPT !.owner[Dir(t)] = <<task[t].gen, FALSE>>])
            /\ task' = [task EXCEPT ![t].pc = "validate", ![t].held = TRUE]
       ELSE /\ task' = IF task[t].call.loop.guard = "try"
                       THEN Return(t, "would_block") ELSE Go(t, "queue")
            /\ UNCHANGED slab
    /\ KeepWorld

validate_operation_owner(t) ==
    /\ At(t, "validate")
    /\ LET D == Desc(t)
           g == task[t].gen
           far == task[t].call.foreign
           lost == far /\ D.owner[Dir(t)] \notin {<<g, FALSE>>, <<g, TRUE>>}
           e == IF io_error(D, Dir(t), g) = "ok" /\ lost THEN "closed"
                ELSE io_error(D, Dir(t), g)
       IN  IF e = "ok"
           THEN /\ Store(t, publish_operation_lifetime(D, Dir(t), g, far))
                /\ task' = Go(t, "loop")
           ELSE /\ task' = Fail(t, "finish", e)
                /\ UNCHANGED slab
    /\ KeepWorld

\* IoOperationAwaiter::await_suspend(): take the direction, or join its FIFO.
QueueOperation(t) ==
    /\ At(t, "queue")
    /\ LET D == Desc(t)
           d == Dir(t)
           g == task[t].gen
           far == task[t].call.foreign
           e == IF io_error(D, d, g) # "ok" THEN io_error(D, d, g)
                ELSE IF D.owner[d] \in {<<>>, <<g, FALSE>>, <<g, TRUE>>} THEN "ok"
                ELSE "closed"
       IN  \/ /\ e # "ok"
              /\ task' = Fail(t, "finish", e)
              /\ UNCHANGED slab
           \/ /\ e = "ok" /\ D.owner[d] = <<>>
              /\ Store(t, publish_operation_lifetime(
                            [D EXCEPT !.owner[d] = <<g, FALSE>>], d, g, far))
              /\ task' = Admitted(task, {t})
           \/ /\ e = "ok" /\ D.owner[d] # <<>>
              /\ Store(t, Joined(D, d, g, t))
              /\ task' = [task EXCEPT ![t].pc = "queued", ![t].ret = TRUE]
    /\ KeepWorld

\* The head of the loop: begin_syscall() when a native call is worth making.
begin_syscall(t) ==
    /\ At(t, "loop")
    /\ LET D == Desc(t)
           loop == task[t].call.loop
           e == io_error(D, loop.dir, task[t].gen)
       IN  IF loop.hint /\ ~D.hint[loop.dir]
           THEN task' = Go(t, "await") /\ UNCHANGED slab
           ELSE IF ~loop.lease
           THEN task' = Go(t, "syscall") /\ UNCHANGED slab
           ELSE IF e # "ok" \/ D.active[loop.dir]
           THEN /\ task' = Fail(t, "finish", IF e # "ok" THEN e ELSE "broken")
                /\ UNCHANGED slab
           ELSE /\ Store(t, [D EXCEPT !.active[loop.dir] = TRUE])
                /\ task' = [task EXCEPT ![t].pc = "syscall", ![t].fd = D.fd]
    /\ KeepWorld

\* The native call: what it moves, "eof", or "again".
Syscall(t) ==
    /\ At(t, "syscall")
    /\ LET f == task[t].fd
           d == Dir(t)
           n == IF kern[f].avail[d] < task[t].left THEN kern[f].avail[d]
                ELSE task[t].left
           moved == IF task[t].call.loop.guard = "connect" THEN 0 ELSE n
       IN  /\ kern' = [kern EXCEPT ![f].avail[d] = @ - moved]
           /\ task' = [task EXCEPT ![t].pc = "settle", ![t].n = n,
                ![t].err = IF n > 0 THEN "ok"
                           ELSE IF d = "r" /\ kern[f].fin THEN "eof" ELSE "again"]
    /\ UNCHANGED <<slab, sock, ops, cancelled, swept, hooks>> /\ KeepCalls

\* note_would_block() where the loop calls it, and the end of the lease.
Settle(t) ==
    /\ At(t, "settle")
    /\ LET loop == task[t].call.loop
           d == loop.dir
           again == task[t].err = "again"
           left == task[t].left - task[t].n
           dry == IF again THEN loop.lease \/ loop.guard = "connect"
                  ELSE loop.short /\ left > 0
       IN  /\ Store(t, [Desc(t) EXCEPT
                    !.hint[d] = @ /\ ~dry,
                    !.active[d] = IF loop.lease THEN FALSE ELSE @])
           /\ task' = [task EXCEPT ![t].left = left,
                ![t].err = IF again /\ loop.guard # "try" THEN "ok" ELSE @,
                ![t].pc = IF again /\ loop.guard # "try" THEN "await"
                          ELSE IF loop.all /\ left > 0 /\ ~again THEN "loop"
                          ELSE "finish"]
    /\ KeepWorld

\* IoAwaiter::await_suspend().
Await(t) ==
    /\ At(t, "await")
    /\ LET D == Desc(t)
           d == Dir(t)
           g == IF task[t].call.loop.guard = "none" THEN D.gen ELSE task[t].gen
           e == io_error(D, d, g)
       IN  \/ /\ e # "ok"
              /\ task' = Fail(t, "finish", e)
              /\ UNCHANGED slab
           \/ /\ e = "ok"
              /\ Store(t, [D EXCEPT !.refs = @ + 1,
                            !.slot[d] = CASE @ = IoReady -> Null
                                          [] @ = Null -> t
                                          [] OTHER -> @])
              /\ task' = [task EXCEPT ![t].ret = TRUE, ![t].gen = g,
                    ![t].err = IF D.slot[d] \in Task THEN "broken" ELSE "ok",
                    ![t].pc = CASE D.slot[d] = IoReady -> "resume"
                                [] D.slot[d] = Null -> "parked"
                                [] OTHER -> "drop"]
    /\ KeepWorld

\* IoAwaiter::await_resume(): the waker's error wins over any later state.
AwaitResume(t) ==
    /\ At(t, "resume")
    /\ LET e == IF task[t].err # "ok" THEN task[t].err
                ELSE io_error(Desc(t), Dir(t), task[t].gen)
       IN  /\ task' = Fail(t, "drop", e)
           /\ IF e = "ok" THEN Store(t, [Desc(t) EXCEPT !.hint[Dir(t)] = TRUE])
              ELSE UNCHANGED slab
    /\ KeepWorld

\* ~IoAwaiter().
DropAwaiter(t) ==
    /\ At(t, "drop")
    /\ Store(t, release_desc(Desc(t)))
    /\ task' = [task EXCEPT ![t].ret = FALSE,
                    ![t].pc = IF task[t].err = "ok" THEN "loop" ELSE "finish"]
    /\ KeepWorld

\* The operation returns, and its guard with it.
Finish(t) ==
    /\ At(t, "finish")
    /\ IF task[t].held
       THEN /\ Store(t, GuardReset(Desc(t), Dir(t), task[t].gen))
            /\ task' = Admitted(Return(t, task[t].err),
                                NextOwner(Desc(t), Dir(t), task[t].gen))
       ELSE /\ task' = Return(t, task[t].err)
            /\ UNCHANGED slab
    /\ KeepWorld

Operation(t) ==
    \/ Begin(t) \/ TakeGuard(t) \/ validate_operation_owner(t)
    \/ QueueOperation(t) \/ begin_syscall(t) \/ Syscall(t)
    \/ Settle(t) \/ Await(t) \/ AwaitResume(t) \/ DropAwaiter(t) \/ Finish(t)

-----------------------------------------------------------------------------
(* Deadlines: apply_deadline() and Reactor::set_deadline(), one direction  *)
(* after the other; Timeout saves a deadline and puts it back.             *)

SetDeadline(t) ==
    /\ Calls(t, "deadline")
    /\ LET c == Head(ops[t])
           e == Captured(c.s)
       IN  IF e # "ok" THEN Refuse(t, c, e) ELSE Enter(t, c, "update")
    /\ UNCHANGED <<slab, sock, kern, cancelled, swept, hooks>> /\ KeepCalls

\* Socket::deadline().
SaveDeadline(t) ==
    /\ Calls(t, "save")
    /\ LET c == Head(ops[t])
           x == sock[c.s].desc
       IN  /\ ops' = [ops EXCEPT ![t] = Tail(@)]
           /\ task' = [task EXCEPT ![t].saved =
                IF Captured(c.s) # "ok" THEN 0 ELSE slab[x].deadline[c.dirs[1]]]
    /\ UNCHANGED <<slab, sock, kern, cancelled, swept, hooks>> /\ KeepCalls

\* Timeout::tightest(), and what restore() sets.
Requested(t) ==
    CASE task[t].call.mode = "scope" /\ task[t].saved # 0 ->
            Min({task[t].saved, task[t].call.val})
      [] task[t].call.mode = "restore" -> task[t].saved
      [] OTHER -> task[t].call.val

\* The next direction, or the end of the call.
NextDir(t) ==
    IF Len(task[t].todo) = 1 THEN Return(t, "ok")
    ELSE [task EXCEPT ![t].todo = Tail(@), ![t].pc = "update"]

Live(t) == /\ Desc(t).gen = task[t].gen /\ ~Desc(t).closing /\ ~stop

\* Validate and pin before disarm() may have to wait for a callback.
PinForUpdate(t) ==
    /\ At(t, "update")
    /\ LET d == Head(task[t].todo)
       IN  /\ Desc(t).updating[d] = Null
           /\ IF Live(t)
              THEN /\ Store(t, [Desc(t) EXCEPT !.refs = @ + 1, !.updating[d] = t])
                   /\ task' = Go(t, "disarm")
              ELSE task' = NextDir(t) /\ UNCHANGED slab
    /\ KeepWorld

Disarm(t) ==
    /\ At(t, "disarm")
    /\ LET d == Head(task[t].todo)
       IN  /\ Desc(t).timer[d].st # "firing"
           /\ Store(t, [Desc(t) EXCEPT !.timer[d].st = "idle"])
    /\ task' = Go(t, "rearm")
    /\ KeepWorld

\* The new configuration of direction d, stamped with the next sequence.
Rearmed(D, d, at) ==
    LET q == D.seq[d] + 1
        E == [D EXCEPT !.seq[d] = q, !.deadline[d] = at]
    IN  CASE at = 0   -> E
          [] at # 0 /\ at <= now -> Unblocked([E EXCEPT !.expired[d] = q], d)
          [] OTHER    -> [E EXCEPT !.timer[d] = [st |-> "armed", seq |-> q,
                                                 at |-> at]]

Rearm(t) ==
    /\ At(t, "rearm")
    /\ LET d == Head(task[t].todo)
           at == Requested(t)
           D == [Desc(t) EXCEPT !.updating[d] = Null]
       IN  IF Live(t)
           THEN /\ Store(t, release_desc(Rearmed(D, d, at)))
                /\ task' = Resumed(NextDir(t), IF at # 0 /\ at <= now
                                        THEN Waiter(D, d) ELSE {}, "timed_out")
           ELSE /\ Store(t, release_desc(D))
                /\ task' = NextDir(t)
    /\ KeepWorld

\* The timer service takes a due node out of its heap, then runs on_deadline().
Fire(x, d) ==
    /\ slab[x].timer[d].st = "armed" /\ slab[x].timer[d].at <= now
    /\ slab' = [slab EXCEPT ![x].timer[d].st = "firing"]
    /\ UNCHANGED task /\ KeepWorld

on_deadline(x, d) ==
    /\ slab[x].timer[d].st = "firing"
    /\ LET D == [slab[x] EXCEPT !.timer[d].st = "idle"]
           q == D.timer[d].seq
       IN  IF ~D.closing /\ q = D.seq[d]
           THEN /\ slab' = [slab EXCEPT ![x] =
                                Unblocked([D EXCEPT !.expired[d] = q], d)]
                /\ task' = Resumed(task, Waiter(D, d), "timed_out")
           ELSE /\ slab' = [slab EXCEPT ![x] = D]
                /\ UNCHANGED task
    /\ KeepWorld

-----------------------------------------------------------------------------
(* Cancellation: Socket::set_cancel(), CancelState and cancel_waiters().   *)

Unhooked(s) ==
    [k \in Token |-> IF sock[s].hook # <<>> /\ sock[s].hook[1] = k
                     THEN hooks[k] \ {Tail(sock[s].hook)} ELSE hooks[k]]

\* The flag is published before the hook is registered.
SetCancel(t) ==
    /\ Calls(t, "bind")
    /\ LET c == Head(ops[t])
           x == sock[c.s].desc
           ok == Captured(c.s) = "ok"
       IN  /\ hooks' = Unhooked(c.s)
           /\ sock' = [sock EXCEPT ![c.s].hook = <<>>, ![c.s].token = c.tok]
           /\ slab' = IF ok THEN [slab EXCEPT ![x].cancel = c.tok] ELSE slab
           /\ IF ok /\ c.tok # Null THEN Enter(t, c, "hook")
              ELSE Refuse(t, c, Captured(c.s))
    /\ UNCHANGED <<kern, cancelled, swept>> /\ KeepCalls

AddHook(t) ==
    /\ At(t, "hook")
    /\ LET k == task[t].call.tok
           h == <<task[t].x, task[t].gen>>
       IN  IF k \in swept
           THEN task' = Go(t, "wake") /\ UNCHANGED <<sock, hooks>>
           ELSE /\ hooks' = [hooks EXCEPT ![k] = @ \cup {h}]
                /\ sock' = [sock EXCEPT ![task[t].call.s].hook = <<k>> \o h]
                /\ task' = Return(t, "ok")
    /\ UNCHANGED <<slab, kern, ops, cancelled, swept>> /\ KeepCalls

\* Both directions of a live incarnation fail with Errc::cancelled.
cancel_waiters(f, x, g) ==
    LET D == slab[x]
    IN  IF D.closing \/ D.gen # g THEN UNCHANGED slab /\ task' = f
        ELSE /\ slab' = [slab EXCEPT ![x] = Unblocked(Unblocked(D, "r"), "w")]
             /\ task' = Resumed(f, Waiter(D, "r") \cup Waiter(D, "w"), "cancelled")

\* Already cancelled: nothing will call back, so wake now.
WakeNow(t) ==
    /\ At(t, "wake")
    /\ cancel_waiters(Return(t, "ok"), task[t].x, task[t].gen)
    /\ KeepWorld

Cancel(t) ==
    /\ Calls(t, "cancel")
    /\ LET c == Head(ops[t])
       IN  IF c.tok \in cancelled THEN Refuse(t, c, "ok") /\ UNCHANGED cancelled
           ELSE /\ cancelled' = cancelled \cup {c.tok}
                /\ Enter(t, c, "sweep")
    /\ UNCHANGED <<slab, sock, kern, swept, hooks>> /\ KeepCalls

Sweep(t) ==
    /\ At(t, "sweep")
    /\ LET k == task[t].call.tok
       IN  /\ swept' = swept \cup {k}
           /\ hooks' = [hooks EXCEPT ![k] = {}]
           /\ task' = [task EXCEPT ![t].pc = "hooks", ![t].list = hooks[k]]
    /\ UNCHANGED <<slab, sock, kern, ops, cancelled>> /\ KeepCalls

\* SocketCancelHook::on_cancel() of a hook that was swept; inert once retired.
RunHook(t) ==
    /\ At(t, "hooks")
    /\ \/ /\ task[t].list = {}
          /\ task' = Return(t, "ok")
          /\ UNCHANGED slab
       \/ \E h \in task[t].list :
             LET f == [task EXCEPT ![t].list = @ \ {h}]
             IN  IF \E s \in Sock : sock[s].hook = <<task[t].call.tok>> \o h
                 THEN cancel_waiters(f, h[1], h[2])
                 ELSE task' = f /\ UNCHANGED slab
    /\ KeepWorld

-----------------------------------------------------------------------------
(* Socket::close() and Reactor::detach().                                  *)

Close(t) ==
    /\ Calls(t, "close")
    /\ LET c == Head(ops[t])
           x == sock[c.s].desc
       IN  /\ hooks' = Unhooked(c.s)
           /\ sock' = [sock EXCEPT ![c.s].hook = <<>>, ![c.s].desc = 0,
                                   ![c.s].fd = 0]
           /\ IF x = 0 THEN Refuse(t, c, "ok") /\ UNCHANGED slab
              ELSE /\ Enter(t, c, "unarm")
                   /\ slab' = [slab EXCEPT ![x].closing = TRUE]
    /\ UNCHANGED <<kern, cancelled, swept>> /\ KeepCalls

\* disarm() of each direction waits for its callback and invalidates it.
Unarm(t) ==
    /\ At(t, "unarm")
    /\ LET d == Head(task[t].todo)
       IN  /\ Desc(t).timer[d].st # "firing"
           /\ Store(t, [Desc(t) EXCEPT !.timer[d].st = "idle", !.seq[d] = @ + 1])
    /\ task' = IF Len(task[t].todo) = 1 THEN Go(t, "del")
               ELSE [task EXCEPT ![t].todo = Tail(@)]
    /\ KeepWorld

EpollDel(t) ==
    /\ At(t, "del")
    /\ kern' = [kern EXCEPT ![task[t].fd].tok = <<>>, ![task[t].fd].ev = FALSE]
    /\ task' = [task EXCEPT ![t].pc = "unblock", ![t].todo = task[t].call.dirs]
    /\ UNCHANGED <<slab, sock, ops, cancelled, swept, hooks>> /\ KeepCalls

UnblockClosed(t) ==
    /\ At(t, "unblock")
    /\ LET d == Head(task[t].todo)
           f == IF Len(task[t].todo) = 1 THEN Go(t, "leases")
                ELSE [task EXCEPT ![t].todo = Tail(@)]
       IN  /\ Store(t, Unblocked(Desc(t), d))
           /\ task' = Resumed(f, Waiter(Desc(t), d), "closed")
    /\ KeepWorld

\* Mutant: the loop over the directions stops one short.
BugWait(t) ==
    /\ At(t, "leases")
    /\ ~Desc(t).active["w"]
    /\ Store(t, release_desc(Desc(t)))
    /\ task' = Go(t, "closefd")
    /\ KeepWorld
wait_for_syscalls(t) ==
    /\ At(t, "leases")
    /\ \A d \in Dirs : ~Desc(t).active[d]
    /\ Store(t, release_desc(Desc(t)))
    /\ task' = Go(t, "closefd")
    /\ KeepWorld

CloseFd(t) ==
    /\ At(t, "closefd")
    /\ kern' = [kern EXCEPT ![task[t].fd].of = Null]
    /\ task' = Return(t, "ok")
    /\ UNCHANGED <<slab, sock, ops, cancelled, swept, hooks>> /\ KeepCalls

-----------------------------------------------------------------------------
(* The kernel and the poller: wait_for_events() and dispatch().            *)

Quiet == [pc |-> "idle", x |-> 0, gen |-> 0, dirs |-> <<>>]

KeepTasks == UNCHANGED <<sock, ops, cancelled, swept, hooks, stop, now, input>>

\* One edge per change; what it reports is what is ready when it is fetched.
Poll(f) ==
    /\ poller.pc = "idle" /\ kern[f].ev
    /\ kern' = [kern EXCEPT ![f].ev = FALSE]
    /\ poller' = IF ReadyDirs(f) = <<>> THEN poller
                 ELSE [pc |-> "check", x |-> kern[f].tok[1],
                       gen |-> kern[f].tok[2], dirs |-> ReadyDirs(f)]
    /\ UNCHANGED <<slab, task>> /\ KeepTasks

\* dispatch(): a cheap check, a pin that never revives, and a second check.
Dispatch ==
    LET D == slab[poller.x]
        d == Head(poller.dirs)
        Put(E) == slab' = [slab EXCEPT ![poller.x] = E]
        To(pc) == poller' = [poller EXCEPT !.pc = pc]
        End == poller' = Quiet
    IN  /\ \/ /\ poller.pc = "check"
              /\ IF D.gen # poller.gen THEN End ELSE To("pin")
              /\ UNCHANGED <<slab, task>>
           \/ /\ poller.pc = "pin"
              /\ IF D.refs = 0 THEN End /\ UNCHANGED slab
                 ELSE To("recheck") /\ Put([D EXCEPT !.refs = @ + 1])
              /\ UNCHANGED task
           \/ /\ poller.pc = "recheck"
              /\ IF D.gen # poller.gen \/ D.closing
                 THEN End /\ Put(release_desc(D))
                 ELSE To("hint") /\ UNCHANGED slab
              /\ UNCHANGED task
           \/ /\ poller.pc = "hint"
              /\ Put([D EXCEPT !.hint[d] = TRUE])
              /\ To("take")
              /\ UNCHANGED task
           \/ /\ poller.pc = "take"
              /\ Put(Unblocked(D, d))
              /\ task' = Resumed(task, Waiter(D, d), "ok")
              /\ poller' = [poller EXCEPT !.dirs = Tail(@),
                        !.pc = IF Len(poller.dirs) = 1 THEN "unpin" ELSE "hint"]
           \/ /\ poller.pc = "unpin"
              /\ Put(release_desc(D))
              /\ End
              /\ UNCHANGED task
        /\ UNCHANGED kern /\ KeepTasks

\* The peer sends, drains what was written, or closes its side.
Peer(f) ==
    /\ kern[f].of # Null
    /\ LET s == kern[f].of
       IN  /\ input[s] # <<>>
           /\ input' = [input EXCEPT ![s] = Tail(@)]
           /\ kern' = [kern EXCEPT ![f] =
                [@ EXCEPT !.ev = kern[f].tok # <<>>,
                          !.fin = @ \/ Head(input[s]) = "fin",
                          !.avail = [d \in Dirs |-> IF d = Head(input[s])
                                                    THEN @[d] + 1 ELSE @[d]]]]
    /\ UNCHANGED <<slab, sock, task, ops, poller, cancelled, swept, hooks, stop,
                   now>>

\* The clock moves while a timer is armed: nothing else tells instants apart.
Tick ==
    /\ now < MaxNow
    /\ \E x \in Slab, d \in Dirs : slab[x].timer[d].st = "armed"
    /\ now' = now + 1
    /\ UNCHANGED <<slab, sock, kern, task, ops, poller, cancelled, swept, hooks,
                   stop, input>>

\* Scheduler::shutdown() publishes stop_.
Stop(t) ==
    /\ Calls(t, "stop")
    /\ stop' = TRUE
    /\ Refuse(t, Head(ops[t]), "ok")
    /\ UNCHANGED <<slab, sock, kern, poller, cancelled, swept, hooks, now, input>>

-----------------------------------------------------------------------------
Init ==
    /\ \E p \in Plan :
          /\ ops = p.ops /\ input = p.input
          /\ slab = [x \in Slab |-> IF x > Len(p.open) THEN IoDesc
                                    ELSE Attached(IoDesc, x)]
          /\ sock = [s \in Sock |->
                LET x == Max({y \in DOMAIN p.open : p.open[y] = s} \cup {0})
                IN  [desc |-> x, fd |-> x, token |-> Null, hook |-> <<>>]]
          /\ kern = [f \in Fd |->
                LET up == f <= Len(p.open)
                IN  [of |-> IF up THEN p.open[f] ELSE Null, avail |-> p.avail,
                     fin |-> FALSE, tok |-> IF up THEN <<f, 0>> ELSE <<>>,
                     ev |-> up /\ p.avail # [d \in Dirs |-> 0]]]
    /\ task = [t \in Task |-> Idle]
    /\ poller = Quiet
    /\ cancelled = {} /\ swept = {} /\ hooks = [k \in Token |-> {}]
    /\ stop = FALSE /\ now = 1

Step(t) ==
    \/ Operation(t) \/ Open(t) \/ EpollAdd(t) \/ SetDeadline(t) \/ SaveDeadline(t)
    \/ PinForUpdate(t) \/ Disarm(t) \/ Rearm(t) \/ SetCancel(t) \/ AddHook(t)
    \/ WakeNow(t) \/ Cancel(t) \/ Sweep(t) \/ RunHook(t) \/ Close(t) \/ Unarm(t)
    \/ EpollDel(t) \/ UnblockClosed(t) \/ wait_for_syscalls(t) \/ CloseFd(t)
    \/ Stop(t)

Timers == \E x \in Slab, d \in Dirs : Fire(x, d) \/ on_deadline(x, d)
Polls == Dispatch \/ \E f \in Fd : Poll(f)

Next ==
    \/ \E t \in Task : Step(t)
    \/ Timers \/ Polls \/ Tick
    \/ \E f \in Fd : Peer(f)

\* Workers run what is scheduled, the shard is polled and due timers fire
\* (Scheduler, TimerService); peers and the clock promise nothing.
Spec ==
    /\ Init /\ [][Next]_vars
    /\ \A t \in Task : WF_vars(Step(t))
    /\ WF_vars(Timers) /\ WF_vars(Polls)

-----------------------------------------------------------------------------
(* Properties.                                                             *)

Closing(t) == task[t].pc \in {"unarm", "del", "unblock", "leases"}

\* Every reference of a descriptor has a holder and every holder a reference
\* (IoDesc::refs): the socket or the task that closes it, each task that waits
\* in a slot or in the FIFO, the pinned owner of each direction, a setter that
\* waits for a callback, and the event being dispatched.  Only then is a
\* descriptor recycled exactly when nobody can reach it.
RefsCounted ==
    \A x \in Slab :
        slab[x].refs =
            Cardinality({s \in Sock : sock[s].desc = x})
            + Cardinality({t \in Task : task[t].x = x /\
                    (Closing(t) \/ At(t, "add") \/ task[t].ret
                     \/ At(t, "disarm") \/ At(t, "rearm"))})
            + Cardinality({d \in Dirs : slab[x].pinned[d]})
            + (IF poller.pc \in {"recheck", "hint", "take", "unpin"}
                  /\ poller.x = x THEN 1 ELSE 0)

\* A native call under a lease runs on the fd of the socket the operation was
\* started on (FdUseGuard, wait_for_syscalls()): the number has not been closed
\* and given to another socket, however close() and open() interleave with it.
LeasedFdIsMine ==
    \A t \in Task :
        task[t].pc \in {"syscall", "settle"} /\ task[t].call.loop.lease
            => kern[task[t].fd].of = task[t].call.s

\* One whole operation at a time owns a direction of a live incarnation
\* (IoOperationGuard), and whoever waits in its FIFO waits for such an owner.
OneOperation ==
    \A x \in Slab, d \in Dirs :
        LET own == {t \in Task : task[t].held /\ task[t].x = x /\ Dir(t) = d
                                    /\ task[t].gen = slab[x].gen}
        IN  /\ Cardinality(own) <= 1
            /\ slab[x].queue[d] # <<>> => own # {}

Reached(x, d) ==
    \/ \E f \in Fd : kern[f].ev /\ kern[f].tok = <<x, slab[x].gen>>
    \/ /\ poller.pc # "idle" /\ poller.x = x /\ poller.gen = slab[x].gen
       /\ d \in Range(poller.dirs)

\* A task is parked in a slot only while the wake it waits for is still to
\* come (IoAwaiter, unblock_impl()): if data is there, an edge is on its way;
\* if the socket is being closed, the closer has not passed this slot; if the
\* deadline is over, its timer is armed or firing or about to be replaced; if
\* the token is cancelled, its hook is still to be run.
NoLostWakeup ==
    \A x \in Slab, d \in Dirs :
        slab[x].slot[d] \in Task =>
            IF slab[x].closing
            THEN \E t \in Task :
                    /\ task[t].x = x
                    /\ \/ task[t].pc \in {"unarm", "del"}
                       \/ At(t, "unblock") /\ d \in Range(task[t].todo)
            ELSE /\ kern[slab[x].fd].avail[d] > 0 => Reached(x, d)
                 /\ timed_out(slab[x], d) /\ ~stop =>
                        \/ slab[x].timer[d].st \in {"armed", "firing"}
                        \/ slab[x].updating[d] # Null
                 /\ slab[x].cancel \in cancelled =>
                        \E t \in Task :
                            \/ At(t, "sweep") /\ task[t].call.tok = slab[x].cancel
                            \/ /\ At(t, "hooks")
                               /\ <<x, slab[x].gen>> \in task[t].list
                            \/ task[t].x = x /\ task[t].pc \in {"hook", "wake"}

InOperation(t) == task[t].pc # "idle" /\ task[t].call.name = "io"
Doomed(t) ==
    /\ InOperation(t)
    /\ \/ Desc(t).gen # task[t].gen \/ Desc(t).closing
       \/ Desc(t).cancel \in cancelled
\* An operation whose incarnation has been closed, or whose token has been
\* cancelled, ends, wherever it waits (Socket::close(), set_cancel()).
OperationsEnd == \A t \in Task : Doomed(t) ~> ~InOperation(t)

\* Reading again after the last byte reports the end of the stream: a reader is
\* not left parked once the peer has closed its side (TcpConn::read()).
EndOfStreamIsSeen ==
    \A x \in Slab :
        slab[x].slot["r"] \in Task /\ kern[slab[x].fd].fin /\ ~slab[x].closing
            => Reached(x, "r")

\* An operation fails with Errc::cancelled only because the token bound to its
\* own socket was cancelled (Socket::set_cancel()).
CancelledByOwnToken ==
    \A t \in Task :
        task[t].err = "cancelled" => sock[task[t].call.s].token \in cancelled

=============================================================================
