---------------------------- MODULE BlockingPool ----------------------------
(***************************************************************************)
(* The blocking pool (blocking_pool.cpp, blocking.hpp): a task submits a    *)
(* job and is parked until a pool thread has run it.  File operations have  *)
(* an admission limit of their own; threads are started on demand, retire   *)
(* when idle, and drain the queue on shutdown.  What one thread does under  *)
(* mutex_ is one step, on the record pool of all that mutex_ protects.      *)
(***************************************************************************)
EXTENDS Tasks

CONSTANTS
  Thread,       \* as many as max_threads
  NoJob,
  MaxQueue,     \* limits_.max_queue
  FileLimit     \* limits_.max_file_operations

VARIABLE pool

poolVars == <<pool>>

PoolInit ==
  pool = [queue    |-> <<>>,       \* the jobs, named after the tasks they park
          waiting  |-> <<>>,       \* parked for admission: file operations only
          inflight |-> 0,          \* class_inflight_ of file operations
          stopping |-> FALSE,
          threads  |-> [w \in Thread |-> [at |-> "none", job |-> NoJob, file |-> FALSE]]]

Limited(t) == op[t] = "file"
Where(p, l) == {w \in Thread : p.threads[w].at = l}
Living(p) == Thread \ Where(p, "none")
Idle(p) == UNION {Where(p, l) : l \in {"waiting", "notified", "timed_out"}}
Put(p, w, l) == [p EXCEPT !.threads[w].at = l]

(* cv_.notify_one; any waiting thread will do.  One that has timed out and   *)
(* not yet got the lock is idle to the others, but no longer waits.          *)
notify_one(p) ==
  IF Where(p, "waiting") = {} THEN p
  ELSE Put(p, CHOOSE w \in Where(p, "waiting") : TRUE, "notified")

(* enqueue_locked; launched says whether the system gives a new thread.     *)
NeedThread(p) == Len(p.queue) + 1 > Cardinality(Idle(p)) /\ Living(p) # Thread
Refused(p, launched) == NeedThread(p) /\ ~launched /\ Living(p) = {}
enqueue_locked(p, t, launched) ==
  LET q == [p EXCEPT !.queue = Append(@, t)] IN
  IF NeedThread(p) /\ launched
  THEN Put(q, CHOOSE w \in Thread \ Living(p) : TRUE, "starting") ELSE q

(* The rest of the locked section of a worker's loop: take a job, retire, or
   wait.  A thread that is there makes enqueue_locked succeed. *)
BugTakeOrWait(p, w, timed_out) ==      \* retires without looking again
  IF timed_out THEN Put(p, w, "none")
  ELSE IF p.queue # <<>>
  THEN [p EXCEPT !.queue = Tail(@),
                 !.threads[w] = [at |-> "running", job |-> Head(p.queue),
                                 file |-> Limited(Head(p.queue))]]
  ELSE Put(p, w, IF p.stopping THEN "none" ELSE "waiting")

TakeOrWait(p, w, timed_out) ==
  IF p.queue # <<>>
  THEN [p EXCEPT !.queue = Tail(@),
                 !.threads[w] = [at |-> "running", job |-> Head(p.queue),
                                 file |-> Limited(Head(p.queue))]]
  ELSE Put(p, w, IF p.stopping \/ timed_out THEN "none" ELSE "waiting")

release_admission_locked(p, launched) ==
  IF p.waiting = <<>> THEN [p EXCEPT !.inflight = @ - 1]
  ELSE notify_one(enqueue_locked([p EXCEPT !.waiting = Tail(@)], Head(p.waiting), launched))

-----------------------------------------------------------------------------
(* submit, from BlockingAwaiter::await_suspend.                             *)
Submit(t) ==
  \E o \in {"file", "generic"}, launched \in BOOLEAN :
    LET full == o = "file" /\ pool.inflight >= FileLimit
        admitted == [pool EXCEPT !.inflight = IF o = "file" THEN @ + 1 ELSE @] IN
    IF \/ pool.stopping                                    \* Errc::shutdown
       \/ Len(pool.queue) + Len(pool.waiting) >= MaxQueue  \* Errc::overloaded
       \/ ~full /\ Refused(pool, launched)
    THEN Begin(t, o, "idle") /\ UNCHANGED pool
    ELSE /\ Begin(t, o, "blocked")
         /\ pool' = IF full THEN [pool EXCEPT !.waiting = Append(@, t)]
                    ELSE notify_one(enqueue_locked(admitted, t, launched))

(* worker_main.                                                             *)
Enter(w) ==
  /\ pool.threads[w].at \in {"starting", "notified", "timed_out"}
  /\ pool' = TakeOrWait(pool, w, pool.threads[w].at = "timed_out")
  /\ UNCHANGED taskVars

IdleTimeout(w) ==
  /\ pool.threads[w].at = "waiting"
  /\ pool' = Put(pool, w, "timed_out")
  /\ UNCHANGED taskVars

(* run_job: the task may go on, and its frame may go.                       *)
RunJob(w) ==
  /\ pool.threads[w].at = "running"
  /\ Only(pool.threads[w].job, "idle")
  /\ pool' = [pool EXCEPT !.threads[w].at = "ran", !.threads[w].job = NoJob]

AfterJob(w) ==
  /\ pool.threads[w].at = "ran"
  /\ \E launched \in BOOLEAN :
       pool' = TakeOrWait(IF pool.threads[w].file
                          THEN release_admission_locked(pool, launched) ELSE pool, w, FALSE)
  /\ UNCHANGED taskVars

PoolThread(w) == Enter(w) \/ RunJob(w) \/ AfterJob(w)

-----------------------------------------------------------------------------
(* shutdown: those that wait for admission fail, the others are run.        *)
notify_all(p) ==
  [p EXCEPT !.threads = [w \in Thread |->
     IF @[w].at = "waiting" THEN [@[w] EXCEPT !.at = "notified"] ELSE @[w]]]

Shutdown(t) ==
  IF pool.stopping THEN Begin(t, "shutdown", "idle") /\ UNCHANGED pool
  ELSE /\ pc[t] = "idle" /\ prog[t] # <<>> /\ Head(prog[t]) = "shutdown"
       /\ prog' = [prog EXCEPT ![t] = Tail(@)]
       /\ op' = [op EXCEPT ![t] = "shutdown"]
       /\ Goto(t, IF pool.waiting = <<>> THEN "exit" ELSE "fail_pending")
       /\ toWake' = [toWake EXCEPT ![t] = Reverse(pool.waiting)]
       /\ LET p == [pool EXCEPT !.stopping = TRUE, !.waiting = <<>>] IN
          pool' = IF pool.waiting = <<>> THEN notify_all(p) ELSE p

FailPending(t) ==
  /\ pc[t] = "fail_pending"
  /\ WakeFirst(t, "idle", "stop_threads")
  /\ UNCHANGED pool

StopThreads(t) ==
  /\ pc[t] = "stop_threads"
  /\ Only(t, "exit")
  /\ pool' = notify_all(pool)

Exited(t) ==
  /\ pc[t] = "exit"
  /\ Living(pool) = {}
  /\ Only(t, "stopped")
  /\ UNCHANGED pool

Stopped(t) ==
  /\ pc[t] = "stopped"
  /\ Only(t, "idle")
  /\ UNCHANGED pool

PoolStep(t) ==
  \/ Submit(t) \/ Shutdown(t) \/ FailPending(t) \/ StopThreads(t) \/ Exited(t) \/ Stopped(t)

(* What submit() accepted is accounted for: the file operations in flight   *)
(* are those queued, running or just run, within their limit, with no slot  *)
(* free while one waits; a queued job has a thread to run it, whichever was *)
(* retiring; and shutdown() returns when nothing accepted is left.          *)
PoolSound ==
  LET jobs == {w \in Living(pool) : pool.threads[w].at \in {"running", "ran"} /\ pool.threads[w].file}
      queued == {i \in DOMAIN pool.queue : Limited(pool.queue[i])} IN
  /\ pool.inflight = Cardinality(jobs) + Cardinality(queued)
  /\ pool.inflight <= FileLimit
  /\ pool.waiting # <<>> => pool.inflight = FileLimit
  /\ Len(pool.queue) + Len(pool.waiting) <= MaxQueue
  /\ pool.queue # <<>> => Living(pool) # {}
  /\ At("stopped") # {} => At("blocked") = {} /\ Living(pool) = {}
=============================================================================
