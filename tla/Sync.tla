-------------------------------- MODULE Sync --------------------------------
(***************************************************************************)
(* The primitives of include/cio/sync.hpp side by side: one RWMutex, one    *)
(* Mutex with its Cond, one WaitGroup and one Once; and one TaskGroup, one  *)
(* tree of cancellation scopes, one JoinHandle, the blocking pool, the      *)
(* rings of one worker, the end of the runtime, a child process, the free   *)
(* lists of buffers and frames, a dial, a DNS lookup and the driver of a     *)
(* reactor shard.                                                           *)
(***************************************************************************)
EXTENDS RWMutex, Mutex, WaitGroup, Once, Groups, JoinHandle, BlockingPool,
        RunQueue, Runtime, Process, Buffers, Dialer, Lookup, Driver

CONSTANT Programs   \* for each part, the programs its tasks are given

VARIABLE uses       \* the part that the tasks use

syncVars == <<rwVars, mutexVars, wgVars, onceVars>>
scopeVars == <<cancelVars, groupVars, joinVars>>
loopVars == <<poolVars, ringVars, runtimeVars, driverVars>>
netVars == <<processVars, bufferVars, dialVars, lookupVars>>
vars == <<uses, taskVars, syncVars, scopeVars, loopVars, netVars>>

Init ==
  /\ uses \in DOMAIN Programs
  /\ prog \in Programs[uses]
  /\ TasksInit /\ RWInit /\ MutexInit /\ WGInit /\ OnceInit
  /\ CancelInit /\ GroupsInit /\ JoinInit
  /\ PoolInit /\ RingInit /\ RuntimeInit /\ ProcessInit /\ BuffersInit
  /\ DialInit /\ LookupInit /\ DriverInit

SyncStep(t) ==
  \/ uses = "rwmutex" /\ RWStep(t) /\ UNCHANGED <<mutexVars, wgVars, onceVars>>
  \/ uses = "mutex" /\ MutexStep(t) /\ UNCHANGED <<rwVars, wgVars, onceVars>>
  \/ uses = "waitgroup" /\ WGStep(t) /\ UNCHANGED <<rwVars, mutexVars, onceVars>>
  \/ uses = "once" /\ OnceStep(t) /\ UNCHANGED <<rwVars, mutexVars, wgVars>>

ScopeStep(t) ==
  \/ uses = "group" /\ GroupStep(t) /\ UNCHANGED joinVars
  \/ uses = "handle" /\ JoinStep(t) /\ UNCHANGED <<cancelVars, groupVars>>

LoopStep(t) ==
  \/ uses = "pool" /\ PoolStep(t) /\ UNCHANGED <<ringVars, runtimeVars, driverVars>>
  \/ uses = "ring" /\ RingStep(t) /\ UNCHANGED <<poolVars, runtimeVars, driverVars>>
  \/ uses = "runtime" /\ RuntimeStep(t) /\ UNCHANGED <<poolVars, ringVars, driverVars>>
  \/ uses = "driver" /\ DriverStep(t) /\ UNCHANGED <<poolVars, ringVars, runtimeVars>>

NetStep(t) ==
  \/ uses = "process" /\ ProcessStep(t) /\ UNCHANGED <<bufferVars, dialVars, lookupVars>>
  \/ uses = "buffers" /\ BufferStep(t) /\ UNCHANGED <<processVars, dialVars, lookupVars>>
  \/ uses = "dial" /\ DialStep(t) /\ UNCHANGED <<processVars, bufferVars, lookupVars>>
  \/ uses = "lookup" /\ LookupStep(t) /\ UNCHANGED <<processVars, bufferVars, dialVars>>

Step(t) ==
  /\ \/ SyncStep(t) /\ UNCHANGED <<scopeVars, loopVars, netVars>>
     \/ ScopeStep(t) /\ UNCHANGED <<syncVars, loopVars, netVars>>
     \/ LoopStep(t) /\ UNCHANGED <<syncVars, scopeVars, netVars>>
     \/ NetStep(t) /\ UNCHANGED <<syncVars, scopeVars, loopVars>>
  /\ UNCHANGED uses

(* The pool's threads, the workers that run a caller's root, the child, the *)
(* attempts and watchers of a dial and the two halves of a lookup.          *)
PoolOnly ==
  UNCHANGED <<uses, syncVars, scopeVars, ringVars, runtimeVars, driverVars, netVars>>
NetOnly == UNCHANGED <<uses, syncVars, scopeVars, loopVars>>
Works(w) == uses = "pool" /\ PoolThread(w) /\ PoolOnly
Retires(w) == uses = "pool" /\ IdleTimeout(w) /\ PoolOnly
Roots(t) ==
  /\ uses = "runtime" /\ RootRuns(t)
  /\ UNCHANGED <<uses, syncVars, scopeVars, poolVars, ringVars, driverVars, netVars>>
Acts(a) ==
  /\ uses = "process" /\ ProcessActor(a)
  /\ NetOnly /\ UNCHANGED <<bufferVars, dialVars, lookupVars>>
Races ==
  /\ uses = "dial" /\ DialOthers
  /\ NetOnly /\ UNCHANGED <<processVars, bufferVars, lookupVars>>
Asks(f) ==
  /\ uses = "lookup" /\ Resolves(f)
  /\ NetOnly /\ UNCHANGED <<processVars, bufferVars, dialVars>>

Next ==
  \/ \E t \in Task : Step(t) \/ Roots(t)
  \/ \E w \in Thread : Works(w) \/ Retires(w)
  \/ \E a \in Actor : Acts(a)
  \/ Races
  \/ \E f \in Family : Asks(f)

(* The threads go on as long as one of them can: no more than that is       *)
(* needed, since every program ends.  A worker goes on with a task that     *)
(* can go on, pool threads run what they have, a child goes on as long as   *)
(* its pipes take what it writes, deadlines come; an idle timeout need not. *)
Fairness ==
  WF_vars(\/ \E t \in Task : Step(t) \/ Roots(t)
          \/ \E w \in Thread : Works(w)
          \/ \E a \in Actor : Acts(a)
          \/ Races
          \/ \E f \in Family : Asks(f))

Spec == Init /\ [][Next]_vars /\ Fairness

(* Out of reach of every wake-up: a caller at the gate of a Once whose      *)
(* initialiser has failed, and a start() that failed late and sits in       *)
(* waitpid for a child held up by the pipes that only its return closes.    *)
Stranded(t) ==
  \/ pc[t] = "gate" /\ running /\ At("init") = {}
  \/ pc[t] = "waitpid" /\ Blocked

(* No wake-up is lost.  Again and again nobody waits: not for a lock, in a  *)
(* Cond whose tokens come, for a WaitGroup whose done() calls come, at the  *)
(* gate of an initialiser that succeeds, for children or a spawned task     *)
(* that end, on the done() of a scope that is cancelled, for the blocking   *)
(* pool, for a root or all roots of the runtime, for a child process and    *)
(* what it writes, in a dial with a token that fires or a deadline, nor in  *)
(* a lookup.                                                                *)
EveryWaitEnds ==
  []<>(\A t \in Task : pc[t] = "idle" \/ Stranded(t))
=============================================================================
