------------------------------ MODULE Runtime -------------------------------
(***************************************************************************)
(* The end of a Runtime (runtime.cpp, runtime.hpp, Scheduler::shutdown):    *)
(* the roots that graceful_shutdown waits for, and the CompletionEndpoint   *)
(* through which threads from outside reach a scheduler that is stopping.   *)
(* The tasks are such threads; a root runs on the workers for its caller.   *)
(***************************************************************************)
EXTENDS Tasks

VARIABLES
  admission,   \* ~external_admission_closed_
  stop,        \* Scheduler::stop_
  roots,       \* runtime_roots_
  root,        \* per caller: where its root is
  left,        \* per caller: the roots registered by it, and inside its root
  leases,      \* CompletionEndpoint::state, the count
  retired,     \* CompletionEndpoint::state, kClosed
  joined       \* the workers have ended

runtimeVars == <<admission, stop, roots, root, left, leases, retired, joined>>
rootVars == <<roots, root, left>>
stopVars == <<admission, stop, leases, retired, joined>>

RuntimeInit ==
  /\ admission = TRUE /\ stop = FALSE /\ roots = 0
  /\ root = [t \in Task |-> "none"] /\ left = [t \in Task |-> 0]
  /\ leases = 0 /\ retired = FALSE /\ joined = FALSE

-----------------------------------------------------------------------------
(* block_on, from a thread that is not a worker: register_runtime_root.      *)
BugAdmitted == ~stop                   \* looks at the stop only

Admitted == admission /\ ~stop

BlockOn(t, o) ==
  /\ Begin(t, o, IF Admitted THEN "block_on" ELSE "idle")
  /\ IF Admitted
     THEN /\ roots' = roots + 1
          /\ left' = [left EXCEPT ![t] = 1]
          /\ root' = [root EXCEPT ![t] = IF o = "outer" THEN "register" ELSE "body"]
     ELSE UNCHANGED rootVars
  /\ UNCHANGED stopVars

(* BlockOnSync::finish comes before the root is taken off the count.        *)
BlockedOn(t) ==
  /\ pc[t] = "block_on"
  /\ root[t] \notin {"register", "recheck", "body"}
  /\ Only(t, "idle")
  /\ UNCHANGED runtimeVars

(* A root submits another one, from its worker.                             *)
RootRegister(t) ==
  /\ root[t] = "register"
  /\ roots' = IF stop THEN roots ELSE roots + 1
  /\ left' = [left EXCEPT ![t] = IF stop THEN @ ELSE @ + 1]
  /\ root' = [root EXCEPT ![t] = IF stop THEN "body" ELSE "recheck"]

RootRecheck(t) ==
  /\ root[t] = "recheck"
  /\ roots' = IF stop THEN roots - 1 ELSE roots
  /\ left' = [left EXCEPT ![t] = IF stop THEN @ - 1 ELSE @]
  /\ root' = [root EXCEPT ![t] = "body"]

RootBody(t) ==
  /\ root[t] = "body"
  /\ root' = [root EXCEPT ![t] = "complete"]
  /\ UNCHANGED <<roots, left>>

(* complete_runtime_root, and the notification under graceful_mutex_.       *)
RootComplete(t) ==
  /\ root[t] = "complete"
  /\ roots' = roots - 1
  /\ left' = [left EXCEPT ![t] = @ - 1]
  /\ root' = [root EXCEPT ![t] = IF roots = 1 THEN "notify"
                                 ELSE IF left[t] > 1 THEN "complete" ELSE "none"]

RootNotify(t) ==
  /\ root[t] = "notify"
  /\ pc' = [u \in Task |-> IF pc[u] = "asleep" THEN "wait_roots" ELSE pc[u]]
  /\ root' = [root EXCEPT ![t] = "none"]
  /\ UNCHANGED <<op, prog, toWake, roots, left>>

RootRuns(t) ==
  /\ ~joined
  /\ \/ (RootRegister(t) \/ RootRecheck(t) \/ RootBody(t) \/ RootComplete(t))
        /\ UNCHANGED taskVars
     \/ RootNotify(t)
  /\ UNCHANGED stopVars

-----------------------------------------------------------------------------
(* graceful_shutdown: close admission, cancel the token, wait, shut down.   *)
BeginGraceful(t) ==
  /\ Begin(t, "graceful", "stopping")
  /\ admission' = FALSE
  /\ UNCHANGED <<stop, leases, retired, joined, rootVars>>

CheckStopping(t) ==
  /\ pc[t] = "stopping"
  /\ Only(t, IF stop THEN "idle" ELSE "wait_roots")
  /\ UNCHANGED runtimeVars

WaitForRoots(t) ==
  /\ pc[t] = "wait_roots"
  /\ Only(t, IF roots = 0 THEN "exchange" ELSE "asleep")
  /\ UNCHANGED runtimeVars

(* Scheduler::shutdown.                                                     *)
BeginShutdown(t) ==
  /\ Begin(t, "stop", "exchange")
  /\ admission' = FALSE
  /\ UNCHANGED <<stop, leases, retired, joined, rootVars>>

ExchangeStop(t) ==
  /\ pc[t] = "exchange"
  /\ stop' = TRUE
  /\ Only(t, IF stop THEN "idle" ELSE "retire")
  /\ UNCHANGED <<admission, leases, retired, joined, rootVars>>

(* retire_completion_target.                                                *)
CloseEndpoint(t) ==
  /\ pc[t] = "retire"
  /\ retired' = TRUE
  /\ Only(t, "drain_leases")
  /\ UNCHANGED <<admission, stop, leases, joined, rootVars>>

DrainLeases(t) ==
  /\ pc[t] = "drain_leases"
  /\ leases = 0
  /\ Only(t, "join_workers")
  /\ UNCHANGED runtimeVars

(* A worker ends between two resumptions; what waits to be run stays.       *)
JoinWorkers(t) ==
  /\ pc[t] = "join_workers"
  /\ \A u \in Task : root[u] \in {"none", "register", "body"}
  /\ joined' = TRUE
  /\ Only(t, "idle")
  /\ UNCHANGED <<admission, stop, leases, retired, rootVars>>

-----------------------------------------------------------------------------
(* A foreign waker: SchedulerTarget::lock, dispatch, ~SchedulerLease.        *)
LockTarget(t) ==
  /\ Begin(t, "wake", IF retired THEN "idle" ELSE "lease")
  /\ leases' = IF retired THEN leases ELSE leases + 1
  /\ UNCHANGED <<admission, stop, retired, joined, rootVars>>

ReleaseLease(t) ==
  /\ pc[t] = "lease"
  /\ leases' = leases - 1
  /\ Only(t, "idle")
  /\ UNCHANGED <<admission, stop, retired, joined, rootVars>>

RuntimeStep(t) ==
  \/ BlockOn(t, "root") \/ BlockOn(t, "outer") \/ BlockedOn(t)
  \/ BeginGraceful(t) \/ CheckStopping(t) \/ WaitForRoots(t) \/ BeginShutdown(t) \/ ExchangeStop(t)
  \/ CloseEndpoint(t) \/ DrainLeases(t) \/ JoinWorkers(t) \/ LockTarget(t) \/ ReleaseLease(t)

(* A scheduler that ends leaves nobody behind: no waker holds a lease on    *)
(* it once its workers are gone, and after a graceful_shutdown alone every  *)
(* root that was admitted has run to its end, however the submission, the   *)
(* last root and the wait met; the count is that of the registered roots.   *)
RuntimeSound ==
  /\ joined => leases = 0
  /\ joined /\ (\A t \in Task : op[t] # "stop") => \A t \in Task : root[t] = "none"
  /\ roots = FoldFunction(+, 0, left)
=============================================================================
