----------------------------- MODULE JoinHandle -----------------------------
(***************************************************************************)
(* spawn() and JoinHandle (include/cio/spawn.hpp): the JoinState shared by  *)
(* a spawned task, its handle and the awaiters made from the handle.        *)
(***************************************************************************)
EXTENDS Tasks

VARIABLES
  waiter,      \* JoinState::waiter_: "null", the parked joiner, or "done"
  refs,      \* JoinState::refs_
  result,    \* "none", "value" or "error"
  owners,    \* history: who counts on the state: "handle", "runner", awaiters
  freed      \* history: how often the state has been deleted

joinVars == <<waiter, refs, result, owners, freed>>

(* spawn_on: the handle and the task adopt the two seeded references.       *)
JoinInit ==
  /\ waiter = "null" /\ refs = 2 /\ result = "none"
  /\ owners = {"handle", "runner"} /\ freed = 0

-----------------------------------------------------------------------------
(* complete_task: the result, then the waiter, then the task's reference.     *)
RunTask(t) ==
  /\ Begin(t, "run", "complete")
  /\ result' \in {"value", "error"}
  /\ UNCHANGED <<waiter, refs, owners, freed>>

Complete(t) ==
  /\ pc[t] = "complete"
  /\ waiter' = "done"
  /\ pc' = [u \in Task |-> IF u = t THEN "drop_ref" ELSE IF u = waiter THEN "take" ELSE pc[u]]
  /\ UNCHANGED <<op, prog, toWake, refs, result, owners, freed>>

(* release: the last owner deletes without a further read-modify-write.     *)
Claimant(t) == CASE op[t] = "run" -> "runner" [] op[t] = "detach" -> "handle"
                 [] OTHER -> t

DropRef(t) ==
  /\ pc[t] = "drop_ref"
  /\ owners' = owners \ {Claimant(t)}
  /\ freed' = IF refs = 1 THEN freed + 1 ELSE freed
  /\ Only(t, IF refs = 1 THEN "idle" ELSE "subtract")
  /\ UNCHANGED <<waiter, refs, result>>

Subtract(t) ==
  /\ pc[t] = "subtract"
  /\ refs' = refs - 1
  /\ freed' = IF refs = 1 THEN freed + 1 ELSE freed
  /\ Only(t, "idle")
  /\ UNCHANGED <<waiter, result, owners>>

-----------------------------------------------------------------------------
(* operator co_await: the awaiter owns a reference, except the one that      *)
(* found a void task completed.  No co_await races the handle's detach().    *)
Awaited(t) ==
  /\ "handle" \in owners
  /\ ~\E u \in Task : pc[u] # "idle" /\ op[u] = "detach"

BugAwaiter(t) ==                       \* the awaiter borrows the handle's
  /\ Awaited(t)
  /\ Begin(t, "await", "await_ready")
  /\ owners' = owners \cup {t}
  /\ UNCHANGED <<waiter, refs, result, freed>>

Awaiter(t) ==
  /\ Awaited(t)
  /\ Begin(t, "await", "await_ready")
  /\ refs' = refs + 1
  /\ owners' = owners \cup {t}
  /\ UNCHANGED <<waiter, result, freed>>

Snapshot(t) ==
  /\ Awaited(t)
  /\ waiter = "done" /\ result = "value"
  /\ Begin(t, "await", "idle")
  /\ UNCHANGED joinVars

AwaitReady(t) ==
  /\ pc[t] = "await_ready"
  /\ Only(t, IF waiter = "done" THEN "take" ELSE "try_park")
  /\ UNCHANGED joinVars

(* A second joiner is rejected.                                             *)
TryPark(t) ==
  /\ pc[t] = "try_park"
  /\ waiter' = IF waiter = "null" THEN t ELSE waiter
  /\ Only(t, CASE waiter = "null" -> "parked" [] waiter = "done" -> "take"
               [] OTHER -> "drop_ref")
  /\ UNCHANGED <<refs, result, owners, freed>>

Take(t) ==
  /\ pc[t] = "take"
  /\ Only(t, "drop_ref")
  /\ UNCHANGED joinVars

Detach(t) ==
  /\ Begin(t, "detach", "drop_ref")
  /\ UNCHANGED joinVars

JoinStep(t) ==
  \/ RunTask(t) \/ Complete(t) \/ DropRef(t) \/ Subtract(t) \/ Awaiter(t)
  \/ Snapshot(t) \/ AwaitReady(t) \/ TryPark(t) \/ Take(t) \/ Detach(t)

(* The state is deleted exactly once, by the last of the handle, the task   *)
(* and the awaiters to let go, and not before a release() that is under way *)
(* has touched the count; a joiner that goes on finds a result.             *)
JoinStateSound ==
  /\ freed = IF owners # {} \/ At("subtract") # {} THEN 0 ELSE 1
  /\ At("take") # {} => result # "none" /\ freed = 0
=============================================================================
