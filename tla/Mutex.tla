------------------------------- MODULE Mutex --------------------------------
(***************************************************************************)
(* Mutex and Cond (include/cio/sync.hpp).  The mutex word is the set of    *)
(* its bits kLocked and kContended; waiters queue first come, first served, *)
(* under a spin lock, and unlock_contended hands ownership to the first.    *)
(*                                                                         *)
(* A Cond is used as its comment demands: a consumer waits in a loop for a *)
(* token, a producer adds one and signals or broadcasts.  A waiter sleeps   *)
(* in recv() of a channel of its own, which returns once it is closed.      *)
(***************************************************************************)
EXTENDS Tasks

VARIABLES
  bits,        \* Mutex::state_, a subset of {"locked", "contended"}
  spin,        \* the task that holds Mutex::mutex_
  queue,       \* head_ .. tail_
  tagged,      \* the tasks whose Guard carries kContended
  sleepers,    \* Cond::waiters_, by the task whose channel it is
  closed,      \* the tasks whose channel is closed
  tokens       \* what the users of the Cond wait for

muVars == <<bits, spin, queue, tagged>>
condVars == <<sleepers, closed, tokens>>
mutexVars == <<muVars, condVars>>

MutexInit ==
  /\ bits = {} /\ spin = NoTask /\ queue = <<>> /\ tagged = {}
  /\ sleepers = <<>> /\ closed = {} /\ tokens = 0

(* try_acquire: lock's await_ready (also of Cond::wait, on its way back),   *)
(* and try_lock.  Only exact zero is available.                             *)
BugAvailable == "locked" \notin bits
Available == bits = {}

BeginLock(t) ==
  \/ \E o \in {"mutex", "consume", "signal", "broadcast"} :
       Begin(t, o, IF Available THEN "locked" ELSE "publish")
  \/ Begin(t, "try_mutex", IF Available THEN "locked" ELSE "idle")
  \/ pc[t] = "relock" /\ Only(t, IF Available THEN "locked" ELSE "publish")

Lock(t) ==
  /\ BeginLock(t)
  /\ bits' = IF Available THEN {"locked"} ELSE bits
  /\ UNCHANGED <<spin, queue, tagged, condVars>>

(* await_suspend, under mutex_: publish the intent to wait, then take what  *)
(* an unlock has released in between, or queue.                             *)
Publish(t) ==
  /\ pc[t] = "publish"
  /\ spin = NoTask
  /\ spin' = t
  /\ bits' = bits \cup {"contended"}
  /\ Only(t, IF "locked" \in bits THEN "enqueue" ELSE "claim")
  /\ UNCHANGED <<queue, tagged, condVars>>

Claim(t) ==
  /\ pc[t] = "claim"
  /\ bits' = {"locked", "contended"}
  /\ spin' = NoTask
  /\ tagged' = tagged \cup {t}
  /\ Only(t, "locked")
  /\ UNCHANGED <<queue, condVars>>

Enqueue(t) ==
  /\ pc[t] = "enqueue"
  /\ queue' = Append(queue, t)
  /\ spin' = NoTask
  /\ tagged' = tagged \cup {t}
  /\ Only(t, "parked")
  /\ UNCHANGED <<bits, condVars>>

-----------------------------------------------------------------------------
(* What the task does once it has let go of the mutex.                      *)
AfterUnlock(t) ==
  CASE op[t] = "resting" -> "recv"
    [] op[t] = "signal" -> "notify"
    [] OTHER -> "idle"

(* Guard::release and unlock.                                               *)
Unlock(t) ==
  LET fast == t \notin tagged /\ bits = {"locked"} IN
  /\ pc[t] = "release"
  /\ bits' = IF fast THEN {} ELSE bits
  /\ tagged' = tagged \ {t}
  /\ Only(t, IF fast THEN AfterUnlock(t) ELSE "contended")
  /\ UNCHANGED <<spin, queue, condVars>>

BugUnlockContended(t) ==               \* gives up ownership before the hand-over
  /\ pc[t] = "contended"
  /\ spin = NoTask
  /\ bits' = {}
  /\ queue' = IF queue = <<>> THEN queue ELSE Tail(queue)
  /\ toWake' = [toWake EXCEPT ![t] = IF queue = <<>> THEN <<>> ELSE <<Head(queue)>>]
  /\ Goto(t, IF queue = <<>> THEN AfterUnlock(t) ELSE "handoff")
  /\ UNCHANGED <<op, prog, spin, tagged, condVars>>

UnlockContended(t) ==
  /\ pc[t] = "contended"
  /\ spin = NoTask
  /\ bits' = IF queue = <<>> THEN {} ELSE bits
  /\ queue' = IF queue = <<>> THEN queue ELSE Tail(queue)
  /\ toWake' = [toWake EXCEPT ![t] = IF queue = <<>> THEN <<>> ELSE <<Head(queue)>>]
  /\ Goto(t, IF queue = <<>> THEN AfterUnlock(t) ELSE "handoff")
  /\ UNCHANGED <<op, prog, spin, tagged, condVars>>

WakeHandoff(t) ==
  /\ pc[t] = "handoff"
  /\ WakeFirst(t, "locked", AfterUnlock(t))
  /\ UNCHANGED mutexVars

-----------------------------------------------------------------------------
(* The critical sections.  A consumer with no token goes to sleep: wait     *)
(* registers its channel while it still holds the mutex.                    *)
Critical(t) ==
  /\ pc[t] = "locked"
  /\ op[t] \in {"mutex", "try_mutex"} \/ (op[t] = "consume" /\ tokens > 0)
  /\ tokens' = IF op[t] = "consume" THEN tokens - 1 ELSE tokens
  /\ Only(t, "release")
  /\ UNCHANGED <<muVars, sleepers, closed>>

Wait(t) ==
  /\ pc[t] = "locked"
  /\ op[t] = "consume"
  /\ tokens = 0
  /\ sleepers' = Append(sleepers, t)
  /\ op' = [op EXCEPT ![t] = "resting"]
  /\ Goto(t, "release")
  /\ UNCHANGED <<prog, toWake, muVars, closed, tokens>>

Recv(t) ==
  /\ pc[t] = "recv"
  /\ t \in closed
  /\ closed' = closed \ {t}
  /\ op' = [op EXCEPT ![t] = "consume"]
  /\ Goto(t, "relock")
  /\ UNCHANGED <<prog, toWake, muVars, sleepers, tokens>>

(* A producer signals after it has released the mutex, or broadcasts while  *)
(* it holds it.                                                             *)
Produce(t) ==
  /\ pc[t] = "locked"
  /\ op[t] \in {"signal", "broadcast"}
  /\ tokens' = tokens + 1
  /\ Only(t, IF op[t] = "signal" THEN "release" ELSE "notify")
  /\ UNCHANGED <<muVars, sleepers, closed>>

AfterNotify(t) == IF op[t] = "signal" THEN "idle" ELSE "release"

(* signal pops one channel, broadcast swaps out all; they are closed one by *)
(* one, after list_mutex_ is released.                                      *)
Notify(t) ==
  LET n == IF op[t] = "signal" /\ sleepers # <<>> THEN 1 ELSE Len(sleepers) IN
  /\ pc[t] = "notify"
  /\ toWake' = [toWake EXCEPT ![t] = SubSeq(sleepers, 1, n)]
  /\ sleepers' = SubSeq(sleepers, n + 1, Len(sleepers))
  /\ Goto(t, IF n = 0 THEN AfterNotify(t) ELSE "close")
  /\ UNCHANGED <<op, prog, muVars, closed, tokens>>

Close(t) ==
  /\ pc[t] = "close"
  /\ closed' = closed \cup {Head(toWake[t])}
  /\ toWake' = [toWake EXCEPT ![t] = Tail(@)]
  /\ Goto(t, IF Len(toWake[t]) = 1 THEN AfterNotify(t) ELSE "close")
  /\ UNCHANGED <<op, prog, muVars, sleepers, tokens>>

MutexStep(t) ==
  \/ Lock(t) \/ Publish(t) \/ Claim(t) \/ Enqueue(t)
  \/ Unlock(t) \/ UnlockContended(t) \/ WakeHandoff(t)
  \/ Critical(t) \/ Wait(t) \/ Recv(t) \/ Produce(t) \/ Notify(t) \/ Close(t)

MutexNext == \E t \in Task : MutexStep(t)
mutexSpecVars == <<taskVars, mutexVars>>
MutexSpec == TasksInit /\ MutexInit /\ [][MutexNext]_mutexSpecVars

-----------------------------------------------------------------------------
InMutex(l) == {t \in At(l) : op[t] \in {"mutex", "try_mutex", "consume", "resting",
                                        "signal", "broadcast"}}
HandedTo == UNION {ToSet(toWake[t]) : t \in At("handoff")}

(* The tasks that own the mutex: in their critical section or on their way  *)
(* out of it, or handed the mutex and not yet resumed.                      *)
Owners ==
  InMutex("locked") \cup InMutex("release") \cup InMutex("contended")
  \cup {t \in InMutex("notify") \cup InMutex("close") : op[t] = "broadcast"}
  \cup HandedTo

(* Mutual exclusion across the lock-free way, the claim of a released lock  *)
(* and the direct hand-over: the locked bit stands for exactly one owner,   *)
(* and the contended bit alone for one task about to claim, which no        *)
(* try_lock slips in front of.                                              *)
MutexExclusion ==
  /\ Cardinality(Owners) = IF "locked" \in bits THEN 1 ELSE 0
  /\ bits = {"contended"} <=> At("claim") # {}
  /\ queue # <<>> => bits = {"locked", "contended"}

(* Hand-over is first come, first served: while somebody is queued, the     *)
(* mutex can only pass to the head of the queue.                            *)
HandedInOrder ==
  [][queue # <<>> => Owners' \subseteq Owners \cup {Head(queue)}]_mutexSpecVars
=============================================================================
