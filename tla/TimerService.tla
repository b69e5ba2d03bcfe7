---------------------------- MODULE TimerService ----------------------------
(***************************************************************************)
(* One shard of TimerService (src/timer.cpp, include/cio/detail/timer.hpp): *)
(* the fan-out heap of Timer nodes, arm, disarm, run_expired and drain_all, *)
(* with the worker that owns the shard, the monitor, and tasks that arm and *)
(* disarm nodes from that worker or from other threads.                     *)
(*                                                                         *)
(* A task owns its nodes.  A sleep node is plain and its task parks on it;   *)
(* a select node has a callback that competes with an event for its parked  *)
(* task; an io node has a callback that resumes nobody.  A section under the *)
(* shard lock is one step.  heap_index is the node's position in the heap.   *)
(***************************************************************************)
EXTENDS Poller

CONSTANTS
  Task, Timer,
  Scenarios,   \* the scenarios explored, with the bound of arms per task
  FanOut,      \* kFanOut
  Batch        \* kBatch

VARIABLES
  scenario,    \* who owns which node, of which kind, and what may happen
  now,
  heap, earliest,
  state, deadline,
  pc, cur, on, rounds,    \* a task: its step, its node, its thread
  tail,                   \* the rest of a task's arm after the shard lock
  winner,      \* who claimed a select node's wait
  fire, ready, next, resumable, asOf   \* run_expired, of the worker and the monitor

nodeVars == <<heap, earliest, state, deadline>>
threadVars == <<pc, cur, on, rounds, tail, winner>>
fireVars == <<fire, ready, next, resumable, asOf>>
timerVars == <<scenario, now, nodeVars, threadVars, fireVars, pollerVars>>

W == CHOOSE w \in Worker : TRUE
Runner == {"worker", "monitor"}
Kind(x) == scenario.kind[x]

-----------------------------------------------------------------------------
(* The heap, as a sequence; the parent of position i > 1.                   *)
Parent(i) == ((i - 2) \div FanOut) + 1
Children(h, i) ==
  {c \in (FanOut * (i - 1) + 2) .. (FanOut * i + 1) : c <= Len(h)}
Swapped(h, i, j) == [h EXCEPT ![i] = h[j], ![j] = h[i]]
Before(x, y) == deadline[x] < deadline[y]

RECURSIVE SiftUp(_, _)
SiftUp(h, i) ==
  IF i = 1 \/ ~Before(h[i], h[Parent(i)]) THEN h
  ELSE SiftUp(Swapped(h, i, Parent(i)), Parent(i))

RECURSIVE SiftDown(_, _)
SiftDown(h, i) ==
  LET kids == Children(h, i)
      best == CHOOSE c \in kids : \A k \in kids :
                ~Before(h[k], h[c]) /\ (k < c => Before(h[c], h[k]))
  IN  IF kids = {} \/ ~Before(h[best], h[i]) THEN h
      ELSE SiftDown(Swapped(h, i, best), best)

(* The last node takes the place of the one that leaves.                    *)
BugHeapRemove(h, i) ==                     \* the moved node can only sink
  LET rest == Front(h) IN
  IF i = Len(h) THEN rest ELSE SiftDown([rest EXCEPT ![i] = Last(h)], i)

HeapRemove(h, i) ==
  LET rest == Front(h)
      moved == [rest EXCEPT ![i] = Last(h)]
  IN  IF i = Len(h) THEN rest
      ELSE IF i > 1 /\ Before(moved[i], moved[Parent(i)]) THEN SiftUp(moved, i)
      ELSE SiftDown(moved, i)

Earliest(h, due) == IF h = <<>> THEN Never ELSE due[h[1]]
IndexOf(h, x) == CHOOSE i \in DOMAIN h : h[i] = x
InHeap(x) == x \in ToSet(heap)

TimerInit ==
  /\ PollerInit
  /\ scenario \in Scenarios
  /\ now = 0
  /\ heap = <<>> /\ earliest = Never
  /\ state = [x \in Timer |-> "idle"]
  /\ deadline = [x \in Timer |-> 0]
  /\ pc = [t \in Task |-> "idle"]
  /\ cur = [t \in Task |-> CHOOSE x \in Timer : TRUE]
  /\ on = [t \in Task |-> "foreign"]
  /\ rounds = [t \in Task |-> 0]
  /\ tail = [t \in Task |-> "none"]
  /\ winner = [t \in Task |-> "none"]
  /\ fire = [r \in Runner |-> "none"]
  /\ ready = [r \in Runner |-> <<>>]
  /\ next = [r \in Runner |-> 1]
  /\ resumable = [r \in Runner |-> {}]
  /\ asOf = [r \in Runner |-> 0]

Goto(t, l) == pc' = [pc EXCEPT ![t] = l]
NextNode(t) == scenario.owns[t][(rounds[t] % Len(scenario.owns[t])) + 1]
Settled(x) == state[x] \in {"idle", "fired", "cancelled"}

(* The worker runs a task, or fires timers, or parks.                       *)
WorkerFree ==
  /\ place[W] = "run"
  /\ fire["worker"] = "none"
  /\ \A t \in Task : on[t] = "worker" => tail[t] = "none" /\ pc[t] # "push"

-----------------------------------------------------------------------------
(* arm: the node becomes kArmed before the shard lock is taken.  A task     *)
(* whose deadline has passed does not arm (await_ready, set_deadline), nor   *)
(* does one on a stopping runtime.                                          *)
Arm(t) ==
  \E thread \in scenario.threads, delay \in scenario.delay[NextNode(t)] :
    LET x == NextNode(t) IN
    /\ ~stop
    /\ pc[t] = "idle" /\ tail[t] = "none"
    /\ rounds[t] < scenario.rounds[t]
    /\ Settled(x)
    /\ now + delay <= scenario.latest
    /\ thread = "worker" => WorkerFree
    /\ state' = [state EXCEPT ![x] = "armed"]
    /\ deadline' = [deadline EXCEPT ![x] = now + delay]
    /\ cur' = [cur EXCEPT ![t] = x]
    /\ on' = [on EXCEPT ![t] = thread]
    /\ rounds' = [rounds EXCEPT ![t] = @ + 1]
    /\ winner' = [winner EXCEPT ![t] = "none"]
    /\ Goto(t, "push")
    /\ UNCHANGED <<scenario, now, heap, earliest, tail, fireVars, pollerVars>>

(* Where a task is once its node is linked: sleep and select suspend.       *)
AfterPush(t) == IF Kind(cur[t]) = "io" THEN "idle" ELSE "parked"

BugPush(t) ==                                  \* publishes without a nudge
  /\ pc[t] = "push"
  /\ heap' = SiftUp(Append(heap, cur[t]), Len(heap) + 1)
  /\ earliest' = IF heap'[1] = cur[t] THEN deadline[cur[t]] ELSE earliest
  /\ Goto(t, AfterPush(t))
  /\ UNCHANGED <<scenario, now, state, deadline, cur, on, rounds, tail, winner,
                 fireVars, pollerVars>>

(* Under the shard lock.  The node may fire, and its task go on, before the  *)
(* rest of arm has nudged the poller.                                        *)
Push(t) ==
  LET x == cur[t] IN
  /\ pc[t] = "push"
  /\ heap' = SiftUp(Append(heap, x), Len(heap) + 1)
  /\ earliest' = IF heap'[1] = x THEN deadline[x] ELSE earliest
  /\ tail' = [tail EXCEPT ![t] = IF heap'[1] # x THEN "none"
                                ELSE IF on[t] = "worker" THEN "look" ELSE "claim"]
  /\ Goto(t, AfterPush(t))
  /\ UNCHANGED <<scenario, now, state, deadline, cur, on, rounds, winner, fireVars,
                 pollerVars>>

(* The heap's vector cannot grow: arm throws and the node is idle again.    *)
PushFails(t) ==
  /\ pc[t] = "push"
  /\ Kind(cur[t]) = "io"
  /\ state' = [state EXCEPT ![cur[t]] = "idle"]
  /\ Goto(t, "idle")
  /\ UNCHANGED <<scenario, now, heap, earliest, deadline, cur, on, rounds, tail,
                 winner, fireVars, pollerVars>>

Nudge(t) ==
  /\ tail[t] # "none"
  /\ tail' = [tail EXCEPT ![t] = NudgeNext(W, @, deadline[cur[t]])]
  /\ NudgeStep(W, tail[t])
  /\ UNCHANGED <<scenario, now, nodeVars, pc, cur, on, rounds, winner, fireVars>>

-----------------------------------------------------------------------------
(* The event a select waits for claims the wait and resumes the task.       *)
Event(t) ==
  /\ pc[t] = "parked"
  /\ Kind(cur[t]) = "select"
  /\ winner[t] = "none"
  /\ winner' = [winner EXCEPT ![t] = "event"]
  /\ Goto(t, "disarm")
  /\ UNCHANGED <<scenario, now, nodeVars, cur, on, rounds, tail, fireVars,
                 pollerVars>>

(* An io task that replaces or clears a deadline disarms it first.          *)
Clear(t) ==
  \E x \in ToSet(scenario.owns[t]) :
    /\ pc[t] = "idle" /\ tail[t] = "none"
    /\ Kind(x) = "io"
    /\ ~Settled(x)
    /\ cur' = [cur EXCEPT ![t] = x]
    /\ Goto(t, "disarm")
    /\ UNCHANGED <<scenario, now, nodeVars, on, rounds, tail, winner, fireVars,
                   pollerVars>>

(* disarm and the loads of disarm_slow: a settled node is let go, a firing   *)
(* one waited for.                                                           *)
BugDisarm(t) ==                          \* a firing node is no longer armed
  /\ pc[t] \in {"disarm", "spin"}
  /\ Goto(t, IF state[cur[t]] = "armed" THEN "lock" ELSE "idle")
  /\ UNCHANGED <<scenario, now, nodeVars, cur, on, rounds, tail, winner, fireVars,
                 pollerVars>>

Disarm(t) ==
  /\ pc[t] \in {"disarm", "spin"}
  /\ pc[t] = "spin" => state[cur[t]] # "firing"
  /\ Goto(t, IF Settled(cur[t]) THEN "idle"
             ELSE IF state[cur[t]] = "firing" THEN "spin" ELSE "lock")
  /\ UNCHANGED <<scenario, now, nodeVars, cur, on, rounds, tail, winner, fireVars,
                 pollerVars>>

(* disarm_slow under the shard lock: unlink the node if it is still linked, *)
(* and republish if it was the root.                                        *)
Unlink(t) ==
  LET x == cur[t] IN
  /\ pc[t] = "lock"
  /\ heap' = IF InHeap(x) THEN HeapRemove(heap, IndexOf(heap, x)) ELSE heap
  /\ earliest' = IF InHeap(x) /\ heap[1] = x THEN Earliest(heap', deadline) ELSE earliest
  /\ state' = IF InHeap(x) THEN [state EXCEPT ![x] = "cancelled"] ELSE state
  /\ Goto(t, IF InHeap(x) THEN "idle" ELSE "spin")
  /\ UNCHANGED <<scenario, now, deadline, cur, on, rounds, tail, winner,
                 fireVars, pollerVars>>

(* A resumed sleeper's node is gone with its frame.                          *)
Wake(t) ==
  /\ pc[t] = "resumed"
  /\ Goto(t, IF Kind(cur[t]) = "sleep" THEN "idle" ELSE "disarm")
  /\ UNCHANGED <<scenario, now, nodeVars, cur, on, rounds, tail, winner,
                 fireVars, pollerVars>>

-----------------------------------------------------------------------------
(* run_expired of the worker (find_work, service_fairness and the end of     *)
(* park) and of the monitor's pass.                                          *)
RunExpired(r) ==
  /\ fire[r] = "none"
  /\ ~stop
  /\ IF r = "worker" THEN WorkerFree ELSE "fires" \in scenario.monitor
  /\ earliest <= now
  /\ fire' = [fire EXCEPT ![r] = "pop"]
  /\ asOf' = [asOf EXCEPT ![r] = now]
  /\ UNCHANGED <<scenario, now, nodeVars, threadVars, ready, next, resumable, pollerVars>>

RECURSIVE DueNodes(_, _, _)
DueNodes(h, at, n) ==
  IF n = 0 \/ h = <<>> THEN <<>>
  ELSE IF deadline[h[1]] > at THEN <<>>
  ELSE <<h[1]>> \o DueNodes(HeapRemove(h, 1), at, n - 1)

RECURSIVE Popped(_, _)
Popped(h, n) == IF n = 0 THEN h ELSE Popped(HeapRemove(h, 1), n - 1)

(* Under the shard lock: up to a batch of due nodes leaves the heap; one     *)
(* with a callback is firing until the callback has returned.                *)
Pop(r) ==
  LET due == DueNodes(heap, asOf[r], Batch) IN
  /\ fire[r] = "pop"
  /\ heap' = Popped(heap, Len(due))
  /\ earliest' = Earliest(heap', deadline)
  /\ state' = [x \in Timer |-> IF x \notin ToSet(due) THEN state[x]
                               ELSE IF Kind(x) = "sleep" THEN "fired" ELSE "firing"]
  /\ ready' = [ready EXCEPT ![r] = due]
  /\ next' = [next EXCEPT ![r] = 1]
  /\ fire' = [fire EXCEPT ![r] = IF due = <<>> THEN "none" ELSE "fire"]
  /\ UNCHANGED <<scenario, now, deadline, threadVars, resumable, asOf, pollerVars>>

Owner(x) == CHOOSE t \in Task : x \in ToSet(scenario.owns[t])

(* The waiter of a plain node, or the callback: a select's claims the wait. *)
Fire(r) ==
  LET x == ready[r][next[r]]
      t == Owner(x)
      claims == Kind(x) = "select" /\ winner[t] = "none"
  IN
  /\ fire[r] = "fire"
  /\ next[r] <= Len(ready[r])
  /\ winner' = IF claims THEN [winner EXCEPT ![t] = "timer"] ELSE winner
  /\ resumable' = [resumable EXCEPT ![r] =
                     IF claims \/ Kind(x) = "sleep" THEN @ \cup {t} ELSE @]
  /\ fire' = [fire EXCEPT ![r] = IF Kind(x) = "sleep" THEN @ ELSE "publish"]
  /\ next' = [next EXCEPT ![r] = IF Kind(x) = "sleep" THEN @ + 1 ELSE @]
  /\ UNCHANGED <<scenario, now, nodeVars, pc, cur, on, rounds, tail, ready, asOf,
                 pollerVars>>

(* kFired: nobody touches the node any more.                                *)
PublishFired(r) ==
  /\ fire[r] = "publish"
  /\ state' = [state EXCEPT ![ready[r][next[r]]] = "fired"]
  /\ next' = [next EXCEPT ![r] = @ + 1]
  /\ fire' = [fire EXCEPT ![r] = "fire"]
  /\ UNCHANGED <<scenario, now, heap, earliest, deadline, threadVars, ready, resumable,
                 asOf, pollerVars>>

(* schedule_batch_to, and after a full batch another look for due nodes.    *)
Resume(r) ==
  /\ fire[r] = "fire"
  /\ next[r] > Len(ready[r])
  /\ pc' = [t \in Task |-> IF t \in resumable[r] THEN "resumed" ELSE pc[t]]
  /\ resumable' = [resumable EXCEPT ![r] = {}]
  /\ fire' = [fire EXCEPT ![r] = IF Len(ready[r]) = Batch THEN "pop" ELSE "none"]
  /\ ready' = [ready EXCEPT ![r] = <<>>]
  /\ next' = [next EXCEPT ![r] = 1]
  /\ UNCHANGED <<scenario, now, nodeVars, cur, on, rounds, tail, winner, asOf,
                 pollerVars>>

-----------------------------------------------------------------------------
(* Between two tasks the worker parks when no timer is due.                 *)
ParkWorker ==
  /\ \/ scenario.parks /\ WorkerFree /\ earliest > now /\ SetIdle(W)
     \/ Recheck(W, earliest <= now)
     \/ Snapshot(W, earliest)
     \/ ParkStep(W)
     \/ PollReturn(W, until[W] <= now)
     \/ LeavePark(W)
  /\ UNCHANGED <<scenario, now, nodeVars, threadVars, fireVars>>

Monitor ==
  /\ "polls" \in scenario.monitor
  /\ \/ MonitorPoll(W, now)
     \/ MonitorPolled(W)
  /\ UNCHANGED <<scenario, now, nodeVars, threadVars, fireVars>>

Tick ==
  /\ now < scenario.clock
  /\ now' = now + 1
  /\ UNCHANGED <<scenario, nodeVars, threadVars, fireVars, pollerVars>>

(* shutdown: stop_ is set and every worker woken; once worker and monitor    *)
(* have been joined, drain_all unlinks what is left.                         *)
Stop ==
  /\ ~stop
  /\ scenario.stops
  /\ stop' = TRUE
  /\ token' = Worker /\ pending' = Worker
  /\ UNCHANGED <<scenario, now, nodeVars, threadVars, fireVars, idle, polling, plan, place,
                 until>>

DrainAll ==
  /\ stop
  /\ WorkerFree
  /\ fire["monitor"] = "none"
  /\ heap # <<>>
  /\ state' = [x \in Timer |-> IF InHeap(x) THEN "cancelled" ELSE state[x]]
  /\ heap' = <<>>
  /\ earliest' = Never
  /\ UNCHANGED <<scenario, now, deadline, threadVars, fireVars, pollerVars>>

TaskStep(t) ==
  \/ Push(t) \/ Nudge(t) \/ Disarm(t) \/ Unlink(t) \/ Wake(t)

FireStep(r) == Pop(r) \/ Fire(r) \/ PublishFired(r) \/ Resume(r)

TimerNext ==
  \/ \E t \in Task : TaskStep(t) \/ Arm(t) \/ PushFails(t) \/ Event(t) \/ Clear(t)
  \/ \E r \in Runner : RunExpired(r) \/ FireStep(r)
  \/ ParkWorker \/ Monitor \/ Tick \/ Stop \/ DrainAll

(* The clock runs, tasks and passes that have begun go on, and the worker    *)
(* runs its loop.  Nothing is assumed of the monitor's starting a pass.      *)
TimerFairness ==
  /\ WF_timerVars(Tick)
  /\ \A t \in Task : WF_timerVars(TaskStep(t))
  /\ \A r \in Runner : WF_timerVars(FireStep(r))
  /\ WF_timerVars(RunExpired("worker"))
  /\ WF_timerVars(ParkWorker)
  /\ WF_timerVars(MonitorPolled(W) /\ Monitor)

TimerSpec == TimerInit /\ [][TimerNext]_timerVars /\ TimerFairness

-----------------------------------------------------------------------------
(* The heap is ordered, holds exactly the nodes that are armed and linked,  *)
(* once each, and the deadline published without the lock is its minimum:   *)
(* a removal from the middle repairs the order upwards or downwards.        *)
HeapSound ==
  /\ \A i \in 2 .. Len(heap) : deadline[heap[Parent(i)]] <= deadline[heap[i]]
  /\ IsInjective(heap)
  /\ ToSet(heap) = {x \in Timer : state[x] = "armed"} \ {cur[t] : t \in {u \in Task : pc[u] = "push"}}
  /\ earliest = Earliest(heap, deadline)
  /\ \A x \in ToSet(heap) : earliest <= deadline[x]

(* A callback has its node for itself: until the pass that popped the node   *)
(* publishes kFired, its owner is neither done with disarming it nor arming  *)
(* it again, so the store cannot land on a recycled frame or a new wait.     *)
CallbackOwnsNode ==
  \A r \in Runner : fire[r] \in {"fire", "publish"} =>
    \A i \in next[r] .. Len(ready[r]) :
      LET x == ready[r][i] IN
      Kind(x) # "sleep" =>
        /\ state[x] = "firing"
        /\ Kind(x) = "select" => pc[Owner(x)] \in {"parked", "disarm", "spin", "lock"}

(* A poller never sleeps past a timer: while it is blocked beyond the        *)
(* earliest deadline, a token is latched or the task that published that     *)
(* deadline is still on its way to write one.                                *)
NoOversleep ==
  place[W] = "blocked" /\ earliest < until[W] =>
    W \in token \/ \E t \in Task : tail[t] # "none"

(* Whoever waits on a timer is resumed, exactly by the worker's own loop     *)
(* and the nudges, without the monitor's backstop, unless the runtime stops. *)
TimerFires ==
  \A t \in Task : pc[t] = "parked" ~> (pc[t] # "parked" \/ stop)
=============================================================================
