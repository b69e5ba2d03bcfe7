------------------------------- MODULE Select -------------------------------
(***************************************************************************)
(* select() over several channels (include/cio/select.hpp), with an        *)
(* optional after() timeout and an optional otherwise() default, on top of *)
(* the channel operations of module Channel.                                *)
(*                                                                         *)
(* setup() locks its channels in address order, looks for a ready case,    *)
(* enqueues a waiter per case, unlocks, arms the timer and parks through   *)
(* the phase handshake; finish() retracts the cases that did not win.      *)
(* A timer fires on another thread, in steps of its own.                    *)
(***************************************************************************)
EXTENDS Channel

VARIABLES
  cursor,   \* the case for_each_case has come to
  timer,    \* Timer::state of the select's timeout case
  firing    \* how far the thread running the timer's callback has come

selectVars == <<cursor, timer, firing>>
vars == <<channelVars, selectVars>>

Channels(t) == {CaseOf(t, i).ch : i \in 1..Len(op[t].cases)} \ {Nil}
Held(t) == {c \in Chan : mutex[c] = t}
UnlockAll(t) == mutex' = [c \in Chan |-> IF mutex[c] = t THEN NoTask ELSE mutex[c]]

Init ==
  /\ ChannelInit
  /\ cursor = [t \in Task |-> 1]
  /\ timer = [t \in Task |-> "idle"]
  /\ firing = [t \in Task |-> "none"]

-----------------------------------------------------------------------------
(* setup: the channels are locked one by one, in ascending address order.   *)
BugNextToLock(t, c) ==                 \* in the order of the cases, not sorted
  \E i \in 1..Len(op[t].cases) :
    /\ c = CaseOf(t, i).ch
    /\ c \in Channels(t) \ Held(t)
    /\ \A j \in 1..(i - 1) : CaseOf(t, j).ch \notin Channels(t) \ Held(t)

NextToLock(t, c) ==
  /\ c \in Channels(t) \ Held(t)
  /\ \A d \in Channels(t) \ Held(t) : c <= d

Lock(t, c) ==
  /\ pc[t] = "start"
  /\ IsSelect(t)
  /\ NextToLock(t, c)
  /\ mutex[c] = NoTask
  /\ mutex' = [mutex EXCEPT ![c] = t]
  /\ UNCHANGED <<chanVars, taskVars, selectVars>>

AllLocked(t) ==
  /\ pc[t] = "start"
  /\ IsSelect(t)
  /\ Channels(t) \subseteq Held(t)

(* Phase 1, a case r is ready.  The poll order is random, so any set B of   *)
(* blocked cases may have been tried before r.                              *)
ScanReady(t, r, B) ==
  /\ AllLocked(t)
  /\ CaseOf(t, r).ch # Nil
  /\ \A i \in B : Blocked(t, i)
  /\ Try(t, r, SendersAfter(t, B), ReceiversAfter(t, B))
  /\ UnlockAll(t)
  /\ pc' = [pc EXCEPT ![t] = "wake"]
  /\ UNCHANGED <<op, ops, phase, run, selectVars>>

NothingReady(t) ==
  LET all == 1..Len(op[t].cases) IN
  /\ AllLocked(t)
  /\ \A i \in all : Blocked(t, i)
  /\ senders' = SendersAfter(t, all)
  /\ receivers' = ReceiversAfter(t, all)

ScanDefault(t) ==
  /\ NothingReady(t)
  /\ op[t].default
  /\ winner' = [winner EXCEPT ![t] = DefaultCase]
  /\ UnlockAll(t)
  /\ pc' = [pc EXCEPT ![t] = "done"]
  /\ UNCHANGED <<ring, count, sendIndex, recvIndex, closed, op, ops, phase,
                 status, value, toWake, run, selectVars>>

ScanBlocked(t) ==
  /\ NothingReady(t)
  /\ ~op[t].default
  /\ pc' = [pc EXCEPT ![t] = "enqueue"]
  /\ cursor' = [cursor EXCEPT ![t] = 1]
  /\ UNCHANGED <<ring, count, sendIndex, recvIndex, closed, mutex, op, ops,
                 winner, phase, status, value, toWake, run, timer, firing>>

(* Phase 2: one waiter per case, still under every lock.                    *)
EnqueueCase(t) ==
  /\ pc[t] = "enqueue"
  /\ cursor[t] <= Len(op[t].cases)
  /\ Enqueue(t, cursor[t], senders, receivers)
  /\ cursor' = [cursor EXCEPT ![t] = @ + 1]
  /\ UNCHANGED <<ring, count, sendIndex, recvIndex, closed, mutex, taskVars,
                 timer, firing>>

EnqueuedAll(t) ==
  /\ pc[t] = "enqueue"
  /\ cursor[t] > Len(op[t].cases)
  /\ UnlockAll(t)
  /\ pc' = [pc EXCEPT ![t] = IF op[t].timeout THEN "arm" ELSE "park"]
  /\ UNCHANGED <<chanVars, op, ops, winner, phase, status, value, toWake, run,
                 selectVars>>

(* Phase 3: case_arm.                                                       *)
Arm(t) ==
  /\ pc[t] = "arm"
  /\ timer' = [timer EXCEPT ![t] = "armed"]
  /\ pc' = [pc EXCEPT ![t] = "park"]
  /\ UNCHANGED <<chanVars, mutex, op, ops, winner, phase, status, value, toWake,
                 run, cursor, firing>>

(* Phase 4: the compare-exchange of the phase.  Its failure means a waker   *)
(* has won and left the resumption to this thread.                          *)
Park(t) ==
  /\ pc[t] = "park"
  /\ phase' = [phase EXCEPT ![t] = IF @ = "setup" THEN "parked" ELSE @]
  /\ pc' = [pc EXCEPT ![t] = IF phase[t] = "setup" THEN "parked" ELSE "finish"]
  /\ cursor' = [cursor EXCEPT ![t] = 1]
  /\ UNCHANGED <<chanVars, mutex, op, ops, winner, status, value, toWake, run,
                 timer, firing>>

SelectResume(t) ==
  /\ pc[t] = "parked"
  /\ IsSelect(t)
  /\ run[t] > 0
  /\ run' = [run EXCEPT ![t] = @ - 1]
  /\ pc' = [pc EXCEPT ![t] = "finish"]
  /\ UNCHANGED <<chanVars, mutex, op, ops, winner, phase, status, value, toWake,
                 selectVars>>

(* finish: case_retract on every case but the winner, each under its        *)
(* channel's lock.  A node that a waker has popped is no longer queued.     *)
Without(q, w) ==
  IF \E k \in 1..Len(q) : q[k] = w
  THEN LET k == CHOOSE k \in 1..Len(q) : q[k] = w
       IN  [j \in 1..(Len(q) - 1) |-> IF j < k THEN q[j] ELSE q[j + 1]]
  ELSE q

BugRetract(t) ==                       \* forgets to unlink the waiter
  /\ pc[t] = "finish"
  /\ cursor[t] <= Len(op[t].cases)
  /\ cursor' = [cursor EXCEPT ![t] = @ + 1]
  /\ UNCHANGED <<chanVars, mutex, taskVars, timer, firing>>

Retract(t) ==
  LET i == cursor[t]
      k == CaseOf(t, i)
  IN
  /\ pc[t] = "finish"
  /\ i <= Len(op[t].cases)
  /\ \/ /\ i = winner[t] \/ k.ch = Nil
        /\ UNCHANGED <<senders, receivers>>
     \/ /\ i # winner[t]
        /\ k.ch # Nil
        /\ mutex[k.ch] = NoTask
        /\ senders' = IF k.dir = "send"
                      THEN [senders EXCEPT ![k.ch] = Without(@, <<t, i>>)]
                      ELSE senders
        /\ receivers' = IF k.dir = "recv"
                        THEN [receivers EXCEPT ![k.ch] = Without(@, <<t, i>>)]
                        ELSE receivers
  /\ cursor' = [cursor EXCEPT ![t] = @ + 1]
  /\ UNCHANGED <<ring, count, sendIndex, recvIndex, closed, mutex, taskVars,
                 timer, firing>>

(* case_retract of the timeout, last: disarm takes an armed timer out of    *)
(* the heap and waits for one whose callback is running.                    *)
BugDisarm(t) ==                        \* does not wait for the callback
  /\ pc[t] = "finish"
  /\ cursor[t] > Len(op[t].cases)
  /\ timer' = [timer EXCEPT ![t] = "idle"]
  /\ pc' = [pc EXCEPT ![t] = "done"]
  /\ UNCHANGED <<chanVars, mutex, op, ops, winner, phase, status, value, toWake,
                 run, cursor, firing>>

Disarm(t) ==
  /\ pc[t] = "finish"
  /\ cursor[t] > Len(op[t].cases)
  /\ timer[t] # "firing"
  /\ timer' = [timer EXCEPT ![t] = "idle"]
  /\ pc' = [pc EXCEPT ![t] = "done"]
  /\ UNCHANGED <<chanVars, mutex, op, ops, winner, phase, status, value, toWake,
                 run, cursor, firing>>

-----------------------------------------------------------------------------
(* The timer service: an expired timer is popped and marked firing under    *)
(* the heap lock, its callback select_timeout_fired runs outside of it,     *)
(* then kFired is published, and a handle it returned is scheduled.         *)
Expire(t) ==
  /\ timer[t] = "armed"
  /\ timer' = [timer EXCEPT ![t] = "firing"]
  /\ firing' = [firing EXCEPT ![t] = "claim"]
  /\ UNCHANGED <<channelVars, cursor>>

TimerClaim(t) ==
  /\ firing[t] = "claim"
  /\ winner' = [winner EXCEPT ![t] = IF @ = NoWinner THEN TimeoutCase ELSE @]
  /\ firing' = [firing EXCEPT ![t] = IF winner[t] = NoWinner THEN "exchange" ELSE "lost"]
  /\ UNCHANGED <<chanVars, mutex, pc, op, ops, phase, status, value, toWake, run,
                 cursor, timer>>

TimerExchange(t) ==
  /\ firing[t] = "exchange"
  /\ phase' = [phase EXCEPT ![t] = "resumed"]
  /\ firing' = [firing EXCEPT ![t] = IF phase[t] = "parked" THEN "won" ELSE "lost"]
  /\ UNCHANGED <<chanVars, mutex, pc, op, ops, winner, status, value, toWake, run,
                 cursor, timer>>

TimerFired(t) ==
  /\ firing[t] \in {"lost", "won"}
  /\ timer' = [timer EXCEPT ![t] = "fired"]
  /\ firing' = [firing EXCEPT ![t] = IF @ = "won" THEN "schedule" ELSE "none"]
  /\ UNCHANGED <<channelVars, cursor>>

TimerSchedule(t) ==
  /\ firing[t] = "schedule"
  /\ run' = [run EXCEPT ![t] = @ + 1]
  /\ firing' = [firing EXCEPT ![t] = "none"]
  /\ UNCHANGED <<chanVars, mutex, pc, op, ops, winner, phase, status, value,
                 toWake, cursor, timer>>

-----------------------------------------------------------------------------
SelectStep(t) ==
  \/ \E c \in Chan : Lock(t, c)
  \/ IsSelect(t) /\ \E r \in 1..Len(op[t].cases) :
       \E B \in SUBSET ((1..Len(op[t].cases)) \ {r}) : ScanReady(t, r, B)
  \/ ScanDefault(t)
  \/ ScanBlocked(t)
  \/ EnqueueCase(t)
  \/ EnqueuedAll(t)
  \/ Arm(t)
  \/ Park(t)
  \/ SelectResume(t)
  \/ Retract(t)
  \/ Disarm(t)

TimerStep(t) ==
  \/ Expire(t)
  \/ TimerClaim(t)
  \/ TimerExchange(t)
  \/ TimerFired(t)
  \/ TimerSchedule(t)

Next ==
  \/ ChannelNext /\ UNCHANGED selectVars
  \/ \E t \in Task : SelectStep(t) \/ TimerStep(t)

(* Fairness.  A worker thread keeps running the step it is in, the          *)
(* scheduler runs what was handed to it, and the timer service keeps firing *)
(* what has expired.  Starting an operation is up to the task.              *)
Fairness ==
  /\ \A t \in Task : WF_vars(ChannelStep(t) /\ UNCHANGED selectVars)
  /\ \A t \in Task : WF_vars(SelectStep(t))
  /\ \A t \in Task : WF_vars(TimerStep(t))

Spec == Init /\ [][Next]_vars
FairSpec == Spec /\ Fairness

-----------------------------------------------------------------------------
PcState == {"idle", "start", "enqueue", "arm", "park", "parked", "finish", "wake",
            "done"}
Phase == {"setup", "parked", "resumed"}
Status == {"pending", "done", "closed", "blocked"}
TimerState == {"idle", "armed", "firing", "fired"}
FiringState == {"none", "claim", "exchange", "lost", "won", "schedule"}

ChanTypeOK ==
  /\ DOMAIN ring = Chan
  /\ \A c \in Chan : ring[c] \in [0..(Capacity[c] - 1) -> Msg \cup {NoMsg}]
  /\ count \in [Chan -> Nat]
  /\ sendIndex \in [Chan -> Nat]
  /\ recvIndex \in [Chan -> Nat]
  /\ \A c \in Chan : /\ count[c] <= Capacity[c]
                     /\ sendIndex[c] < Capacity[c] \/ sendIndex[c] = 0
                     /\ recvIndex[c] < Capacity[c] \/ recvIndex[c] = 0
  /\ closed \in [Chan -> BOOLEAN]
  /\ senders \in [Chan -> Seq(Waiter)]
  /\ receivers \in [Chan -> Seq(Waiter)]
  /\ mutex \in [Chan -> Task \cup {NoTask}]

TaskTypeOK ==
  /\ pc \in [Task -> PcState]
  /\ op \in [Task -> Op \cup {NoOp}]
  /\ ops \in [Task -> 0..MaxOps]
  /\ winner \in [Task -> 0..DefaultCase]
  /\ phase \in [Task -> Phase]
  /\ status \in [Task -> Status]
  /\ value \in [Task -> Msg \cup {NoMsg}]
  /\ toWake \in [Task -> SUBSET Waiter]
  /\ run \in [Task -> Nat]
  /\ cursor \in [Task -> 1..(MaxCases + 1)]
  /\ timer \in [Task -> TimerState]
  /\ firing \in [Task -> FiringState]

(* Type invariant: also, no ring holds more than its capacity and its       *)
(* indices stay inside it.                                                  *)
TypeOK == ChanTypeOK /\ TaskTypeOK

Decided(t) == IF IsSelect(t) THEN winner[t] # NoWinner ELSE status[t] # "pending"

(* No operation is left waiting for something that is already there: a      *)
(* waiter that could be acquired sits in a receiver list only while the     *)
(* channel is open and empty, in a sender list only while it is open and    *)
(* full, and the two lists hold no pair of different tasks that could meet. *)
NoneStranded ==
  \A c \in Chan :
    /\ AcquirableAt(receivers[c]) # {} => ~closed[c] /\ count[c] = 0
    /\ AcquirableAt(senders[c]) # {} => ~closed[c] /\ count[c] = Capacity[c]
    /\ \A j \in AcquirableAt(receivers[c]), k \in AcquirableAt(senders[c]) :
         receivers[c][j][1] = senders[c][k][1]

WaiterInPlace(w, dir, c) ==
  LET t == w[1] IN
  /\ op[t] # NoOp
  /\ w[2] \in 1..Len(op[t].cases)
  /\ CaseOf(t, w[2]) = [dir |-> dir, ch |-> c]
  /\ w[2] # winner[t]
  /\ \/ pc[t] = "parked" /\ op[t].how = "await" /\ ~Decided(t)
     \/ /\ IsSelect(t)
        /\ \/ pc[t] \in {"arm", "park", "parked"}
           \/ pc[t] = "enqueue" /\ w[2] < cursor[t]
           \/ pc[t] = "finish" /\ w[2] >= cursor[t]

ListInPlace(q, dir, c) ==
  /\ \A k \in 1..Len(q) : WaiterInPlace(q[k], dir, c)
  /\ \A j, k \in 1..Len(q) : q[j] = q[k] => j = k

(* A task's waiters are where its progress says: a list holds a waiter at   *)
(* most once, it is one of the cases of an operation in progress, never the *)
(* winning one, and finish() leaves none of the cases it has passed behind. *)
WaitersInPlace ==
  \A c \in Chan : /\ ListInPlace(senders[c], "send", c)
                  /\ ListInPlace(receivers[c], "recv", c)

Listed(w, q) == \E k \in 1..Len(q) : q[k] = w

(* An operation that waits undecided is still registered on the channel of  *)
(* every one of its cases: no waker pops a waiter without deciding it.      *)
StaysRegistered ==
  \A t \in Task : pc[t] \in {"arm", "park", "parked"} /\ ~Decided(t) =>
    \A i \in 1..Len(op[t].cases), c \in Chan :
      /\ CaseOf(t, i) = [dir |-> "send", ch |-> c] => Listed(<<t, i>>, senders[c])
      /\ CaseOf(t, i) = [dir |-> "recv", ch |-> c] => Listed(<<t, i>>, receivers[c])

(* The claims on resuming t: dispatched, or owed by a waker or the timer.   *)
Woken(t) == \E u \in Task : \E w \in toWake[u] : w[1] = t
WokenOnce(t) ==
  \A u, v \in Task : \A w \in toWake[u], x \in toWake[v] :
    w[1] = t /\ x[1] = t => u = v /\ w = x
TimerOwes(t) == firing[t] \in {"exchange", "won", "schedule"}
Claimed(t) == run[t] > 0 \/ Woken(t) \/ TimerOwes(t)

OnceAt(t) ==
  /\ Claimed(t) <=>
       /\ Decided(t)
       /\ pc[t] = "parked" \/ (pc[t] \in {"arm", "park"} /\ phase[t] = "setup")
  /\ run[t] <= 1
  /\ run[t] = 1 => pc[t] = "parked" /\ ~Woken(t) /\ ~TimerOwes(t)
  /\ ~(Woken(t) /\ TimerOwes(t))
  /\ WokenOnce(t)

(* A parked operation is resumed exactly once: from the moment it is        *)
(* decided there is one claim on its resumption, before that none.  A       *)
(* select that is still setting itself up has one only while the waker has  *)
(* not reached the phase exchange, no other operation ever has one, and     *)
(* only a task that is suspended is ever handed to the scheduler.           *)
ResumedOnce == \A t \in Task : OnceAt(t)

(* When an operation returns, its frame and the waiter and timer nodes in   *)
(* it are gone: no list, wake list, callback or heap may still refer to it. *)
FrameUnreferenced ==
  \A t \in Task : pc[t] = "idle" =>
    /\ \A c \in Chan, i \in CaseIndex : /\ ~Listed(<<t, i>>, senders[c])
                                        /\ ~Listed(<<t, i>>, receivers[c])
    /\ ~Claimed(t)
    /\ firing[t] = "none"
    /\ timer[t] = "idle"

(* The abstract state this one stands for. *)
Contents(c) ==
  [k \in 1..count[c] |-> ring[c][(recvIndex[c] + k - 1) % Capacity[c]]]
Result(t) ==
  IF ~Decided(t) THEN [case |-> 0, status |-> "pending", value |-> NoMsg]
  ELSE [case |-> IF IsSelect(t) THEN winner[t] ELSE 1,
        status |-> IF IsSelect(t) /\ winner[t] > MaxCases THEN "done"
                   ELSE status[t],
        value |-> value[t]]
Go == INSTANCE GoChannel WITH
        queue <- [c \in Chan |-> Contents(c)], shut <- closed,
        want <- op, begun <- ops, outcome <- [t \in Task |-> Result(t)]

(* Channels with select implement bounded FIFO queues on which every        *)
(* operation takes effect atomically through exactly one case: no value is  *)
(* lost, duplicated, reordered or sent by a losing case.                    *)
ImplementsGoChannel == Go!Spec

(* An operation that was decided returns, selects that lock several         *)
(* channels never wait on each other for ever, and a select with an after() *)
(* case always returns.                                                     *)
OperationsReturn ==
  \A t \in Task :
    /\ Decided(t) ~> pc[t] = "idle"
    /\ pc[t] = "start" ~> pc[t] # "start"
    /\ (IsSelect(t) /\ op[t].timeout) ~> pc[t] = "idle"
=============================================================================
