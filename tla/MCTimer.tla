------------------------------ MODULE MCTimer -------------------------------
(* Small instances of the timer service and of the handles built on timers. *)
EXTENDS TimerService, TimerHandle

Scenario(own, knd, when, arms, thr, mon, prk, stp, last) ==
  [owns |-> own, kind |-> knd, delay |-> when, rounds |-> arms, threads |-> thr,
   monitor |-> mon, parks |-> prk, stops |-> stp,
   latest |-> IF last = 0 THEN 3 ELSE last, clock |-> last]

Kinds(k1, k2) == [x \in Timer |-> IF x = 1 THEN k1 ELSE IF x = 2 THEN k2 ELSE "io"]
Each == [t \in Task |-> <<t>>]
At(d1, d2) == [x \in Timer |-> IF x = 1 THEN d1 ELSE d2]

(* One task arms six deadlines and clears some of them. *)
HeapScenarios ==
  {Scenario(<<<<1, 2, 3, 4, 5, 6>>, <<1>>>>, Kinds("io", "io"), [x \in Timer |-> {d[x]}],
            <<6, 0>>, {"worker"}, {}, FALSE, FALSE, 0) :
     d \in {<<1, 3, 2, 3, 3, 2>>}}

(* A task arms its node twice, while worker and monitor both fire timers. *)
AgainScenarios ==
  {Scenario(Each, Kinds(k, "io"), At({1}, {}), <<2, 0>>, {"foreign"}, {"fires"}, FALSE, FALSE, 2) :
     k \in {"sleep", "select", "io"}}

(* Two tasks arm one node each, from the worker or another thread. *)
PairScenarios ==
  {Scenario(Each, Kinds("sleep", "io"), At({2}, {1}), <<1, 1>>, {"worker", "foreign"}, {},
            TRUE, FALSE, 2)}

(* The runtime may stop, and the monitor polls the shard now and then. *)
StopScenarios ==
  {Scenario(Each, Kinds(k, "io"), At({1}, {}), <<1, 0>>, {"foreign"}, {"polls"}, TRUE, TRUE, 1) :
     k \in {"sleep", "select"}}

MCHandle ==
  {[kind |-> "timer", due |-> 1, period |-> 0], [kind |-> "func", due |-> 2, period |-> 0],
   [kind |-> "ticker", due |-> 1, period |-> 1], [kind |-> "ticker", due |-> 2, period |-> 2]}

(* Either the timer service runs or a handle does; the other one is at rest. *)
Rest == Scenario(Each, Kinds("io", "io"), At({}, {}), <<0, 0>>, {}, {}, FALSE, FALSE, 0)

AtRest == {Rest}

MCScenarios ==
  {Rest} \cup HeapScenarios \cup AgainScenarios \cup PairScenarios \cup StopScenarios

HandleAtRest ==
  /\ handle = [kind |-> "none", due |-> 0, period |-> 0]
  /\ clock = LastInstant /\ calls = MaxCalls /\ driver = "done" /\ user = "idle"
  /\ due = 0 /\ period = 0 /\ fired = FALSE /\ stopped = FALSE /\ cancel = FALSE
  /\ rearm = FALSE /\ channel = FALSE /\ closed = FALSE /\ called = FALSE
  /\ readDue = 0 /\ readPeriod = 0 /\ lastTick = 0 /\ asked = 0 /\ pendingSeen = FALSE
  /\ saidStopped = FALSE

MCInit == TimerInit /\ IF scenario = Rest THEN HandleInit ELSE HandleAtRest
MCNext == (TimerNext /\ UNCHANGED handleVars) \/ (HandleNext /\ UNCHANGED timerVars)
MCSpec ==
  MCInit /\ [][MCNext]_<<timerVars, handleVars>> /\ TimerFairness /\ HandleFairness
=============================================================================
