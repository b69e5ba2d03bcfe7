---------------------------- MODULE SelectDeals ----------------------------
(***************************************************************************)
(* Steps that deal: those that take waiters off the lists and decide their *)
(* operations.  Each branch of try_send_locked and try_recv_locked is      *)
(* such a step, and a step of this kind preserves the invariant.           *)
(***************************************************************************)
EXTENDS SelectInvariant

(* The step of t decides the operation of u through case i. *)
DecidesPeer(u, i) ==
  /\ pc'[u] = pc[u] /\ op'[u] = op[u] /\ phase'[u] = phase[u] /\ run'[u] = run[u]
  /\ timer'[u] = timer[u] /\ firing'[u] = firing[u] /\ cursor'[u] = cursor[u]
  /\ toWake'[u] = toWake[u]
  /\ IF IsSelect(u) THEN winner'[u] = i
                    ELSE winner'[u] = winner[u] /\ status'[u] # "pending"

(* w is a waiter t may acquire: its operation is undecided, and it is not   *)
(* enqueueing.                                                              *)
Takeable(t, w) ==
  /\ w \in Waiter /\ w[1] # t
  /\ ~Decided(w[1])
  /\ pc[w[1]] \in {"arm", "park", "parked"}
  /\ op[w[1]] # NoOp /\ w[2] \in 1..Len(op[w[1]].cases)
  /\ ~IsSelect(w[1]) => op[w[1]].how = "await"

(* The step of t takes the waiters W off the lists, at most one of a task,  *)
(* and decides their operations.                                            *)
Deals(t, W) ==
  /\ \A w \in W : Takeable(t, w) /\ DecidesPeer(w[1], w[2])
  /\ \A w, x \in W : w[1] = x[1] => w = x
  /\ \A w \in W, c \in Chan : ~Listed(w, senders'[c]) /\ ~Listed(w, receivers'[c])
  /\ toWake[t] = {} /\ toWake'[t] = W
  /\ \A u \in Task \ {t} : (\A w \in W : w[1] # u) => SameTask(u)

(* The lists only lose waiters; a channel whose count or closed flag        *)
(* changes keeps none that could still be acquired.                         *)
ListsLose ==
  \A c \in Chan :
    /\ Shrunk(senders'[c], senders[c]) /\ Shrunk(receivers'[c], receivers[c])
    /\ \/ closed'[c] = closed[c] /\ count'[c] = count[c]
       \/ /\ \A k \in 1..Len(senders'[c]) : ~Acquirable(senders[c][k])'
          /\ \A k \in 1..Len(receivers'[c]) : ~Acquirable(receivers[c][k])'

(* A waiter of a list, if it can be acquired by a task that may hold the    *)
(* channel's lock and has no waiters of its own.                            *)
LEMMA AcquiredIsTakeable ==
  ASSUME IndInv, NEW t \in Task, pc[t] = "start", NEW c \in Chan,
         mutex[c] \in {NoTask, t}, NEW dir \in {"send", "recv"}, NEW w \in Waiter,
         WaiterInPlace(w, dir, c), Acquirable(w)
  PROVE  Takeable(t, w) /\ CaseOf(w[1], w[2]) = [dir |-> dir, ch |-> c]
<1>1. PICK u \in Task : u = w[1]
  BY Zenon DEF Waiter
<1>2. /\ op[u] # NoOp /\ w[2] \in 1..Len(op[u].cases)
      /\ CaseOf(u, w[2]) = [dir |-> dir, ch |-> c]
      /\ pc[u] \in {"parked", "arm", "park", "enqueue", "finish"}
      /\ ~IsSelect(u) => op[u].how = "await" /\ ~Decided(u)
  BY Zenon, <1>1 DEF WaiterInPlace
<1>3. u # t
  BY Zenon, <1>2
<1>4. ~Decided(u)
  BY Zenon, <1>1, <1>2 DEF Decided, Acquirable
<1>5. pc[u] # "finish"
  BY Zenon, <1>4, AtTask DEF OpInPlace
<1>6. pc[u] # "enqueue"
  <2>1. SUFFICES ASSUME pc[u] = "enqueue" PROVE FALSE
    BY Zenon
  <2>2. StillBlocked(u)
    BY Zenon, <2>1, AtTask
  <2>3. CaseOf(u, w[2]).ch = c
    BY SMTT(60), <1>2
  <2>4. mutex[c] = u
    BY Zenon, <1>2, <2>2, <2>3 DEF StillBlocked
  <2>5. QED
    BY Zenon, <1>3, <2>4, ChannelAssumption
<1>7. QED
  BY Zenon, <1>1, <1>2, <1>3, <1>4, <1>5, <1>6 DEF Takeable

(* What is said of an operation that a peer decides. *)
LEMMA PeerInPlace ==
  ASSUME IndInv, NEW t \in Task, NEW W, Deals(t, W), NEW w \in W
  PROVE  /\ OpInPlace(w[1])' /\ PhaseInPlace(w[1])' /\ TimerInPlace(w[1])'
         /\ OnceAt(w[1])' /\ pc'[w[1]] # "enqueue"
         /\ \A i \in CaseIndex : ~(IsSelect(w[1]) /\ Acquirable(<<w[1], i>>)')
<1>1. Takeable(t, w) /\ DecidesPeer(w[1], w[2])
  BY Zenon DEF Deals
<1>2. PICK u \in Task : u = w[1]
  BY Zenon, <1>1 DEF Takeable, Waiter
<1>3. /\ u # t /\ ~Decided(u) /\ pc[u] \in {"arm", "park", "parked"}
      /\ op[u] # NoOp /\ w[2] \in 1..Len(op[u].cases)
  BY Zenon, <1>1, <1>2 DEF Takeable
<1>4. /\ pc'[u] = pc[u] /\ op'[u] = op[u] /\ phase'[u] = phase[u] /\ run'[u] = run[u]
      /\ timer'[u] = timer[u] /\ firing'[u] = firing[u] /\ cursor'[u] = cursor[u]
      /\ toWake'[u] = toWake[u]
      /\ IsSelect(u) => winner'[u] = w[2]
      /\ ~IsSelect(u) => winner'[u] = winner[u] /\ status'[u] # "pending"
  BY Zenon, <1>1, <1>2 DEF DecidesPeer
<1>5. OpInPlace(u) /\ PhaseInPlace(u) /\ TimerInPlace(u) /\ OnceAt(u) /\ run[u] \in Nat
  BY Zenon, AtTask
<1>6. (IsSelect(u)' <=> IsSelect(u)) /\ Decided(u)'
  <2>1. IsSelect(u)' <=> IsSelect(u)
    BY Zenon, <1>4 DEF IsSelect
  <2>2. w[2] # NoWinner
    BY SMTT(60), <1>3 DEF NoWinner
  <2>3. QED
    BY Zenon, <1>4, <2>1, <2>2 DEF Decided
<1>7. run[u] = 0 /\ ~Woken(u) /\ ~TimerOwes(u) /\ ~Claimed(u)
  <2>1. ~Claimed(u)
    BY Zenon, <1>3, <1>5 DEF OnceAt
  <2>2. QED
    BY SMTT(60), <1>5, <2>1 DEF Claimed
<1>8. OpInPlace(u)'
  BY Zenon, <1>3, <1>4, <1>5, <1>6 DEF OpInPlace
<1>9. PhaseInPlace(u)'
  BY Zenon, <1>4, <1>5, <1>6, PhaseKept
<1>10. TimerInPlace(u)'
  BY Zenon, <1>4, <1>5, <1>6 DEF TimerInPlace
<1>11. OnceAt(u)'
  <2>1. Woken(u)'
    BY Zenon, <1>2 DEF Woken, Deals
  <2>2. ~TimerOwes(u)'
    BY Zenon, <1>4, <1>7 DEF TimerOwes
  <2>3. WokenOnce(u)'
    <3>1. SUFFICES ASSUME NEW v \in Task, NEW x \in toWake'[v], x[1] = u
                   PROVE  v = t /\ x = w
      BY Zenon DEF WokenOnce
    <3>2. v = t
      <4>1. SUFFICES ASSUME v # t PROVE FALSE
        BY Zenon
      <4>2. toWake'[v] = toWake[v]
        BY SMTT(60), <4>1 DEF Deals, SameTask, DecidesPeer
      <4>3. QED
        BY Zenon, <1>7, <3>1, <4>2 DEF Woken
    <3>3. QED
      BY Zenon, <1>2, <3>1, <3>2 DEF Deals
  <2>4. pc'[u] = "parked" \/ (pc'[u] \in {"arm", "park"} /\ phase'[u] = "setup")
    BY Zenon, <1>3, <1>4, <1>5 DEF PhaseInPlace
  <2>5. QED
    BY SMTT(60), <1>4, <1>6, <1>7, <2>1, <2>2, <2>3, <2>4 DEF OnceAt, Claimed
<1>12. ASSUME NEW i \in CaseIndex, IsSelect(u)
       PROVE  ~Acquirable(<<u, i>>)'
  <2>1. IsSelect(u)' /\ winner'[u] # NoWinner
    BY SMTT(60), <1>3, <1>4, <1>6, <1>12 DEF NoWinner
  <2>2. QED
    BY Zenon, <2>1 DEF Acquirable
<1>13. QED
  BY Zenon, <1>2, <1>3, <1>4, <1>8, <1>9, <1>10, <1>11, <1>12

(* The other waiters of a select that a peer decides stay in place. *)
LEMMA PeerWaiters ==
  ASSUME IndInv, NEW t \in Task, NEW W, Deals(t, W), NEW x \in W, NEW i \in CaseIndex,
         <<x[1], i>> # x, NEW dir, NEW c, WaiterInPlace(<<x[1], i>>, dir, c)
  PROVE  /\ WaiterInPlace(<<x[1], i>>, dir, c)'
         /\ Acquirable(<<x[1], i>>)' => Acquirable(<<x[1], i>>)
<1>1. Takeable(t, x) /\ DecidesPeer(x[1], x[2])
  BY Zenon DEF Deals
<1>2. PICK u \in Task : u = x[1] /\ x = <<u, x[2]>>
  BY SMTT(60), <1>1 DEF Takeable, Waiter
<1>3. /\ op[u] # NoOp /\ i \in 1..Len(op[u].cases)
      /\ CaseOf(u, i) = [dir |-> dir, ch |-> c]
      /\ \/ pc[u] = "parked" /\ op[u].how = "await" /\ ~Decided(u)
         \/ /\ IsSelect(u)
            /\ \/ pc[u] \in {"arm", "park", "parked"}
               \/ pc[u] = "enqueue" /\ i < cursor[u]
               \/ pc[u] = "finish" /\ i >= cursor[u]
  BY Zenon, <1>2 DEF WaiterInPlace
<1>4. i # x[2]
  BY Zenon, <1>2
<1>5. IsSelect(u)
  <2>1. SUFFICES ASSUME ~IsSelect(u) PROVE FALSE
    BY Zenon
  <2>2. op[u] \in Op /\ op[u].how = "await"
    BY Zenon, <1>1, <1>2, <1>3, <2>1, AtTask DEF Takeable
  <2>3. Len(op[u].cases) = 1
    BY Zenon, <2>2, ChannelAssumption
  <2>4. x[2] \in 1..Len(op[u].cases)
    BY Zenon, <1>1, <1>2 DEF Takeable
  <2>5. QED
    BY SMTT(60), <1>3, <1>4, <2>3, <2>4
<1>6. /\ pc'[u] = pc[u] /\ op'[u] = op[u] /\ cursor'[u] = cursor[u] /\ winner'[u] = x[2]
      /\ IsSelect(u)'
  BY Zenon, <1>1, <1>2, <1>5 DEF DecidesPeer, IsSelect
<1>7. WaiterInPlace(<<u, i>>, dir, c)'
  BY Zenon, <1>3, <1>4, <1>5, <1>6 DEF WaiterInPlace, CaseOf, IsSelect
<1>8. ~Acquirable(<<u, i>>)'
  BY Zenon, <1>2, <1>5, PeerInPlace
<1>9. QED
  BY Zenon, <1>2, <1>7, <1>8

(* t's own waiters that stay listed stay in place. *)
OwnListedKept(t) ==
  \A i \in CaseIndex, c \in Chan :
    /\ Listed(<<t, i>>, senders'[c]) /\ WaiterInPlace(<<t, i>>, "send", c) =>
         /\ WaiterInPlace(<<t, i>>, "send", c)'
         /\ Acquirable(<<t, i>>)' => Acquirable(<<t, i>>)
    /\ Listed(<<t, i>>, receivers'[c]) /\ WaiterInPlace(<<t, i>>, "recv", c) =>
         /\ WaiterInPlace(<<t, i>>, "recv", c)'
         /\ Acquirable(<<t, i>>)' => Acquirable(<<t, i>>)

(* Claims on a task that is neither t nor decided by the step. *)
LEMMA BystanderOnce ==
  ASSUME IndInv, NEW t \in Task, NEW W, Deals(t, W), NEW u \in Task, u # t,
         \A w \in W : w[1] # u
  PROVE  OnceAt(u)'
<1>1. SameTask(u) /\ OnceAt(u)
  BY Zenon, AtTask DEF Deals
<1>2. \A v \in Task : v # t => toWake'[v] = toWake[v]
  BY SMTT(60) DEF Deals, SameTask, DecidesPeer
<1>3. toWake[t] = {} /\ toWake'[t] = W
  BY Zenon DEF Deals
<1>4. \A v \in Task : \A w : w[1] = u => (w \in toWake'[v] <=> w \in toWake[v])
  BY Zenon, <1>2, <1>3
<1>5. (Woken(u)' <=> Woken(u)) /\ (WokenOnce(u) => WokenOnce(u)')
  BY SMTT(60), <1>4 DEF Woken, WokenOnce
<1>6. (Decided(u)' <=> Decided(u)) /\ (TimerOwes(u)' <=> TimerOwes(u))
  BY Zenon, <1>1, SameInPlace DEF SameTask, TimerOwes
<1>7. QED
  BY Zenon, <1>1, <1>5, <1>6 DEF OnceAt, Claimed, SameTask

(* A step that deals preserves the invariant if it does so for t. *)
LEMMA DealStep ==
  ASSUME IndInv, NEW t \in Task, TypeOK', NEW W, Deals(t, W), ListsLose, LockRespected(t),
         OwnListedKept(t), OnceAt(t)', OpInPlace(t)', PhaseInPlace(t)', TimerInPlace(t)',
         pc'[t] = "enqueue" => StillBlocked(t)'
  PROVE  IndInv'
<1>1. ASSUME NEW u \in Task, u # t
      PROVE  SameTask(u) \/ \E w \in W : w[1] = u
  BY Zenon, <1>1 DEF Deals
<1>2. /\ TypeOK /\ ChanTypeOK /\ ChanTypeOK' /\ WaitersInPlace /\ NoneStranded
      /\ ResumedOnce /\ ProgressInPlace
  BY Zenon DEF IndInv, TypeOK
<1>3. ASSUME NEW c \in Chan
      PROVE  Shrunk(senders'[c], senders[c]) /\ Shrunk(receivers'[c], receivers[c])
  BY Zenon DEF ListsLose
<1>4. ASSUME NEW c \in Chan, NEW w,
             Listed(w, senders'[c]) \/ Listed(w, receivers'[c])
      PROVE  /\ Acquirable(w)' => Acquirable(w)
             /\ Listed(w, senders'[c]) /\ WaiterInPlace(w, "send", c) =>
                  WaiterInPlace(w, "send", c)'
             /\ Listed(w, receivers'[c]) /\ WaiterInPlace(w, "recv", c) =>
                  WaiterInPlace(w, "recv", c)'
  <2>1. /\ Listed(w, senders'[c]) => Listed(w, senders[c])
        /\ Listed(w, receivers'[c]) => Listed(w, receivers[c])
    BY SMTT(60), <1>3 DEF Shrunk, Listed
  <2>2. w[1] \in Task /\ w[2] \in CaseIndex /\ w = <<w[1], w[2]>>
    BY Zenon, <1>2, <1>4, <2>1, ListedIsWaiter
  <2>3. PICK u \in Task, i \in CaseIndex : w = <<u, i>>
    BY Zenon, <2>2
  <2>4. /\ Listed(w, senders'[c]) => WaiterInPlace(w, "send", c)
        /\ Listed(w, receivers'[c]) => WaiterInPlace(w, "recv", c)
    BY SMTT(60), <1>2, <2>1 DEF WaitersInPlace, ListInPlace, Listed
  <2>5. CASE u = t
    BY Zenon, <1>4, <2>3, <2>4, <2>5 DEF OwnListedKept
  <2>6. CASE SameTask(u)
    BY Zenon, <2>3, <2>6, SameInPlace
  <2>7. CASE \E x \in W : x[1] = u
    <3>1. PICK x \in W : x[1] = u
      BY Zenon, <2>7
    <3>2. x # w
      BY Zenon, <1>4 DEF Deals
    <3>3. QED
      BY Zenon, <1>4, <2>3, <2>4, <3>1, <3>2, PeerWaiters
  <2>8. QED
    BY Zenon, <1>1, <2>5, <2>6, <2>7
<1>5. ListsShrink
  BY Zenon, <1>3, <1>4 DEF ListsShrink, ShrinksAt
<1>6. WaitersInPlace'
  BY Zenon, <1>2, <1>4, <1>5, WaitersKept
<1>7. NoneStranded'
  <2>1. SUFFICES ASSUME NEW c \in Chan
                 PROVE  /\ AcquirableAt(receivers[c])' # {} => ~closed'[c] /\ count'[c] = 0
                        /\ AcquirableAt(senders[c])' # {} => ~closed'[c] /\ count'[c] = Capacity[c]
                        /\ \A j \in AcquirableAt(receivers[c])', k \in AcquirableAt(senders[c])' :
                             receivers'[c][j][1] = senders'[c][k][1]
    BY Zenon DEF NoneStranded
  <2>2. CASE closed'[c] = closed[c] /\ count'[c] = count[c]
    BY Zenon, <1>2, <1>5, <2>2, StrandedUnchanged DEF ListsShrink
  <2>3. CASE /\ \A k \in 1..Len(senders'[c]) : ~Acquirable(senders[c][k])'
             /\ \A k \in 1..Len(receivers'[c]) : ~Acquirable(receivers[c][k])'
    BY Zenon, <2>3 DEF AcquirableAt, Acquirable, IsSelect
  <2>4. QED
    BY Zenon, <2>2, <2>3 DEF ListsLose
<1>8. ResumedOnce'
  <2>1. ASSUME NEW u \in Task, u # t
        PROVE  OnceAt(u)'
    BY SMTT(60), <2>1, BystanderOnce, PeerInPlace
  <2>2. QED
    BY Zenon, <2>1 DEF ResumedOnce
<1>9. ProgressInPlace'
  <2>1. ASSUME NEW u \in Task, u # t
        PROVE  OpInPlace(u)' /\ PhaseInPlace(u)' /\ TimerInPlace(u)'
    <3>1. CASE SameTask(u)
      BY Zenon, <3>1, SameInPlace, AtTask
    <3>2. CASE \E w \in W : w[1] = u
      BY Zenon, <3>2, PeerInPlace
    <3>3. QED
      BY Zenon, <1>1, <2>1, <3>1, <3>2
  <2>2. ASSUME NEW u \in Task, u # t, pc'[u] = "enqueue"
        PROVE  StillBlocked(u)'
    <3>1. SameTask(u)
      BY Zenon, <1>1, <2>2, PeerInPlace
    <3>2. StillBlocked(u)
      BY Zenon, <2>2, <3>1, AtTask DEF SameTask
    <3>3. QED
      BY Zenon, <1>2, <1>5, <2>2, <3>1, <3>2, StillBlockedKept, ChannelAssumption DEF ListsShrink
  <2>3. QED
    BY Zenon, <2>1, <2>2 DEF ProgressInPlace
<1>10. QED
  BY Zenon, <1>6, <1>7, <1>8, <1>9 DEF IndInv
-----------------------------------------------------------------------------
(* The primitives try_send_locked and try_recv_locked. *)

(* What holds around a call for case i of t, on channel c: snd and rcv are  *)
(* the lists, from which earlier cases may have removed all waiters.        *)
TryContext(t, i, c, snd, rcv) ==
  /\ pc[t] = "start" /\ pc' = [pc EXCEPT ![t] = "wake"]
  /\ UNCHANGED <<op, ops, phase, run, cursor, timer, firing>>
  /\ i \in CaseIndex /\ CaseOf(t, i).ch = c
  /\ mutex[c] \in {NoTask, t}
  /\ snd \in [Chan -> Seq(Waiter)] /\ rcv \in [Chan -> Seq(Waiter)]
  /\ \A d \in Chan : snd[d] \in {senders[d], <<>>} /\ rcv[d] \in {receivers[d], <<>>}

(* What such a call achieves. *)
RingTypeOK ==
  /\ DOMAIN ring = Chan
  /\ \A c \in Chan : ring[c] \in [0..(Capacity[c] - 1) -> Msg \cup {NoMsg}]
  /\ count \in [Chan -> Nat] /\ sendIndex \in [Chan -> Nat] /\ recvIndex \in [Chan -> Nat]
  /\ \A c \in Chan : /\ count[c] <= Capacity[c]
                     /\ sendIndex[c] < Capacity[c] \/ sendIndex[c] = 0
                     /\ recvIndex[c] < Capacity[c] \/ recvIndex[c] = 0

ResultTypeOK ==
  /\ winner \in [Task -> 0..DefaultCase] /\ status \in [Task -> Status]
  /\ value \in [Task -> Msg \cup {NoMsg}]

TryResult(t, c) ==
  /\ RingTypeOK' /\ ResultTypeOK'
  /\ senders' \in [Chan -> Seq(Waiter)] /\ receivers' \in [Chan -> Seq(Waiter)]
  /\ toWake' \in [Task -> SUBSET Waiter]
  /\ ListsLose
  /\ \E W \in SUBSET Waiter : Deals(t, W)
  /\ ~IsSelect(t) => winner'[t] = winner[t]
  /\ \A d \in Chan \ {c} : closed'[d] = closed[d] /\ count'[d] = count[d]

(* What settling operations does to each task. *)
LEMMA SettleFacts ==
  ASSUME NEW s, Settle(s), ResultTypeOK,
         \A u \in DOMAIN s \cap Task : /\ s[u].case \in 0..DefaultCase /\ s[u].status \in Status
                                       /\ s[u].value \in Msg \cup {NoMsg}
  PROVE  /\ ResultTypeOK'
         /\ \A u \in Task :
              /\ u \notin DOMAIN s => winner'[u] = winner[u] /\ status'[u] = status[u]
              /\ u \in DOMAIN s => status'[u] = s[u].status
              /\ u \in DOMAIN s /\ IsSelect(u) => winner'[u] = s[u].case
              /\ ~IsSelect(u) => winner'[u] = winner[u]
<1>1. winner' \in [Task -> 0..DefaultCase]
  BY Zenon DEF Settle, ResultTypeOK
<1>2. status' \in [Task -> Status]
  BY Zenon DEF Settle, ResultTypeOK
<1>3. value' \in [Task -> Msg \cup {NoMsg}]
  BY Zenon DEF Settle, ResultTypeOK
<1>4. QED
  BY Zenon, <1>1, <1>2, <1>3 DEF Settle, ResultTypeOK

(* What the invariant says around such a call.                              *)
LEMMA ContextFacts ==
  ASSUME IndInv, NEW t \in Task, NEW i, NEW c \in Chan, NEW snd, NEW rcv,
         TryContext(t, i, c, snd, rcv)
  PROVE  /\ RingTypeOK /\ ResultTypeOK /\ toWake[t] = {} /\ MsgOf(t, i) \in Msg
         /\ i \in 0..DefaultCase /\ i # NoWinner
         /\ \A d \in Chan, j \in CaseIndex : /\ ~Listed(<<t, j>>, senders[d])
                                             /\ ~Listed(<<t, j>>, receivers[d])
         /\ \A d \in Chan : /\ Shrunk(senders[d], senders[d])
                            /\ Shrunk(receivers[d], receivers[d])
                            /\ Shrunk(snd[d], senders[d]) /\ Shrunk(rcv[d], receivers[d])
<1>1. /\ TaskTypeOK /\ ChanTypeOK /\ WaitersInPlace /\ OpInPlace(t)
      /\ pc[t] = "start" /\ i \in CaseIndex /\ ops[t] \in 0..MaxOps
  BY Zenon, AtTask DEF IndInv, TypeOK, TryContext
<1>2. RingTypeOK /\ ResultTypeOK
  BY Zenon, <1>1 DEF ChanTypeOK, TaskTypeOK, RingTypeOK, ResultTypeOK
<1>3. toWake[t] = {}
  BY Zenon, <1>1 DEF OpInPlace
<1>4. MsgOf(t, i) \in Msg
  BY Zenon, <1>1 DEF MsgOf, Msg
<1>5. i \in 0..DefaultCase /\ i # NoWinner
  BY SMTT(60), <1>1, ChannelAssumption DEF CaseIndex, DefaultCase, NoWinner
<1>6. ASSUME NEW d \in Chan, NEW j \in CaseIndex
      PROVE  ~Listed(<<t, j>>, senders[d]) /\ ~Listed(<<t, j>>, receivers[d])
  <2>1. ~WaiterInPlace(<<t, j>>, "send", d) /\ ~WaiterInPlace(<<t, j>>, "recv", d)
    BY Zenon, <1>1 DEF WaiterInPlace
  <2>2. QED
    BY SMTT(60), <1>1, <2>1 DEF WaitersInPlace, ListInPlace, Listed
<1>7. ASSUME NEW d \in Chan
      PROVE  Shrunk(senders[d], senders[d]) /\ Shrunk(receivers[d], receivers[d])
  BY Zenon, <1>1 DEF WaitersInPlace, ListInPlace, Shrunk, Listed
<1>8. ASSUME NEW q PROVE Shrunk(<<>>, q)
  BY SMTT(60) DEF Shrunk
<1>9. ASSUME NEW d \in Chan
      PROVE  Shrunk(snd[d], senders[d]) /\ Shrunk(rcv[d], receivers[d])
  BY Zenon, <1>7, <1>8 DEF TryContext
<1>10. QED
  BY Zenon, <1>2, <1>3, <1>4, <1>5, <1>6, <1>7, <1>9

(* Only t is decided. *)
LEMMA DealsNone ==
  ASSUME IndInv, NEW t \in Task, NEW i, NEW c \in Chan, NEW snd, NEW rcv,
         TryContext(t, i, c, snd, rcv), NEW st \in Status, NEW v \in Msg \cup {NoMsg},
         Settle(Alone(t, i, st, v)), toWake' = [toWake EXCEPT ![t] = {}]
  PROVE  /\ Deals(t, {}) /\ ResultTypeOK' /\ toWake' \in [Task -> SUBSET Waiter]
         /\ ~IsSelect(t) => winner'[t] = winner[t]
         /\ \A u \in Task \ {t} : winner'[u] = winner[u]
<1>1. toWake \in [Task -> SUBSET Waiter] /\ pc \in [Task -> PcState]
  BY Zenon DEF IndInv, TypeOK, TaskTypeOK
<1>2. ResultTypeOK /\ toWake[t] = {} /\ i \in 0..DefaultCase
  BY Zenon, ContextFacts
<1>3. PICK s : s = Alone(t, i, st, v)
  BY Zenon
<1>4. /\ DOMAIN s = {t}
      /\ s[t].case = i /\ s[t].status = st /\ s[t].value = v
  BY Zenon, <1>3 DEF Alone, Outcome
<1>5. /\ ResultTypeOK'
      /\ \A u \in Task \ {t} : winner'[u] = winner[u] /\ status'[u] = status[u]
      /\ ~IsSelect(t) => winner'[t] = winner[t]
  BY Zenon, <1>2, <1>3, <1>4, SettleFacts
<1>6. toWake'[t] = {} /\ toWake' \in [Task -> SUBSET Waiter]
  BY Zenon, <1>1
<1>7. ASSUME NEW u \in Task \ {t} PROVE SameTask(u)
  BY Zenon, <1>1, <1>5 DEF SameTask, TryContext
<1>8. QED
  BY Zenon, <1>2, <1>5, <1>6, <1>7 DEF Deals
(* A waiter taken off its own list is on no other list. *)
LEMMA NotListed ==
  ASSUME WaitersInPlace, ListsLose, NEW c \in Chan, NEW dir \in {"send", "recv"}, NEW w,
         CaseOf(w[1], w[2]) = [dir |-> dir, ch |-> c],
         dir = "send" => ~Listed(w, senders'[c]),
         dir = "recv" => ~Listed(w, receivers'[c])
  PROVE  \A d \in Chan : ~Listed(w, senders'[d]) /\ ~Listed(w, receivers'[d])
<1>1. SUFFICES ASSUME NEW d \in Chan
               PROVE  ~Listed(w, senders'[d]) /\ ~Listed(w, receivers'[d])
  BY Zenon
<1>2. /\ Listed(w, senders'[d]) => Listed(w, senders[d])
      /\ Listed(w, receivers'[d]) => Listed(w, receivers[d])
  <2>1. Shrunk(senders'[d], senders[d]) /\ Shrunk(receivers'[d], receivers[d])
    BY Zenon DEF ListsLose
  <2>2. QED
    BY Zenon, <2>1 DEF Shrunk, Listed
<1>3. /\ Listed(w, senders[d]) => CaseOf(w[1], w[2]) = [dir |-> "send", ch |-> d]
      /\ Listed(w, receivers[d]) => CaseOf(w[1], w[2]) = [dir |-> "recv", ch |-> d]
  <2>1. ListInPlace(senders[d], "send", d) /\ ListInPlace(receivers[d], "recv", d)
    BY Zenon DEF WaitersInPlace
  <2>2. /\ Listed(w, senders[d]) => WaiterInPlace(w, "send", d)
        /\ Listed(w, receivers[d]) => WaiterInPlace(w, "recv", d)
    BY Zenon, <2>1 DEF ListInPlace, Listed
  <2>3. QED
    BY Zenon, <2>2 DEF WaiterInPlace
<1>4. QED
  BY SMTT(60), <1>2, <1>3

(* t and the peer w are decided. *)
LEMMA DealsOne ==
  ASSUME IndInv, NEW t \in Task, NEW i, NEW c \in Chan, NEW snd, NEW rcv,
         TryContext(t, i, c, snd, rcv), NEW v \in Msg \cup {NoMsg},
         NEW pv \in Msg \cup {NoMsg}, NEW w, Takeable(t, w),
         Settle(Peers(t, i, "done", v, w, pv)), toWake' = [toWake EXCEPT ![t] = {w}],
         \A d \in Chan : ~Listed(w, senders'[d]) /\ ~Listed(w, receivers'[d])
  PROVE  /\ \E W \in SUBSET Waiter : Deals(t, W)
         /\ ResultTypeOK' /\ toWake' \in [Task -> SUBSET Waiter]
         /\ ~IsSelect(t) => winner'[t] = winner[t]
<1>1. toWake \in [Task -> SUBSET Waiter] /\ pc \in [Task -> PcState]
  BY Zenon DEF IndInv, TypeOK, TaskTypeOK
<1>2. ResultTypeOK /\ toWake[t] = {} /\ i \in 0..DefaultCase
  BY Zenon, ContextFacts
<1>3. PICK u \in Task : u = w[1] /\ u # t /\ w \in Waiter
  BY Zenon DEF Takeable, Waiter
<1>4. w[2] \in 0..DefaultCase
  BY SMTT(60), <1>3, ChannelAssumption DEF Waiter, CaseIndex, DefaultCase
<1>5. PICK s : s = Peers(t, i, "done", v, w, pv)
  BY Zenon
<1>6. /\ DOMAIN s = {t, u}
      /\ s[t].case = i /\ s[t].status = "done" /\ s[t].value = v
      /\ s[u].case = w[2] /\ s[u].status = "done" /\ s[u].value = pv
  BY Zenon, <1>3, <1>5 DEF Peers, Outcome
<1>7. \A x \in DOMAIN s \cap Task :
        /\ s[x].case \in 0..DefaultCase /\ s[x].status \in Status
        /\ s[x].value \in Msg \cup {NoMsg}
  BY Zenon, <1>2, <1>4, <1>6 DEF Status
<1>8. /\ ResultTypeOK'
      /\ \A x \in Task :
           /\ x \notin DOMAIN s => winner'[x] = winner[x] /\ status'[x] = status[x]
           /\ x \in DOMAIN s => status'[x] = s[x].status
           /\ x \in DOMAIN s /\ IsSelect(x) => winner'[x] = s[x].case
           /\ ~IsSelect(x) => winner'[x] = winner[x]
  BY SMTT(60), <1>2, <1>5, <1>7, SettleFacts
<1>9. /\ \A x \in Task \ {t, u} : winner'[x] = winner[x] /\ status'[x] = status[x]
      /\ \A x \in Task : ~IsSelect(x) => winner'[x] = winner[x]
      /\ IsSelect(u) => winner'[u] = w[2]
      /\ status'[u] = "done"
  BY Zenon, <1>6, <1>8
<1>10. /\ toWake' \in [Task -> SUBSET Waiter] /\ toWake'[t] = {w}
       /\ \A x \in Task \ {t} : toWake'[x] = toWake[x]
  BY Zenon, <1>1, <1>3
<1>11. \A x \in Task \ {t} :
         /\ pc'[x] = pc[x] /\ op'[x] = op[x] /\ phase'[x] = phase[x] /\ run'[x] = run[x]
         /\ timer'[x] = timer[x] /\ firing'[x] = firing[x] /\ cursor'[x] = cursor[x]
  BY Zenon, <1>1 DEF TryContext
<1>12. ASSUME NEW x \in Task \ {t}, x # u PROVE SameTask(x)
  BY Zenon, <1>9, <1>10, <1>11, <1>12 DEF SameTask
<1>13. DecidesPeer(u, w[2])
  BY Zenon, <1>3, <1>9, <1>10, <1>11 DEF DecidesPeer
<1>14. Deals(t, {w})
  BY SMTT(60), <1>2, <1>3, <1>10, <1>12, <1>13 DEF Deals
<1>15. {w} \in SUBSET Waiter
  BY Zenon, <1>3
<1>16. QED
  BY Zenon, <1>8, <1>9, <1>10, <1>14, <1>15

(* Waiter k of list q can be taken with all before it. *)
CanTake(t, dir, c, q, k) ==
  /\ Takeable(t, q[k]) /\ CaseOf(q[k][1], q[k][2]) = [dir |-> dir, ch |-> c]
  /\ DropTo(q, k) \in Seq(Waiter)
  /\ Shrunk(DropTo(q, k), q) /\ ~Listed(q[k], DropTo(q, k))

(* The first acquirable waiter of a list. *)
LEMMA FirstOfList ==
  ASSUME IndInv, NEW t \in Task, pc[t] = "start", NEW c \in Chan, mutex[c] \in {NoTask, t},
         NEW dir \in {"send", "recv"}, NEW q \in Seq(Waiter), ListInPlace(q, dir, c),
         NEW k, IsFirst(k, q)
  PROVE  CanTake(t, dir, c, q, k)
<1>0. k \in 1..Len(q)
  BY Zenon DEF IsFirst, AcquirableAt
<1>1. WaiterInPlace(q[k], dir, c) /\ Acquirable(q[k]) /\ q[k] \in Waiter
  BY SMTT(60), <1>0 DEF ListInPlace, IsFirst, AcquirableAt
<1>2. \A j, l \in 1..Len(q) : q[j] = q[l] => j = l
  BY Zenon DEF ListInPlace
<1>3. /\ DropTo(q, k) \in Seq(Waiter) /\ Len(DropTo(q, k)) = Len(q) - k
      /\ \A j \in 1..(Len(q) - k) : DropTo(q, k)[j] = q[j + k]
  BY Zenon, <1>0, DropToFacts
<1>4. Len(q) \in Nat /\ k \in Nat /\ k >= 1 /\ k <= Len(q)
  BY SMTT(60), <1>0
<1>5. \A j \in 1..(Len(q) - k) : j + k \in 1..Len(q) /\ j + k # k
  BY SMTT(60), <1>4
<1>6. Shrunk(DropTo(q, k), q)
  <2>1. \A j \in 1..Len(DropTo(q, k)) : Listed(DropTo(q, k)[j], q)
    BY Zenon, <1>3, <1>5 DEF Listed
  <2>2. \A j, l \in 1..Len(DropTo(q, k)) : DropTo(q, k)[j] = DropTo(q, k)[l] => j = l
    <3>1. SUFFICES ASSUME NEW j \in 1..(Len(q) - k), NEW l \in 1..(Len(q) - k),
                          q[j + k] = q[l + k]
                   PROVE  j = l
      BY SMTT(60), <1>3
    <3>2. j + k = l + k
      BY Zenon, <1>2, <1>5, <3>1
    <3>3. QED
      BY SMTT(60), <1>4, <3>2
  <2>3. QED
    BY Zenon, <2>1, <2>2 DEF Shrunk
<1>7. ~Listed(q[k], DropTo(q, k))
  <2>1. SUFFICES ASSUME NEW j \in 1..Len(DropTo(q, k)), DropTo(q, k)[j] = q[k]
                 PROVE  FALSE
    BY Zenon DEF Listed
  <2>2. j \in 1..(Len(q) - k) /\ q[j + k] = q[k]
    BY Zenon, <1>3, <2>1
  <2>3. QED
    BY Zenon, <1>0, <1>2, <1>5, <2>2
<1>8. Takeable(t, q[k]) /\ CaseOf(q[k][1], q[k][2]) = [dir |-> dir, ch |-> c]
  BY Zenon, <1>1, AcquiredIsTakeable
<1>9. QED
  BY Zenon, <1>3, <1>6, <1>7, <1>8 DEF CanTake

(* A waiter that is not t's and cannot be acquired stays so. *)
LEMMA StaysTaken ==
  ASSUME IndInv, NEW t \in Task, NEW i, NEW c \in Chan, NEW snd, NEW rcv,
         TryContext(t, i, c, snd, rcv), \A u \in Task \ {t} : winner'[u] = winner[u],
         NEW q \in Seq(Waiter), q \in {senders[c], receivers[c]}, AcquirableAt(q) = {}
  PROVE  \A k \in 1..Len(q) : ~Acquirable(q[k])'
<1>1. SUFFICES ASSUME NEW k \in 1..Len(q) PROVE ~Acquirable(q[k])'
  BY Zenon
<1>2. PICK u \in Task, j \in CaseIndex : q[k] = <<u, j>>
  BY SMTT(60) DEF Waiter
<1>3. u # t
  <2>1. Listed(<<u, j>>, senders[c]) \/ Listed(<<u, j>>, receivers[c])
    BY Zenon, <1>2 DEF Listed
  <2>2. QED
    BY Zenon, <2>1, ContextFacts
<1>4. ~Acquirable(q[k])
  BY Zenon DEF AcquirableAt
<1>5. QED
  BY SMTT(60), <1>2, <1>3, <1>4 DEF Acquirable, IsSelect, TryContext
(* Ring indices stay inside the ring. *)
LEMMA NextIndexFacts ==
  ASSUME NEW c \in Chan, NEW n \in Nat, n < Capacity[c] \/ n = 0, Capacity[c] > 0
  PROVE  NextIndex(c, n) \in Nat /\ NextIndex(c, n) < Capacity[c]
<1>1. Capacity[c] \in Nat
  BY Zenon, ChannelAssumption
<1>2. QED
  BY SMTT(60), <1>1 DEF NextIndex

(* try_send_locked on a closed channel.                                     *)
LEMMA SendClosedDeals ==
  ASSUME IndInv, NEW t \in Task, NEW i, NEW c \in Chan, NEW snd, NEW rcv,
         TryContext(t, i, c, snd, rcv), SendClosed(t, i, c, rcv),
         senders' = snd, UNCHANGED <<recvIndex, closed>>
  PROVE  TryResult(t, c)
<1>1. /\ UNCHANGED <<ring, count, sendIndex>> /\ receivers' = rcv
      /\ Settle(Alone(t, i, "closed", NoMsg)) /\ toWake' = [toWake EXCEPT ![t] = {}]
  BY Zenon DEF SendClosed
<1>2. RingTypeOK'
  BY Zenon, <1>1, ContextFacts DEF RingTypeOK
<1>3. ListsLose
  BY Zenon, <1>1, ContextFacts DEF ListsLose
<1>4. /\ Deals(t, {}) /\ ResultTypeOK' /\ toWake' \in [Task -> SUBSET Waiter]
      /\ ~IsSelect(t) => winner'[t] = winner[t]
  BY Zenon, <1>1, DealsNone DEF Status
<1>5. QED
  BY Zenon, <1>1, <1>2, <1>3, <1>4 DEF TryResult, TryContext

(* try_send_locked handing its value to a parked receiver.                  *)
LEMMA SendHandOffDeals ==
  ASSUME IndInv, NEW t \in Task, NEW i, NEW c \in Chan, NEW snd, NEW rcv,
         TryContext(t, i, c, snd, rcv), SendHandOff(t, i, c, rcv),
         senders' = snd, UNCHANGED <<recvIndex, closed>>
  PROVE  TryResult(t, c)
<1>1. UNCHANGED <<ring, count, sendIndex>>
  BY Zenon DEF SendHandOff
<1>2. PICK k \in 1..Len(rcv[c]) :
        /\ IsFirst(k, rcv[c])
        /\ receivers' = [rcv EXCEPT ![c] = DropTo(@, k)]
        /\ Settle(Peers(t, i, "done", NoMsg, rcv[c][k], MsgOf(t, i)))
        /\ toWake' = [toWake EXCEPT ![t] = {rcv[c][k]}]
  BY Zenon DEF SendHandOff
<1>3. rcv \in [Chan -> Seq(Waiter)] /\ snd \in [Chan -> Seq(Waiter)] /\ rcv[c] = receivers[c]
  <2>1. rcv \in [Chan -> Seq(Waiter)] /\ snd \in [Chan -> Seq(Waiter)]
    BY Zenon DEF TryContext
  <2>2. rcv[c] # <<>>
    BY SMTT(60), <1>2
  <2>3. QED
    BY Zenon, <2>1, <2>2 DEF TryContext
<1>4. PICK q \in Seq(Waiter), w \in {rcv[c][k]} : q = rcv[c] /\ w = q[k]
  BY Zenon, <1>3
<1>5. /\ Takeable(t, w) /\ CaseOf(w[1], w[2]) = [dir |-> "recv", ch |-> c]
      /\ DropTo(q, k) \in Seq(Waiter)
      /\ Shrunk(DropTo(q, k), q) /\ ~Listed(w, DropTo(q, k))
  <2>1. ListInPlace(q, "recv", c) /\ pc[t] = "start" /\ mutex[c] \in {NoTask, t}
    BY Zenon, <1>3, <1>4 DEF IndInv, WaitersInPlace, TryContext
  <2>2. CanTake(t, "recv", c, q, k)
    BY Zenon, <1>2, <1>4, <2>1, FirstOfList
  <2>3. QED
    BY Zenon, <1>4, <2>2 DEF CanTake
<1>6. /\ receivers' \in [Chan -> Seq(Waiter)] /\ receivers'[c] = DropTo(q, k)
      /\ \A d \in Chan \ {c} : receivers'[d] = rcv[d]
  BY Zenon, <1>2, <1>3, <1>4, <1>5
<1>7. ListsLose
  <2>1. SUFFICES ASSUME NEW d \in Chan
                 PROVE  /\ Shrunk(senders'[d], senders[d]) /\ Shrunk(receivers'[d], receivers[d])
                        /\ closed'[d] = closed[d] /\ count'[d] = count[d]
    BY Zenon DEF ListsLose
  <2>2. CASE d = c
    BY Zenon, <1>1, <1>3, <1>4, <1>5, <1>6, <2>2, ContextFacts
  <2>3. CASE d # c
    BY Zenon, <1>1, <1>6, <2>3, ContextFacts
  <2>4. QED
    BY Zenon, <2>2, <2>3
<1>8. \A d \in Chan : ~Listed(w, senders'[d]) /\ ~Listed(w, receivers'[d])
  <2>1. WaitersInPlace
    BY Zenon DEF IndInv
  <2>2. ~Listed(w, receivers'[c])
    BY Zenon, <1>5, <1>6
  <2>3. QED
    BY Zenon, <1>5, <1>7, <2>1, <2>2, NotListed
<1>9. MsgOf(t, i) \in Msg
  BY Zenon, ContextFacts
<1>10. /\ \E W \in SUBSET Waiter : Deals(t, W)
       /\ ResultTypeOK' /\ toWake' \in [Task -> SUBSET Waiter]
       /\ ~IsSelect(t) => winner'[t] = winner[t]
  BY Zenon, <1>2, <1>4, <1>5, <1>8, <1>9, DealsOne
<1>11. RingTypeOK'
  BY Zenon, <1>1, ContextFacts DEF RingTypeOK
<1>12. QED
  BY Zenon, <1>1, <1>3, <1>6, <1>7, <1>10, <1>11 DEF TryResult

(* try_send_locked storing its value in the ring.                           *)
LEMMA SendBufferDeals ==
  ASSUME IndInv, NEW t \in Task, NEW i, NEW c \in Chan, NEW snd, NEW rcv,
         TryContext(t, i, c, snd, rcv), SendBuffer(t, i, c, rcv),
         senders' = snd, UNCHANGED <<recvIndex, closed>>
  PROVE  TryResult(t, c)
<1>1. /\ count[c] < Capacity[c]
      /\ receivers' = [rcv EXCEPT ![c] = <<>>]
      /\ ring' = [ring EXCEPT ![c][sendIndex[c]] = MsgOf(t, i)]
      /\ sendIndex' = [sendIndex EXCEPT ![c] = NextIndex(c, @)]
      /\ count' = [count EXCEPT ![c] = @ + 1]
      /\ Settle(Alone(t, i, "done", NoMsg)) /\ toWake' = [toWake EXCEPT ![t] = {}]
  BY Zenon DEF SendBuffer
<1>2. /\ rcv \in [Chan -> Seq(Waiter)] /\ snd \in [Chan -> Seq(Waiter)]
      /\ snd[c] \in {senders[c], <<>>}
  BY Zenon DEF TryContext
<1>3. /\ receivers' \in [Chan -> Seq(Waiter)] /\ receivers'[c] = <<>>
      /\ \A d \in Chan \ {c} : receivers'[d] = rcv[d]
  <2>1. <<>> \in Seq(Waiter)
    BY SMTT(60)
  <2>2. QED
    BY Zenon, <1>1, <1>2, <2>1
<1>4. RingTypeOK /\ MsgOf(t, i) \in Msg /\ Capacity[c] \in Nat
  BY Zenon, ContextFacts, ChannelAssumption
<1>5. RingTypeOK'
  <2>1. /\ DOMAIN ring' = Chan
        /\ \A d \in Chan : ring'[d] \in [0..(Capacity[d] - 1) -> Msg \cup {NoMsg}]
    BY Zenon, <1>1, <1>4 DEF RingTypeOK
  <2>2. NextIndex(c, sendIndex[c]) \in Nat /\ NextIndex(c, sendIndex[c]) < Capacity[c]
    BY SMTT(60), <1>1, <1>4, NextIndexFacts DEF RingTypeOK
  <2>3. /\ sendIndex' \in [Chan -> Nat]
        /\ \A d \in Chan : sendIndex'[d] < Capacity[d] \/ sendIndex'[d] = 0
    BY Zenon, <1>1, <1>4, <2>2 DEF RingTypeOK
  <2>4. count' \in [Chan -> Nat] /\ \A d \in Chan : count'[d] <= Capacity[d]
    BY SMTT(60), <1>1, <1>4 DEF RingTypeOK
  <2>5. QED
    BY Zenon, <1>4, <2>1, <2>3, <2>4 DEF RingTypeOK
<1>6. /\ Deals(t, {}) /\ ResultTypeOK' /\ toWake' \in [Task -> SUBSET Waiter]
      /\ ~IsSelect(t) => winner'[t] = winner[t]
      /\ \A u \in Task \ {t} : winner'[u] = winner[u]
  BY Zenon, <1>1, DealsNone DEF Status
<1>7. \A d \in Chan \ {c} : closed'[d] = closed[d] /\ count'[d] = count[d]
  BY Zenon, <1>1, <1>4 DEF RingTypeOK
<1>8. ListsLose
  <2>1. ASSUME NEW d \in Chan
        PROVE  Shrunk(senders'[d], senders[d]) /\ Shrunk(receivers'[d], receivers[d])
    <3>1. Shrunk(<<>>, receivers[c])
      BY SMTT(60) DEF Shrunk
    <3>2. QED
      BY Zenon, <1>3, <3>1, ContextFacts
  <2>2. \A k \in 1..Len(senders'[c]) : ~Acquirable(senders[c][k])'
    <3>1. CASE snd[c] = <<>>
      BY SMTT(60), <3>1
    <3>2. CASE snd[c] = senders[c]
      <4>1. AcquirableAt(senders[c]) = {}
        <5>1. NoneStranded
          BY Zenon DEF IndInv
        <5>2. count[c] # Capacity[c]
          BY SMTT(60), <1>1, <1>4 DEF RingTypeOK
        <5>3. QED
          BY Zenon, <5>1, <5>2 DEF NoneStranded
      <4>2. PICK q \in Seq(Waiter) : q = senders[c]
        BY Zenon, <1>2, <3>2
      <4>3. \A k \in 1..Len(q) : ~Acquirable(q[k])'
        BY Zenon, <1>6, <4>1, <4>2, StaysTaken
      <4>4. QED
        BY Zenon, <3>2, <4>2, <4>3 DEF Acquirable, IsSelect
    <3>3. QED
      BY Zenon, <1>2, <3>1, <3>2
  <2>3. \A k \in 1..Len(receivers'[c]) : ~Acquirable(receivers[c][k])'
    BY SMTT(60), <1>3
  <2>4. QED
    BY Zenon, <1>7, <2>1, <2>2, <2>3 DEF ListsLose
<1>9. QED
  BY Zenon, <1>2, <1>3, <1>5, <1>6, <1>7, <1>8 DEF TryResult
(* try_recv_locked taking the oldest value and a parked sender's refill.    *)
LEMMA RecvRefillDeals ==
  ASSUME IndInv, NEW t \in Task, NEW i, NEW c \in Chan, NEW snd, NEW rcv,
         TryContext(t, i, c, snd, rcv), RecvRefill(t, i, c, snd),
         receivers' = rcv, UNCHANGED closed
  PROVE  TryResult(t, c)
<1>1. /\ count[c] > 0
      /\ recvIndex' = [recvIndex EXCEPT ![c] = NextIndex(c, @)]
      /\ sendIndex' = [sendIndex EXCEPT ![c] = NextIndex(c, @)]
      /\ UNCHANGED count
  BY Zenon DEF RecvRefill
<1>2. PICK k \in 1..Len(snd[c]), w \in Waiter :
        /\ w = snd[c][k]
        /\ IsFirst(k, snd[c])
        /\ senders' = [snd EXCEPT ![c] = DropTo(@, k)]
        /\ ring' = [ring EXCEPT ![c][sendIndex[c]] = MsgOf(w[1], w[2])]
        /\ Settle(Peers(t, i, "done", Oldest(c), w, NoMsg))
        /\ toWake' = [toWake EXCEPT ![t] = {w}]
  <2>1. snd[c] \in Seq(Waiter)
    BY Zenon DEF TryContext
  <2>2. PICK k \in 1..Len(snd[c]) :
          /\ IsFirst(k, snd[c])
          /\ senders' = [snd EXCEPT ![c] = DropTo(@, k)]
          /\ ring' = [ring EXCEPT ![c][sendIndex[c]] = MsgOf(snd[c][k][1], snd[c][k][2])]
          /\ Settle(Peers(t, i, "done", Oldest(c), snd[c][k], NoMsg))
          /\ toWake' = [toWake EXCEPT ![t] = {snd[c][k]}]
    BY Zenon DEF RecvRefill
  <2>3. snd[c][k] \in Waiter
    BY SMTT(60), <2>1
  <2>4. QED
    BY Zenon, <2>2, <2>3
<1>3. rcv \in [Chan -> Seq(Waiter)] /\ snd \in [Chan -> Seq(Waiter)] /\ snd[c] = senders[c]
  <2>1. rcv \in [Chan -> Seq(Waiter)] /\ snd \in [Chan -> Seq(Waiter)]
    BY Zenon DEF TryContext
  <2>2. snd[c] # <<>>
    BY SMTT(60), <1>2
  <2>3. QED
    BY Zenon, <2>1, <2>2 DEF TryContext
<1>4. PICK q \in Seq(Waiter) : q = snd[c] /\ w = q[k]
  BY Zenon, <1>2, <1>3
<1>5. /\ Takeable(t, w) /\ CaseOf(w[1], w[2]) = [dir |-> "send", ch |-> c]
      /\ DropTo(q, k) \in Seq(Waiter)
      /\ Shrunk(DropTo(q, k), q) /\ ~Listed(w, DropTo(q, k))
  <2>1. ListInPlace(q, "send", c) /\ pc[t] = "start" /\ mutex[c] \in {NoTask, t}
    BY Zenon, <1>3, <1>4 DEF IndInv, WaitersInPlace, TryContext
  <2>2. CanTake(t, "send", c, q, k)
    BY Zenon, <1>2, <1>4, <2>1, FirstOfList
  <2>3. QED
    BY Zenon, <1>4, <2>2 DEF CanTake
<1>6. /\ senders' \in [Chan -> Seq(Waiter)] /\ senders'[c] = DropTo(q, k)
      /\ \A d \in Chan \ {c} : senders'[d] = snd[d]
  BY Zenon, <1>2, <1>3, <1>4, <1>5
<1>7. ListsLose
  <2>1. SUFFICES ASSUME NEW d \in Chan
                 PROVE  /\ Shrunk(senders'[d], senders[d]) /\ Shrunk(receivers'[d], receivers[d])
                        /\ closed'[d] = closed[d] /\ count'[d] = count[d]
    BY Zenon DEF ListsLose
  <2>2. CASE d = c
    BY Zenon, <1>1, <1>3, <1>4, <1>5, <1>6, <2>2, ContextFacts
  <2>3. CASE d # c
    BY Zenon, <1>1, <1>6, <2>3, ContextFacts
  <2>4. QED
    BY Zenon, <2>2, <2>3
<1>8. \A d \in Chan : ~Listed(w, senders'[d]) /\ ~Listed(w, receivers'[d])
  <2>1. WaitersInPlace
    BY Zenon DEF IndInv
  <2>2. ~Listed(w, senders'[c])
    BY Zenon, <1>5, <1>6
  <2>3. QED
    BY Zenon, <1>5, <1>7, <2>1, <2>2, NotListed
<1>9. RingTypeOK /\ Capacity[c] \in Nat /\ Capacity[c] > 0
  <2>1. RingTypeOK
    BY Zenon, ContextFacts
  <2>2. Capacity[c] \in Nat
    BY Zenon, ChannelAssumption
  <2>3. count[c] \in Nat /\ count[c] <= Capacity[c]
    BY Zenon, <2>1 DEF RingTypeOK
  <2>4. QED
    BY SMTT(60), <1>1, <2>1, <2>2, <2>3
<1>10. Oldest(c) \in Msg \cup {NoMsg} /\ MsgOf(w[1], w[2]) \in Msg
  <2>1. Oldest(c) \in Msg \cup {NoMsg}
    BY SMTT(60), <1>9 DEF RingTypeOK, Oldest
  <2>2. w[1] \in Task /\ w[2] \in CaseIndex
    BY Zenon, <1>5 DEF Takeable, Waiter
  <2>3. QED
    BY Zenon, <2>1, <2>2, AtTask DEF MsgOf, Msg
<1>11. /\ \E W \in SUBSET Waiter : Deals(t, W)
       /\ ResultTypeOK' /\ toWake' \in [Task -> SUBSET Waiter]
       /\ ~IsSelect(t) => winner'[t] = winner[t]
  BY Zenon, <1>2, <1>5, <1>8, <1>10, DealsOne
<1>12. RingTypeOK'
  <2>1. /\ DOMAIN ring' = Chan
        /\ \A d \in Chan : ring'[d] \in [0..(Capacity[d] - 1) -> Msg \cup {NoMsg}]
    BY Zenon, <1>2, <1>9, <1>10 DEF RingTypeOK
  <2>2. /\ NextIndex(c, sendIndex[c]) \in Nat /\ NextIndex(c, sendIndex[c]) < Capacity[c]
        /\ NextIndex(c, recvIndex[c]) \in Nat /\ NextIndex(c, recvIndex[c]) < Capacity[c]
    BY Zenon, <1>9, NextIndexFacts DEF RingTypeOK
  <2>3. /\ sendIndex' \in [Chan -> Nat]
        /\ \A d \in Chan : sendIndex'[d] < Capacity[d] \/ sendIndex'[d] = 0
    BY Zenon, <1>1, <1>9, <2>2 DEF RingTypeOK
  <2>4. /\ recvIndex' \in [Chan -> Nat]
        /\ \A d \in Chan : recvIndex'[d] < Capacity[d] \/ recvIndex'[d] = 0
    BY Zenon, <1>1, <1>9, <2>2 DEF RingTypeOK
  <2>5. QED
    BY Zenon, <1>1, <1>9, <2>1, <2>3, <2>4 DEF RingTypeOK
<1>13. QED
  BY Zenon, <1>1, <1>3, <1>6, <1>7, <1>11, <1>12 DEF TryResult

(* try_recv_locked taking the oldest value, nobody waiting to send.         *)
LEMMA RecvBufferDeals ==
  ASSUME IndInv, NEW t \in Task, NEW i, NEW c \in Chan, NEW snd, NEW rcv,
         TryContext(t, i, c, snd, rcv), RecvBuffer(t, i, c, snd),
         receivers' = rcv, UNCHANGED closed
  PROVE  TryResult(t, c)
<1>1. /\ count[c] > 0
      /\ senders' = [snd EXCEPT ![c] = <<>>]
      /\ recvIndex' = [recvIndex EXCEPT ![c] = NextIndex(c, @)]
      /\ count' = [count EXCEPT ![c] = @ - 1]
      /\ Settle(Alone(t, i, "done", Oldest(c))) /\ toWake' = [toWake EXCEPT ![t] = {}]
      /\ UNCHANGED <<ring, sendIndex>>
  BY Zenon DEF RecvBuffer
<1>2. /\ rcv \in [Chan -> Seq(Waiter)] /\ snd \in [Chan -> Seq(Waiter)]
      /\ rcv[c] \in {receivers[c], <<>>}
  BY Zenon DEF TryContext
<1>3. /\ senders' \in [Chan -> Seq(Waiter)] /\ senders'[c] = <<>>
      /\ \A d \in Chan \ {c} : senders'[d] = snd[d]
  <2>1. <<>> \in Seq(Waiter)
    BY SMTT(60)
  <2>2. QED
    BY Zenon, <1>1, <1>2, <2>1
<1>4. RingTypeOK /\ Capacity[c] \in Nat /\ Capacity[c] > 0
  <2>1. RingTypeOK
    BY Zenon, ContextFacts
  <2>2. Capacity[c] \in Nat
    BY Zenon, ChannelAssumption
  <2>3. count[c] \in Nat /\ count[c] <= Capacity[c]
    BY Zenon, <2>1 DEF RingTypeOK
  <2>4. QED
    BY SMTT(60), <1>1, <2>1, <2>2, <2>3
<1>5. RingTypeOK'
  <2>1. NextIndex(c, recvIndex[c]) \in Nat /\ NextIndex(c, recvIndex[c]) < Capacity[c]
    BY Zenon, <1>4, NextIndexFacts DEF RingTypeOK
  <2>2. /\ recvIndex' \in [Chan -> Nat]
        /\ \A d \in Chan : recvIndex'[d] < Capacity[d] \/ recvIndex'[d] = 0
    BY Zenon, <1>1, <1>4, <2>1 DEF RingTypeOK
  <2>3. count' \in [Chan -> Nat] /\ \A d \in Chan : count'[d] <= Capacity[d]
    BY SMTT(60), <1>1, <1>4, ChannelAssumption DEF RingTypeOK
  <2>4. QED
    BY Zenon, <1>1, <1>4, <2>2, <2>3 DEF RingTypeOK
<1>6. Oldest(c) \in Msg \cup {NoMsg}
  BY SMTT(60), <1>4 DEF RingTypeOK, Oldest
<1>7. /\ Deals(t, {}) /\ ResultTypeOK' /\ toWake' \in [Task -> SUBSET Waiter]
      /\ ~IsSelect(t) => winner'[t] = winner[t]
      /\ \A u \in Task \ {t} : winner'[u] = winner[u]
  BY Zenon, <1>1, <1>6, DealsNone DEF Status
<1>8. \A d \in Chan \ {c} : closed'[d] = closed[d] /\ count'[d] = count[d]
  BY Zenon, <1>1, <1>4 DEF RingTypeOK
<1>9. ListsLose
  <2>1. ASSUME NEW d \in Chan
        PROVE  Shrunk(senders'[d], senders[d]) /\ Shrunk(receivers'[d], receivers[d])
    <3>1. Shrunk(<<>>, senders[c])
      BY SMTT(60) DEF Shrunk
    <3>2. QED
      BY Zenon, <1>3, <3>1, ContextFacts
  <2>2. \A k \in 1..Len(receivers'[c]) : ~Acquirable(receivers[c][k])'
    <3>1. CASE rcv[c] = <<>>
      BY SMTT(60), <3>1
    <3>2. CASE rcv[c] = receivers[c]
      <4>1. AcquirableAt(receivers[c]) = {}
        <5>1. NoneStranded
          BY Zenon DEF IndInv
        <5>2. count[c] # 0
          BY SMTT(60), <1>1, <1>4 DEF RingTypeOK
        <5>3. QED
          BY Zenon, <5>1, <5>2 DEF NoneStranded
      <4>2. PICK q \in Seq(Waiter) : q = receivers[c]
        BY Zenon, <1>2, <3>2
      <4>3. \A k \in 1..Len(q) : ~Acquirable(q[k])'
        BY Zenon, <1>7, <4>1, <4>2, StaysTaken
      <4>4. QED
        BY Zenon, <3>2, <4>2, <4>3 DEF Acquirable, IsSelect
    <3>3. QED
      BY Zenon, <1>2, <3>1, <3>2
  <2>3. \A k \in 1..Len(senders'[c]) : ~Acquirable(senders[c][k])'
    BY SMTT(60), <1>3
  <2>4. QED
    BY Zenon, <1>8, <2>1, <2>2, <2>3 DEF ListsLose
<1>10. QED
  BY Zenon, <1>2, <1>3, <1>5, <1>7, <1>8, <1>9 DEF TryResult

(* try_recv_locked taking the value of a parked sender directly.            *)
LEMMA RecvRendezvousDeals ==
  ASSUME IndInv, NEW t \in Task, NEW i, NEW c \in Chan, NEW snd, NEW rcv,
         TryContext(t, i, c, snd, rcv), RecvRendezvous(t, i, c, snd),
         receivers' = rcv, UNCHANGED closed
  PROVE  TryResult(t, c)
<1>1. UNCHANGED <<ring, count, sendIndex, recvIndex>>
  BY Zenon DEF RecvRendezvous
<1>2. PICK k \in 1..Len(snd[c]), w \in Waiter :
        /\ w = snd[c][k]
        /\ IsFirst(k, snd[c])
        /\ senders' = [snd EXCEPT ![c] = DropTo(@, k)]
        /\ Settle(Peers(t, i, "done", MsgOf(w[1], w[2]), w, NoMsg))
        /\ toWake' = [toWake EXCEPT ![t] = {w}]
  <2>1. snd[c] \in Seq(Waiter)
    BY Zenon DEF TryContext
  <2>2. PICK k \in 1..Len(snd[c]) :
          /\ IsFirst(k, snd[c])
          /\ senders' = [snd EXCEPT ![c] = DropTo(@, k)]
          /\ Settle(Peers(t, i, "done", MsgOf(snd[c][k][1], snd[c][k][2]), snd[c][k], NoMsg))
          /\ toWake' = [toWake EXCEPT ![t] = {snd[c][k]}]
    BY Zenon DEF RecvRendezvous
  <2>3. snd[c][k] \in Waiter
    BY SMTT(60), <2>1
  <2>4. QED
    BY Zenon, <2>2, <2>3
<1>3. rcv \in [Chan -> Seq(Waiter)] /\ snd \in [Chan -> Seq(Waiter)] /\ snd[c] = senders[c]
  <2>1. rcv \in [Chan -> Seq(Waiter)] /\ snd \in [Chan -> Seq(Waiter)]
    BY Zenon DEF TryContext
  <2>2. snd[c] # <<>>
    BY SMTT(60), <1>2
  <2>3. QED
    BY Zenon, <2>1, <2>2 DEF TryContext
<1>4. PICK q \in Seq(Waiter) : q = snd[c] /\ w = q[k]
  BY Zenon, <1>2, <1>3
<1>5. /\ Takeable(t, w) /\ CaseOf(w[1], w[2]) = [dir |-> "send", ch |-> c]
      /\ DropTo(q, k) \in Seq(Waiter)
      /\ Shrunk(DropTo(q, k), q) /\ ~Listed(w, DropTo(q, k))
  <2>1. ListInPlace(q, "send", c) /\ pc[t] = "start" /\ mutex[c] \in {NoTask, t}
    BY Zenon, <1>3, <1>4 DEF IndInv, WaitersInPlace, TryContext
  <2>2. CanTake(t, "send", c, q, k)
    BY Zenon, <1>2, <1>4, <2>1, FirstOfList
  <2>3. QED
    BY Zenon, <1>4, <2>2 DEF CanTake
<1>6. /\ senders' \in [Chan -> Seq(Waiter)] /\ senders'[c] = DropTo(q, k)
      /\ \A d \in Chan \ {c} : senders'[d] = snd[d]
  BY Zenon, <1>2, <1>3, <1>4, <1>5
<1>7. ListsLose
  <2>1. SUFFICES ASSUME NEW d \in Chan
                 PROVE  /\ Shrunk(senders'[d], senders[d]) /\ Shrunk(receivers'[d], receivers[d])
                        /\ closed'[d] = closed[d] /\ count'[d] = count[d]
    BY Zenon DEF ListsLose
  <2>2. CASE d = c
    BY Zenon, <1>1, <1>3, <1>4, <1>5, <1>6, <2>2, ContextFacts
  <2>3. CASE d # c
    BY Zenon, <1>1, <1>6, <2>3, ContextFacts
  <2>4. QED
    BY Zenon, <2>2, <2>3
<1>8. \A d \in Chan : ~Listed(w, senders'[d]) /\ ~Listed(w, receivers'[d])
  <2>1. WaitersInPlace
    BY Zenon DEF IndInv
  <2>2. ~Listed(w, senders'[c])
    BY Zenon, <1>5, <1>6
  <2>3. QED
    BY Zenon, <1>5, <1>7, <2>1, <2>2, NotListed
<1>9. MsgOf(w[1], w[2]) \in Msg
  <2>1. w[1] \in Task /\ w[2] \in CaseIndex
    BY Zenon, <1>5 DEF Takeable, Waiter
  <2>2. QED
    BY Zenon, <2>1, AtTask DEF MsgOf, Msg
<1>10. /\ \E W \in SUBSET Waiter : Deals(t, W)
       /\ ResultTypeOK' /\ toWake' \in [Task -> SUBSET Waiter]
       /\ ~IsSelect(t) => winner'[t] = winner[t]
  BY Zenon, <1>2, <1>5, <1>8, <1>9, DealsOne
<1>11. RingTypeOK'
  BY Zenon, <1>1, ContextFacts DEF RingTypeOK
<1>12. QED
  BY Zenon, <1>1, <1>3, <1>6, <1>7, <1>10, <1>11 DEF TryResult

(* try_recv_locked on a closed and drained channel.                         *)
LEMMA RecvClosedDeals ==
  ASSUME IndInv, NEW t \in Task, NEW i, NEW c \in Chan, NEW snd, NEW rcv,
         TryContext(t, i, c, snd, rcv), RecvClosed(t, i, c, snd),
         receivers' = rcv, UNCHANGED closed
  PROVE  TryResult(t, c)
<1>1. /\ UNCHANGED <<ring, count, sendIndex, recvIndex>> /\ senders' = [snd EXCEPT ![c] = <<>>]
      /\ Settle(Alone(t, i, "closed", NoMsg)) /\ toWake' = [toWake EXCEPT ![t] = {}]
  BY Zenon DEF RecvClosed
<1>2. rcv \in [Chan -> Seq(Waiter)] /\ snd \in [Chan -> Seq(Waiter)]
  BY Zenon DEF TryContext
<1>3. /\ senders' \in [Chan -> Seq(Waiter)] /\ senders'[c] = <<>>
      /\ \A d \in Chan \ {c} : senders'[d] = snd[d]
  <2>1. <<>> \in Seq(Waiter)
    BY SMTT(60)
  <2>2. QED
    BY Zenon, <1>1, <1>2, <2>1
<1>4. RingTypeOK'
  BY Zenon, <1>1, ContextFacts DEF RingTypeOK
<1>5. ListsLose
  <2>1. Shrunk(<<>>, senders[c])
    BY SMTT(60) DEF Shrunk
  <2>2. \A d \in Chan : /\ Shrunk(senders'[d], senders[d])
                        /\ Shrunk(receivers'[d], receivers[d])
    BY Zenon, <1>3, <2>1, ContextFacts
  <2>3. QED
    BY Zenon, <1>1, <2>2 DEF ListsLose
<1>6. /\ Deals(t, {}) /\ ResultTypeOK' /\ toWake' \in [Task -> SUBSET Waiter]
      /\ ~IsSelect(t) => winner'[t] = winner[t]
  BY Zenon, <1>1, DealsNone DEF Status
<1>7. QED
  BY Zenon, <1>1, <1>2, <1>3, <1>4, <1>5, <1>6 DEF TryResult

(* t itself after a step in which it was decided. *)
LEMMA DealerInPlace ==
  ASSUME IndInv, NEW t \in Task, pc[t] = "start", pc'[t] = "wake",
         UNCHANGED <<op, phase, run, cursor, timer, firing>>,
         NEW W, Deals(t, W), ~IsSelect(t) => winner'[t] = winner[t], ListsLose
  PROVE  /\ OnceAt(t)' /\ OpInPlace(t)' /\ PhaseInPlace(t)' /\ TimerInPlace(t)'
         /\ OwnListedKept(t)
<1>1. OpInPlace(t) /\ TimerInPlace(t) /\ OnceAt(t)
  BY Zenon, AtTask
<1>2. run[t] = 0 /\ ~Woken(t) /\ firing[t] = "none" /\ timer[t] = "idle"
  BY Zenon, AtRest
<1>3. \A v \in Task : \A w \in toWake'[v] : w[1] # t
  <2>1. SUFFICES ASSUME NEW v \in Task, NEW w \in toWake'[v] PROVE w[1] # t
    BY Zenon
  <2>2. CASE v = t
    BY Zenon, <2>2 DEF Deals, Takeable
  <2>3. CASE v # t
    <3>1. toWake'[v] = toWake[v]
      BY SMTT(60), <2>3 DEF Deals, SameTask, DecidesPeer
    <3>2. QED
      BY Zenon, <1>2, <3>1 DEF Woken
  <2>4. QED
    BY Zenon, <2>2, <2>3
<1>4. ~Woken(t)' /\ WokenOnce(t)'
  BY Zenon, <1>3 DEF Woken, WokenOnce
<1>5. OnceAt(t)'
  BY SMTT(60), <1>2, <1>4 DEF OnceAt, Claimed, TimerOwes
<1>6. IsSelect(t)' <=> IsSelect(t)
  BY Zenon DEF IsSelect
<1>7. OpInPlace(t)'
  BY Zenon, <1>1, <1>6 DEF OpInPlace
<1>8. PhaseInPlace(t)' /\ TimerInPlace(t)'
  BY Zenon, <1>2 DEF PhaseInPlace, TimerInPlace
<1>9. OwnListedKept(t)
  <2>1. \A i \in CaseIndex, c \in Chan : /\ ~WaiterInPlace(<<t, i>>, "send", c)
                                         /\ ~WaiterInPlace(<<t, i>>, "recv", c)
    BY Zenon DEF WaiterInPlace
  <2>2. QED
    BY Zenon, <2>1 DEF OwnListedKept
<1>10. QED
  BY Zenon, <1>5, <1>7, <1>8, <1>9
=============================================================================
