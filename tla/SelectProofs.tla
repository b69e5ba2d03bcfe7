---------------------------- MODULE SelectProofs ----------------------------
(***************************************************************************)
(* The inductive invariant of SelectInvariant is preserved by the steps    *)
(* that scan, deal, close, put waiters on the lists, or wake.  With the    *)
(* steps treated there this gives the safety theorems about channels and   *)
(* select.                                                                 *)
(***************************************************************************)
EXTENDS SelectDeals

(* A call of try_send_locked or try_recv_locked that does not block. *)
LEMMA TryCallStep ==
  ASSUME IndInv, NEW t \in Task, NEW i, NEW c \in Chan, NEW snd, NEW rcv,
         TryContext(t, i, c, snd, rcv), Try(t, i, snd, rcv),
         mutex' \in [Chan -> Task \cup {NoTask}],
         \A d \in Chan : mutex[d] \notin {NoTask, t} => mutex'[d] = mutex[d]
  PROVE  IndInv'
<1>1. CaseOf(t, i).ch = c
  BY Zenon DEF TryContext
<1>2. TryResult(t, c) /\ closed' = closed
  <2>1. CASE TrySend(t, i, snd, rcv)
    <3>1. /\ SendClosed(t, i, c, rcv) \/ SendHandOff(t, i, c, rcv) \/ SendBuffer(t, i, c, rcv)
          /\ senders' = snd /\ UNCHANGED <<recvIndex, closed>>
      BY Zenon, <1>1, <2>1 DEF TrySend
    <3>2. QED
      BY Zenon, <3>1, SendClosedDeals, SendHandOffDeals, SendBufferDeals
  <2>2. CASE TryRecv(t, i, snd, rcv)
    <3>1. /\ \/ RecvRefill(t, i, c, snd) \/ RecvBuffer(t, i, c, snd)
             \/ RecvRendezvous(t, i, c, snd) \/ RecvClosed(t, i, c, snd)
          /\ receivers' = rcv /\ UNCHANGED closed
      BY Zenon, <1>1, <2>2 DEF TryRecv
    <3>2. QED
      BY Zenon, <3>1, RecvRefillDeals, RecvBufferDeals, RecvRendezvousDeals, RecvClosedDeals
  <2>3. QED
    BY Zenon, <2>1, <2>2 DEF Try
<1>3. /\ RingTypeOK' /\ ResultTypeOK'
      /\ senders' \in [Chan -> Seq(Waiter)] /\ receivers' \in [Chan -> Seq(Waiter)]
      /\ toWake' \in [Task -> SUBSET Waiter]
      /\ ListsLose
      /\ ~IsSelect(t) => winner'[t] = winner[t]
      /\ \A d \in Chan \ {c} : count'[d] = count[d]
  BY Zenon, <1>2 DEF TryResult
<1>4. PICK W : Deals(t, W)
  BY Zenon, <1>2 DEF TryResult
<1>5. /\ pc[t] = "start" /\ pc' = [pc EXCEPT ![t] = "wake"]
      /\ UNCHANGED <<op, ops, phase, run, cursor, timer, firing>>
      /\ mutex[c] \in {NoTask, t}
  BY Zenon DEF TryContext
<1>6. TaskTypeOK /\ ChanTypeOK
  BY Zenon DEF IndInv, TypeOK
<1>7. pc'[t] = "wake" /\ pc' \in [Task -> PcState]
  BY Zenon, <1>5, <1>6 DEF TaskTypeOK, PcState
<1>8. TypeOK'
  <2>1. TaskTypeOK'
    BY Zenon, <1>3, <1>5, <1>6, <1>7 DEF TaskTypeOK, ResultTypeOK
  <2>2. closed' \in [Chan -> BOOLEAN]
    BY Zenon, <1>2, <1>6 DEF ChanTypeOK
  <2>3. ChanTypeOK'
    BY Zenon, <1>3, <2>2 DEF ChanTypeOK, RingTypeOK
  <2>4. QED
    BY Zenon, <2>1, <2>3 DEF TypeOK
<1>9. LockRespected(t)
  BY Zenon, <1>2, <1>3, <1>5 DEF LockRespected
<1>10. /\ OnceAt(t)' /\ OpInPlace(t)' /\ PhaseInPlace(t)' /\ TimerInPlace(t)'
       /\ OwnListedKept(t)
  BY Zenon, <1>3, <1>4, <1>5, <1>7, DealerInPlace
<1>11. QED
  BY Zenon, <1>3, <1>4, <1>7, <1>8, <1>9, <1>10, DealStep

(* What the constants say of t's operation. *)
LEMMA OpFacts ==
  ASSUME IndInv, NEW t \in Task, op[t] # NoOp
  PROVE  /\ op[t] \in Op /\ Len(op[t].cases) \in 1..MaxCases
         /\ \A i \in 1..Len(op[t].cases) : i \in CaseIndex /\ CaseOf(t, i) \in Case
         /\ ~IsSelect(t) => Len(op[t].cases) = 1 /\ CaseOf(t, 1).ch \in Chan
<1>1. op[t] \in Op
  BY Zenon, AtTask
<1>2. Len(op[t].cases) \in 1..MaxCases /\ MaxCases \in Nat
  BY Zenon, <1>1, ChannelAssumption
<1>3. op[t].cases \in Seq(Case)
  BY Zenon, <1>1, ChannelAssumption DEF OpType
<1>4. \A i \in 1..Len(op[t].cases) : i \in CaseIndex /\ CaseOf(t, i) \in Case
  BY SMTT(60), <1>2, <1>3 DEF CaseOf, CaseIndex
<1>5. ~IsSelect(t) => Len(op[t].cases) = 1 /\ CaseOf(t, 1).ch \in Chan
  BY Zenon, <1>1, ChannelAssumption DEF IsSelect, CaseOf
<1>6. QED
  BY Zenon, <1>1, <1>2, <1>4, <1>5

(* A send or recv that finds its result at once keeps the invariant.        *)
LEMMA AttemptStep ==
  ASSUME IndInv, NEW t \in Task, Attempt(t), UNCHANGED selectVars
  PROVE  IndInv'
<1>1. /\ pc[t] = "start" /\ op[t].how \in {"await", "try"}
      /\ Try(t, 1, senders, receivers)
      /\ mutex[CaseOf(t, 1).ch] = NoTask /\ pc' = [pc EXCEPT ![t] = "wake"]
      /\ UNCHANGED <<mutex, op, ops, phase, run, cursor, timer, firing>>
  BY Zenon DEF Attempt, selectVars
<1>2. op[t] # NoOp /\ ~IsSelect(t)
  BY Zenon, <1>1, AtTask DEF OpInPlace, IsSelect
<1>3. PICK c \in Chan : CaseOf(t, 1).ch = c
  BY Zenon, <1>2, OpFacts
<1>4. 1 \in CaseIndex
  BY SMTT(60), <1>2, OpFacts
<1>5. ChanTypeOK
  BY Zenon DEF IndInv, TypeOK
<1>6. TryContext(t, 1, c, senders, receivers)
  BY Zenon, <1>1, <1>3, <1>4, <1>5 DEF TryContext, ChanTypeOK
<1>7. mutex' \in [Chan -> Task \cup {NoTask}]
  BY Zenon, <1>1, <1>5 DEF ChanTypeOK
<1>8. QED
  BY Zenon, <1>1, <1>6, <1>7, TryCallStep

(* The lists after a scan. *)
LEMMA AfterScan ==
  ASSUME IndInv, NEW t \in Task, NEW B
  PROVE  /\ SendersAfter(t, B) \in [Chan -> Seq(Waiter)]
         /\ ReceiversAfter(t, B) \in [Chan -> Seq(Waiter)]
         /\ \A d \in Chan : /\ SendersAfter(t, B)[d] \in {senders[d], <<>>}
                            /\ ReceiversAfter(t, B)[d] \in {receivers[d], <<>>}
<1>1. senders \in [Chan -> Seq(Waiter)] /\ receivers \in [Chan -> Seq(Waiter)]
  BY Zenon DEF IndInv, TypeOK, ChanTypeOK
<1>2. <<>> \in Seq(Waiter)
  BY SMTT(60)
<1>3. QED
  BY Zenon, <1>1, <1>2 DEF SendersAfter, ReceiversAfter, TriedFrom

(* So does a select whose scan finds a ready case.                          *)
LEMMA ScanReadyStep ==
  ASSUME IndInv, NEW t \in Task, IsSelect(t), NEW r \in 1..Len(op[t].cases), NEW B,
         ScanReady(t, r, B)
  PROVE  IndInv'
<1>1. /\ AllLocked(t) /\ CaseOf(t, r).ch # Nil
      /\ Try(t, r, SendersAfter(t, B), ReceiversAfter(t, B))
      /\ mutex' = [c \in Chan |-> IF mutex[c] = t THEN NoTask ELSE mutex[c]]
      /\ pc' = [pc EXCEPT ![t] = "wake"]
      /\ UNCHANGED <<op, ops, phase, run, cursor, timer, firing>>
  BY Zenon DEF ScanReady, UnlockAll, selectVars
<1>2. pc[t] = "start" /\ Channels(t) \subseteq Held(t) /\ op[t] # NoOp
  BY Zenon, <1>1 DEF AllLocked, IsSelect
<1>3. r \in CaseIndex /\ CaseOf(t, r) \in Case
  BY Zenon, <1>2, OpFacts
<1>4. PICK c \in Chan : CaseOf(t, r).ch = c
  BY Zenon, <1>1, <1>3 DEF Case
<1>5. mutex[c] = t
  BY Zenon, <1>1, <1>2, <1>4 DEF Channels, Held
<1>6. TryContext(t, r, c, SendersAfter(t, B), ReceiversAfter(t, B))
  BY Zenon, <1>1, <1>2, <1>3, <1>4, <1>5, AfterScan DEF TryContext
<1>7. ChanTypeOK
  BY Zenon DEF IndInv, TypeOK
<1>8. /\ mutex' \in [Chan -> Task \cup {NoTask}]
      /\ \A d \in Chan : mutex[d] \notin {NoTask, t} => mutex'[d] = mutex[d]
  BY Zenon, <1>1, <1>7 DEF ChanTypeOK
<1>9. QED
  BY Zenon, <1>1, <1>6, <1>8, TryCallStep
-----------------------------------------------------------------------------
(* Steps that find nothing ready, and those that take waiters away.         *)

(* A scan that finds nothing only drops waiters that have already lost.     *)
LEMMA ScanLists ==
  ASSUME IndInv, NEW t \in Task, pc[t] = "start", NEW B,
         senders' = SendersAfter(t, B), receivers' = ReceiversAfter(t, B),
         UNCHANGED <<count, closed, op, phase, toWake, run, timer, firing>>,
         \A u \in Task \ {t} : /\ pc'[u] = pc[u] /\ winner'[u] = winner[u]
                               /\ status'[u] = status[u] /\ cursor'[u] = cursor[u],
         pc'[t] \in {"done", "enqueue"}
  PROVE  /\ Deals(t, {}) /\ ListsLose /\ OwnListedKept(t)
         /\ OnceAt(t)' /\ PhaseInPlace(t)' /\ TimerInPlace(t)'
         /\ senders' \in [Chan -> Seq(Waiter)] /\ receivers' \in [Chan -> Seq(Waiter)]
<1>1. OpInPlace(t) /\ PhaseInPlace(t) /\ WaitersInPlace
  BY Zenon, AtTask DEF IndInv
<1>2. run[t] = 0 /\ ~Woken(t) /\ firing[t] = "none" /\ timer[t] = "idle" /\ OnceAt(t)
  BY Zenon, AtRest, AtTask
<1>3. toWake[t] = {}
  BY Zenon, <1>1 DEF OpInPlace
<1>4. \A u \in Task \ {t} : SameTask(u)
  BY Zenon DEF SameTask
<1>5. Deals(t, {})
  BY Zenon, <1>3, <1>4 DEF Deals
<1>6. ListsLose
  <2>1. \A d \in Chan : /\ Shrunk(senders[d], senders[d]) /\ Shrunk(receivers[d], receivers[d])
                        /\ Shrunk(<<>>, senders[d]) /\ Shrunk(<<>>, receivers[d])
    BY SMTT(60), <1>1 DEF WaitersInPlace, ListInPlace, Shrunk, Listed
  <2>2. \A d \in Chan : Shrunk(senders'[d], senders[d]) /\ Shrunk(receivers'[d], receivers[d])
    BY SMTT(60), <2>1, AfterScan
  <2>3. QED
    BY Zenon, <2>2 DEF ListsLose
<1>7. OwnListedKept(t)
  <2>1. \A i \in CaseIndex, c \in Chan : /\ ~WaiterInPlace(<<t, i>>, "send", c)
                                         /\ ~WaiterInPlace(<<t, i>>, "recv", c)
    BY Zenon DEF WaiterInPlace
  <2>2. QED
    BY Zenon, <2>1 DEF OwnListedKept
<1>8. OnceAt(t)'
  BY Zenon, <1>2, WakesKept DEF OnceAt, Claimed, TimerOwes
<1>9. PhaseInPlace(t)'
  BY Zenon, <1>1 DEF PhaseInPlace
<1>10. TimerInPlace(t)'
  BY Zenon, <1>2 DEF TimerInPlace
<1>11. QED
  BY Zenon, <1>5, <1>6, <1>7, <1>8, <1>9, <1>10, AfterScan

(* try_send and try_recv returning empty-handed.                            *)
LEMMA TryBlockedStep ==
  ASSUME IndInv, NEW t \in Task, TryBlocked(t), UNCHANGED selectVars
  PROVE  IndInv'
<1>1. /\ pc[t] = "start" /\ op[t].how = "try"
      /\ senders' = SendersAfter(t, {1}) /\ receivers' = ReceiversAfter(t, {1})
      /\ status' = [status EXCEPT ![t] = "blocked"] /\ pc' = [pc EXCEPT ![t] = "done"]
      /\ UNCHANGED <<ring, count, sendIndex, recvIndex, closed, mutex, op, ops,
                     winner, phase, value, toWake, run, cursor, timer, firing>>
  BY Zenon DEF TryBlocked, selectVars
<1>2. TaskTypeOK /\ ChanTypeOK /\ OpInPlace(t)
  BY Zenon, AtTask DEF IndInv, TypeOK
<1>3. /\ pc'[t] = "done" /\ \A u \in Task \ {t} : pc'[u] = pc[u] /\ status'[u] = status[u]
      /\ pc' \in [Task -> PcState] /\ status' \in [Task -> Status]
  BY Zenon, <1>1, <1>2 DEF TaskTypeOK, PcState, Status
<1>4. /\ Deals(t, {}) /\ ListsLose /\ OwnListedKept(t)
      /\ OnceAt(t)' /\ PhaseInPlace(t)' /\ TimerInPlace(t)'
      /\ senders' \in [Chan -> Seq(Waiter)] /\ receivers' \in [Chan -> Seq(Waiter)]
  BY Zenon, <1>1, <1>3, ScanLists
<1>5. TypeOK'
  <2>1. TaskTypeOK'
    BY Zenon, <1>1, <1>2, <1>3 DEF TaskTypeOK
  <2>2. ChanTypeOK'
    BY Zenon, <1>1, <1>2, <1>4 DEF ChanTypeOK
  <2>3. QED
    BY Zenon, <2>1, <2>2 DEF TypeOK
<1>6. OpInPlace(t)'
  BY Zenon, <1>1, <1>2, <1>3 DEF OpInPlace, IsSelect
<1>7. LockRespected(t)
  BY Zenon, <1>1 DEF LockRespected
<1>8. QED
  BY Zenon, <1>3, <1>4, <1>5, <1>6, <1>7, DealStep

(* select taking its otherwise() case.                                      *)
LEMMA ScanDefaultStep ==
  ASSUME IndInv, NEW t \in Task, ScanDefault(t)
  PROVE  IndInv'
<1>1. PICK B :
      /\ pc[t] = "start" /\ IsSelect(t)
      /\ senders' = SendersAfter(t, B) /\ receivers' = ReceiversAfter(t, B)
      /\ winner' = [winner EXCEPT ![t] = DefaultCase] /\ pc' = [pc EXCEPT ![t] = "done"]
      /\ mutex' = [c \in Chan |-> IF mutex[c] = t THEN NoTask ELSE mutex[c]]
      /\ UNCHANGED <<ring, count, sendIndex, recvIndex, closed, op, ops, phase,
                     status, value, toWake, run, cursor, timer, firing>>
  BY Zenon DEF ScanDefault, NothingReady, AllLocked, UnlockAll, selectVars
<1>2. TaskTypeOK /\ ChanTypeOK /\ OpInPlace(t)
  BY Zenon, AtTask DEF IndInv, TypeOK
<1>3. /\ pc'[t] = "done" /\ \A u \in Task \ {t} : pc'[u] = pc[u] /\ winner'[u] = winner[u]
      /\ pc' \in [Task -> PcState]
  BY Zenon, <1>1, <1>2 DEF TaskTypeOK, PcState
<1>4. winner' \in [Task -> 0..DefaultCase]
  BY SMTT(60), <1>1, <1>2, ChannelAssumption DEF TaskTypeOK, DefaultCase
<1>5. /\ Deals(t, {}) /\ ListsLose /\ OwnListedKept(t)
      /\ OnceAt(t)' /\ PhaseInPlace(t)' /\ TimerInPlace(t)'
      /\ senders' \in [Chan -> Seq(Waiter)] /\ receivers' \in [Chan -> Seq(Waiter)]
  BY Zenon, <1>1, <1>3, ScanLists
<1>6. TypeOK'
  <2>1. TaskTypeOK'
    BY Zenon, <1>1, <1>2, <1>3, <1>4 DEF TaskTypeOK
  <2>2. mutex' \in [Chan -> Task \cup {NoTask}]
    BY Zenon, <1>1, <1>2 DEF ChanTypeOK
  <2>3. ChanTypeOK'
    BY Zenon, <1>1, <1>2, <1>5, <2>2 DEF ChanTypeOK
  <2>4. QED
    BY Zenon, <2>1, <2>3 DEF TypeOK
<1>7. OpInPlace(t)'
  BY Zenon, <1>1, <1>2, <1>3 DEF OpInPlace, IsSelect
<1>8. LockRespected(t)
  BY Zenon, <1>1 DEF LockRespected
<1>9. QED
  BY Zenon, <1>3, <1>5, <1>6, <1>7, <1>8, DealStep

(* Emptying a list, or leaving it alone, makes no waiter acquirable. *)
LEMMA NoneAcquirable ==
  ASSUME NEW c \in Chan, UNCHANGED <<op, winner>>,
         receivers'[c] \in {receivers[c], <<>>}, senders'[c] \in {senders[c], <<>>}
  PROVE  /\ AcquirableAt(receivers[c]) = {} => AcquirableAt(receivers[c])' = {}
         /\ AcquirableAt(senders[c]) = {} => AcquirableAt(senders[c])' = {}
<1>1. \A w : Acquirable(w)' <=> Acquirable(w)
  BY Zenon DEF Acquirable, IsSelect
<1>2. ASSUME NEW k \in AcquirableAt(receivers[c])'
      PROVE  k \in AcquirableAt(receivers[c])
  <2>1. PICK w : w = receivers'[c][k]
    BY Zenon
  <2>2. k \in 1..Len(receivers'[c]) /\ Acquirable(w)'
    BY Zenon, <2>1 DEF AcquirableAt, Acquirable, IsSelect
  <2>3. receivers'[c] = receivers[c]
    BY SMTT(60), <2>2
  <2>4. QED
    BY Zenon, <1>1, <2>1, <2>2, <2>3 DEF AcquirableAt
<1>3. ASSUME NEW k \in AcquirableAt(senders[c])'
      PROVE  k \in AcquirableAt(senders[c])
  <2>1. PICK w : w = senders'[c][k]
    BY Zenon
  <2>2. k \in 1..Len(senders'[c]) /\ Acquirable(w)'
    BY Zenon, <2>1 DEF AcquirableAt, Acquirable, IsSelect
  <2>3. senders'[c] = senders[c]
    BY SMTT(60), <2>2
  <2>4. QED
    BY Zenon, <1>1, <2>1, <2>2, <2>3 DEF AcquirableAt
<1>4. QED
  BY Zenon, <1>2, <1>3

(* select going on to enqueue its waiters.                                  *)
LEMMA ScanBlockedStep ==
  ASSUME IndInv, NEW t \in Task, ScanBlocked(t)
  PROVE  IndInv'
<1>1. /\ pc[t] = "start" /\ IsSelect(t) /\ Channels(t) \subseteq Held(t)
      /\ \A i \in 1..Len(op[t].cases) : Blocked(t, i)
      /\ senders' = SendersAfter(t, 1..Len(op[t].cases))
      /\ receivers' = ReceiversAfter(t, 1..Len(op[t].cases))
      /\ cursor' = [cursor EXCEPT ![t] = 1] /\ pc' = [pc EXCEPT ![t] = "enqueue"]
      /\ UNCHANGED <<ring, count, sendIndex, recvIndex, closed, mutex, op, ops,
                     winner, phase, status, value, toWake, run, timer, firing>>
  BY Zenon DEF ScanBlocked, NothingReady, AllLocked
<1>2. TaskTypeOK /\ ChanTypeOK /\ OpInPlace(t)
  BY Zenon, AtTask DEF IndInv, TypeOK
<1>3. /\ pc'[t] = "enqueue" /\ \A u \in Task \ {t} : pc'[u] = pc[u] /\ cursor'[u] = cursor[u]
      /\ pc' \in [Task -> PcState] /\ cursor'[t] = 1
  BY Zenon, <1>1, <1>2 DEF TaskTypeOK, PcState
<1>4. cursor' \in [Task -> 1..(MaxCases + 1)]
  BY SMTT(60), <1>1, <1>2, ChannelAssumption DEF TaskTypeOK
<1>5. /\ Deals(t, {}) /\ ListsLose /\ OwnListedKept(t)
      /\ OnceAt(t)' /\ PhaseInPlace(t)' /\ TimerInPlace(t)'
      /\ senders' \in [Chan -> Seq(Waiter)] /\ receivers' \in [Chan -> Seq(Waiter)]
  BY Zenon, <1>1, <1>3, ScanLists
<1>6. TypeOK'
  <2>1. TaskTypeOK'
    BY Zenon, <1>1, <1>2, <1>3, <1>4 DEF TaskTypeOK
  <2>2. ChanTypeOK'
    BY Zenon, <1>1, <1>2, <1>5 DEF ChanTypeOK
  <2>3. QED
    BY Zenon, <2>1, <2>2 DEF TypeOK
<1>7. OpInPlace(t)'
  BY Zenon, <1>1, <1>2, <1>3 DEF OpInPlace, IsSelect
<1>8. LockRespected(t)
  BY Zenon, <1>1 DEF LockRespected
<1>9. StillBlocked(t)'
  <2>1. cursor'[t] <= Len(op'[t].cases) + 1
    BY SMTT(60), <1>1, <1>3, OpFacts DEF IsSelect
  <2>2. ASSUME NEW i \in 1..Len(op'[t].cases), NEW c \in Chan, CaseOf(t, i)'.ch = c
        PROVE  /\ mutex'[c] = t
               /\ ~closed'[c]
               /\ CaseOf(t, i)'.dir = "send" =>
                    count'[c] = Capacity[c] /\ AcquirableAt(receivers[c])' = {}
               /\ CaseOf(t, i)'.dir = "recv" =>
                    count'[c] = 0 /\ AcquirableAt(senders[c])' = {}
    <3>1. i \in 1..Len(op[t].cases) /\ CaseOf(t, i).ch = c /\ CaseOf(t, i)' = CaseOf(t, i)
      BY Zenon, <1>1, <2>2 DEF CaseOf
    <3>2. c # Nil
      BY Zenon, ChannelAssumption
    <3>3. mutex[c] = t
      BY Zenon, <1>1, <3>1, <3>2 DEF Channels, Held
    <3>4. /\ ~closed[c]
          /\ CaseOf(t, i).dir = "send" => AcquirableAt(receivers[c]) = {} /\ count[c] = Capacity[c]
          /\ CaseOf(t, i).dir = "recv" => AcquirableAt(senders[c]) = {} /\ count[c] = 0
      BY Zenon, <1>1, <3>1, <3>2 DEF Blocked
    <3>5. /\ AcquirableAt(receivers[c]) = {} => AcquirableAt(receivers[c])' = {}
          /\ AcquirableAt(senders[c]) = {} => AcquirableAt(senders[c])' = {}
      <4>1. receivers'[c] \in {receivers[c], <<>>} /\ senders'[c] \in {senders[c], <<>>}
        BY Zenon, <1>1, AfterScan
      <4>2. QED
        BY Zenon, <1>1, <4>1, NoneAcquirable
    <3>6. QED
      BY Zenon, <1>1, <3>1, <3>3, <3>4, <3>5
  <2>3. QED
    BY Zenon, <2>1, <2>2 DEF StillBlocked
<1>10. QED
  BY Zenon, <1>5, <1>6, <1>7, <1>8, <1>9, DealStep
(* Unlinking a waiter only shrinks its list.                                *)
LEMMA WithoutShrinks ==
  ASSUME NEW S, NEW q \in Seq(S), Shrunk(q, q), NEW w
  PROVE  /\ Without(q, w) \in Seq(S) /\ Shrunk(Without(q, w), q)
         /\ ~Listed(w, Without(q, w))
<1>1. \A j, k \in 1..Len(q) : q[j] = q[k] => j = k
  BY Zenon DEF Shrunk
<1>2. \A j \in 1..Len(Without(q, w)) : Listed(Without(q, w)[j], q)
  BY SMTT(60), WithoutFacts DEF Listed
<1>3. QED
  BY SMTT(60), <1>1, <1>2, WithoutFacts DEF Shrunk

(* case_retract unlinking the waiter of a case that lost.                   *)
LEMMA RetractStep ==
  ASSUME IndInv, NEW t \in Task, Retract(t)
  PROVE  IndInv'
<1>1. /\ pc[t] = "finish" /\ cursor[t] <= Len(op[t].cases)
      /\ cursor' = [cursor EXCEPT ![t] = @ + 1]
      /\ UNCHANGED <<ring, count, sendIndex, recvIndex, closed, mutex, pc, op, ops,
                     winner, phase, status, value, toWake, run, timer, firing>>
  BY Zenon DEF Retract, taskVars
<1>2. /\ TaskTypeOK /\ ChanTypeOK /\ WaitersInPlace
      /\ OpInPlace(t) /\ PhaseInPlace(t) /\ TimerInPlace(t) /\ OnceAt(t)
  BY Zenon, AtTask DEF IndInv, TypeOK
<1>3. op[t] # NoOp /\ toWake[t] = {} /\ IsSelect(t)
  BY Zenon, <1>1, <1>2 DEF OpInPlace
<1>4. PICK i \in 1..Len(op[t].cases) : i = cursor[t]
  BY SMTT(60), <1>1, <1>2 DEF TaskTypeOK
<1>5. i \in CaseIndex /\ CaseOf(t, i) \in Case /\ MaxCases \in Nat
  BY Zenon, <1>3, OpFacts, ChannelAssumption
<1>6. /\ cursor' \in [Task -> 1..(MaxCases + 1)] /\ cursor'[t] = i + 1
      /\ \A u \in Task \ {t} : cursor'[u] = cursor[u]
  BY SMTT(60), <1>1, <1>2, <1>4, <1>5 DEF TaskTypeOK, CaseIndex
<1>7. /\ senders' \in [Chan -> Seq(Waiter)] /\ receivers' \in [Chan -> Seq(Waiter)]
      /\ \A c \in Chan :
           /\ Shrunk(senders'[c], senders[c]) /\ Shrunk(receivers'[c], receivers[c])
           /\ CaseOf(t, i) = [dir |-> "send", ch |-> c] /\ i # winner[t] =>
                ~Listed(<<t, i>>, senders'[c])
           /\ CaseOf(t, i) = [dir |-> "recv", ch |-> c] /\ i # winner[t] =>
                ~Listed(<<t, i>>, receivers'[c])
  <2>1. /\ senders \in [Chan -> Seq(Waiter)] /\ receivers \in [Chan -> Seq(Waiter)]
        /\ \A c \in Chan : /\ Shrunk(senders[c], senders[c])
                           /\ Shrunk(receivers[c], receivers[c])
    BY Zenon, <1>2 DEF ChanTypeOK, WaitersInPlace, ListInPlace, Shrunk, Listed
  <2>2. ASSUME NEW c \in Chan, NEW w
        PROVE  /\ Without(senders[c], w) \in Seq(Waiter)
               /\ Shrunk(Without(senders[c], w), senders[c])
               /\ ~Listed(w, Without(senders[c], w))
    BY Zenon, <2>1, WithoutShrinks
  <2>3. ASSUME NEW c \in Chan, NEW w
        PROVE  /\ Without(receivers[c], w) \in Seq(Waiter)
               /\ Shrunk(Without(receivers[c], w), receivers[c])
               /\ ~Listed(w, Without(receivers[c], w))
    BY Zenon, <2>1, WithoutShrinks
  <2>4. CASE (i = winner[t] \/ CaseOf(t, i).ch = Nil) /\ UNCHANGED <<senders, receivers>>
    <3>1. \A c \in Chan : c # Nil
      BY Zenon, ChannelAssumption
    <3>2. QED
      BY SMTT(60), <2>1, <2>4, <3>1
  <2>5. CASE /\ CaseOf(t, i).ch # Nil
             /\ senders' = IF CaseOf(t, i).dir = "send"
                           THEN [senders EXCEPT ![CaseOf(t, i).ch] = Without(@, <<t, i>>)]
                           ELSE senders
             /\ receivers' = IF CaseOf(t, i).dir = "recv"
                             THEN [receivers EXCEPT ![CaseOf(t, i).ch] = Without(@, <<t, i>>)]
                             ELSE receivers
    <3>1. PICK k \in Chan : k = CaseOf(t, i).ch
      BY Zenon, <1>5, <2>5 DEF Case
    <3>2. CASE CaseOf(t, i).dir = "send"
      <4>1. senders' = [senders EXCEPT ![k] = Without(@, <<t, i>>)] /\ receivers' = receivers
        BY Zenon, <2>5, <3>1, <3>2
      <4>2. /\ senders' \in [Chan -> Seq(Waiter)] /\ senders'[k] = Without(senders[k], <<t, i>>)
            /\ \A c \in Chan \ {k} : senders'[c] = senders[c]
        BY Zenon, <2>1, <2>2, <4>1
      <4>3. QED
        BY SMTT(60), <2>1, <2>2, <3>1, <3>2, <4>1, <4>2
    <3>3. CASE CaseOf(t, i).dir = "recv"
      <4>1. receivers' = [receivers EXCEPT ![k] = Without(@, <<t, i>>)] /\ senders' = senders
        BY Zenon, <2>5, <3>1, <3>3
      <4>2. /\ receivers' \in [Chan -> Seq(Waiter)]
            /\ receivers'[k] = Without(receivers[k], <<t, i>>)
            /\ \A c \in Chan \ {k} : receivers'[c] = receivers[c]
        BY Zenon, <2>1, <2>3, <4>1
      <4>3. QED
        BY SMTT(60), <2>1, <2>3, <3>1, <3>3, <4>1, <4>2
    <3>4. QED
      BY Zenon, <1>5, <3>2, <3>3 DEF Case
  <2>6. QED
    BY Zenon, <1>4, <2>4, <2>5 DEF Retract
<1>8. ListsLose
  BY Zenon, <1>1, <1>7 DEF ListsLose
<1>9. Deals(t, {})
  <2>1. \A u \in Task \ {t} : SameTask(u)
    BY Zenon, <1>1, <1>6 DEF SameTask
  <2>2. QED
    BY Zenon, <1>1, <1>3, <2>1 DEF Deals
<1>10. OwnListedKept(t)
  <2>1. ASSUME NEW j \in CaseIndex, NEW c \in Chan, NEW dir \in {"send", "recv"},
               WaiterInPlace(<<t, j>>, dir, c), j # i
        PROVE  WaiterInPlace(<<t, j>>, dir, c)'
    <3>1. j \in 1..Len(op[t].cases) /\ CaseOf(t, j) = [dir |-> dir, ch |-> c]
          /\ j # winner[t] /\ j >= i
      BY Zenon, <1>1, <1>4, <2>1 DEF WaiterInPlace
    <3>2. j >= cursor'[t]
      BY SMTT(60), <1>6, <2>1, <3>1
    <3>3. QED
      BY Zenon, <1>1, <1>3, <3>1, <3>2 DEF WaiterInPlace, CaseOf, IsSelect
  <2>2. \A j \in CaseIndex : Acquirable(<<t, j>>)' <=> Acquirable(<<t, j>>)
    BY Zenon, <1>1 DEF Acquirable, IsSelect
  <2>3. \A c \in Chan : /\ WaiterInPlace(<<t, i>>, "send", c) => ~Listed(<<t, i>>, senders'[c])
                        /\ WaiterInPlace(<<t, i>>, "recv", c) => ~Listed(<<t, i>>, receivers'[c])
    BY Zenon, <1>7 DEF WaiterInPlace
  <2>4. QED
    BY Zenon, <2>1, <2>2, <2>3 DEF OwnListedKept
<1>11. TypeOK'
  <2>1. TaskTypeOK'
    BY Zenon, <1>1, <1>2, <1>6 DEF TaskTypeOK
  <2>2. ChanTypeOK'
    BY Zenon, <1>1, <1>2, <1>7 DEF ChanTypeOK
  <2>3. QED
    BY Zenon, <2>1, <2>2 DEF TypeOK
<1>12. (IsSelect(t)' <=> IsSelect(t)) /\ (Decided(t)' <=> Decided(t))
  BY Zenon, <1>1 DEF IsSelect, Decided
<1>13. OnceAt(t)' /\ PhaseInPlace(t)' /\ TimerInPlace(t)'
  <2>1. OnceAt(t)'
    BY Zenon, <1>1, <1>2, <1>12, WakesKept DEF OnceAt, Claimed, TimerOwes
  <2>2. PhaseInPlace(t)' /\ TimerInPlace(t)'
    BY Zenon, <1>1, <1>2, <1>12 DEF PhaseInPlace, TimerInPlace
  <2>3. QED
    BY Zenon, <2>1, <2>2
<1>14. OpInPlace(t)'
  BY Zenon, <1>1, <1>2, <1>12 DEF OpInPlace
<1>15. LockRespected(t)
  BY Zenon, <1>1 DEF LockRespected
<1>16. QED
  BY Zenon, <1>1, <1>8, <1>9, <1>10, <1>11, <1>13, <1>14, <1>15, DealStep
(* The waiters that close() claims. *)
LEMMA ClaimFacts ==
  ASSUME IndInv, NEW t \in Task, pc[t] = "start", NEW c \in Chan, mutex[c] = NoTask
  PROVE  /\ CloseClaims(c) \subseteq Waiter
         /\ \A w \in CloseClaims(c) :
              /\ Takeable(t, w)
              /\ \E dir \in {"send", "recv"} : CaseOf(w[1], w[2]) = [dir |-> dir, ch |-> c]
         /\ \A w, x \in CloseClaims(c) : w[1] = x[1] => w = x
<1>1. senders[c] \in Seq(Waiter) /\ receivers[c] \in Seq(Waiter)
  BY Zenon DEF IndInv, TypeOK, ChanTypeOK
<1>2. ListInPlace(senders[c], "send", c) /\ ListInPlace(receivers[c], "recv", c)
  BY Zenon DEF IndInv, WaitersInPlace
<1>3. PICK r \in Seq(Waiter), s \in Seq(Waiter) : r = receivers[c] /\ s = senders[c]
  BY Zenon, <1>1
<1>4. PICK q \in Seq(Waiter) : q = r \o s
  BY Zenon, ConcatProperties
<1>a. Len(r) \in Nat /\ Len(s) \in Nat /\ Len(q) \in Nat /\ Len(q) = Len(r) + Len(s)
  BY SMTT(60), <1>4
<1>5. ASSUME NEW j \in 1..Len(q)
      PROVE  \E dir \in {"send", "recv"} : WaiterInPlace(q[j], dir, c)
  <2>1. CASE j <= Len(r)
    <3>1. j \in 1..Len(r) /\ q[j] = r[j]
      BY SMTT(60), <1>4, <1>a, <2>1
    <3>2. QED
      BY Zenon, <1>2, <1>3, <3>1 DEF ListInPlace
  <2>2. CASE j > Len(r)
    <3>1. j - Len(r) \in 1..Len(s) /\ q[j] = s[j - Len(r)]
      BY SMTT(60), <1>4, <1>a, <2>2
    <3>2. QED
      BY Zenon, <1>2, <1>3, <3>1 DEF ListInPlace
  <2>3. QED
    BY SMTT(60), <1>a, <2>1, <2>2
<1>6. \A w \in CloseClaims(c) :
        \E j \in AcquirableAt(q) : /\ w = q[j]
                                   /\ \A l \in 1..(j - 1) : q[l][1] # q[j][1]
  BY Zenon, <1>3, <1>4 DEF CloseClaims
<1>7. ASSUME NEW w \in CloseClaims(c)
      PROVE  /\ w \in Waiter /\ Takeable(t, w)
             /\ \E dir \in {"send", "recv"} : CaseOf(w[1], w[2]) = [dir |-> dir, ch |-> c]
  <2>1. PICK j \in AcquirableAt(q) : w = q[j]
    BY Zenon, <1>6
  <2>2. j \in 1..Len(q) /\ Acquirable(w)
    BY Zenon, <2>1 DEF AcquirableAt
  <2>3. w \in Waiter
    BY SMTT(60), <2>1, <2>2
  <2>4. PICK dir \in {"send", "recv"} : WaiterInPlace(w, dir, c)
    BY Zenon, <1>5, <2>1, <2>2
  <2>5. QED
    BY Zenon, <2>2, <2>3, <2>4, AcquiredIsTakeable
<1>8. ASSUME NEW w \in CloseClaims(c), NEW x \in CloseClaims(c), w[1] = x[1]
      PROVE  w = x
  <2>1. PICK j \in AcquirableAt(q) : w = q[j] /\ \A l \in 1..(j - 1) : q[l][1] # q[j][1]
    BY Zenon, <1>6
  <2>2. PICK k \in AcquirableAt(q) : x = q[k] /\ \A l \in 1..(k - 1) : q[l][1] # q[k][1]
    BY Zenon, <1>6
  <2>3. j \in 1..Len(q) /\ k \in 1..Len(q) /\ Len(q) \in Nat
    BY Zenon, <1>a DEF AcquirableAt
  <2>4. ~(j < k) /\ ~(k < j)
    BY SMTT(60), <1>8, <2>1, <2>2, <2>3
  <2>5. QED
    BY SMTT(60), <2>1, <2>2, <2>3, <2>4
<1>9. QED
  BY Zenon, <1>7, <1>8

(* Channel::close deciding everybody who waits on the channel.              *)
LEMMA CloseStep ==
  ASSUME IndInv, NEW t \in Task, Close(t), UNCHANGED selectVars
  PROVE  IndInv'
<1>1. /\ pc[t] = "start" /\ op[t].how = "close" /\ mutex[CaseOf(t, 1).ch] = NoTask
      /\ pc' = [pc EXCEPT ![t] = "wake"]
      /\ UNCHANGED <<ring, count, sendIndex, recvIndex, mutex, op, ops, phase, run,
                     cursor, timer, firing>>
  BY Zenon DEF Close, selectVars
<1>2. /\ TaskTypeOK /\ ChanTypeOK /\ OpInPlace(t) /\ toWake[t] = {}
      /\ op[t] # NoOp /\ ~IsSelect(t)
  BY Zenon, <1>1, AtTask DEF OpInPlace, IndInv, TypeOK, IsSelect
<1>3. PICK c \in Chan : CaseOf(t, 1).ch = c
  BY Zenon, <1>2, OpFacts
<1>4. TryContext(t, 1, c, senders, receivers)
  <2>1. 1 \in CaseIndex
    BY SMTT(60), <1>2, OpFacts
  <2>2. QED
    BY Zenon, <1>1, <1>2, <1>3, <2>1 DEF TryContext, ChanTypeOK
<1>5. /\ pc'[t] = "wake" /\ pc' \in [Task -> PcState]
      /\ \A u \in Task \ {t} : pc'[u] = pc[u]
  BY Zenon, <1>1, <1>2 DEF TaskTypeOK, PcState
<1>6. SUFFICES ASSUME NEW W, Deals(t, W), ResultTypeOK', toWake' \in [Task -> SUBSET Waiter],
                      ~IsSelect(t) => winner'[t] = winner[t], ListsLose,
                      closed' \in [Chan -> BOOLEAN], \A d \in Chan \ {c} : closed'[d] = closed[d],
                      senders' \in [Chan -> Seq(Waiter)], receivers' \in [Chan -> Seq(Waiter)]
               PROVE  IndInv'
  <2>1. CASE closed[c]
    <3>1. /\ Settle(Alone(t, 1, "done", NoMsg))
          /\ UNCHANGED <<closed, senders, receivers, toWake>>
      BY Zenon, <1>3, <2>1 DEF Close
    <3>2. toWake' = [toWake EXCEPT ![t] = {}]
      BY Zenon, <1>2, <3>1 DEF TaskTypeOK
    <3>3. /\ Deals(t, {}) /\ ResultTypeOK' /\ toWake' \in [Task -> SUBSET Waiter]
          /\ ~IsSelect(t) => winner'[t] = winner[t]
      BY Zenon, <1>4, <3>1, <3>2, DealsNone DEF Status
    <3>4. ListsLose
      BY Zenon, <1>1, <1>4, <3>1, ContextFacts DEF ListsLose
    <3>5. QED
      BY Zenon, <1>2, <1>6, <3>1, <3>3, <3>4 DEF ChanTypeOK
  <2>2. CASE ~closed[c]
    <3> DEFINE won == CloseClaims(CaseOf(t, 1).ch)
               caseOf(u) == (CHOOSE w \in won : w[1] = u)[2]
    <3>0. PICK s :
          /\ s = [u \in {t} \cup {w[1] : w \in won} |->
                    IF u = t THEN Outcome(1, "done", NoMsg)
                    ELSE Outcome(caseOf(u), "closed", NoMsg)]
          /\ Settle(s)
          /\ closed' = [closed EXCEPT ![CaseOf(t, 1).ch] = TRUE]
          /\ senders' = [senders EXCEPT ![CaseOf(t, 1).ch] = <<>>]
          /\ receivers' = [receivers EXCEPT ![CaseOf(t, 1).ch] = <<>>]
          /\ toWake' = [toWake EXCEPT ![t] = won]
      BY Zenon, <1>3, <2>2 DEF Close
    <3>1. /\ s = [u \in {t} \cup {w[1] : w \in won} |->
                    IF u = t THEN Outcome(1, "done", NoMsg)
                    ELSE Outcome(caseOf(u), "closed", NoMsg)]
          /\ Settle(s)
          /\ closed' = [closed EXCEPT ![c] = TRUE]
          /\ senders' = [senders EXCEPT ![c] = <<>>]
          /\ receivers' = [receivers EXCEPT ![c] = <<>>]
          /\ toWake' = [toWake EXCEPT ![t] = won]
      BY Zenon, <1>3, <3>0
    <3>2. /\ won \subseteq Waiter
          /\ \A w \in won :
               /\ Takeable(t, w)
               /\ \E dir \in {"send", "recv"} : CaseOf(w[1], w[2]) = [dir |-> dir, ch |-> c]
          /\ \A w, x \in won : w[1] = x[1] => w = x
      BY Zenon, <1>1, <1>3, ClaimFacts
    <3> HIDE DEF won
    <3>3. ASSUME NEW w \in won
          PROVE  w[1] # t /\ w[1] \in Task /\ w[2] \in CaseIndex /\ caseOf(w[1]) = w[2]
      <4>1. w[1] # t /\ w[1] \in Task /\ w[2] \in CaseIndex
        BY Zenon, <3>2 DEF Takeable, Waiter
      <4>2. (CHOOSE x \in won : x[1] = w[1]) = w
        BY Zenon, <3>2
      <4>3. QED
        BY Zenon, <4>1, <4>2
    <3> HIDE DEF caseOf
    <3>4. /\ DOMAIN s = {t} \cup {w[1] : w \in won}
          /\ s[t].case = 1 /\ s[t].status = "done" /\ s[t].value = NoMsg
          /\ \A w \in won : /\ s[w[1]].case = w[2] /\ s[w[1]].status = "closed"
                            /\ s[w[1]].value = NoMsg
      BY Zenon, <3>1, <3>3 DEF Outcome
    <3>5. \A u \in DOMAIN s \cap Task :
            /\ s[u].case \in 0..DefaultCase /\ s[u].status \in Status
            /\ s[u].value \in Msg \cup {NoMsg}
      <4>1. \A n \in CaseIndex : n \in 0..DefaultCase
        BY SMTT(60), ChannelAssumption DEF CaseIndex, DefaultCase
      <4>2. 1 \in CaseIndex
        BY Zenon, <1>4 DEF TryContext
      <4>3. QED
        BY SMTT(60), <3>3, <3>4, <4>1, <4>2 DEF Status
    <3>6. /\ ResultTypeOK'
          /\ \A u \in Task :
               /\ u \notin DOMAIN s => winner'[u] = winner[u] /\ status'[u] = status[u]
               /\ u \in DOMAIN s => status'[u] = s[u].status
               /\ u \in DOMAIN s /\ IsSelect(u) => winner'[u] = s[u].case
               /\ ~IsSelect(u) => winner'[u] = winner[u]
      <4>1. ResultTypeOK
        BY Zenon, <1>4, ContextFacts
      <4>2. Settle(s)
        BY Zenon, <3>1
      <4>3. QED
        BY Zenon, <3>5, <4>1, <4>2, SettleFacts
    <3>7. /\ closed' \in [Chan -> BOOLEAN] /\ \A d \in Chan \ {c} : closed'[d] = closed[d]
      BY Zenon, <1>2, <3>1 DEF ChanTypeOK
    <3>8. /\ senders' \in [Chan -> Seq(Waiter)] /\ receivers' \in [Chan -> Seq(Waiter)]
          /\ senders'[c] = <<>> /\ receivers'[c] = <<>>
          /\ \A d \in Chan \ {c} : senders'[d] = senders[d] /\ receivers'[d] = receivers[d]
      <4>1. <<>> \in Seq(Waiter)
        BY SMTT(60)
      <4>2. QED
        BY Zenon, <1>2, <3>1, <4>1 DEF ChanTypeOK
    <3>9. ListsLose
      <4>1. \A d \in Chan : /\ Shrunk(senders[d], senders[d])
                            /\ Shrunk(receivers[d], receivers[d])
        BY Zenon, <1>4, ContextFacts
      <4>2. Shrunk(<<>>, senders[c]) /\ Shrunk(<<>>, receivers[c])
        BY SMTT(60) DEF Shrunk
      <4>3. \A d \in Chan : /\ Shrunk(senders'[d], senders[d])
                            /\ Shrunk(receivers'[d], receivers[d])
        BY Zenon, <3>8, <4>1, <4>2
      <4>4. /\ \A k \in 1..Len(senders'[c]) : ~Acquirable(senders[c][k])'
            /\ \A k \in 1..Len(receivers'[c]) : ~Acquirable(receivers[c][k])'
        BY SMTT(60), <3>8
      <4>5. QED
        BY Zenon, <1>1, <3>7, <4>3, <4>4 DEF ListsLose
    <3>10. /\ toWake' \in [Task -> SUBSET Waiter] /\ toWake'[t] = won
           /\ \A u \in Task \ {t} : toWake'[u] = toWake[u]
      BY Zenon, <1>2, <3>1, <3>2 DEF TaskTypeOK
    <3>11. Deals(t, won)
      <4>1. ASSUME NEW w \in won PROVE DecidesPeer(w[1], w[2])
        <5>1. /\ IsSelect(w[1]) => winner'[w[1]] = w[2]
              /\ ~IsSelect(w[1]) => winner'[w[1]] = winner[w[1]]
              /\ status'[w[1]] = "closed"
          BY Zenon, <3>3, <3>4, <3>6
        <5>2. QED
          BY Zenon, <1>1, <1>5, <3>3, <3>10, <5>1 DEF DecidesPeer
      <4>2. ASSUME NEW w \in won, NEW d \in Chan
            PROVE  ~Listed(w, senders'[d]) /\ ~Listed(w, receivers'[d])
        <5>1. PICK dir \in {"send", "recv"} : CaseOf(w[1], w[2]) = [dir |-> dir, ch |-> c]
          BY Zenon, <3>2
        <5>2. ~Listed(w, senders'[c]) /\ ~Listed(w, receivers'[c])
          BY SMTT(60), <3>8 DEF Listed
        <5>3. QED
          BY Zenon, <3>9, <5>1, <5>2, NotListed DEF IndInv
      <4>3. ASSUME NEW u \in Task \ {t}, \A w \in won : w[1] # u
            PROVE  SameTask(u)
        <5>1. u \notin DOMAIN s
          BY Zenon, <3>4, <4>3
        <5>2. QED
          BY Zenon, <1>1, <1>5, <3>6, <3>10, <5>1 DEF SameTask
      <4>4. QED
        BY Zenon, <1>2, <3>2, <3>10, <4>1, <4>2, <4>3 DEF Deals
    <3>12. QED
      BY Zenon, <1>6, <3>6, <3>7, <3>8, <3>9, <3>10, <3>11
  <2>3. QED
    BY Zenon, <2>1, <2>2
<1>7. TypeOK'
  <2>1. TaskTypeOK'
    BY Zenon, <1>1, <1>2, <1>5, <1>6 DEF TaskTypeOK, ResultTypeOK
  <2>2. ChanTypeOK'
    BY Zenon, <1>1, <1>2, <1>6 DEF ChanTypeOK
  <2>3. QED
    BY Zenon, <2>1, <2>2 DEF TypeOK
<1>8. LockRespected(t)
  BY Zenon, <1>1, <1>3, <1>6 DEF LockRespected
<1>9. /\ OnceAt(t)' /\ OpInPlace(t)' /\ PhaseInPlace(t)' /\ TimerInPlace(t)'
      /\ OwnListedKept(t)
  BY Zenon, <1>1, <1>5, <1>6, DealerInPlace
<1>10. QED
  BY Zenon, <1>5, <1>6, <1>7, <1>8, <1>9, DealStep
-----------------------------------------------------------------------------
(* Steps that put a waiter on a list. *)

(* The step puts t's waiter for case i on its list; the lists may first     *)
(* have lost all their waiters.                                             *)
GrownTo(q2, q1, w, here) ==
  \E q \in {q1, <<>>} : q2 = IF here THEN Append(q, w) ELSE q

Grows(t, i) ==
  \A c \in Chan :
    /\ GrownTo(senders'[c], senders[c], <<t, i>>, CaseOf(t, i) = [dir |-> "send", ch |-> c])
    /\ GrownTo(receivers'[c], receivers[c], <<t, i>>, CaseOf(t, i) = [dir |-> "recv", ch |-> c])

(* What growing by w at most means for a list without repetitions.          *)
GrowthOf(q2, q1, w, here) ==
  /\ \A k \in 1..Len(q2) : Listed(q2[k], q1) \/ (here /\ q2[k] = w)
  /\ (\A j, k \in 1..Len(q1) : q1[j] = q1[k] => j = k) /\ ~Listed(w, q1) =>
       \A j, k \in 1..Len(q2) : q2[j] = q2[k] => j = k
  /\ (\A j, k \in 1..Len(q1) : q1[j] = q1[k] => j = k) /\ ~here => Shrunk(q2, q1)

(* What such a list holds: old waiters and the new one, each once.          *)
LEMMA GrownFacts ==
  ASSUME NEW q1 \in Seq(Waiter), NEW w \in Waiter, NEW here \in BOOLEAN, NEW q2,
         GrownTo(q2, q1, w, here)
  PROVE  /\ q2 \in Seq(Waiter)
         /\ GrowthOf(q2, q1, w, here)
<1>1. PICK q \in {q1, <<>>} : q2 = IF here THEN Append(q, w) ELSE q
  BY Zenon DEF GrownTo
<1>2. q \in Seq(Waiter) /\ \A k \in 1..Len(q) : Listed(q[k], q1)
  <2>1. CASE q = q1
    BY Zenon, <2>1 DEF Listed
  <2>2. CASE q = <<>>
    BY SMTT(60), <2>2
  <2>3. QED
    BY Zenon, <1>1, <2>1, <2>2
<1>3. (\A j, k \in 1..Len(q1) : q1[j] = q1[k] => j = k) =>
        \A j, k \in 1..Len(q) : q[j] = q[k] => j = k
  BY SMTT(60), <1>1
<1>4. CASE here
  <2>1. q2 = Append(q, w)
    BY Zenon, <1>1, <1>4
  <2>2. /\ q2 \in Seq(Waiter) /\ Len(q2) = Len(q) + 1 /\ Len(q) \in Nat
        /\ q2[Len(q) + 1] = w
        /\ \A k \in 1..Len(q) : q2[k] = q[k]
    BY SMTT(60), <1>2, <2>1
  <2>3. \A k \in 1..Len(q2) : (k \in 1..Len(q) /\ q2[k] = q[k]) \/ (k = Len(q) + 1 /\ q2[k] = w)
    BY SMTT(60), <2>2
  <2>4. \A k \in 1..Len(q2) : Listed(q2[k], q1) \/ q2[k] = w
    BY Zenon, <1>2, <2>3
  <2>5. ASSUME \A j, k \in 1..Len(q) : q[j] = q[k] => j = k, ~Listed(w, q1)
        PROVE  \A j, k \in 1..Len(q2) : q2[j] = q2[k] => j = k
    <3>1. \A k \in 1..Len(q) : q[k] # w
      BY Zenon, <1>2, <2>5
    <3>2. QED
      BY Zenon, <2>3, <2>5, <3>1
  <2>6. QED
    BY Zenon, <1>3, <1>4, <2>2, <2>4, <2>5 DEF GrowthOf
<1>5. CASE ~here
  BY SMTT(60), <1>1, <1>2, <1>3, <1>5 DEF Shrunk, GrowthOf
<1>6. QED
  BY Zenon, <1>4, <1>5

(* Who can be acquired after such a step. *)
LEMMA GrownAcquirable ==
  ASSUME IndInv, NEW t \in Task, NEW i \in CaseIndex, Grows(t, i), UNCHANGED <<op, winner>>,
         NEW c \in Chan
  PROVE  /\ \A k \in AcquirableAt(receivers[c])' :
              \/ \E j \in AcquirableAt(receivers[c]) : receivers[c][j] = receivers'[c][k]
              \/ receivers'[c][k][1] = t /\ CaseOf(t, i) = [dir |-> "recv", ch |-> c]
         /\ \A k \in AcquirableAt(senders[c])' :
              \/ \E j \in AcquirableAt(senders[c]) : senders[c][j] = senders'[c][k]
              \/ senders'[c][k][1] = t /\ CaseOf(t, i) = [dir |-> "send", ch |-> c]
<1>1. senders[c] \in Seq(Waiter) /\ receivers[c] \in Seq(Waiter) /\ <<t, i>> \in Waiter
  BY Zenon DEF IndInv, TypeOK, ChanTypeOK, Waiter
<1>2. \A w : Acquirable(w)' <=> Acquirable(w)
  BY Zenon DEF Acquirable, IsSelect
<1>3. ASSUME NEW k \in AcquirableAt(receivers[c])'
      PROVE  \/ \E j \in AcquirableAt(receivers[c]) : receivers[c][j] = receivers'[c][k]
             \/ receivers'[c][k][1] = t /\ CaseOf(t, i) = [dir |-> "recv", ch |-> c]
  <2>1. PICK w : w = receivers'[c][k]
    BY Zenon
  <2>2. k \in 1..Len(receivers'[c]) /\ Acquirable(w)'
    BY Zenon, <2>1 DEF AcquirableAt, Acquirable, IsSelect
  <2>3. PICK here \in BOOLEAN : here <=> CaseOf(t, i) = [dir |-> "recv", ch |-> c]
    BY Zenon
  <2>4. GrownTo(receivers'[c], receivers[c], <<t, i>>, here)
    BY Zenon, <2>3 DEF Grows
  <2>5. Listed(w, receivers[c]) \/ (here /\ w = <<t, i>>)
    <3>1. GrowthOf(receivers'[c], receivers[c], <<t, i>>, here)
      BY Zenon, <1>1, <2>4, GrownFacts
    <3>2. QED
      BY Zenon, <2>1, <2>2, <3>1 DEF GrowthOf
  <2>6. QED
    BY SMTT(60), <1>2, <2>1, <2>2, <2>3, <2>5 DEF Listed, AcquirableAt
<1>4. ASSUME NEW k \in AcquirableAt(senders[c])'
      PROVE  \/ \E j \in AcquirableAt(senders[c]) : senders[c][j] = senders'[c][k]
             \/ senders'[c][k][1] = t /\ CaseOf(t, i) = [dir |-> "send", ch |-> c]
  <2>1. PICK w : w = senders'[c][k]
    BY Zenon
  <2>2. k \in 1..Len(senders'[c]) /\ Acquirable(w)'
    BY Zenon, <2>1 DEF AcquirableAt, Acquirable, IsSelect
  <2>3. PICK here \in BOOLEAN : here <=> CaseOf(t, i) = [dir |-> "send", ch |-> c]
    BY Zenon
  <2>4. GrownTo(senders'[c], senders[c], <<t, i>>, here)
    BY Zenon, <2>3 DEF Grows
  <2>5. Listed(w, senders[c]) \/ (here /\ w = <<t, i>>)
    <3>1. GrowthOf(senders'[c], senders[c], <<t, i>>, here)
      BY Zenon, <1>1, <2>4, GrownFacts
    <3>2. QED
      BY Zenon, <2>1, <2>2, <3>1 DEF GrowthOf
  <2>6. QED
    BY SMTT(60), <1>2, <2>1, <2>2, <2>3, <2>5 DEF Listed, AcquirableAt
<1>5. QED
  BY Zenon, <1>3, <1>4

(* Case i of t finds nobody to pair with on its channel. *)
NoPartner(t, i) ==
  \A c \in Chan : CaseOf(t, i).ch = c =>
    /\ mutex[c] \in {NoTask, t} /\ ~closed[c]
    /\ CaseOf(t, i).dir = "send" =>
         /\ count[c] = Capacity[c]
         /\ \A k \in AcquirableAt(receivers[c]) : receivers[c][k][1] = t
    /\ CaseOf(t, i).dir = "recv" =>
         /\ count[c] = 0
         /\ \A k \in AcquirableAt(senders[c]) : senders[c][k][1] = t

(* The new waiter and what it waits for are not both there.                 *)
LEMMA GrownStranded ==
  ASSUME IndInv, NEW t \in Task, NEW i \in CaseIndex, Grows(t, i), NoPartner(t, i),
         UNCHANGED <<op, winner, closed, count>>
  PROVE  NoneStranded'
<1>1. SUFFICES ASSUME NEW c \in Chan
               PROVE  /\ AcquirableAt(receivers[c])' # {} => ~closed'[c] /\ count'[c] = 0
                      /\ AcquirableAt(senders[c])' # {} => ~closed'[c] /\ count'[c] = Capacity[c]
                      /\ \A j \in AcquirableAt(receivers[c])', k \in AcquirableAt(senders[c])' :
                           receivers'[c][j][1] = senders'[c][k][1]
  BY Zenon DEF NoneStranded
<1>2. /\ AcquirableAt(receivers[c]) # {} => ~closed[c] /\ count[c] = 0
      /\ AcquirableAt(senders[c]) # {} => ~closed[c] /\ count[c] = Capacity[c]
      /\ \A j \in AcquirableAt(receivers[c]), k \in AcquirableAt(senders[c]) :
           receivers[c][j][1] = senders[c][k][1]
  BY Zenon DEF IndInv, NoneStranded
<1>3. /\ CaseOf(t, i) = [dir |-> "send", ch |-> c] =>
           /\ ~closed[c] /\ count[c] = Capacity[c]
           /\ \A k \in AcquirableAt(receivers[c]) : receivers[c][k][1] = t
      /\ CaseOf(t, i) = [dir |-> "recv", ch |-> c] =>
           /\ ~closed[c] /\ count[c] = 0
           /\ \A k \in AcquirableAt(senders[c]) : senders[c][k][1] = t
  BY SMTT(60) DEF NoPartner
<1>4. AcquirableAt(receivers[c])' # {} => ~closed'[c] /\ count'[c] = 0
  BY SMTT(60), <1>2, <1>3, GrownAcquirable
<1>5. AcquirableAt(senders[c])' # {} => ~closed'[c] /\ count'[c] = Capacity[c]
  BY SMTT(60), <1>2, <1>3, GrownAcquirable
<1>6. ASSUME NEW j \in AcquirableAt(receivers[c])', NEW k \in AcquirableAt(senders[c])'
      PROVE  receivers'[c][j][1] = senders'[c][k][1]
  <2>1. \/ \E l \in AcquirableAt(receivers[c]) : receivers[c][l] = receivers'[c][j]
        \/ receivers'[c][j][1] = t /\ CaseOf(t, i) = [dir |-> "recv", ch |-> c]
    BY SMTT(60), GrownAcquirable
  <2>2. \/ \E l \in AcquirableAt(senders[c]) : senders[c][l] = senders'[c][k]
        \/ senders'[c][k][1] = t /\ CaseOf(t, i) = [dir |-> "send", ch |-> c]
    BY SMTT(60), GrownAcquirable
  <2>3. QED
    BY SMTT(60), <1>2, <1>3, <2>1, <2>2
<1>7. QED
  BY Zenon, <1>4, <1>5, <1>6
(* The step that puts the waiter there preserves the invariant if it does   *)
(* so for t.                                                                 *)
LEMMA GrowStep ==
  ASSUME IndInv, NEW t \in Task, NEW i \in CaseIndex, TypeOK', Grows(t, i), NoPartner(t, i),
         UNCHANGED <<op, winner, closed, count, mutex, toWake>>,
         \A u \in Task \ {t} : SameTask(u),
         \A j \in CaseIndex, c \in Chan, dir \in {"send", "recv"} :
           WaiterInPlace(<<t, j>>, dir, c) => j # i /\ WaiterInPlace(<<t, j>>, dir, c)',
         \A c \in Chan, dir \in {"send", "recv"} :
           CaseOf(t, i) = [dir |-> dir, ch |-> c] => WaiterInPlace(<<t, i>>, dir, c)',
         OnceAt(t)', OpInPlace(t)', PhaseInPlace(t)', TimerInPlace(t)',
         pc'[t] = "enqueue" => StillBlocked(t)'
  PROVE  IndInv'
<1>1. /\ TypeOK /\ ChanTypeOK /\ ChanTypeOK' /\ WaitersInPlace /\ NoneStranded
      /\ ResumedOnce /\ ProgressInPlace
  BY Zenon DEF IndInv, TypeOK
<1>2. NoneStranded'
  BY Zenon, GrownStranded
<1>3. ASSUME NEW c \in Chan, NEW dir \in {"send", "recv"}, NEW w \in Waiter,
             WaiterInPlace(w, dir, c)
      PROVE  w # <<t, i>> /\ WaiterInPlace(w, dir, c)'
  <2>1. PICK u \in Task, j \in CaseIndex : w = <<u, j>>
    BY SMTT(60) DEF Waiter
  <2>2. CASE u = t
    BY Zenon, <1>3, <2>1, <2>2
  <2>3. CASE u # t
    BY Zenon, <1>3, <2>1, <2>3, SameInPlace
  <2>4. QED
    BY Zenon, <2>2, <2>3
<1>4. ASSUME NEW c \in Chan
      PROVE  /\ ListInPlace(senders[c], "send", c)'
             /\ CaseOf(t, i).ch # c => Shrunk(senders'[c], senders[c])
  <2>1. PICK here \in BOOLEAN : here <=> CaseOf(t, i) = [dir |-> "send", ch |-> c]
    BY Zenon
  <2>2. GrownTo(senders'[c], senders[c], <<t, i>>, here)
    BY Zenon, <2>1 DEF Grows
  <2>3. ListInPlace(senders[c], "send", c)
    BY Zenon, <1>1 DEF WaitersInPlace
  <2>4. \A j, k \in 1..Len(senders[c]) : senders[c][j] = senders[c][k] => j = k
    BY Zenon, <2>3 DEF ListInPlace
  <2>5. senders[c] \in Seq(Waiter) /\ <<t, i>> \in Waiter
    BY Zenon, <1>1 DEF ChanTypeOK, Waiter
  <2>6. \A w : Listed(w, senders[c]) => w \in Waiter /\ WaiterInPlace(w, "send", c)
    BY SMTT(60), <2>3, <2>5 DEF ListInPlace, Listed
  <2>7. ~Listed(<<t, i>>, senders[c])
    BY Zenon, <1>3, <2>5, <2>6
  <2>8. /\ \A k \in 1..Len(senders'[c]) :
             Listed(senders'[c][k], senders[c]) \/ (here /\ senders'[c][k] = <<t, i>>)
        /\ \A j, k \in 1..Len(senders'[c]) : senders'[c][j] = senders'[c][k] => j = k
        /\ ~here => Shrunk(senders'[c], senders[c])
    <3>1. PICK q1 \in Seq(Waiter), q2 \in {senders'[c]} : q1 = senders[c] /\ q2 = senders'[c]
      BY Zenon, <2>5
    <3>2. PICK w \in Waiter : w = <<t, i>>
      BY Zenon, <2>5
    <3>3. GrownTo(q2, q1, w, here) /\ ~Listed(w, q1)
      BY Zenon, <2>2, <2>7, <3>1, <3>2
    <3>4. \A j, k \in 1..Len(q1) : q1[j] = q1[k] => j = k
      BY Zenon, <2>4, <3>1
    <3>5. /\ \A k \in 1..Len(q2) : Listed(q2[k], q1) \/ (here /\ q2[k] = w)
          /\ \A j, k \in 1..Len(q2) : q2[j] = q2[k] => j = k
          /\ ~here => Shrunk(q2, q1)
      <4>1. GrowthOf(q2, q1, w, here)
        BY Zenon, <3>3, GrownFacts
      <4>2. QED
        BY Zenon, <3>3, <3>4, <4>1 DEF GrowthOf
    <3>6. QED
      BY Zenon, <3>1, <3>2, <3>5
  <2>9. ASSUME NEW k \in 1..Len(senders'[c])
        PROVE  WaiterInPlace(senders[c][k], "send", c)'
    <3>1. PICK w : w = senders'[c][k]
      BY Zenon
    <3>2. WaiterInPlace(w, "send", c)'
      <4>1. CASE Listed(w, senders[c])
        BY Zenon, <1>3, <2>6, <4>1
      <4>2. CASE here /\ w = <<t, i>>
        BY Zenon, <2>1, <4>2
      <4>3. QED
        BY Zenon, <2>8, <3>1, <4>1, <4>2
    <3>3. QED
      BY Zenon, <3>1, <3>2 DEF WaiterInPlace, CaseOf, IsSelect, Decided
  <2>10. QED
    BY SMTT(60), <2>1, <2>8, <2>9 DEF ListInPlace
<1>5. ASSUME NEW c \in Chan
      PROVE  /\ ListInPlace(receivers[c], "recv", c)'
             /\ CaseOf(t, i).ch # c => Shrunk(receivers'[c], receivers[c])
  <2>1. PICK here \in BOOLEAN : here <=> CaseOf(t, i) = [dir |-> "recv", ch |-> c]
    BY Zenon
  <2>2. GrownTo(receivers'[c], receivers[c], <<t, i>>, here)
    BY Zenon, <2>1 DEF Grows
  <2>3. ListInPlace(receivers[c], "recv", c)
    BY Zenon, <1>1 DEF WaitersInPlace
  <2>4. \A j, k \in 1..Len(receivers[c]) : receivers[c][j] = receivers[c][k] => j = k
    BY Zenon, <2>3 DEF ListInPlace
  <2>5. receivers[c] \in Seq(Waiter) /\ <<t, i>> \in Waiter
    BY Zenon, <1>1 DEF ChanTypeOK, Waiter
  <2>6. \A w : Listed(w, receivers[c]) => w \in Waiter /\ WaiterInPlace(w, "recv", c)
    BY SMTT(60), <2>3, <2>5 DEF ListInPlace, Listed
  <2>7. ~Listed(<<t, i>>, receivers[c])
    BY Zenon, <1>3, <2>5, <2>6
  <2>8. /\ \A k \in 1..Len(receivers'[c]) :
             Listed(receivers'[c][k], receivers[c]) \/ (here /\ receivers'[c][k] = <<t, i>>)
        /\ \A j, k \in 1..Len(receivers'[c]) : receivers'[c][j] = receivers'[c][k] => j = k
        /\ ~here => Shrunk(receivers'[c], receivers[c])
    <3>1. PICK q1 \in Seq(Waiter), q2 \in {receivers'[c]} : q1 = receivers[c] /\ q2 = receivers'[c]
      BY Zenon, <2>5
    <3>2. PICK w \in Waiter : w = <<t, i>>
      BY Zenon, <2>5
    <3>3. GrownTo(q2, q1, w, here) /\ ~Listed(w, q1)
      BY Zenon, <2>2, <2>7, <3>1, <3>2
    <3>4. \A j, k \in 1..Len(q1) : q1[j] = q1[k] => j = k
      BY Zenon, <2>4, <3>1
    <3>5. /\ \A k \in 1..Len(q2) : Listed(q2[k], q1) \/ (here /\ q2[k] = w)
          /\ \A j, k \in 1..Len(q2) : q2[j] = q2[k] => j = k
          /\ ~here => Shrunk(q2, q1)
      <4>1. GrowthOf(q2, q1, w, here)
        BY Zenon, <3>3, GrownFacts
      <4>2. QED
        BY Zenon, <3>3, <3>4, <4>1 DEF GrowthOf
    <3>6. QED
      BY Zenon, <3>1, <3>2, <3>5
  <2>9. ASSUME NEW k \in 1..Len(receivers'[c])
        PROVE  WaiterInPlace(receivers[c][k], "recv", c)'
    <3>1. PICK w : w = receivers'[c][k]
      BY Zenon
    <3>2. WaiterInPlace(w, "recv", c)'
      <4>1. CASE Listed(w, receivers[c])
        BY Zenon, <1>3, <2>6, <4>1
      <4>2. CASE here /\ w = <<t, i>>
        BY Zenon, <2>1, <4>2
      <4>3. QED
        BY Zenon, <2>8, <3>1, <4>1, <4>2
    <3>3. QED
      BY Zenon, <3>1, <3>2 DEF WaiterInPlace, CaseOf, IsSelect, Decided
  <2>10. QED
    BY SMTT(60), <2>1, <2>8, <2>9 DEF ListInPlace
<1>6. WaitersInPlace'
  BY Zenon, <1>4, <1>5 DEF WaitersInPlace
<1>7. ResumedOnce'
  <2>1. ASSUME NEW u \in Task, u # t
        PROVE  OnceAt(u)'
    BY Zenon, <1>1, <2>1, OnceKept DEF ResumedOnce
  <2>2. QED
    BY Zenon, <2>1 DEF ResumedOnce
<1>8. ProgressInPlace'
  <2>1. ASSUME NEW u \in Task, u # t
        PROVE  OpInPlace(u)' /\ PhaseInPlace(u)' /\ TimerInPlace(u)'
    BY Zenon, <1>1, <2>1, SameInPlace DEF ProgressInPlace
  <2>2. ASSUME NEW u \in Task, u # t, pc'[u] = "enqueue"
        PROVE  StillBlocked(u)'
    <3>1. SameTask(u) /\ pc[u] = "enqueue"
      BY Zenon, <2>2 DEF SameTask
    <3>2. StillBlocked(u)
      BY Zenon, <1>1, <3>1 DEF ProgressInPlace
    <3>3. LockRespected(t)
      BY Zenon DEF LockRespected
    <3>4. \A w : Acquirable(w)' <=> Acquirable(w)
      BY Zenon DEF Acquirable, IsSelect
    <3>5. ASSUME NEW c \in Chan, mutex[c] = u
          PROVE  ShrinksAt(c)
      <4>1. CaseOf(t, i).ch # c
        BY Zenon, <2>2, <3>5, ChannelAssumption DEF NoPartner
      <4>2. QED
        BY Zenon, <1>4, <1>5, <3>4, <4>1 DEF ShrinksAt
    <3>6. QED
      BY Zenon, <1>1, <2>2, <3>1, <3>2, <3>3, <3>5, StillBlockedKept, ChannelAssumption
  <2>3. QED
    BY Zenon, <2>1, <2>2 DEF ProgressInPlace
<1>9. QED
  BY Zenon, <1>2, <1>6, <1>7, <1>8 DEF IndInv
(* push_back on a waiter list, as send, recv and case_enqueue do it.        *)
LEMMA EnqueueGrows ==
  ASSUME IndInv, NEW t \in Task, NEW i \in CaseIndex, CaseOf(t, i) \in Case, NEW snd, NEW rcv,
         snd \in [Chan -> Seq(Waiter)], rcv \in [Chan -> Seq(Waiter)],
         \A d \in Chan : snd[d] \in {senders[d], <<>>} /\ rcv[d] \in {receivers[d], <<>>},
         Enqueue(t, i, snd, rcv)
  PROVE  /\ Grows(t, i)
         /\ senders' \in [Chan -> Seq(Waiter)] /\ receivers' \in [Chan -> Seq(Waiter)]
<1>1. PICK k \in Case : k = CaseOf(t, i)
  BY Zenon
<1>2. k.dir \in {"send", "recv"} /\ k.ch \in Chan \cup {Nil} /\ k = [dir |-> k.dir, ch |-> k.ch]
  BY Zenon DEF Case
<1>3. \A c \in Chan, dir \in {"send", "recv"} :
        k = [dir |-> dir, ch |-> c] <=> k.dir = dir /\ k.ch = c
  BY SMTT(60), <1>2
<1>4. Nil \notin Chan
  BY Zenon, ChannelAssumption
<1>5. /\ senders' = IF k.dir = "send" /\ k.ch # Nil
                    THEN [snd EXCEPT ![k.ch] = Append(@, <<t, i>>)] ELSE snd
      /\ receivers' = IF k.dir = "recv" /\ k.ch # Nil
                      THEN [rcv EXCEPT ![k.ch] = Append(@, <<t, i>>)] ELSE rcv
  BY Zenon, <1>1 DEF Enqueue
<1>6. \A d \in Chan : /\ Append(snd[d], <<t, i>>) \in Seq(Waiter)
                      /\ Append(rcv[d], <<t, i>>) \in Seq(Waiter)
  BY Zenon, AppendProperties DEF Waiter
<1>7. senders' \in [Chan -> Seq(Waiter)] /\ receivers' \in [Chan -> Seq(Waiter)]
  BY Zenon, <1>2, <1>5, <1>6
<1>8. ASSUME NEW c \in Chan
      PROVE  /\ senders'[c] = IF k.dir = "send" /\ k.ch = c THEN Append(snd[c], <<t, i>>) ELSE snd[c]
             /\ receivers'[c] = IF k.dir = "recv" /\ k.ch = c THEN Append(rcv[c], <<t, i>>) ELSE rcv[c]
  BY Zenon, <1>2, <1>4, <1>5
<1>9. ASSUME NEW c \in Chan
      PROVE  /\ GrownTo(senders'[c], senders[c], <<t, i>>, k = [dir |-> "send", ch |-> c])
             /\ GrownTo(receivers'[c], receivers[c], <<t, i>>, k = [dir |-> "recv", ch |-> c])
  BY Zenon, <1>3, <1>8 DEF GrownTo
<1>10. QED
  BY Zenon, <1>1, <1>7, <1>9 DEF Grows

(* A send or recv that parks keeps the invariant.                           *)
LEMMA AwaitBlockedStep ==
  ASSUME IndInv, NEW t \in Task, AwaitBlocked(t), UNCHANGED selectVars
  PROVE  IndInv'
<1>1. /\ pc[t] = "start" /\ op[t].how = "await" /\ mutex[CaseOf(t, 1).ch] = NoTask
      /\ Blocked(t, 1)
      /\ Enqueue(t, 1, SendersAfter(t, {1}), ReceiversAfter(t, {1}))
      /\ pc' = [pc EXCEPT ![t] = "parked"]
      /\ UNCHANGED <<ring, count, sendIndex, recvIndex, closed, mutex, op, ops,
                     winner, phase, status, value, toWake, run, cursor, timer, firing>>
  BY Zenon DEF AwaitBlocked, selectVars
<1>2. TaskTypeOK /\ ChanTypeOK /\ OpInPlace(t) /\ OnceAt(t) /\ PhaseInPlace(t)
  BY Zenon, AtTask DEF IndInv, TypeOK
<1>3. /\ pc'[t] = "parked" /\ \A u \in Task \ {t} : pc'[u] = pc[u]
      /\ pc' \in [Task -> PcState]
  BY Zenon, <1>1, <1>2 DEF TaskTypeOK, PcState
<1>4. op[t] # NoOp /\ ~IsSelect(t)
  BY Zenon, <1>1, <1>2 DEF OpInPlace, IsSelect
<1>5. /\ Len(op[t].cases) = 1 /\ CaseOf(t, 1).ch \in Chan /\ 1 \in CaseIndex
      /\ CaseOf(t, 1) \in Case
  BY SMTT(60), <1>4, OpFacts
<1>6. /\ Grows(t, 1)
      /\ senders' \in [Chan -> Seq(Waiter)] /\ receivers' \in [Chan -> Seq(Waiter)]
  BY Zenon, <1>1, <1>5, AfterScan, EnqueueGrows
<1>7. TypeOK'
  <2>1. TaskTypeOK'
    BY Zenon, <1>1, <1>2, <1>3 DEF TaskTypeOK
  <2>2. ChanTypeOK'
    BY Zenon, <1>1, <1>2, <1>6 DEF ChanTypeOK
  <2>3. QED
    BY Zenon, <2>1, <2>2 DEF TypeOK
<1>8. NoPartner(t, 1)
  <2>1. CaseOf(t, 1).ch # Nil
    BY Zenon, <1>5, ChannelAssumption
  <2>2. QED
    BY Zenon, <1>1, <2>1 DEF NoPartner, Blocked
<1>9. \A u \in Task \ {t} : SameTask(u)
  BY Zenon, <1>1, <1>3 DEF SameTask
<1>10. run[t] = 0 /\ ~Woken(t) /\ ~Claimed(t) /\ firing[t] = "none" /\ timer[t] = "idle"
  BY Zenon, <1>1, AtRest
<1>11. /\ ~IsSelect(t)' /\ ~Decided(t)' /\ winner'[t] = NoWinner /\ toWake'[t] = {}
       /\ status'[t] = "pending"
  BY Zenon, <1>1, <1>2, <1>4 DEF IsSelect, Decided, OpInPlace
<1>12. OpInPlace(t)'
  BY Zenon, <1>1, <1>3, <1>4, <1>11 DEF OpInPlace
<1>13. PhaseInPlace(t)' /\ TimerInPlace(t)'
  BY Zenon, <1>1, <1>3, <1>10, <1>11 DEF PhaseInPlace, TimerInPlace
<1>14. OnceAt(t)'
  <2>1. ~Claimed(t)' /\ ~Woken(t)' /\ ~TimerOwes(t)'
    BY Zenon, <1>1, <1>10, WakesKept DEF Claimed, TimerOwes
  <2>2. WokenOnce(t)'
    BY Zenon, <1>1, <1>2, WakesKept DEF OnceAt
  <2>3. QED
    BY SMTT(60), <1>1, <1>10, <1>11, <2>1, <2>2 DEF OnceAt
<1>15. \A j \in CaseIndex, c \in Chan, dir \in {"send", "recv"} : ~WaiterInPlace(<<t, j>>, dir, c)
  BY Zenon, <1>1 DEF WaiterInPlace
<1>16. ASSUME NEW c \in Chan, NEW dir \in {"send", "recv"}, CaseOf(t, 1) = [dir |-> dir, ch |-> c]
       PROVE  WaiterInPlace(<<t, 1>>, dir, c)'
  <2>1. /\ op'[t] = op[t] /\ op[t] # NoOp /\ 1 \in 1..Len(op[t].cases)
        /\ CaseOf(t, 1)' = [dir |-> dir, ch |-> c] /\ 1 # winner'[t]
    <3>1. 1 \in 1..1 /\ 1 # NoWinner
      BY SMTT(60) DEF NoWinner
    <3>2. QED
      BY Zenon, <1>1, <1>4, <1>5, <1>11, <1>16, <3>1 DEF CaseOf
  <2>2. QED
    BY Zenon, <1>1, <1>3, <1>11, <2>1 DEF WaiterInPlace
<1>17. UNCHANGED <<op, winner, closed, count, mutex, toWake>> /\ pc'[t] # "enqueue"
  BY Zenon, <1>1, <1>3
<1>18. \A j \in CaseIndex, c \in Chan, dir \in {"send", "recv"} :
         WaiterInPlace(<<t, j>>, dir, c) => j # 1 /\ WaiterInPlace(<<t, j>>, dir, c)'
  BY Zenon, <1>15
<1>19. QED
  BY Zenon, <1>5, <1>6, <1>7, <1>8, <1>9, <1>12, <1>13, <1>14, <1>16, <1>17, <1>18, GrowStep

(* So does a select enqueueing its next case.                               *)
LEMMA EnqueueCaseStep ==
  ASSUME IndInv, NEW t \in Task, EnqueueCase(t)
  PROVE  IndInv'
<1>1. /\ pc[t] = "enqueue" /\ cursor[t] <= Len(op[t].cases)
      /\ Enqueue(t, cursor[t], senders, receivers)
      /\ cursor' = [cursor EXCEPT ![t] = @ + 1]
      /\ UNCHANGED <<ring, count, sendIndex, recvIndex, closed, mutex, pc, op, ops,
                     winner, phase, status, value, toWake, run, timer, firing>>
  BY Zenon DEF EnqueueCase, taskVars
<1>2. /\ TaskTypeOK /\ ChanTypeOK /\ OpInPlace(t) /\ OnceAt(t) /\ PhaseInPlace(t)
      /\ TimerInPlace(t) /\ StillBlocked(t)
  BY Zenon, <1>1, AtTask DEF IndInv, TypeOK
<1>3. op[t] # NoOp /\ IsSelect(t) /\ winner[t] = NoWinner
  BY Zenon, <1>1, <1>2 DEF OpInPlace
<1>4. Len(op[t].cases) \in 1..MaxCases /\ MaxCases \in Nat
  BY Zenon, <1>3, OpFacts, ChannelAssumption
<1>5. PICK i \in 1..Len(op[t].cases) : i = cursor[t]
  BY SMTT(60), <1>1, <1>2, <1>4 DEF TaskTypeOK
<1>6. i \in CaseIndex /\ CaseOf(t, i) \in Case
  BY Zenon, <1>3, OpFacts
<1>7. /\ cursor'[t] = i + 1 /\ \A u \in Task \ {t} : cursor'[u] = cursor[u]
      /\ cursor' \in [Task -> 1..(MaxCases + 1)]
  BY SMTT(60), <1>1, <1>2, <1>4, <1>5 DEF TaskTypeOK
<1>8. senders \in [Chan -> Seq(Waiter)] /\ receivers \in [Chan -> Seq(Waiter)]
  BY Zenon, <1>2 DEF ChanTypeOK
<1>9. /\ Grows(t, i)
      /\ senders' \in [Chan -> Seq(Waiter)] /\ receivers' \in [Chan -> Seq(Waiter)]
  BY Zenon, <1>1, <1>5, <1>6, <1>8, EnqueueGrows
<1>10. TypeOK'
  <2>1. TaskTypeOK'
    BY Zenon, <1>1, <1>2, <1>7 DEF TaskTypeOK
  <2>2. ChanTypeOK'
    BY Zenon, <1>1, <1>2, <1>9 DEF ChanTypeOK
  <2>3. QED
    BY Zenon, <2>1, <2>2 DEF TypeOK
<1>11. NoPartner(t, i)
  BY Zenon, <1>2 DEF NoPartner, StillBlocked
<1>12. \A u \in Task \ {t} : SameTask(u)
  BY Zenon, <1>1, <1>7 DEF SameTask
<1>13. (IsSelect(t)' <=> IsSelect(t)) /\ (Decided(t)' <=> Decided(t))
  BY Zenon, <1>1 DEF IsSelect, Decided
<1>14. OpInPlace(t)'
  BY Zenon, <1>1, <1>2, <1>13 DEF OpInPlace
<1>15. PhaseInPlace(t)' /\ TimerInPlace(t)'
  BY Zenon, <1>1, <1>2, <1>13 DEF PhaseInPlace, TimerInPlace
<1>16. OnceAt(t)'
  BY Zenon, <1>1, <1>2, <1>13, WakesKept DEF OnceAt, Claimed, TimerOwes
<1>17. StillBlocked(t)'
  <2>1. cursor'[t] <= Len(op'[t].cases) + 1
    BY SMTT(60), <1>1, <1>4, <1>7
  <2>2. ASSUME NEW j \in 1..Len(op'[t].cases), NEW c \in Chan, CaseOf(t, j)'.ch = c
        PROVE  /\ mutex'[c] = t
               /\ ~closed'[c]
               /\ CaseOf(t, j)'.dir = "send" =>
                    /\ count'[c] = Capacity[c]
                    /\ \A k \in AcquirableAt(receivers[c])' : receivers'[c][k][1] = t
               /\ CaseOf(t, j)'.dir = "recv" =>
                    /\ count'[c] = 0
                    /\ \A k \in AcquirableAt(senders[c])' : senders'[c][k][1] = t
    <3>1. j \in 1..Len(op[t].cases) /\ CaseOf(t, j)' = CaseOf(t, j) /\ CaseOf(t, j).ch = c
      BY Zenon, <1>1, <2>2 DEF CaseOf
    <3>2. /\ mutex[c] = t /\ ~closed[c]
          /\ CaseOf(t, j).dir = "send" =>
               /\ count[c] = Capacity[c]
               /\ \A k \in AcquirableAt(receivers[c]) : receivers[c][k][1] = t
          /\ CaseOf(t, j).dir = "recv" =>
               /\ count[c] = 0
               /\ \A k \in AcquirableAt(senders[c]) : senders[c][k][1] = t
      BY Zenon, <1>2, <3>1 DEF StillBlocked
    <3>3. ASSUME CaseOf(t, j).dir = "send", NEW k \in AcquirableAt(receivers[c])'
          PROVE  receivers'[c][k][1] = t
      <4>1. UNCHANGED <<op, winner>>
        BY Zenon, <1>1
      <4>2. \/ \E l \in AcquirableAt(receivers[c]) : receivers[c][l] = receivers'[c][k]
            \/ receivers'[c][k][1] = t
        BY SMTT(60), <1>6, <1>9, <4>1, GrownAcquirable
      <4>3. QED
        BY Zenon, <3>2, <3>3, <4>2
    <3>4. ASSUME CaseOf(t, j).dir = "recv", NEW k \in AcquirableAt(senders[c])'
          PROVE  senders'[c][k][1] = t
      <4>1. UNCHANGED <<op, winner>>
        BY Zenon, <1>1
      <4>2. \/ \E l \in AcquirableAt(senders[c]) : senders[c][l] = senders'[c][k]
            \/ senders'[c][k][1] = t
        BY SMTT(60), <1>6, <1>9, <4>1, GrownAcquirable
      <4>3. QED
        BY Zenon, <3>2, <3>4, <4>2
    <3>5. QED
      BY Zenon, <1>1, <3>1, <3>2, <3>3, <3>4
  <2>3. QED
    BY Zenon, <2>1, <2>2 DEF StillBlocked
<1>18. ASSUME NEW j \in CaseIndex, NEW c \in Chan, NEW dir \in {"send", "recv"},
              WaiterInPlace(<<t, j>>, dir, c)
       PROVE  j # i /\ WaiterInPlace(<<t, j>>, dir, c)'
  <2>1. /\ j \in 1..Len(op[t].cases) /\ CaseOf(t, j) = [dir |-> dir, ch |-> c]
        /\ j < i /\ j # winner[t]
    BY Zenon, <1>1, <1>5, <1>18 DEF WaiterInPlace
  <2>2. j < cursor'[t] /\ j # i
    BY SMTT(60), <1>7, <2>1
  <2>3. CaseOf(t, j)' = [dir |-> dir, ch |-> c]
    BY Zenon, <1>1, <2>1 DEF CaseOf
  <2>4. QED
    BY Zenon, <1>1, <1>3, <1>13, <2>1, <2>2, <2>3 DEF WaiterInPlace
<1>19. ASSUME NEW c \in Chan, NEW dir \in {"send", "recv"}, CaseOf(t, i) = [dir |-> dir, ch |-> c]
       PROVE  WaiterInPlace(<<t, i>>, dir, c)'
  <2>1. i < cursor'[t] /\ i # winner'[t]
    BY SMTT(60), <1>1, <1>3, <1>5, <1>7 DEF NoWinner
  <2>2. CaseOf(t, i)' = [dir |-> dir, ch |-> c]
    BY Zenon, <1>1, <1>19 DEF CaseOf
  <2>3. QED
    BY Zenon, <1>1, <1>3, <1>13, <2>1, <2>2 DEF WaiterInPlace
<1>20. QED
  BY Zenon, <1>1, <1>6, <1>9, <1>10, <1>11, <1>12, <1>14, <1>15, <1>16, <1>17, <1>18, <1>19, GrowStep
-----------------------------------------------------------------------------
(* Waking. *)

(* The waiters stay in place when nothing they are compared with changes.   *)
LEMMA WaitersSame ==
  ASSUME WaitersInPlace, UNCHANGED <<senders, receivers, pc, op, winner, status, cursor>>
  PROVE  WaitersInPlace'
<1>1. \A x, dir, c : WaiterInPlace(x, dir, c)' <=> WaiterInPlace(x, dir, c)
  BY ZenonT(30) DEF WaiterInPlace, CaseOf, IsSelect, Decided
<1>2. ASSUME NEW c \in Chan
      PROVE  ListInPlace(senders[c], "send", c)'
  <2>1. ListInPlace(senders[c], "send", c) /\ senders'[c] = senders[c]
    BY Zenon DEF WaitersInPlace
  <2>2. ASSUME NEW k \in 1..Len(senders'[c])
        PROVE  WaiterInPlace(senders[c][k], "send", c)'
    <3>1. PICK w : w = senders'[c][k] /\ w = senders[c][k]
      BY Zenon, <2>1
    <3>2. WaiterInPlace(w, "send", c)'
      BY Zenon, <1>1, <2>1, <3>1 DEF ListInPlace
    <3>3. QED
      BY Zenon, <3>1, <3>2 DEF WaiterInPlace, CaseOf, IsSelect, Decided
  <2>3. \A j, k \in 1..Len(senders'[c]) : senders'[c][j] = senders'[c][k] => j = k
    BY Zenon, <2>1 DEF ListInPlace
  <2>4. QED
    BY Zenon, <2>2, <2>3 DEF ListInPlace
<1>3. ASSUME NEW c \in Chan
      PROVE  ListInPlace(receivers[c], "recv", c)'
  <2>1. ListInPlace(receivers[c], "recv", c) /\ receivers'[c] = receivers[c]
    BY Zenon DEF WaitersInPlace
  <2>2. ASSUME NEW k \in 1..Len(receivers'[c])
        PROVE  WaiterInPlace(receivers[c][k], "recv", c)'
    <3>1. PICK w : w = receivers'[c][k] /\ w = receivers[c][k]
      BY Zenon, <2>1
    <3>2. WaiterInPlace(w, "recv", c)'
      BY Zenon, <1>1, <2>1, <3>1 DEF ListInPlace
    <3>3. QED
      BY Zenon, <3>1, <3>2 DEF WaiterInPlace, CaseOf, IsSelect, Decided
  <2>3. \A j, k \in 1..Len(receivers'[c]) : receivers'[c][j] = receivers'[c][k] => j = k
    BY Zenon, <2>1 DEF ListInPlace
  <2>4. QED
    BY Zenon, <2>2, <2>3 DEF ListInPlace
<1>4. QED
  BY Zenon, <1>2, <1>3 DEF WaitersInPlace

(* Nobody is stranded by a step that leaves lists, rings and winners alone. *)
LEMMA StrandedSame ==
  ASSUME NoneStranded, UNCHANGED <<closed, count, senders, receivers, op, winner>>
  PROVE  NoneStranded'
<1>1. ASSUME NEW c \in Chan
      PROVE  /\ AcquirableAt(senders[c])' = AcquirableAt(senders[c])
             /\ AcquirableAt(receivers[c])' = AcquirableAt(receivers[c])
  BY Zenon DEF AcquirableAt, Acquirable, IsSelect
<1>2. QED
  BY <1>1, SMTT(60) DEF NoneStranded

(* ChanWaiter::wake. *)
LEMMA WakeStep ==
  ASSUME IndInv, NEW t \in Task, NEW w \in toWake[t], Wake(t, w), UNCHANGED selectVars
  PROVE  IndInv'
<1>1. UNCHANGED <<ring, count, sendIndex, recvIndex, closed, senders, receivers, mutex, pc,
                  op, ops, winner, status, value, cursor, timer, firing>>
  BY Zenon DEF Wake, chanVars, selectVars
<1>2. TaskTypeOK /\ ChanTypeOK
  BY Zenon DEF IndInv, TypeOK
<1>3. PICK u \in Task : u = w[1] /\ w \in Waiter
  BY SMTT(60), <1>2 DEF TaskTypeOK, Waiter
<1>4. /\ pc[t] = "wake"
      /\ toWake' = [toWake EXCEPT ![t] = @ \ {w}]
      /\ phase' = [phase EXCEPT ![u] = IF IsSelect(u) THEN "resumed" ELSE @]
      /\ run' = [run EXCEPT ![u] = IF IsSelect(u) => phase[u] = "parked" THEN @ + 1 ELSE @]
  BY Zenon, <1>3 DEF Wake
<1>5. /\ toWake'[t] = toWake[t] \ {w} /\ \A v \in Task \ {t} : toWake'[v] = toWake[v]
      /\ phase'[u] = IF IsSelect(u) THEN "resumed" ELSE phase[u]
      /\ run'[u] = IF IsSelect(u) => phase[u] = "parked" THEN run[u] + 1 ELSE run[u]
      /\ \A v \in Task \ {u} : phase'[v] = phase[v] /\ run'[v] = run[v]
  BY Zenon, <1>2, <1>4 DEF TaskTypeOK
<1>6. TypeOK'
  <2>1. toWake' \in [Task -> SUBSET Waiter]
    BY Zenon, <1>2, <1>4 DEF TaskTypeOK
  <2>2. phase' \in [Task -> Phase] /\ run' \in [Task -> Nat]
    BY SMTT(60), <1>2, <1>4 DEF TaskTypeOK, Phase
  <2>3. TaskTypeOK'
    BY Zenon, <1>1, <1>2, <2>1, <2>2 DEF TaskTypeOK
  <2>4. ChanTypeOK'
    BY Zenon, <1>1, <1>2 DEF ChanTypeOK
  <2>5. QED
    BY Zenon, <2>3, <2>4 DEF TypeOK
<1>7. WaitersInPlace'
  BY Zenon, <1>1, WaitersSame DEF IndInv
<1>8. NoneStranded'
  BY Zenon, <1>1, StrandedSame DEF IndInv
<1>9. \A v \in Task : (IsSelect(v)' <=> IsSelect(v)) /\ (Decided(v)' <=> Decided(v))
                      /\ (TimerOwes(v)' <=> TimerOwes(v))
  BY Zenon, <1>1 DEF IsSelect, Decided, TimerOwes
<1>10. /\ OpInPlace(u) /\ PhaseInPlace(u) /\ TimerInPlace(u) /\ OnceAt(u)
       /\ run[u] \in Nat /\ phase[u] \in Phase
  BY Zenon, AtTask
<1>11. Woken(u)
  BY Zenon, <1>3 DEF Woken
<1>12. /\ Decided(u) /\ run[u] = 0 /\ ~TimerOwes(u)
       /\ pc[u] = "parked" \/ (pc[u] \in {"arm", "park"} /\ phase[u] = "setup")
  BY SMTT(60), <1>10, <1>11 DEF OnceAt, Claimed
<1>13. /\ pc[u] \in {"arm", "park"} => IsSelect(u)
       /\ pc[u] = "parked" /\ IsSelect(u) => phase[u] = "parked"
       /\ firing[u] \notin {"won", "schedule"}
  BY SMTT(60), <1>10, <1>12 DEF OpInPlace, PhaseInPlace, TimerOwes
<1>14. /\ pc[u] = "parked" => run'[u] = 1
       /\ pc[u] # "parked" => run'[u] = 0 /\ phase'[u] = "resumed"
  BY SMTT(60), <1>5, <1>12, <1>13
<1>15. ~Woken(u)' /\ WokenOnce(u)'
  <2>1. ASSUME NEW v \in Task, NEW x \in toWake'[v], x[1] = u
        PROVE  FALSE
    <3>1. x \in toWake[v]
      BY Zenon, <1>5
    <3>2. WokenOnce(u)
      BY Zenon, <1>10 DEF OnceAt
    <3>3. v = t /\ x = w
      BY Zenon, <1>3, <2>1, <3>1, <3>2 DEF WokenOnce
    <3>4. QED
      BY Zenon, <1>5, <3>3
  <2>2. QED
    BY Zenon, <2>1 DEF Woken, WokenOnce
<1>16. OnceAt(u)'
  <2>1. ~TimerOwes(u)' /\ Decided(u)' /\ pc'[u] = pc[u]
    BY Zenon, <1>1, <1>9, <1>12
  <2>2. CASE pc[u] = "parked"
    BY SMTT(60), <1>14, <1>15, <2>1, <2>2 DEF OnceAt, Claimed
  <2>3. CASE pc[u] # "parked"
    BY SMTT(60), <1>14, <1>15, <2>1, <2>3 DEF OnceAt, Claimed
  <2>4. QED
    BY Zenon, <2>2, <2>3
<1>17. ASSUME NEW v \in Task, v # u
       PROVE  OnceAt(v)'
  <2>1. \A y \in Task : \A x : x[1] = v => (x \in toWake'[y] <=> x \in toWake[y])
    BY Zenon, <1>3, <1>5, <1>17
  <2>2. (Woken(v)' <=> Woken(v)) /\ (WokenOnce(v) => WokenOnce(v)')
    BY SMTT(60), <2>1 DEF Woken, WokenOnce
  <2>3. OnceAt(v)
    BY Zenon, AtTask
  <2>4. run'[v] = run[v] /\ phase'[v] = phase[v] /\ pc'[v] = pc[v]
    BY Zenon, <1>1, <1>5, <1>17
  <2>5. QED
    BY Zenon, <1>9, <2>2, <2>3, <2>4 DEF OnceAt, Claimed
<1>18. ResumedOnce'
  BY Zenon, <1>16, <1>17 DEF ResumedOnce
<1>19. ASSUME NEW v \in Task
       PROVE  OpInPlace(v)'
  <2>1. OpInPlace(v)
    BY Zenon, AtTask
  <2>2. toWake'[v] # {} => toWake[v] # {}
    BY Zenon, <1>5
  <2>3. QED
    BY Zenon, <1>1, <1>9, <2>1, <2>2 DEF OpInPlace
<1>20. ASSUME NEW v \in Task
       PROVE  TimerInPlace(v)'
  BY Zenon, <1>1, <1>9, AtTask DEF TimerInPlace
<1>21. ASSUME NEW v \in Task
       PROVE  PhaseInPlace(v)'
  <2>1. CASE v # u
    BY Zenon, <1>1, <1>5, <1>9, <2>1, AtTask, PhaseKept
  <2>2. CASE v = u
    <3>1. pc'[u] \in {"parked", "arm", "park"} /\ Decided(u)' /\ firing'[u] = firing[u]
      BY Zenon, <1>1, <1>9, <1>12
    <3>2. IsSelect(u) => phase'[u] = "resumed"
      BY Zenon, <1>5
    <3>3. pc'[u] = "parked" => run'[u] = 1
      BY Zenon, <1>1, <1>14
    <3>4. pc'[u] \in {"arm", "park"} => phase'[u] = "resumed"
      BY ZenonT(30), <1>1, <1>13, <3>2
    <3>5. QED
      BY Zenon, <1>9, <2>2, <3>1, <3>2, <3>3, <3>4 DEF PhaseInPlace
  <2>3. QED
    BY Zenon, <2>1, <2>2
<1>22. ASSUME NEW v \in Task, pc'[v] = "enqueue"
       PROVE  StillBlocked(v)'
  <2>1. StillBlocked(v)
    BY Zenon, <1>1, <1>22, AtTask
  <2>2. QED
    BY SMTT(60), <1>1, <2>1 DEF StillBlocked, CaseOf, AcquirableAt, Acquirable, IsSelect
<1>23. QED
  BY Zenon, <1>6, <1>7, <1>8, <1>18, <1>19, <1>20, <1>21, <1>22 DEF IndInv, ProgressInPlace

-----------------------------------------------------------------------------
(* The channels and tasks start in order.                                   *)
LEMMA InitOK == Init => IndInv
<1>1. SUFFICES ASSUME Init PROVE IndInv
  BY Zenon
<1>2. /\ ring = [c \in Chan |-> [i \in 0..(Capacity[c] - 1) |-> NoMsg]]
      /\ count = [c \in Chan |-> 0] /\ sendIndex = [c \in Chan |-> 0]
      /\ recvIndex = [c \in Chan |-> 0] /\ closed = [c \in Chan |-> FALSE]
      /\ senders = [c \in Chan |-> <<>>] /\ receivers = [c \in Chan |-> <<>>]
      /\ mutex = [c \in Chan |-> NoTask]
  BY Zenon, <1>1 DEF Init, ChannelInit
<1>3. /\ pc = [t \in Task |-> "idle"] /\ op = [t \in Task |-> NoOp]
      /\ ops = [t \in Task |-> 0] /\ winner = [t \in Task |-> NoWinner]
      /\ phase = [t \in Task |-> "setup"] /\ status = [t \in Task |-> "pending"]
      /\ value = [t \in Task |-> NoMsg] /\ toWake = [t \in Task |-> {}]
      /\ run = [t \in Task |-> 0] /\ cursor = [t \in Task |-> 1]
      /\ timer = [t \in Task |-> "idle"] /\ firing = [t \in Task |-> "none"]
  BY Zenon, <1>1 DEF Init, ChannelInit
<1>4. Capacity \in [Chan -> Nat] /\ MaxOps \in Nat /\ MaxCases \in Nat \ {0}
  BY Zenon, ChannelAssumption
<1>5. ChanTypeOK
  BY SMTT(60), <1>2, <1>4 DEF ChanTypeOK
<1>6. TaskTypeOK
  BY SMTT(60), <1>3, <1>4 DEF TaskTypeOK, PcState, Phase, Status, TimerState, FiringState, NoWinner,
                    DefaultCase
<1>7. WaitersInPlace
  BY SMTT(60), <1>2 DEF WaitersInPlace, ListInPlace
<1>8. NoneStranded
  BY SMTT(60), <1>2 DEF NoneStranded, AcquirableAt
<1>9. ResumedOnce
  <2>1. ASSUME NEW t \in Task PROVE OnceAt(t)
    <3>1. ~Woken(t) /\ WokenOnce(t)
      BY Zenon, <1>3 DEF Woken, WokenOnce
    <3>2. ~TimerOwes(t)
      BY Zenon, <1>3 DEF TimerOwes
    <3>3. QED
      BY SMTT(60), <1>3, <3>1, <3>2 DEF OnceAt, Claimed
  <2>2. QED
    BY Zenon, <2>1 DEF ResumedOnce
<1>10. ASSUME NEW t \in Task
       PROVE  OpInPlace(t) /\ PhaseInPlace(t) /\ TimerInPlace(t) /\ pc[t] # "enqueue"
  BY Zenon, <1>3 DEF OpInPlace, PhaseInPlace, TimerInPlace
<1>11. QED
  BY Zenon, <1>5, <1>6, <1>7, <1>8, <1>9, <1>10 DEF IndInv, TypeOK, ProgressInPlace
(* Every step of a task, of select or of the timer service keeps it so.     *)
LEMMA NextOK == IndInv /\ [Next]_vars => IndInv'
<1>1. SUFFICES ASSUME IndInv, [Next]_vars PROVE IndInv'
  BY Zenon
<1>2. ASSUME NEW t \in Task, ChannelStep(t), UNCHANGED selectVars
      PROVE  IndInv'
  <2>1. CASE Attempt(t)
    BY Zenon, <1>1, <1>2, <2>1, AttemptStep
  <2>2. CASE AwaitBlocked(t)
    BY Zenon, <1>1, <1>2, <2>2, AwaitBlockedStep
  <2>3. CASE TryBlocked(t)
    BY Zenon, <1>1, <1>2, <2>3, TryBlockedStep
  <2>4. CASE Close(t)
    BY Zenon, <1>1, <1>2, <2>4, CloseStep
  <2>5. CASE \E w \in toWake[t] : Wake(t, w)
    BY Zenon, <1>1, <1>2, <2>5, WakeStep
  <2>6. CASE WakesDone(t)
    BY Zenon, <1>1, <1>2, <2>6, WakesDoneStep
  <2>7. CASE Resume(t)
    BY Zenon, <1>1, <1>2, <2>7, ResumeStep
  <2>8. CASE Return(t)
    BY Zenon, <1>1, <1>2, <2>8, ReturnStep
  <2>9. QED
    BY Zenon, <1>2, <2>1, <2>2, <2>3, <2>4, <2>5, <2>6, <2>7, <2>8 DEF ChannelStep
<1>3. ASSUME NEW t \in Task, NEW o \in Op, Start(t, o), UNCHANGED selectVars
      PROVE  IndInv'
  BY Zenon, <1>1, <1>3, StartStep
<1>4. ASSUME NEW t \in Task, SelectStep(t)
      PROVE  IndInv'
  <2>1. CASE \E c \in Chan : Lock(t, c)
    BY Zenon, <1>1, <2>1, LockStep
  <2>2. CASE IsSelect(t) /\ \E r \in 1..Len(op[t].cases) :
               \E B \in SUBSET ((1..Len(op[t].cases)) \ {r}) : ScanReady(t, r, B)
    BY Zenon, <1>1, <2>2, ScanReadyStep
  <2>3. CASE ScanDefault(t)
    BY Zenon, <1>1, <2>3, ScanDefaultStep
  <2>4. CASE ScanBlocked(t)
    BY Zenon, <1>1, <2>4, ScanBlockedStep
  <2>5. CASE EnqueueCase(t)
    BY Zenon, <1>1, <2>5, EnqueueCaseStep
  <2>6. CASE EnqueuedAll(t)
    BY Zenon, <1>1, <2>6, EnqueuedAllStep
  <2>7. CASE Arm(t)
    BY Zenon, <1>1, <2>7, ArmStep
  <2>8. CASE Park(t)
    BY Zenon, <1>1, <2>8, ParkStep
  <2>9. CASE SelectResume(t)
    BY Zenon, <1>1, <2>9, SelectResumeStep
  <2>10. CASE Retract(t)
    BY Zenon, <1>1, <2>10, RetractStep
  <2>11. CASE Disarm(t)
    BY Zenon, <1>1, <2>11, DisarmStep
  <2>12. QED
    BY Zenon, <1>4, <2>1, <2>2, <2>3, <2>4, <2>5, <2>6, <2>7, <2>8, <2>9, <2>10, <2>11
       DEF SelectStep
<1>5. ASSUME NEW t \in Task, TimerStep(t)
      PROVE  IndInv'
  <2>1. CASE Expire(t)
    BY Zenon, <1>1, <2>1, ExpireStep
  <2>2. CASE TimerClaim(t)
    BY Zenon, <1>1, <2>2, TimerClaimStep
  <2>3. CASE TimerExchange(t)
    BY Zenon, <1>1, <2>3, TimerExchangeStep
  <2>4. CASE TimerFired(t)
    BY Zenon, <1>1, <2>4, TimerFiredStep
  <2>5. CASE TimerSchedule(t)
    BY Zenon, <1>1, <2>5, TimerScheduleStep
  <2>6. QED
    BY Zenon, <1>5, <2>1, <2>2, <2>3, <2>4, <2>5 DEF TimerStep
<1>6. CASE UNCHANGED vars
  <2>1. UNCHANGED <<ring, count, sendIndex, recvIndex, closed, senders, receivers, mutex, pc,
                    op, ops, winner, phase, status, value, toWake, run, cursor, timer, firing>>
    BY Zenon, <1>6 DEF vars, channelVars, chanVars, taskVars, selectVars
  <2>2. TypeOK' /\ ResumedOnce' /\ NoneStranded' /\ WaitersInPlace' /\ ProgressInPlace'
    <3>1. TypeOK'
      BY Zenon, <1>1, <2>1 DEF IndInv, TypeOK, ChanTypeOK, TaskTypeOK
    <3>2. /\ \A t \in Task : SameTask(t)
          /\ \A c \in Chan : /\ AcquirableAt(senders[c])' = AcquirableAt(senders[c])
                             /\ AcquirableAt(receivers[c])' = AcquirableAt(receivers[c])
      BY Zenon, <2>1 DEF SameTask, AcquirableAt, Acquirable, IsSelect
    <3>3. ResumedOnce'
      BY Zenon, <1>1, <2>1, <3>2, OnceKept DEF IndInv, ResumedOnce
    <3>4. NoneStranded'
      BY Zenon, <1>1, <2>1, StrandedSame DEF IndInv
    <3>5. WaitersInPlace'
      BY Zenon, <1>1, <2>1, WaitersSame DEF IndInv
    <3>6. ASSUME NEW t \in Task
          PROVE  /\ OpInPlace(t)' /\ PhaseInPlace(t)' /\ TimerInPlace(t)'
                 /\ pc'[t] = "enqueue" => StillBlocked(t)'
      <4>1. OpInPlace(t)' /\ PhaseInPlace(t)' /\ TimerInPlace(t)'
        BY Zenon, <1>1, <3>2, AtTask, SameInPlace
      <4>2. StillBlocked(t) => StillBlocked(t)'
        BY ZenonT(30), <2>1, <3>2 DEF StillBlocked, CaseOf
      <4>3. QED
        BY Zenon, <1>1, <2>1, <4>1, <4>2, AtTask
    <3>7. ProgressInPlace'
      BY Zenon, <3>6 DEF ProgressInPlace
    <3>8. QED
      BY Zenon, <3>1, <3>3, <3>4, <3>5, <3>7
  <2>3. QED
    BY Zenon, <2>2 DEF IndInv
<1>7. QED
  BY Zenon, <1>1, <1>2, <1>3, <1>4, <1>5, <1>6 DEF Next, ChannelNext

(* The inductive invariant holds throughout. *)
THEOREM Invariance == Spec => []IndInv
BY InitOK, NextOK, PTL DEF Spec

(* Type correctness: in particular no ring ever holds more than its         *)
(* capacity and the ring indices stay inside it (chan.hpp, try_send_locked  *)
(* and try_recv_locked), for every capacity, zero included.                 *)
THEOREM TypeCorrect == Spec => []TypeOK
<1>1. IndInv => TypeOK
  BY Zenon DEF IndInv
<1>2. QED
  BY <1>1, Invariance, PTL

(* No send or receive is left parked while what it waits for is there       *)
(* (chan.hpp: every successful transfer serves the oldest opposite waiter   *)
(* that can still be acquired, close() takes them all).                     *)
THEOREM NoLostWakeup == Spec => []NoneStranded
<1>1. IndInv => NoneStranded
  BY Zenon DEF IndInv
<1>2. QED
  BY <1>1, Invariance, PTL

(* The waiter lists hold exactly-once registered cases of operations in     *)
(* progress, and finish() has unlinked every case it has passed             *)
(* (select.hpp, case_enqueue and case_retract).                             *)
THEOREM ListsInOrder == Spec => []WaitersInPlace
<1>1. IndInv => WaitersInPlace
  BY Zenon DEF IndInv
<1>2. QED
  BY <1>1, Invariance, PTL

(* Each parked operation is resumed exactly once, whoever of the peers, the *)
(* closing task and the timer wins, also when the winner arrives while the  *)
(* select is still setting up (try_acquire and take_resume_ownership).      *)
THEOREM ExactlyOneResume == Spec => []ResumedOnce
<1>1. IndInv => ResumedOnce
  BY Zenon DEF IndInv
<1>2. QED
  BY <1>1, Invariance, PTL

(* A returned operation leaves no reference to its frame behind: no waiter  *)
(* node, wake list entry, timer or running callback.                        *)
THEOREM NoDanglingNode == Spec => []FrameUnreferenced
<1>1. ASSUME IndInv PROVE FrameUnreferenced
  <2>1. SUFFICES ASSUME NEW t \in Task, pc[t] = "idle"
                 PROVE  /\ \A c \in Chan, i \in CaseIndex : /\ ~Listed(<<t, i>>, senders[c])
                                                            /\ ~Listed(<<t, i>>, receivers[c])
                        /\ ~Claimed(t)
                        /\ firing[t] = "none"
                        /\ timer[t] = "idle"
    BY Zenon DEF FrameUnreferenced
  <2>2. ~Claimed(t) /\ firing[t] = "none" /\ timer[t] = "idle"
    BY Zenon, <1>1, <2>1, AtRest
  <2>3. ASSUME NEW c \in Chan, NEW i \in CaseIndex
        PROVE  ~Listed(<<t, i>>, senders[c]) /\ ~Listed(<<t, i>>, receivers[c])
    <3>1. ListInPlace(senders[c], "send", c) /\ ListInPlace(receivers[c], "recv", c)
      BY Zenon, <1>1 DEF IndInv, WaitersInPlace
    <3>2. ~WaiterInPlace(<<t, i>>, "send", c) /\ ~WaiterInPlace(<<t, i>>, "recv", c)
      BY Zenon, <2>1 DEF WaiterInPlace
    <3>3. QED
      BY Zenon, <3>1, <3>2 DEF ListInPlace, Listed
  <2>4. QED
    BY Zenon, <2>2, <2>3
<1>2. QED
  BY <1>1, Invariance, PTL
=============================================================================
