------------------------------- MODULE Channel -------------------------------
(***************************************************************************)
(* Channels of cio (include/cio/chan.hpp).  A channel is a ring buffer, a  *)
(* closed flag and two FIFO lists of parked waiters, all guarded by one    *)
(* spin lock.  Tasks send, receive (awaiting or not) and close; the        *)
(* multi-channel select is added by module Select.                         *)
(*                                                                         *)
(* One step is one critical section, or one atomic access made outside     *)
(* of a lock.  Waking a peer always happens after the unlock, so it is a   *)
(* step of its own and every interleaving of it is explored.               *)
(***************************************************************************)
EXTENDS Naturals, Sequences, FiniteSets

CONSTANTS
  Task,       \* the coroutines
  Chan,       \* the channels: numbers, whose order is the address order
  Capacity,   \* ring capacity per channel, 0 for an unbuffered one
  Op,         \* the operations a task may choose from
  MaxCases,   \* bound: cases of one select
  MaxOps,     \* bound: operations one task performs
  NoMsg, NoTask, NoOp

(* An operation names the way it is performed and its cases.  "await" is   *)
(* co_await send/recv, "try" is try_send/try_recv, "close" is close();     *)
(* these have one case.  Nil is the null channel of a select case.         *)
Nil == 0
Case == [dir : {"send", "recv"}, ch : Chan \cup {Nil}]
OpType == [how : {"await", "try", "close", "select"}, cases : Seq(Case),
           timeout : BOOLEAN, default : BOOLEAN]

ASSUME ChannelAssumption ==
  /\ Chan \subseteq Nat \ {Nil}
  /\ IsFiniteSet(Chan)
  /\ Capacity \in [Chan -> Nat]
  /\ MaxCases \in Nat \ {0}
  /\ MaxOps \in Nat
  /\ Op \subseteq OpType
  /\ \A o \in Op : Len(o.cases) \in 1..MaxCases
  /\ \A o \in Op : o.how # "select" => /\ Len(o.cases) = 1
                                       /\ o.cases[1].ch \in Chan
  /\ NoTask \notin Task
  /\ NoOp \notin Op
  /\ NoMsg \notin Task \X (0..MaxOps) \X (1..MaxCases)

NoWinner == 0                       \* kNoWinner
TimeoutCase == MaxCases + 1         \* index of a select's after() case
DefaultCase == MaxCases + 2         \* index of a select's otherwise() case

CaseIndex == 1..MaxCases
Waiter == Task \X CaseIndex         \* a ChanWaiter: its task and its case
Msg == Task \X (0..MaxOps) \X CaseIndex

VARIABLES
  ring, count, sendIndex, recvIndex, closed, senders, receivers,
  mutex,     \* holder of the channel's lock across steps (only a select is)
  pc, op,    \* where a task is in its current operation
  ops,       \* operations begun so far, which makes messages distinct
  winner,    \* SelectShared::winner
  phase,     \* SelectShared::phase
  status,    \* OpStatus of the operation, once it is decided
  value,     \* the received value
  toWake,    \* waiters this task still has to wake, after its unlock
  run        \* resumptions of a task handed to the scheduler, not yet run

chanVars == <<ring, count, sendIndex, recvIndex, closed, senders, receivers>>
taskVars == <<pc, op, ops, winner, phase, status, value, toWake, run>>
channelVars == <<chanVars, mutex, taskVars>>

IsSelect(t) == op[t] # NoOp /\ op[t].how = "select"
CaseOf(t, i) == op[t].cases[i]
MsgOf(t, i) == <<t, ops[t], i>>     \* the value a send case carries
NextIndex(c, i) == IF i + 1 = Capacity[c] THEN 0 ELSE i + 1

ChannelInit ==
  /\ ring = [c \in Chan |-> [i \in 0..(Capacity[c] - 1) |-> NoMsg]]
  /\ count = [c \in Chan |-> 0]
  /\ sendIndex = [c \in Chan |-> 0]
  /\ recvIndex = [c \in Chan |-> 0]
  /\ closed = [c \in Chan |-> FALSE]
  /\ senders = [c \in Chan |-> <<>>]
  /\ receivers = [c \in Chan |-> <<>>]
  /\ mutex = [c \in Chan |-> NoTask]
  /\ pc = [t \in Task |-> "idle"]
  /\ op = [t \in Task |-> NoOp]
  /\ ops = [t \in Task |-> 0]
  /\ winner = [t \in Task |-> NoWinner]
  /\ phase = [t \in Task |-> "setup"]
  /\ status = [t \in Task |-> "pending"]
  /\ value = [t \in Task |-> NoMsg]
  /\ toWake = [t \in Task |-> {}]
  /\ run = [t \in Task |-> 0]

-----------------------------------------------------------------------------
(* Waiter lists.  pop_front + try_acquire in a loop drops the select        *)
(* waiters whose select was already won elsewhere, up to the first one     *)
(* that can be acquired.                                                    *)

BugAcquirable(w) == TRUE            \* no compare-exchange of the winner
Acquirable(w) == IsSelect(w[1]) => winner[w[1]] = NoWinner
AcquirableAt(q) == {k \in 1..Len(q) : Acquirable(q[k])}
BugIsFirst(k, q) ==                 \* takes the newest waiter
  k \in AcquirableAt(q) /\ \A j \in AcquirableAt(q) : j <= k
IsFirst(k, q) == k \in AcquirableAt(q) /\ \A j \in AcquirableAt(q) : k <= j
DropTo(q, k) == SubSeq(q, k + 1, Len(q))

(* Decide the operations in DOMAIN s: each gets its status and value and,   *)
(* when it is a select, the index of the winning case.                      *)
Settle(s) ==
  /\ winner' = [u \in Task |-> IF u \in DOMAIN s /\ IsSelect(u)
                               THEN s[u].case ELSE winner[u]]
  /\ status' = [u \in Task |-> IF u \in DOMAIN s THEN s[u].status
                               ELSE status[u]]
  /\ value' = [u \in Task |-> IF u \in DOMAIN s THEN s[u].value ELSE value[u]]

Outcome(i, st, v) == [case |-> i, status |-> st, value |-> v]

Peers(t, i, st, v, w, pv) ==       \* the outcomes of t and of the peer w
  [u \in {t, w[1]} |-> IF u = t THEN Outcome(i, st, v)
                       ELSE Outcome(w[2], "done", pv)]
Alone(t, i, st, v) == [u \in {t} |-> Outcome(i, st, v)]

(* try_send_locked for case i of task t, on waiter lists snd and rcv.       *)
SendClosed(t, i, c, rcv) ==
  /\ closed[c]
  /\ Settle(Alone(t, i, "closed", NoMsg))
  /\ toWake' = [toWake EXCEPT ![t] = {}]
  /\ receivers' = rcv
  /\ UNCHANGED <<ring, count, sendIndex>>

SendHandOff(t, i, c, rcv) ==
  /\ ~closed[c]
  /\ \E k \in 1..Len(rcv[c]) :
       /\ IsFirst(k, rcv[c])
       /\ receivers' = [rcv EXCEPT ![c] = DropTo(@, k)]
       /\ Settle(Peers(t, i, "done", NoMsg, rcv[c][k], MsgOf(t, i)))
       /\ toWake' = [toWake EXCEPT ![t] = {rcv[c][k]}]
  /\ UNCHANGED <<ring, count, sendIndex>>

SendBuffer(t, i, c, rcv) ==
  /\ ~closed[c]
  /\ AcquirableAt(rcv[c]) = {}
  /\ count[c] < Capacity[c]
  /\ receivers' = [rcv EXCEPT ![c] = <<>>]
  /\ ring' = [ring EXCEPT ![c][sendIndex[c]] = MsgOf(t, i)]
  /\ sendIndex' = [sendIndex EXCEPT ![c] = NextIndex(c, @)]
  /\ count' = [count EXCEPT ![c] = @ + 1]
  /\ Settle(Alone(t, i, "done", NoMsg))
  /\ toWake' = [toWake EXCEPT ![t] = {}]

TrySend(t, i, snd, rcv) ==
  LET c == CaseOf(t, i).ch IN
  /\ CaseOf(t, i).dir = "send"
  /\ SendClosed(t, i, c, rcv) \/ SendHandOff(t, i, c, rcv) \/ SendBuffer(t, i, c, rcv)
  /\ senders' = snd
  /\ UNCHANGED <<recvIndex, closed>>

(* try_recv_locked (and try_recv_now_locked, whose shortcut for an empty    *)
(* sender list has the same effect) for case i of task t.                   *)
Oldest(c) == ring[c][recvIndex[c]]

BugRecvRefill(t, i, c, snd) ==         \* leaves the waiting sender parked
  /\ count[c] > 0
  /\ AcquirableAt(snd[c]) # {}
  /\ senders' = snd
  /\ recvIndex' = [recvIndex EXCEPT ![c] = NextIndex(c, @)]
  /\ count' = [count EXCEPT ![c] = @ - 1]
  /\ Settle(Alone(t, i, "done", Oldest(c)))
  /\ toWake' = [toWake EXCEPT ![t] = {}]
  /\ UNCHANGED <<ring, sendIndex>>

RecvRefill(t, i, c, snd) ==            \* the freed slot goes to a sender
  /\ count[c] > 0
  /\ \E k \in 1..Len(snd[c]) :
       LET w == snd[c][k] IN
       /\ IsFirst(k, snd[c])
       /\ senders' = [snd EXCEPT ![c] = DropTo(@, k)]
       /\ ring' = [ring EXCEPT ![c][sendIndex[c]] = MsgOf(w[1], w[2])]
       /\ Settle(Peers(t, i, "done", Oldest(c), w, NoMsg))
       /\ toWake' = [toWake EXCEPT ![t] = {w}]
  /\ recvIndex' = [recvIndex EXCEPT ![c] = NextIndex(c, @)]
  /\ sendIndex' = [sendIndex EXCEPT ![c] = NextIndex(c, @)]
  /\ UNCHANGED count

RecvBuffer(t, i, c, snd) ==
  /\ count[c] > 0
  /\ AcquirableAt(snd[c]) = {}
  /\ senders' = [snd EXCEPT ![c] = <<>>]
  /\ recvIndex' = [recvIndex EXCEPT ![c] = NextIndex(c, @)]
  /\ count' = [count EXCEPT ![c] = @ - 1]
  /\ Settle(Alone(t, i, "done", Oldest(c)))
  /\ toWake' = [toWake EXCEPT ![t] = {}]
  /\ UNCHANGED <<ring, sendIndex>>

RecvRendezvous(t, i, c, snd) ==
  /\ count[c] = 0
  /\ \E k \in 1..Len(snd[c]) :
       LET w == snd[c][k] IN
       /\ IsFirst(k, snd[c])
       /\ senders' = [snd EXCEPT ![c] = DropTo(@, k)]
       /\ Settle(Peers(t, i, "done", MsgOf(w[1], w[2]), w, NoMsg))
       /\ toWake' = [toWake EXCEPT ![t] = {w}]
  /\ UNCHANGED <<ring, count, sendIndex, recvIndex>>

RecvClosed(t, i, c, snd) ==            \* closed and drained
  /\ count[c] = 0
  /\ AcquirableAt(snd[c]) = {}
  /\ closed[c]
  /\ senders' = [snd EXCEPT ![c] = <<>>]
  /\ Settle(Alone(t, i, "closed", NoMsg))
  /\ toWake' = [toWake EXCEPT ![t] = {}]
  /\ UNCHANGED <<ring, count, sendIndex, recvIndex>>

TryRecv(t, i, snd, rcv) ==
  LET c == CaseOf(t, i).ch IN
  /\ CaseOf(t, i).dir = "recv"
  /\ \/ RecvRefill(t, i, c, snd) \/ RecvBuffer(t, i, c, snd)
     \/ RecvRendezvous(t, i, c, snd) \/ RecvClosed(t, i, c, snd)
  /\ receivers' = rcv
  /\ UNCHANGED closed

Try(t, i, snd, rcv) == TrySend(t, i, snd, rcv) \/ TryRecv(t, i, snd, rcv)

(* The two primitives report kBlocked: nothing to pair with, no room.       *)
Blocked(t, i) ==
  LET k == CaseOf(t, i) IN
  \/ k.ch = Nil
  \/ /\ k.ch # Nil
     /\ ~closed[k.ch]
     /\ \/ /\ k.dir = "send"
           /\ AcquirableAt(receivers[k.ch]) = {}
           /\ count[k.ch] = Capacity[k.ch]
        \/ /\ k.dir = "recv"
           /\ AcquirableAt(senders[k.ch]) = {}
           /\ count[k.ch] = 0

(* The lists after the cases in B were tried and found blocked: the search  *)
(* popped every lost select waiter of the opposite list.                    *)
TriedFrom(t, B, dir, list) ==
  [c \in Chan |-> IF \E i \in B : CaseOf(t, i) = [dir |-> dir, ch |-> c]
                  THEN <<>> ELSE list[c]]
SendersAfter(t, B) == TriedFrom(t, B, "recv", senders)
ReceiversAfter(t, B) == TriedFrom(t, B, "send", receivers)

Enqueue(t, i, snd, rcv) ==
  LET k == CaseOf(t, i)
      w == <<t, i>>
  IN
  /\ senders' = IF k.dir = "send" /\ k.ch # Nil
                THEN [snd EXCEPT ![k.ch] = Append(@, w)] ELSE snd
  /\ receivers' = IF k.dir = "recv" /\ k.ch # Nil
                  THEN [rcv EXCEPT ![k.ch] = Append(@, w)] ELSE rcv

-----------------------------------------------------------------------------
(* A task begins one of its operations.                                     *)
Start(t, o) ==
  /\ pc[t] = "idle"
  /\ ops[t] < MaxOps
  /\ op' = [op EXCEPT ![t] = o]
  /\ ops' = [ops EXCEPT ![t] = @ + 1]
  /\ pc' = [pc EXCEPT ![t] = "start"]
  /\ UNCHANGED <<chanVars, mutex, winner, phase, status, value, toWake, run>>

(* send/recv/try_send/try_recv found a peer, room, a value or a closed      *)
(* channel: the operation is decided under the lock; the peer is woken      *)
(* after the unlock.                                                        *)
Attempt(t) ==
  /\ pc[t] = "start"
  /\ op[t].how \in {"await", "try"}
  /\ mutex[CaseOf(t, 1).ch] = NoTask
  /\ Try(t, 1, senders, receivers)
  /\ pc' = [pc EXCEPT ![t] = "wake"]
  /\ UNCHANGED <<mutex, op, ops, phase, run>>

(* SendAwaiter/RecvAwaiter::await_suspend on kBlocked: park on the list.    *)
AwaitBlocked(t) ==
  /\ pc[t] = "start"
  /\ op[t].how = "await"
  /\ mutex[CaseOf(t, 1).ch] = NoTask
  /\ Blocked(t, 1)
  /\ Enqueue(t, 1, SendersAfter(t, {1}), ReceiversAfter(t, {1}))
  /\ pc' = [pc EXCEPT ![t] = "parked"]
  /\ UNCHANGED <<ring, count, sendIndex, recvIndex, closed, mutex, op, ops,
                 winner, phase, status, value, toWake, run>>

(* try_send/try_recv on kBlocked: return at once.                           *)
TryBlocked(t) ==
  /\ pc[t] = "start"
  /\ op[t].how = "try"
  /\ mutex[CaseOf(t, 1).ch] = NoTask
  /\ Blocked(t, 1)
  /\ senders' = SendersAfter(t, {1})
  /\ receivers' = ReceiversAfter(t, {1})
  /\ status' = [status EXCEPT ![t] = "blocked"]
  /\ pc' = [pc EXCEPT ![t] = "done"]
  /\ UNCHANGED <<ring, count, sendIndex, recvIndex, closed, mutex, op, ops,
                 winner, phase, value, toWake, run>>

(* The waiters close() acquires: of each task the first one in receivers    *)
(* followed by senders, unless its select is already won.                   *)
CloseClaims(c) ==
  LET q == receivers[c] \o senders[c] IN
  {q[k] : k \in {j \in AcquirableAt(q) : \A l \in 1..(j - 1) : q[l][1] # q[j][1]}}

(* Channel::close.  The claimed waiters are woken one by one after the      *)
(* unlock; the wake list's order is left open.                              *)
Close(t) ==
  LET c == CaseOf(t, 1).ch
      won == CloseClaims(c)
      caseOf(u) == (CHOOSE w \in won : w[1] = u)[2]
  IN
  /\ pc[t] = "start"
  /\ op[t].how = "close"
  /\ mutex[c] = NoTask
  /\ pc' = [pc EXCEPT ![t] = "wake"]
  /\ \/ /\ closed[c]
        /\ Settle(Alone(t, 1, "done", NoMsg))
        /\ UNCHANGED <<closed, senders, receivers, toWake>>
     \/ /\ ~closed[c]
        /\ closed' = [closed EXCEPT ![c] = TRUE]
        /\ senders' = [senders EXCEPT ![c] = <<>>]
        /\ receivers' = [receivers EXCEPT ![c] = <<>>]
        /\ Settle([u \in {t} \cup {w[1] : w \in won} |->
                     IF u = t THEN Outcome(1, "done", NoMsg)
                     ELSE Outcome(caseOf(u), "closed", NoMsg)])
        /\ toWake' = [toWake EXCEPT ![t] = won]
  /\ UNCHANGED <<ring, count, sendIndex, recvIndex, mutex, op, ops, phase, run>>

(* ChanWaiter::wake: a plain waiter is dispatched; for a select the phase   *)
(* exchange (take_resume_ownership) says whether it has parked already.     *)
BugWake(t, w) ==                       \* resumes without the phase exchange
  /\ pc[t] = "wake"
  /\ w \in toWake[t]
  /\ toWake' = [toWake EXCEPT ![t] = @ \ {w}]
  /\ run' = [run EXCEPT ![w[1]] = @ + 1]
  /\ UNCHANGED <<chanVars, mutex, pc, op, ops, winner, phase, status, value>>

Wake(t, w) ==
  LET u == w[1] IN
  /\ pc[t] = "wake"
  /\ w \in toWake[t]
  /\ toWake' = [toWake EXCEPT ![t] = @ \ {w}]
  /\ phase' = [phase EXCEPT ![u] = IF IsSelect(u) THEN "resumed" ELSE @]
  /\ run' = [run EXCEPT ![u] = IF IsSelect(u) => phase[u] = "parked"
                               THEN @ + 1 ELSE @]
  /\ UNCHANGED <<chanVars, mutex, pc, op, ops, winner, status, value>>

WakesDone(t) ==
  /\ pc[t] = "wake"
  /\ toWake[t] = {}
  /\ pc' = [pc EXCEPT ![t] = "done"]
  /\ UNCHANGED <<chanVars, mutex, op, ops, winner, phase, status, value, toWake,
                 run>>

(* The scheduler resumes a parked send or recv.                             *)
Resume(t) ==
  /\ pc[t] = "parked"
  /\ ~IsSelect(t)
  /\ run[t] > 0
  /\ run' = [run EXCEPT ![t] = @ - 1]
  /\ pc' = [pc EXCEPT ![t] = "done"]
  /\ UNCHANGED <<chanVars, mutex, op, ops, winner, phase, status, value, toWake>>

(* await_resume: the result is handed to the caller and the awaiter, with   *)
(* its waiter nodes, is destroyed.                                          *)
Return(t) ==
  /\ pc[t] = "done"
  /\ pc' = [pc EXCEPT ![t] = "idle"]
  /\ op' = [op EXCEPT ![t] = NoOp]
  /\ winner' = [winner EXCEPT ![t] = NoWinner]
  /\ phase' = [phase EXCEPT ![t] = "setup"]
  /\ status' = [status EXCEPT ![t] = "pending"]
  /\ value' = [value EXCEPT ![t] = NoMsg]
  /\ UNCHANGED <<chanVars, mutex, ops, toWake, run>>

ChannelStep(t) ==
  \/ Attempt(t)
  \/ AwaitBlocked(t)
  \/ TryBlocked(t)
  \/ Close(t)
  \/ \E w \in toWake[t] : Wake(t, w)
  \/ WakesDone(t)
  \/ Resume(t)
  \/ Return(t)

ChannelNext == \E t \in Task : ChannelStep(t) \/ \E o \in Op : Start(t, o)

=============================================================================
