------------------------------ MODULE GoChannel ------------------------------
(***************************************************************************)
(* What channels and select promise, without locks, waiters, wake-ups or   *)
(* timers: a channel is a bounded FIFO queue and a closed flag, and every   *)
(* operation takes effect at once, through exactly one of its cases.        *)
(***************************************************************************)
EXTENDS Naturals, Sequences

CONSTANTS Task, Chan, Capacity, Op, MaxCases, MaxOps, NoMsg, NoOp

VARIABLES
  queue, shut,
  want,      \* the operation a task is in, and how many it has begun
  begun,
  outcome    \* its outcome: the case taken (0: none yet), status and value

vars == <<queue, shut, want, begun, outcome>>

Undecided == [case |-> 0, status |-> "pending", value |-> NoMsg]
TimeoutCase == MaxCases + 1
DefaultCase == MaxCases + 2

Open(t) == want[t] # NoOp /\ outcome[t] = Undecided
Has(t, i, dir, c) ==
  /\ Open(t)
  /\ want[t].how # "close"
  /\ i \in 1..Len(want[t].cases)
  /\ want[t].cases[i] = [dir |-> dir, ch |-> c]
MsgOf(t, i) == <<t, begun[t], i>>
Done(i, st, v) == [case |-> i, status |-> st, value |-> v]

Init ==
  /\ queue = [c \in Chan |-> <<>>]
  /\ shut = [c \in Chan |-> FALSE]
  /\ want = [t \in Task |-> NoOp]
  /\ begun = [t \in Task |-> 0]
  /\ outcome = [t \in Task |-> Undecided]

Begin(t, o) ==
  /\ want[t] = NoOp
  /\ want' = [want EXCEPT ![t] = o]
  /\ begun' = [begun EXCEPT ![t] = @ + 1]
  /\ UNCHANGED <<queue, shut, outcome>>

End(t) ==
  /\ want[t] # NoOp
  /\ outcome[t] # Undecided
  /\ want' = [want EXCEPT ![t] = NoOp]
  /\ outcome' = [outcome EXCEPT ![t] = Undecided]
  /\ UNCHANGED <<queue, shut, begun>>

Send(t, i, c) ==
  /\ Has(t, i, "send", c)
  /\ ~shut[c]
  /\ Len(queue[c]) < Capacity[c]
  /\ queue' = [queue EXCEPT ![c] = Append(@, MsgOf(t, i))]
  /\ outcome' = [outcome EXCEPT ![t] = Done(i, "done", NoMsg)]
  /\ UNCHANGED <<shut, want, begun>>

Recv(t, i, c) ==
  /\ Has(t, i, "recv", c)
  /\ queue[c] # <<>>
  /\ queue' = [queue EXCEPT ![c] = Tail(@)]
  /\ outcome' = [outcome EXCEPT ![t] = Done(i, "done", Head(queue[c]))]
  /\ UNCHANGED <<shut, want, begun>>

(* A receive from a full queue admits a sender that was waiting for room.   *)
RecvAndSend(t, i, u, j, c) ==
  /\ t # u
  /\ Has(t, i, "recv", c)
  /\ Has(u, j, "send", c)
  /\ ~shut[c]
  /\ queue[c] # <<>>
  /\ queue' = [queue EXCEPT ![c] = Append(Tail(@), MsgOf(u, j))]
  /\ outcome' = [outcome EXCEPT ![t] = Done(i, "done", Head(queue[c])),
                                ![u] = Done(j, "done", NoMsg)]
  /\ UNCHANGED <<shut, want, begun>>

(* A sender hands its value to a receiver; nothing queued may be overtaken. *)
Rendezvous(t, i, u, j, c) ==
  /\ t # u
  /\ Has(t, i, "recv", c)
  /\ Has(u, j, "send", c)
  /\ ~shut[c]
  /\ queue[c] = <<>>
  /\ outcome' = [outcome EXCEPT ![t] = Done(i, "done", MsgOf(u, j)),
                                ![u] = Done(j, "done", NoMsg)]
  /\ UNCHANGED <<queue, shut, want, begun>>

(* Case i of an operation fails: a send on a closed channel, or a receive   *)
(* from a closed one with nothing left in it.                               *)
Fails(t, i, c, isShut) ==
  /\ isShut
  /\ Has(t, i, "send", c) \/ (Has(t, i, "recv", c) /\ queue[c] = <<>>)

Fail(t, i, c) ==
  /\ Fails(t, i, c, shut[c])
  /\ outcome' = [outcome EXCEPT ![t] = Done(i, "closed", NoMsg)]
  /\ UNCHANGED <<queue, shut, want, begun>>

(* close() closes the channel, once, and fails some waiting operations with *)
(* it; the others fail on their own.                                        *)
Close(t, c) ==
  /\ Open(t)
  /\ want[t].how = "close"
  /\ want[t].cases[1].ch = c
  /\ shut' = [shut EXCEPT ![c] = TRUE]
  /\ \/ \E S \in SUBSET (Task \ {t}) : \E f \in [S -> 1..MaxCases] :
          /\ ~shut[c]
          /\ \A u \in S : Fails(u, f[u], c, TRUE)
          /\ outcome' = [u \in Task |->
                           IF u = t THEN Done(1, "done", NoMsg)
                           ELSE IF u \in S THEN Done(f[u], "closed", NoMsg)
                           ELSE outcome[u]]
     \/ /\ shut[c]
        /\ outcome' = [outcome EXCEPT ![t] = Done(1, "done", NoMsg)]
  /\ UNCHANGED <<queue, want, begun>>

TimesOut(t) ==
  /\ Open(t)
  /\ want[t].timeout
  /\ outcome' = [outcome EXCEPT ![t] = Done(TimeoutCase, "done", NoMsg)]
  /\ UNCHANGED <<queue, shut, want, begun>>

(* A try operation gives up, or a select takes its default, only when no    *)
(* case could have proceeded on the queue alone.                            *)
GivesUp(t) ==
  /\ Open(t)
  /\ want[t].how = "try" \/ want[t].default
  /\ \A i \in 1..Len(want[t].cases), c \in Chan :
       /\ Has(t, i, "send", c) => ~shut[c] /\ Len(queue[c]) = Capacity[c]
       /\ Has(t, i, "recv", c) => ~shut[c] /\ queue[c] = <<>>
  /\ outcome' = [outcome EXCEPT ![t] =
       IF want[t].how = "try" THEN Done(1, "blocked", NoMsg)
       ELSE Done(DefaultCase, "done", NoMsg)]
  /\ UNCHANGED <<queue, shut, want, begun>>

Next ==
  \E t \in Task :
    \/ \E o \in Op : Begin(t, o)
    \/ End(t)
    \/ TimesOut(t)
    \/ GivesUp(t)
    \/ \E c \in Chan : Close(t, c)
    \/ \E c \in Chan, i \in 1..MaxCases :
         \/ Send(t, i, c)
         \/ Recv(t, i, c)
         \/ Fail(t, i, c)
         \/ \E u \in Task, j \in 1..MaxCases :
              RecvAndSend(t, i, u, j, c) \/ Rendezvous(t, i, u, j, c)

Spec == Init /\ [][Next]_vars
=============================================================================
