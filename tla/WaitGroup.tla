----------------------------- MODULE WaitGroup ------------------------------
(***************************************************************************)
(* WaitGroup (include/cio/sync.hpp).  The word counts 0 when the group is   *)
(* empty, 1 while the last done() finishes, and n + 1 for a count of n; it  *)
(* is Bits wide.  add and done follow the rule of the class: a done()       *)
(* answers an earlier add(), so the count never goes negative.              *)
(***************************************************************************)
EXTENDS Tasks

CONSTANT Bits

ASSUME BitsAssumption == Bits \in Nat \ {0, 1}

VARIABLES
  word,       \* state_
  listLock,   \* the task that holds mutex_
  waiters,    \* waiters_, a stack, or Drained for &drained_marker_
  owed,       \* the done() calls that are still to come
  zeroSeen    \* the waits during which the group was empty at some time

wgVars == <<word, listLock, waiters, owed, zeroSeen>>

kMaxCount == 2^(Bits - 1) - 1
kFinishing == 1
Drained == <<NoTask>>

WGInit ==
  /\ word = 0 /\ listLock = NoTask /\ waiters = <<>>
  /\ owed = 0 /\ zeroSeen = {}

(* add_positive.  It throws when the sum would not fit, and when the last   *)
(* done() is still finishing.                                               *)
Fits(n) ==
  LET count == IF word = 0 THEN 0 ELSE word - 1 IN n <= kMaxCount - count

Amount == [add1 |-> 1, add2 |-> 2]

Add(t, o) ==
  LET n == Amount[o] IN
  /\ Begin(t, o, "idle")
  /\ IF word # kFinishing /\ Fits(n)
     THEN /\ word' = ((IF word = 0 THEN 1 ELSE word) + n) % 2^Bits
          /\ owed' = owed + n
     ELSE UNCHANGED <<word, owed>>
  /\ UNCHANGED <<listLock, waiters, zeroSeen>>

(* add(-1): the one fetch_sub.                                              *)
BugDone(t) ==                          \* publishes zero before its cleanup
  /\ owed > 0
  /\ owed' = owed - 1
  /\ word' = IF word = 2 THEN 0 ELSE (word - 1) % 2^Bits
  /\ Begin(t, "done", IF word - 1 > 1 THEN "idle" ELSE "drain")
  /\ UNCHANGED <<listLock, waiters, zeroSeen>>

Done(t) ==
  /\ owed > 0
  /\ owed' = owed - 1
  /\ word' = (word - 1) % 2^Bits
  /\ Begin(t, "done", IF word - 1 > 1 THEN "idle" ELSE "drain")
  /\ UNCHANGED <<listLock, waiters, zeroSeen>>

(* The last done() takes the list, and publishes zero afterwards.           *)
Drain(t) ==
  /\ pc[t] = "drain"
  /\ listLock = NoTask
  /\ toWake' = [toWake EXCEPT ![t] = IF waiters = Drained THEN <<>> ELSE waiters]
  /\ waiters' = Drained
  /\ Goto(t, "zero")
  /\ UNCHANGED <<op, prog, word, listLock, owed, zeroSeen>>

PublishZero(t) ==
  /\ pc[t] = "zero"
  /\ word' = 0
  /\ zeroSeen' = Task
  /\ Only(t, IF toWake[t] = <<>> THEN "idle" ELSE "wakeup")
  /\ UNCHANGED <<listLock, waiters, owed>>

WakeUp(t) ==
  /\ pc[t] = "wakeup"
  /\ WakeFirst(t, "idle", "idle")
  /\ UNCHANGED wgVars

-----------------------------------------------------------------------------
(* wait: ready when the group is empty.                                     *)
WaitReady(t) ==
  /\ Begin(t, "wait", IF word = 0 THEN "idle" ELSE "park")
  /\ zeroSeen' = IF word = 0 THEN zeroSeen \cup {t} ELSE zeroSeen \ {t}
  /\ UNCHANGED <<word, listLock, waiters, owed>>

(* park_wait under mutex_ reads the word, which add and done change without *)
(* that lock, and then the list.                                            *)
Leftover == IF waiters = Drained THEN <<>> ELSE waiters

ParkLook(t) ==
  /\ pc[t] = "park"
  /\ listLock = NoTask
  /\ IF word = 0 \/ (word = kFinishing /\ waiters = Drained)
     THEN /\ Only(t, IF word = 0 THEN "idle" ELSE "spin")
          /\ UNCHANGED listLock
     ELSE /\ Only(t, "join")
          /\ listLock' = t
  /\ UNCHANGED <<word, waiters, owed, zeroSeen>>

ParkJoin(t) ==
  /\ pc[t] = "join"
  /\ waiters' = <<t>> \o Leftover
  /\ listLock' = NoTask
  /\ Only(t, "gparked")
  /\ UNCHANGED <<word, owed, zeroSeen>>

ParkSpin(t) ==
  /\ pc[t] = "spin"
  /\ word # kFinishing
  /\ Only(t, "idle")
  /\ UNCHANGED wgVars

WGStep(t) ==
  \/ \E o \in DOMAIN Amount : Add(t, o)
  \/ Done(t) \/ Drain(t) \/ PublishZero(t) \/ WakeUp(t)
  \/ WaitReady(t) \/ ParkLook(t) \/ ParkJoin(t) \/ ParkSpin(t)

-----------------------------------------------------------------------------
(* The word counts the done() calls that are still to come and never wraps, *)
(* and an empty group is nobody's business: when the word says zero, no     *)
(* done() is between its decrement and its last access, so that a waiter    *)
(* which returns may reuse or destroy the group.  wait() returns only if    *)
(* the group was empty at some time during the wait, even when the group is *)
(* reused while the waiters are being woken.                                *)
WaitGroupSound ==
  /\ owed = IF word > kFinishing THEN word - 1 ELSE 0
  /\ word = 0 => At("drain") \cup At("zero") = {}
  /\ \A t \in Task : op[t] = "wait" /\ pc[t] = "idle" => t \in zeroSeen
=============================================================================
