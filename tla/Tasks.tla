------------------------------- MODULE Tasks --------------------------------
(***************************************************************************)
(* The tasks that call the primitives of include/cio/sync.hpp.  A task     *)
(* works through a program, a sequence of operations; where it is inside   *)
(* an operation is its pc.  A task parked in a WaitNode stays at its        *)
(* parking pc until another task's wake_list or hand-off resumes it.        *)
(***************************************************************************)
EXTENDS Naturals, Sequences, FiniteSets, SequencesExt

CONSTANTS Task, NoTask

ASSUME NoTaskAssumption == NoTask \notin Task

VARIABLES
  pc,       \* where each task is
  op,       \* the operation it is in, or was in last
  prog,     \* the operations it has still to start
  toWake    \* the waiters a task has taken from a list and not yet resumed

taskVars == <<pc, op, prog, toWake>>

TasksInit ==
  /\ pc = [t \in Task |-> "idle"]
  /\ op = [t \in Task |-> "none"]
  /\ toWake = [t \in Task |-> <<>>]

Goto(t, l) == pc' = [pc EXCEPT ![t] = l]
Only(t, l) == Goto(t, l) /\ UNCHANGED <<op, prog, toWake>>
At(l) == {t \in Task : pc[t] = l}

(* A task starts the next operation of its program.                         *)
Begin(t, o, l) ==
  /\ pc[t] = "idle"
  /\ prog[t] # <<>>
  /\ Head(prog[t]) = o
  /\ prog' = [prog EXCEPT ![t] = Tail(@)]
  /\ op' = [op EXCEPT ![t] = o]
  /\ Goto(t, l)
  /\ UNCHANGED toWake

(* wake, wake_handoff: the first waiter goes on at resumed, and the waker at l
   when that was the last one of its list. *)
WakeFirst(t, resumed, l) ==
  LET u == Head(toWake[t]) IN
  /\ toWake' = [toWake EXCEPT ![t] = Tail(@)]
  /\ pc' = [pc EXCEPT ![u] = resumed, ![t] = IF Len(toWake[t]) = 1 THEN l ELSE @]
  /\ UNCHANGED <<op, prog>>
=============================================================================
