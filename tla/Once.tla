-------------------------------- MODULE Once --------------------------------
(***************************************************************************)
(* Once (include/cio/sync.hpp): the first call runs the initialiser, which *)
(* may suspend; the others wait at a gate channel that is made for them.    *)
(***************************************************************************)
EXTENDS Tasks

VARIABLES
  done, running,
  gate        \* "none", "open" or "closed"

onceVars == <<done, running, gate>>

OnceInit == done = FALSE /\ running = FALSE /\ gate = "none"

(* call: the lock-free look at done_.                                       *)
Call(t) ==
  /\ Begin(t, "once", IF done THEN "idle" ELSE "once_slow")
  /\ UNCHANGED onceVars

(* call_slow, under mutex_.                                                 *)
BugCallSlow(t) ==                      \* trusts the look it took without mutex_
  /\ pc[t] = "once_slow"
  /\ running' = TRUE
  /\ gate' = IF running /\ gate = "none" THEN "open" ELSE gate
  /\ Only(t, IF running THEN "gate" ELSE "init")
  /\ UNCHANGED done

CallSlow(t) ==
  /\ pc[t] = "once_slow"
  /\ running' = (running \/ ~done)
  /\ gate' = IF running /\ gate = "none" THEN "open" ELSE gate
  /\ Only(t, IF done THEN "idle" ELSE IF running THEN "gate" ELSE "init")
  /\ UNCHANGED done

Initialised(t) ==
  /\ pc[t] = "init"
  /\ done' = TRUE
  /\ running' = FALSE
  /\ Only(t, "opened")
  /\ UNCHANGED gate

(* An exception of the initialiser leaves call_slow as it stands.           *)
InitThrows(t) ==
  /\ pc[t] = "init"
  /\ op' = [op EXCEPT ![t] = "thrown"]
  /\ Goto(t, "idle")
  /\ UNCHANGED <<prog, toWake, onceVars>>

CloseGate(t) ==
  /\ pc[t] = "opened"
  /\ gate' = IF gate = "open" THEN "closed" ELSE gate
  /\ Only(t, "idle")
  /\ UNCHANGED <<done, running>>

PassGate(t) ==
  /\ pc[t] = "gate"
  /\ gate = "closed"
  /\ Only(t, "idle")
  /\ UNCHANGED onceVars

OnceStep(t) ==
  Call(t) \/ CallSlow(t) \/ Initialised(t) \/ InitThrows(t) \/ CloseGate(t) \/ PassGate(t)

-----------------------------------------------------------------------------
(* The initialiser runs at most once at a time and never again once it has  *)
(* succeeded, and nobody returns from call() past a half-initialised value. *)
OnceAndBefore ==
  /\ Cardinality(At("init")) <= 1
  /\ done => At("init") = {}
  /\ \A t \in Task : op[t] = "once" /\ pc[t] = "idle" => done

(* "every other task awaiting the same Once waits for the first to finish": *)
(* whoever waits at the gate waits for an initialiser that is still running *)
(* or has already been told to go on.                                       *)
GateHasRunner ==
  At("gate") # {} => At("init") \cup At("opened") # {} \/ gate = "closed"
=============================================================================
