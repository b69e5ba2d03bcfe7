------------------------------- MODULE Groups -------------------------------
(***************************************************************************)
(* TaskGroup and GroupState (include/cio/group.hpp): children are started   *)
(* and finish through one counter, whose top value GroupFinishing marks a   *)
(* last child on its way to the lock; joiners park under that lock.  The    *)
(* counter wraps at GroupMod, so that GroupFinishing + 1 is 0.              *)
(***************************************************************************)
EXTENDS Cancel

CONSTANT GroupMod     \* the word holds 0..GroupMod - 1

ASSUME GroupModAssumption == GroupMod \in Nat /\ GroupMod > 2

GroupFinishing == GroupMod - 1

VARIABLES
  outstanding,   \* GroupState::outstanding
  joiners,       \* GroupState::waiters, the latest first
  ready,         \* children that have been started and not yet run
  mine,          \* the child a task runs, and its direct_final hint
  failed,        \* first_exception is set
  alive,         \* history: children whose spawn() has returned, until they end
  awaited           \* history: the children alive when a task called join()

groupVars == <<outstanding, joiners, ready, mine, failed, alive, awaited>>

GroupsInit ==
  /\ outstanding = 0 /\ joiners = <<>> /\ ready = {} /\ failed = FALSE
  /\ mine = [t \in Task |-> [id |-> 0, direct |-> FALSE]]
  /\ alive = {} /\ awaited = [t \in Task |-> {}]

(* GroupMutex is held across two accesses of the counter at "add" only.     *)
Unlocked == At("add") = {}

-----------------------------------------------------------------------------
(* TaskGroup::spawn: child_started, start_group_child.                      *)
Started(t, n, direct) ==
  /\ outstanding' = n % GroupMod
  /\ Only(t, IF direct THEN "schedule_direct" ELSE "schedule")

CallSpawn(t) ==
  /\ Begin(t, "spawn", "start")
  /\ UNCHANGED groupVars

ChildStarted(t) ==
  /\ pc[t] = "start"
  /\ IF outstanding = GroupFinishing
     THEN Only(t, "startlock") /\ UNCHANGED outstanding
     ELSE Started(t, outstanding + 1, outstanding = 0)
  /\ UNCHANGED <<joiners, ready, mine, failed, alive, awaited>>

(* We reached the lock before the finishing child, or after it.             *)
StartLocked(t) ==
  /\ pc[t] = "startlock" /\ Unlocked
  /\ IF outstanding = GroupFinishing THEN Started(t, 1, TRUE)
     ELSE Only(t, "add") /\ UNCHANGED outstanding
  /\ UNCHANGED <<joiners, ready, mine, failed, alive, awaited>>

StartAdd(t) ==
  /\ pc[t] = "add"
  /\ Started(t, outstanding + 1, outstanding = 0)
  /\ UNCHANGED <<joiners, ready, mine, failed, alive, awaited>>

(* A child that starts a sibling goes on to finish.                         *)
Schedule(t) ==
  LET used == UNION ({alive, {mine[u].id : u \in Task}} \cup {awaited[u] : u \in Task})
      id == CHOOSE n \in 1..(Cardinality(used) + 1) : n \notin used IN
  /\ pc[t] \in {"schedule", "schedule_direct"}
  /\ ready' = ready \cup {[id |-> id, direct |-> pc[t] = "schedule_direct"]}
  /\ alive' = alive \cup {id}
  /\ Only(t, IF op[t] = "nest" THEN "finish" ELSE "idle")
  /\ UNCHANGED <<outstanding, joiners, mine, failed, awaited>>

-----------------------------------------------------------------------------
(* A child runs to its end: one that returns, one that throws, one that     *)
(* spawns a sibling first.                                                  *)
RunChild(t) ==
  \E c \in ready :
    /\ \/ Begin(t, "child", "finish")
       \/ Begin(t, "fail", "fail")
       \/ Begin(t, "nest", "start")
    /\ ready' = ready \ {c}
    /\ mine' = [mine EXCEPT ![t] = c]
    /\ UNCHANGED <<outstanding, joiners, failed, alive, awaited>>

(* child_failed: the first failure cancels the group.                       *)
ChildFailed(t) ==
  /\ pc[t] = "fail" /\ Unlocked
  /\ failed' = TRUE
  /\ calls' = [calls EXCEPT ![t] = IF failed THEN <<>> ELSE Calling("group")]
  /\ Only(t, IF failed THEN "finish" ELSE "cancel")
  /\ UNCHANGED <<handle, flag, fired, hooks, doneChan, alarm>>
  /\ UNCHANGED <<outstanding, joiners, ready, mine, alive, awaited>>

(* child_finished: the hinted child claims the end in one exchange.         *)
ChildFinished(t) ==
  /\ pc[t] = "finish"
  /\ alive' = alive \ {mine[t].id}
  /\ IF mine[t].direct /\ outstanding = 1
     THEN outstanding' = GroupFinishing /\ Only(t, "generation")
     ELSE UNCHANGED outstanding /\ Only(t, "decrement")
  /\ UNCHANGED <<joiners, ready, mine, failed, awaited>>

Decrement(t) ==
  /\ pc[t] = "decrement"
  /\ outstanding' = (outstanding + GroupMod - 1) % GroupMod
  /\ mine' = [mine EXCEPT ![t] = [id |-> 0, direct |-> FALSE]]
  /\ Only(t, IF outstanding > 1 THEN "idle" ELSE "claim_end")
  /\ UNCHANGED <<joiners, ready, failed, alive, awaited>>

ClaimEnd(t) ==
  /\ pc[t] = "claim_end"
  /\ outstanding' = IF outstanding = 0 THEN GroupFinishing ELSE outstanding
  /\ Only(t, IF outstanding = 0 THEN "generation" ELSE "idle")
  /\ UNCHANGED <<joiners, ready, mine, failed, alive, awaited>>

BugFinishGeneration(t) ==              \* does not look at the sentinel again
  /\ pc[t] = "generation" /\ Unlocked
  /\ mine' = [mine EXCEPT ![t] = [id |-> 0, direct |-> FALSE]]
  /\ outstanding' = 0
  /\ joiners' = <<>>
  /\ toWake' = [toWake EXCEPT ![t] = joiners]
  /\ Goto(t, IF joiners = <<>> THEN "idle" ELSE "release_joiners")
  /\ UNCHANGED <<op, prog, ready, failed, alive, awaited>>

FinishGeneration(t) ==
  /\ pc[t] = "generation" /\ Unlocked
  /\ mine' = [mine EXCEPT ![t] = [id |-> 0, direct |-> FALSE]]
  /\ IF outstanding # GroupFinishing
     THEN Only(t, "idle") /\ UNCHANGED <<outstanding, joiners>>
     ELSE /\ outstanding' = 0
          /\ joiners' = <<>>
          /\ toWake' = [toWake EXCEPT ![t] = joiners]
          /\ Goto(t, IF joiners = <<>> THEN "idle" ELSE "release_joiners")
          /\ UNCHANGED <<op, prog>>
  /\ UNCHANGED <<ready, failed, alive, awaited>>

Release(t) ==
  /\ pc[t] = "release_joiners"
  /\ WakeFirst(t, "joined", "idle")
  /\ UNCHANGED groupVars

-----------------------------------------------------------------------------
(* TaskGroup::join.                                                         *)
Join(t) ==
  /\ Begin(t, "join", IF outstanding = 0 THEN "joined" ELSE "joinlock")
  /\ awaited' = [awaited EXCEPT ![t] = alive]
  /\ UNCHANGED <<outstanding, joiners, ready, mine, failed, alive>>

ParkJoiner(t) ==
  /\ pc[t] = "joinlock" /\ Unlocked
  /\ joiners' = IF outstanding = 0 THEN joiners ELSE <<t>> \o joiners
  /\ Only(t, IF outstanding = 0 THEN "joined" ELSE "joining")
  /\ UNCHANGED <<outstanding, ready, mine, failed, alive, awaited>>

Joined(t) ==
  /\ pc[t] = "joined"
  /\ awaited' = [awaited EXCEPT ![t] = {}]
  /\ Only(t, "idle")
  /\ UNCHANGED <<outstanding, joiners, ready, mine, failed, alive>>

GroupStep(t) ==
  \/ /\ \/ CallSpawn(t) \/ ChildStarted(t) \/ StartLocked(t) \/ StartAdd(t)
        \/ Schedule(t) \/ RunChild(t) \/ ChildFinished(t) \/ Decrement(t)
        \/ ClaimEnd(t) \/ FinishGeneration(t) \/ Release(t) \/ Join(t) \/ ParkJoiner(t)
        \/ Joined(t)
     /\ UNCHANGED cancelVars
  \/ ChildFailed(t)
  \/ CancelStep(t) /\ UNCHANGED groupVars

(* "join() does not return until every child has finished" (group.hpp): no  *)
(* child whose spawn() returned before join() was called is still running,  *)
(* however children started and finished across the ends of generations.    *)
JoinWaitsAll == \A t \in At("joined") : awaited[t] \cap alive = {}
=============================================================================
