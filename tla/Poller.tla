------------------------------- MODULE Poller -------------------------------
(***************************************************************************)
(* How a worker blocks in its reactor shard and how others make it return: *)
(* Scheduler::park with Reactor::poll (epoll back end), wake and nudge.     *)
(* Every load, store and exchange on the idle bitmap, wake_pending_, the    *)
(* eventfd, polling_ and poller_deadline_ns_ is a step of its own.  What    *)
(* counts as work, and what the worker does between two parks, is up to the *)
(* modules that extend this one.                                            *)
(***************************************************************************)
EXTENDS Integers, Sequences, FiniteSets, SequencesExt

CONSTANTS
  Worker,
  Never        \* INT64_MAX, later than every deadline

VARIABLES
  idle,        \* idle_workers_
  pending,     \* the workers whose wake_pending_ is set
  token,       \* the workers whose eventfd is readable
  polling,     \* polling_, by the shard's owner or by the monitor
  plan,        \* poller_deadline_ns_
  place,       \* where each worker is in park and poll; "run" outside
  until,       \* the deadline its poll blocks for at most
  stop         \* stop_

pollerVars == <<idle, pending, token, polling, plan, place, until, stop>>

PollerInit ==
  /\ idle = {} /\ pending = {} /\ token = {} /\ polling = {}
  /\ plan = [w \in Worker |-> Never]
  /\ place = [w \in Worker |-> "run"]
  /\ until = [w \in Worker |-> Never]
  /\ stop = FALSE

MoveTo(w, l) == place' = [place EXCEPT ![w] = l]

(* park: publish idle, look once more for work, snapshot the next deadline. *)
SetIdle(w) ==
  /\ place[w] = "run"
  /\ ~stop
  /\ idle' = idle \cup {w}
  /\ MoveTo(w, "recheck")
  /\ UNCHANGED <<pending, token, polling, plan, until, stop>>

Recheck(w, work) ==
  /\ place[w] = "recheck"
  /\ MoveTo(w, IF stop \/ work THEN "leave" ELSE "snapshot")
  /\ UNCHANGED <<idle, pending, token, polling, plan, until, stop>>

Snapshot(w, deadline) ==
  /\ place[w] = "snapshot"
  /\ until' = [until EXCEPT ![w] = deadline]
  /\ MoveTo(w, "enter")
  /\ UNCHANGED <<idle, pending, token, polling, plan, stop>>

(* poll: claim the shard, unless the monitor has it, and publish the plan.  *)
PollEnter(w) ==
  /\ place[w] = "enter"
  /\ polling' = polling \cup {w}
  /\ MoveTo(w, IF w \in polling THEN "leave" ELSE "plan")
  /\ UNCHANGED <<idle, pending, token, plan, until, stop>>

PollPlan(w) ==
  /\ place[w] = "plan"
  /\ plan' = [plan EXCEPT ![w] = until[w]]
  /\ MoveTo(w, "blocked")
  /\ UNCHANGED <<idle, pending, token, polling, until, stop>>

(* epoll_wait returns for the eventfd, for the timeout or for an event.     *)
PollReturn(w, due) ==
  /\ place[w] = "blocked"
  /\ w \in token \/ due
  /\ MoveTo(w, IF w \in token THEN "returned_token" ELSE "returned")
  /\ UNCHANGED <<idle, pending, token, polling, plan, until, stop>>

(* poller_returned clears the idle bit, then the plan is withdrawn.         *)
PollerReturned(w) ==
  /\ place[w] \in {"returned", "returned_token"}
  /\ idle' = idle \ {w}
  /\ plan' = [plan EXCEPT ![w] = Never]
  /\ MoveTo(w, IF place[w] = "returned" THEN "unpoll" ELSE "drain")
  /\ UNCHANGED <<pending, token, polling, until, stop>>

(* The owner reads the eventfd empty and only then drops wake_pending_.     *)
Drain(w) ==
  /\ place[w] \in {"drain", "unpend"}
  /\ token' = IF place[w] = "drain" THEN token \ {w} ELSE token
  /\ pending' = IF place[w] = "unpend" THEN pending \ {w} ELSE pending
  /\ MoveTo(w, IF place[w] = "drain" THEN "unpend" ELSE "unpoll")
  /\ UNCHANGED <<idle, polling, plan, until, stop>>

Unpoll(w) ==
  /\ place[w] = "unpoll"
  /\ polling' = polling \ {w}
  /\ MoveTo(w, "leave")
  /\ UNCHANGED <<idle, pending, token, plan, until, stop>>

LeavePark(w) ==
  /\ place[w] = "leave"
  /\ idle' = idle \ {w}
  /\ until' = [until EXCEPT ![w] = Never]
  /\ MoveTo(w, "run")
  /\ UNCHANGED <<pending, token, polling, plan, stop>>

(* Everything of park that depends on nothing outside this module.          *)
ParkStep(w) ==
  \/ PollEnter(w) \/ PollPlan(w) \/ PollerReturned(w) \/ Drain(w) \/ Unpoll(w)

(* The monitor's poll(0) of a shard nobody polls: it blocks for no time and *)
(* leaves a wake token to the owner.                                        *)
MonitorPoll(w, at) ==
  /\ ~stop
  /\ w \notin polling
  /\ polling' = polling \cup {w}
  /\ plan' = [plan EXCEPT ![w] = at]
  /\ UNCHANGED <<idle, pending, token, place, until, stop>>

MonitorPolled(w) ==
  /\ w \in polling
  /\ place[w] \notin {"plan", "blocked", "returned", "returned_token",
                      "drain", "unpend", "unpoll"}
  /\ polling' = polling \ {w}
  /\ plan' = [plan EXCEPT ![w] = Never]
  /\ UNCHANGED <<idle, pending, token, place, until, stop>>

-----------------------------------------------------------------------------
(* The steps of nudge_poller and of Reactor::nudge and wake, by a caller at *)
(* the step at; each yields the caller's next step, "none" when it is done. *)
BugAfterClaim(w) == "look"           \* relies on the deadline-aware nudge
AfterClaim(w) == IF w \in idle THEN "flag" ELSE "look"
AfterLook(w) == IF w \in polling THEN "compare" ELSE "none"
AfterCompare(w, deadline) == IF plan[w] <= deadline THEN "none" ELSE "flag"
AfterFlag(w) == IF w \in pending THEN "none" ELSE "write"

NudgeNext(w, at, deadline) ==
  CASE at = "claim" -> AfterClaim(w)
    [] at = "look" -> AfterLook(w)
    [] at = "compare" -> AfterCompare(w, deadline)
    [] at = "flag" -> AfterFlag(w)
    [] at = "write" -> "none"

NudgeStep(w, at) ==
  /\ idle' = IF at = "claim" THEN idle \ {w} ELSE idle
  /\ pending' = IF at = "flag" THEN pending \cup {w} ELSE pending
  /\ token' = IF at = "write" THEN token \cup {w} ELSE token
  /\ UNCHANGED <<polling, plan, place, until, stop>>
=============================================================================
