------------------------------- MODULE Driver -------------------------------
(***************************************************************************)
(* Who polls a reactor shard when its worker does not come back from a task *)
(* (monitor_pass and the Reactor's driver, scheduler.cpp): first a ticket   *)
(* for the owner, then a control frame that any worker may resume, at last  *)
(* the monitor itself.  A task is the monitor, the owner, or a worker that  *)
(* resumes the control frame; the clock counts the passes of the monitor.   *)
(*                                                                         *)
(* A load of a word that only grows is one step with the access after it    *)
(* where the earlier reading could only have asked for less.                *)
(***************************************************************************)
EXTENDS Tasks

CONSTANTS Stale, Grace     \* kMonitorPollStaleNs, kMonitorDriverGraceNs

VARIABLES
  phase,                      \* driver_phase_
  requested, requestedAt,     \* driver_requested_epoch_, driver_requested_at_ns_
  attempted, covered,         \* driver_attempted_epoch_, driver_covered_epoch_
  ownerTicket,                \* owner_poll_requested_ns_ is not 0
  lastPoll, pollOwner,        \* last_poll_ns_, and who has set polling_
  shardUsed,                  \* registered() > 0, and no stop
  controls,                   \* the control items in the shared queue
  passes,                     \* the clock
  unpolled,                   \* history: passes since a poll, while nobody polls
  snap                        \* per task: the request it has read, and what for

requestVars == <<requested, requestedAt, attempted, covered>>
shardVars == <<ownerTicket, lastPoll, pollOwner, shardUsed, passes,
              unpolled>>
driverVars == <<phase, controls, requestVars, shardVars, snap>>

Unread == [epoch |-> 0, at |-> 0, why |-> "none"]

(* initialize_driver; the shard has just been polled.                       *)
DriverInit ==
  /\ phase = "suspended" /\ controls = 0 /\ snap = [t \in Task |-> Unread]
  /\ requested = 0 /\ requestedAt = 0 /\ attempted = 0 /\ covered = 0
  /\ ownerTicket = FALSE /\ lastPoll = 0 /\ pollOwner = NoTask
  /\ shardUsed = TRUE /\ passes = 0 /\ unpolled = 0

AtLeast(x, y) == IF x < y THEN y ELSE x
Finished(t) == IF op[t] = "drive" THEN "suspend" ELSE "idle"
ReadsFor(t, why) == snap' = [snap EXCEPT ![t] = [Unread EXCEPT !.why = why]]

-----------------------------------------------------------------------------
(* monitor_main and monitor_pass: a shard that nobody polls and nobody has  *)
(* polled lately.  pass_alone is the monitor of a scheduler of one worker.  *)
Pass(t) ==
  \E o \in {"pass", "pass_alone"} :
    /\ Begin(t, o, IF shardUsed /\ pollOwner = NoTask THEN "stale" ELSE "idle")
    /\ passes' = passes + 1
    /\ unpolled' = IF pollOwner = NoTask THEN unpolled + 1 ELSE unpolled
    /\ UNCHANGED <<phase, controls, requestVars, ownerTicket, lastPoll, pollOwner,
                   shardUsed, snap>>

CheckStale(t) ==
  /\ pc[t] = "stale"
  /\ Only(t, IF shardUsed /\ passes - lastPoll > Stale THEN "owner_first" ELSE "idle")
  /\ UNCHANGED driverVars

(* request_owner_poll_at, and where the pass goes without it.               *)
RequestOwner(t) ==
  /\ pc[t] = "owner_first"
  /\ ownerTicket' = TRUE
  /\ Only(t, CASE ~ownerTicket -> "idle"
               [] op[t] = "pass_alone" -> "poll_now"
               [] OTHER -> "read_epoch")
  /\ ReadsFor(t, "request")
  /\ UNCHANGED <<phase, controls, requestVars, lastPoll, pollOwner, shardUsed, passes,
                 unpolled>>

(* request_driver_at, after observe_driver_coverage: the time of a request  *)
(* is published before its epoch.                                           *)
RequestDriver(t) ==
  /\ pc[t] = "request"
  /\ requestedAt' = IF covered < requested THEN requestedAt ELSE passes
  /\ Only(t, IF covered < requested THEN "look" ELSE "announce")
  /\ UNCHANGED <<phase, controls, requested, attempted, covered, shardVars, snap>>

PublishRequest(t) ==
  /\ pc[t] = "announce"
  /\ requested' = requested + 1
  /\ Only(t, "look")
  /\ UNCHANGED <<phase, controls, requestedAt, attempted, covered, shardVars, snap>>

(* queue_driver.                                                            *)
LookAtDriver(t) ==
  /\ pc[t] = "look"
  /\ Only(t, IF covered >= requested \/ attempted >= requested THEN "backstop" ELSE "queue")
  /\ UNCHANGED driverVars

QueueDriver(t) ==
  /\ pc[t] = "queue"
  /\ phase' = IF phase = "suspended" THEN "queued" ELSE phase
  /\ Only(t, IF phase = "suspended" THEN "control" ELSE "backstop")
  /\ UNCHANGED <<controls, requestVars, shardVars, snap>>

PushControl(t) ==
  /\ pc[t] = "control"
  /\ controls' = controls + 1
  /\ Only(t, "backstop")
  /\ UNCHANGED <<phase, requestVars, shardVars, snap>>

(* The monitor's own poll, when the grace of the request is over.           *)
Backstop(t) ==
  /\ pc[t] = "backstop"
  /\ snap' = [snap EXCEPT ![t] = [epoch |-> requested, at |-> requestedAt, why |-> "failed"]]
  /\ Only(t, IF covered < requested /\ passes - requestedAt >= Grace THEN "poll_now" ELSE "idle")
  /\ UNCHANGED <<phase, controls, requestVars, shardVars>>

-----------------------------------------------------------------------------
(* run_driver_once, and observe_driver_coverage of those whose poll failed  *)
(* or who are about to request: an epoch is read with its time, and again.  *)
ResumeDriver(t) ==
  /\ controls > 0
  /\ Begin(t, "drive", "read_epoch")
  /\ controls' = controls - 1 /\ phase' = "running"
  /\ ReadsFor(t, "run")
  /\ UNCHANGED <<requestVars, shardVars>>

ReadEpoch(t) ==
  /\ pc[t] = "read_epoch"
  /\ snap' = [snap EXCEPT ![t].epoch = requested]
  /\ Only(t, "read_time")
  /\ UNCHANGED <<phase, controls, requestVars, shardVars>>

ReadTime(t) ==
  /\ pc[t] = "read_time"
  /\ snap' = [snap EXCEPT ![t].at = requestedAt]
  /\ Only(t, IF snap[t].why # "run" /\ covered >= snap[t].epoch
             THEN (IF snap[t].why = "request" THEN "request" ELSE Finished(t))
             ELSE "read_again")
  /\ UNCHANGED <<phase, controls, requestVars, shardVars>>

ReadAgain(t) ==
  /\ pc[t] = "read_again"
  /\ Only(t, CASE requested # snap[t].epoch -> "read_epoch"
               [] snap[t].why = "run" -> "attempt"
               [] OTHER -> "observe")
  /\ UNCHANGED driverVars

Observe(t) ==
  /\ pc[t] = "observe"
  /\ covered' = IF lastPoll >= snap[t].at THEN AtLeast(covered, snap[t].epoch) ELSE covered
  /\ Only(t, IF snap[t].why = "request" THEN "request" ELSE Finished(t))
  /\ UNCHANGED <<phase, controls, requested, requestedAt, attempted, shardVars, snap>>

AttemptEpoch(t) ==
  /\ pc[t] = "attempt"
  /\ attempted' = AtLeast(attempted, snap[t].epoch)
  /\ Only(t, "needed")
  /\ UNCHANGED <<phase, controls, requested, requestedAt, covered, shardVars, snap>>

CheckNeeded(t) ==
  LET needless == covered >= snap[t].epoch \/ lastPoll >= snap[t].at \/ ~shardUsed IN
  /\ pc[t] = "needed"
  /\ covered' = IF needless THEN AtLeast(covered, snap[t].epoch) ELSE covered
  /\ snap' = [snap EXCEPT ![t].why = "failed"]
  /\ Only(t, IF needless THEN "suspend" ELSE "poll_now")
  /\ UNCHANGED <<phase, controls, requested, requestedAt, attempted, shardVars>>

(* DriverSuspend: from here on another worker may resume the frame.         *)
SuspendDriver(t) ==
  /\ pc[t] = "suspend"
  /\ phase' = "suspended"
  /\ Only(t, "idle")
  /\ UNCHANGED <<controls, requestVars, shardVars, snap>>

-----------------------------------------------------------------------------
(* The owner's checkpoint: it takes the ticket and polls.                   *)
ServeShard(t) ==
  /\ Begin(t, "serve", IF shardUsed THEN "poll_now" ELSE "idle")
  /\ ownerTicket' = FALSE
  /\ snap' = [snap EXCEPT ![t] = Unread]
  /\ UNCHANGED <<phase, controls, requestVars, lastPoll, pollOwner, shardUsed, passes,
                 unpolled>>

(* poll(0), and what follows when another thread has polling_: observe for  *)
(* whoever came with a request.                                             *)
PollNow(t) ==
  /\ pc[t] = "poll_now"
  /\ pollOwner' = IF pollOwner = NoTask THEN t ELSE pollOwner
  /\ Only(t, CASE pollOwner = NoTask -> "fetch"
               [] snap[t].why = "failed" -> "read_epoch"
               [] OTHER -> "idle")
  /\ UNCHANGED <<phase, controls, requestVars, ownerTicket, lastPoll, shardUsed, passes,
                 unpolled, snap>>

Fetch(t) ==
  /\ pc[t] = "fetch"
  /\ lastPoll' = passes /\ unpolled' = 0
  /\ Only(t, "dispatch")
  /\ UNCHANGED <<phase, controls, requestVars, ownerTicket, pollOwner, shardUsed, passes, snap>>

Dispatch(t) ==
  /\ pc[t] = "dispatch"
  /\ pollOwner' = NoTask
  /\ Only(t, IF snap[t].why = "failed" THEN "cover" ELSE "idle")
  /\ UNCHANGED <<phase, controls, requestVars, ownerTicket, lastPoll, shardUsed, passes,
                 unpolled, snap>>

(* cover_driver_epoch: only what was requested before the poll.             *)
BugCover(t) ==                         \* covers what was requested meanwhile
  /\ pc[t] = "cover"
  /\ covered' = requested
  /\ Only(t, Finished(t))
  /\ UNCHANGED <<phase, controls, requested, requestedAt, attempted, shardVars, snap>>
Cover(t) ==
  /\ pc[t] = "cover"
  /\ covered' = AtLeast(covered, snap[t].epoch)
  /\ Only(t, Finished(t))
  /\ UNCHANGED <<phase, controls, requested, requestedAt, attempted, shardVars, snap>>

(* The last descriptor is detached, or the scheduler stops.                 *)
DetachAll(t) ==
  /\ Begin(t, "detach_all", "idle")
  /\ shardUsed' = FALSE
  /\ UNCHANGED <<phase, controls, requestVars, ownerTicket, lastPoll, pollOwner, passes,
                 unpolled, snap>>

DriverStep(t) ==
  \/ Pass(t) \/ CheckStale(t) \/ RequestOwner(t) \/ RequestDriver(t) \/ PublishRequest(t)
  \/ LookAtDriver(t) \/ QueueDriver(t) \/ PushControl(t) \/ Backstop(t)
  \/ ResumeDriver(t) \/ ReadEpoch(t) \/ ReadTime(t) \/ ReadAgain(t) \/ Observe(t)
  \/ AttemptEpoch(t) \/ CheckNeeded(t) \/ SuspendDriver(t)
  \/ ServeShard(t) \/ PollNow(t) \/ Fetch(t) \/ Dispatch(t) \/ Cover(t) \/ DetachAll(t)

-----------------------------------------------------------------------------
Driving == {t \in Task : op[t] = "drive" /\ pc[t] # "idle"}
Monitoring == {t \in Task : op[t] \in {"pass", "pass_alone"} /\ pc[t] # "idle"}

(* The control frame is resumed by one worker at a time and queued once: it *)
(* is suspended exactly when no queue and no worker has it.  A request that *)
(* counts as covered was followed by a poll of the shard, whoever made it.  *)
(* And whatever the workers do, between two passes no shard in use has been *)
(* left without a poll for longer than a ticket, a request and its grace.   *)
DriverSound ==
  /\ controls + Cardinality(Driving \cup At("control")) = IF phase = "suspended" THEN 0 ELSE 1
  /\ attempted <= requested /\ covered <= requested
  /\ covered = requested /\ At("announce") = {} /\ shardUsed => lastPoll >= requestedAt
  /\ Monitoring \cup At("poll_now") = {} /\ pollOwner = NoTask /\ shardUsed
       => unpolled <= Stale + Grace + 1
=============================================================================
