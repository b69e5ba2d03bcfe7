---------------------------- MODULE TimerHandle -----------------------------
(***************************************************************************)
(* The public Timer, after_func and Ticker (src/timer_handle.cpp,          *)
(* include/cio/timer.hpp): a handle, the task drive_timer that serves it,   *)
(* and one user that stops, resets and receives.  A select of the driver    *)
(* takes any of its cases that is ready (module Select).                    *)
(***************************************************************************)
EXTENDS Integers

CONSTANTS
  Handle,       \* the handles explored: kind, first deadline and period
  NewPeriod,    \* what a reset asks for: a delay, or a ticker's period
  LastInstant,  \* bound: the end of the clock
  MaxCalls      \* bound: the user's calls

VARIABLES
  handle, clock,
  due, period, fired, stopped,    \* TimerState's atomics
  cancel, rearm, channel, closed, \* its stop source, rearm and channel
  called,                         \* on_fire has run
  driver, readDue, readPeriod,    \* the driver: its step and what it has loaded
  user, calls, asked, pendingSeen,
  saidStopped,  \* stop() has returned true
  lastTick      \* when the driver last computed the next deadline

stateVars == <<due, period, fired, stopped, cancel, rearm, channel, closed, called>>
driverVars == <<driver, readDue, readPeriod, lastTick>>
userVars == <<user, calls, asked, pendingSeen, saidStopped>>
handleVars == <<handle, clock, stateVars, driverVars, userVars>>

(* Timer(deadline), after_func, Ticker(period): start.                      *)
HandleInit ==
  /\ handle \in Handle
  /\ clock = 0
  /\ due = handle.due /\ period = handle.period
  /\ fired = FALSE /\ stopped = FALSE /\ cancel = FALSE
  /\ rearm = FALSE /\ channel = FALSE /\ closed = FALSE /\ called = FALSE
  /\ driver = "read" /\ readDue = 0 /\ readPeriod = 0 /\ lastTick = 0
  /\ user = "idle" /\ calls = 0 /\ asked = 0 /\ pendingSeen = FALSE
  /\ saidStopped = FALSE

-----------------------------------------------------------------------------
(* drive_timer.                                                             *)
ReadDeadline ==
  /\ driver = "read"
  /\ readDue' = due
  /\ driver' = "select"
  /\ UNCHANGED <<handle, clock, stateVars, readPeriod, lastTick, userVars>>

SelectStop ==
  /\ driver = "select"
  /\ cancel
  /\ driver' = "close"
  /\ UNCHANGED <<handle, clock, stateVars, readDue, readPeriod, lastTick, userVars>>

SelectRearm ==
  /\ driver = "select"
  /\ rearm
  /\ rearm' = FALSE
  /\ driver' = "read"
  /\ UNCHANGED <<handle, clock, due, period, fired, stopped, cancel, channel, closed, called,
                 readDue, readPeriod, lastTick, userVars>>

SelectDeadline ==
  /\ driver = "select"
  /\ readDue <= clock
  /\ driver' = "check"
  /\ UNCHANGED <<handle, clock, stateVars, readDue, readPeriod, lastTick, userVars>>

(* The deadline may have moved between the timer firing and this check.     *)
CheckMoved ==
  /\ driver = "check"
  /\ driver' = IF due > clock THEN "read" ELSE "period"
  /\ UNCHANGED <<handle, clock, stateVars, readDue, readPeriod, lastTick, userVars>>

ReadPeriod ==
  /\ driver = "period"
  /\ readPeriod' = period
  /\ driver' = IF period = 0 THEN "fire" ELSE "tick"
  /\ UNCHANGED <<handle, clock, stateVars, readDue, lastTick, userVars>>

MarkFired ==
  /\ driver = "fire"
  /\ fired' = TRUE
  /\ driver' = "deliver"
  /\ UNCHANGED <<handle, clock, due, period, stopped, cancel, rearm, channel, closed, called,
                 readDue, readPeriod, lastTick, userVars>>

(* on_fire, or a tick into a channel that holds one.                        *)
Deliver ==
  /\ driver \in {"deliver", "tick"}
  /\ called' = (called \/ handle.kind = "func")
  /\ channel' = (channel \/ handle.kind # "func")
  /\ driver' = IF driver = "deliver" THEN "close" ELSE "advance"
  /\ UNCHANGED <<handle, clock, due, period, fired, stopped, cancel, rearm, closed, readDue,
                 readPeriod, lastTick, userVars>>

(* From the previous deadline, not from now, and past the missed ones.      *)
BugNext(from, every, at) ==
  IF from + every > at THEN from + every
  ELSE from + every + ((at - (from + every)) \div every) * every

Next(from, every, at) ==
  IF from + every > at THEN from + every
  ELSE from + every + ((at - (from + every)) \div every + 1) * every

Advance ==
  /\ driver = "advance"
  /\ due' = Next(readDue, readPeriod, clock)
  /\ lastTick' = clock
  /\ driver' = "read"
  /\ UNCHANGED <<handle, clock, period, fired, stopped, cancel, rearm, channel, closed,
                 called, readDue, readPeriod, userVars>>

BugCloseChannel ==
  /\ driver = "close"
  /\ closed' = fired
  /\ driver' = "done"
  /\ UNCHANGED <<handle, clock, due, period, fired, stopped, cancel, rearm, channel, called,
                 readDue, readPeriod, lastTick, userVars>>

CloseChannel ==
  /\ driver = "close"
  /\ closed' = TRUE
  /\ driver' = "done"
  /\ UNCHANGED <<handle, clock, due, period, fired, stopped, cancel, rearm, channel, called,
                 readDue, readPeriod, lastTick, userVars>>

Drive ==
  \/ ReadDeadline \/ SelectStop \/ SelectRearm \/ SelectDeadline \/ CheckMoved
  \/ ReadPeriod \/ MarkFired \/ Deliver \/ Advance \/ CloseChannel

-----------------------------------------------------------------------------
(* Timer::stop, Ticker::stop: the first caller only.                        *)
CallStop ==
  /\ user = "idle" /\ calls < MaxCalls
  /\ calls' = calls + 1
  /\ stopped' = TRUE
  /\ user' = IF stopped THEN "idle" ELSE "stop"
  /\ UNCHANGED <<handle, clock, due, period, fired, cancel, rearm, channel, closed, called,
                 driverVars, asked, pendingSeen, saidStopped>>

ReadFired ==
  /\ user \in {"stop", "reset"}
  /\ pendingSeen' = ~fired
  /\ user' = IF user = "stop" THEN "cancel" ELSE "move"
  /\ UNCHANGED <<handle, clock, stateVars, driverVars, calls, asked, saidStopped>>

Cancel ==
  /\ user = "cancel"
  /\ cancel' = TRUE
  /\ saidStopped' = pendingSeen
  /\ user' = "idle"
  /\ UNCHANGED <<handle, clock, due, period, fired, stopped, rearm, channel, closed, called,
                 driverVars, calls, asked, pendingSeen>>

(* Timer::reset refuses a stopped timer, Ticker::reset does not.            *)
CallReset ==
  \E d \in NewPeriod :
    /\ user = "idle" /\ calls < MaxCalls
    /\ handle.kind = "ticker" \/ ~stopped
    /\ calls' = calls + 1
    /\ asked' = d
    /\ period' = IF handle.kind = "ticker" THEN d ELSE period
    /\ user' = IF handle.kind = "ticker" THEN "move" ELSE "reset"
    /\ UNCHANGED <<handle, clock, due, fired, stopped, cancel, rearm, channel, closed, called,
                   driverVars, pendingSeen, saidStopped>>

Move ==
  /\ user = "move"
  /\ due' = clock + asked
  /\ user' = "rearm"
  /\ UNCHANGED <<handle, clock, period, fired, stopped, cancel, rearm, channel, closed,
                 called, driverVars, calls, asked, pendingSeen, saidStopped>>

(* try_send into a channel that holds one nudge.                            *)
Rearm ==
  /\ user = "rearm"
  /\ rearm' = TRUE
  /\ user' = "idle"
  /\ UNCHANGED <<handle, clock, due, period, fired, stopped, cancel, channel, closed, called,
                 driverVars, calls, asked, pendingSeen, saidStopped>>

Receive ==
  /\ channel
  /\ channel' = FALSE
  /\ UNCHANGED <<handle, clock, due, period, fired, stopped, cancel, rearm, closed, called,
                 driverVars, userVars>>

Elapse ==
  /\ clock < LastInstant
  /\ clock' = clock + 1
  /\ UNCHANGED <<handle, stateVars, driverVars, userVars>>

User == ReadFired \/ Cancel \/ Move \/ Rearm

HandleNext == Drive \/ User \/ CallStop \/ CallReset \/ Receive \/ Elapse

HandleFairness == WF_handleVars(Drive) /\ WF_handleVars(User) /\ WF_handleVars(Elapse)

HandleSpec == HandleInit /\ [][HandleNext]_handleVars /\ HandleFairness

-----------------------------------------------------------------------------
(* A ticker that was not reset keeps its grid: the deadline it waits for is *)
(* a multiple of the period after the first, and after a late tick it lies  *)
(* in the future by at most one period, however many ticks were missed.     *)
Paced ==
  handle.kind = "ticker" /\ asked = 0 /\ driver = "read" /\ lastTick > 0 =>
    /\ (due - handle.due) % period = 0
    /\ lastTick < due /\ due <= lastTick + period

(* A stopped handle's channel gets closed, so that no receiver waits on it, *)
(* and a timer whose deadline has passed delivers or was stopped.           *)
ChannelEnds ==
  /\ cancel ~> closed
  /\ (handle.kind = "timer" /\ due <= clock /\ user = "idle") ~> (fired \/ stopped \/ due > clock)

(* "True when this call stopped the timer before it fired" (timer.hpp): a   *)
(* stop() that returned true is not followed by the delivery.               *)
StopIsHonest == saidStopped => ~fired
=============================================================================
