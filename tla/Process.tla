------------------------------ MODULE Process -------------------------------
(***************************************************************************)
(* Child processes (process.cpp): Command::start with its failures,         *)
(* Child::wait, signal and destruction, the process-wide ChildReaper, and   *)
(* Command::output, which reads both streams of the child at once.          *)
(*                                                                         *)
(* The child writes chunks to its streams as its script says and exits;     *)
(* a pipe holds PipeSize chunks.  Kernel calls are external: the process    *)
(* is a zombie until somebody waits for it, and its pidfd is readable from  *)
(* its exit on.                                                             *)
(***************************************************************************)
EXTENDS Tasks

CONSTANTS Scripts,      \* what a child may write, in sequences of streams
          PipeSize,     \* chunks a pipe holds
          MaxOutput     \* output's max_output, in chunks

Stream == {"out", "err"}

VARIABLES
  proc,        \* the kernel's process
  script,      \* what it has still to write
  pidfd,       \* Child::pidfd_ is there
  status,      \* Child::status_ is there
  ends,        \* the parent's ends of the pipes: none, open, closed
  pipe,        \* chunks in each pipe
  got,         \* chunks output has read of each stream
  reading,     \* how output's read_all of each stream stands
  reaper,      \* the duplicate for ChildReaper: none, adopted, failed, done
  interrupted  \* a deadline has passed or a token has fired on the pidfd

handleVars == <<pidfd, status, interrupted>>
streamVars == <<pipe, got, reading>>
processVars == <<proc, script, ends, reaper, handleVars, streamVars>>

ProcessInit ==
  /\ proc = "none" /\ script = <<>> /\ reaper = "none"
  /\ pidfd = FALSE /\ status = FALSE /\ interrupted = FALSE /\ ends = "none"
  /\ pipe = [s \in Stream |-> 0] /\ got = [s \in Stream |-> 0]
  /\ reading = [s \in Stream |-> "none"]

(* What follows start: the caller goes on with the Child, run waits for it, *)
(* output reads its streams first.                                          *)
AfterStart(o) == CASE o = "command" -> "idle" [] o = "cmd_run" -> "pidfd"
                   [] o = "cmd_output" -> "drain_out"

(* Pipes and fork come first: their failure leaves nothing behind.          *)
StartRefused(t, o) ==
  /\ Begin(t, o, "idle")
  /\ UNCHANGED processVars

(* exec fails, or there is no pidfd, or it cannot be attached: waitpid,     *)
(* with the parent's ends of the pipes still open.                          *)
StartUnusable(t, o) ==
  /\ Begin(t, o, "waitpid")
  /\ proc' = "running"
  /\ script' \in Scripts \cup {<<>>}
  /\ ends' = IF o = "cmd_output" THEN "open" ELSE "none"
  /\ UNCHANGED <<reaper, handleVars, streamVars>>

Waitpid(t) ==
  /\ pc[t] = "waitpid"
  /\ proc = "zombie"
  /\ proc' = "reaped"
  /\ ends' = IF ends = "open" THEN "closed" ELSE ends
  /\ Only(t, "idle")
  /\ UNCHANGED <<script, reaper, handleVars, streamVars>>

StartSucceeds(t, o) ==
  /\ \/ /\ Begin(t, o, AfterStart(o))
        /\ reading' = [s \in Stream |-> IF o = "cmd_output" THEN "reading" ELSE "none"]
     \/ /\ o = "cmd_output"                 \* a stream cannot be attached
        /\ Begin(t, o, "destroy")
        /\ UNCHANGED reading
  /\ proc' = "running"
  /\ script' \in Scripts
  /\ pidfd' = TRUE
  /\ ends' = IF o = "cmd_output" THEN "open" ELSE "none"
  /\ UNCHANGED <<reaper, status, interrupted, pipe, got>>

CommandStart(t) ==
  \E o \in {"command", "cmd_run", "cmd_output"} :
    /\ proc = "none"
    /\ StartRefused(t, o) \/ StartUnusable(t, o) \/ StartSucceeds(t, o)

-----------------------------------------------------------------------------
(* wait: a status that is there already, or the pidfd.                      *)
WaitChild(t) ==
  /\ Begin(t, "child_wait", IF ~status /\ pidfd THEN "pidfd" ELSE "idle")
  /\ UNCHANGED processVars

AfterWait(t) == IF op[t] = "child_wait" THEN "idle" ELSE "destroy"

(* The pidfd is readable; waitid reaps, or finds nothing left to reap.      *)
PidfdReadable(t) ==
  /\ pc[t] = "pidfd"
  /\ proc \in {"zombie", "reaped"}
  /\ proc' = "reaped"
  /\ status' = (status \/ proc = "zombie")
  /\ Only(t, AfterWait(t))
  /\ UNCHANGED <<script, pidfd, interrupted, ends, reaper, streamVars>>

WaitInterrupted(t) ==
  /\ pc[t] = "pidfd"
  /\ interrupted
  /\ Only(t, AfterWait(t))
  /\ UNCHANGED processVars

Interrupt(t) ==
  /\ Begin(t, "interrupt", "idle")
  /\ interrupted' = pidfd
  /\ UNCHANGED <<proc, script, ends, reaper, pidfd, status, streamVars>>

(* signal, through the pidfd.                                               *)
SignalChild(t) ==
  /\ Begin(t, "kill", "idle")
  /\ proc' = IF pidfd /\ proc = "running" THEN "zombie" ELSE proc
  /\ UNCHANGED <<script, ends, reaper, handleVars, streamVars>>

(* ~Child and release_unwaited: a child that has exited is reaped at once,  *)
(* another goes to the reaper with a duplicate of the pidfd, if there can   *)
(* be one.                                                                  *)
BugReleaseUnwaited ==                          \* leaves a child that still runs
  /\ proc' = IF pidfd /\ proc = "zombie" THEN "reaped" ELSE proc
  /\ UNCHANGED reaper
ReleaseUnwaited ==
  IF status \/ ~pidfd THEN UNCHANGED <<proc, reaper>>
  ELSE IF proc = "zombie" THEN proc' = "reaped" /\ UNCHANGED reaper
  ELSE reaper' \in {"adopted", "failed"} /\ UNCHANGED proc

Destroy(t) ==
  /\ \/ pc[t] = "destroy" /\ Only(t, "idle")
     \/ At("pidfd") = {} /\ Begin(t, "child_drop", "idle")
  /\ ReleaseUnwaited
  /\ pidfd' = FALSE /\ status' = FALSE /\ interrupted' = FALSE
  /\ ends' = IF ends = "open" THEN "closed" ELSE ends
  /\ UNCHANGED <<script, streamVars>>

-----------------------------------------------------------------------------
(* read_all of one stream: a chunk, one too many, or its end.               *)
Reads(s) ==
  /\ reading[s] = "reading"
  /\ \/ /\ pipe[s] > 0
        /\ pipe' = [pipe EXCEPT ![s] = @ - 1]
        /\ IF got[s] = MaxOutput
           THEN reading' = [reading EXCEPT ![s] = "too_long"] /\ UNCHANGED got
           ELSE got' = [got EXCEPT ![s] = @ + 1] /\ UNCHANGED reading
     \/ /\ pipe[s] = 0 /\ proc # "running"
        /\ reading' = [reading EXCEPT ![s] = "end"]
        /\ UNCHANGED <<pipe, got>>

(* output reads stdout itself, then joins the task that reads stderr, then  *)
(* waits for the child whatever the two have found.                         *)
DrainOut(t) ==
  /\ pc[t] = "drain_out"
  /\ Reads("out")
  /\ Only(t, IF reading'["out"] = "reading" THEN "drain_out" ELSE "join_err")
  /\ UNCHANGED <<proc, script, ends, reaper, handleVars>>

JoinErr(t) ==
  /\ pc[t] = "join_err"
  /\ reading["err"] # "reading"
  /\ Only(t, "pidfd")
  /\ UNCHANGED processVars

ProcessStep(t) ==
  \/ CommandStart(t) \/ Waitpid(t) \/ WaitChild(t) \/ PidfdReadable(t) \/ WaitInterrupted(t)
  \/ Interrupt(t) \/ SignalChild(t) \/ Destroy(t) \/ DrainOut(t) \/ JoinErr(t)

-----------------------------------------------------------------------------
(* The child: a full pipe holds it up, one without a reader ends it.        *)
ChildRuns ==
  /\ proc = "running"
  /\ IF script = <<>> \/ ends = "closed"
     THEN proc' = "zombie" /\ UNCHANGED <<script, pipe>>
     ELSE /\ ends = "open" => pipe[Head(script)] < PipeSize
          /\ pipe' = IF ends = "open" THEN [pipe EXCEPT ![Head(script)] = @ + 1] ELSE pipe
          /\ script' = Tail(script)
          /\ UNCHANGED proc
  /\ UNCHANGED <<taskVars, ends, reaper, handleVars, got, reading>>

(* The task that output spawns.                                             *)
ErrTask ==
  /\ Reads("err")
  /\ UNCHANGED <<taskVars, proc, script, ends, reaper, handleVars>>

(* ChildReaper::run.                                                        *)
Reap ==
  /\ reaper = "adopted"
  /\ proc = "zombie"
  /\ proc' = "reaped"
  /\ reaper' = "done"
  /\ UNCHANGED <<taskVars, script, ends, handleVars, streamVars>>

Actor == {"child", "err_task", "reaper"}
ProcessActor(a) ==
  \/ a = "child" /\ ChildRuns
  \/ a = "err_task" /\ ErrTask
  \/ a = "reaper" /\ Reap

-----------------------------------------------------------------------------
(* No zombie and no stolen status.  While a process is not reaped, somebody *)
(* who will reap it keeps its pidfd, or waitpid: the Child, the reaper, or  *)
(* a start that failed; only a destructor that could not duplicate the      *)
(* descriptor gives up.  And as long as there is a Child, nobody but its    *)
(* own wait() reaps, so that the status is there to be asked for again.     *)
ChildAccounted ==
  /\ proc \in {"running", "zombie"} =>
       pidfd \/ At("waitpid") # {} \/ reaper \in {"adopted", "failed"}
  /\ pidfd => (proc = "reaped" <=> status)

(* The child is stopped by a full pipe that nobody reads: its parent sits   *)
(* in waitpid, or output has given up on the stream.                        *)
Blocked ==
  /\ ends = "open"
  /\ proc = "running" /\ script # <<>>
  /\ pipe[Head(script)] = PipeSize

(* output() drains both streams at once so that the child cannot block on   *)
(* one while the other is read: once it has started to read, it returns.    *)
OutputReturns ==
  \A t \in Task : (op[t] = "cmd_output" /\ pc[t] = "drain_out") ~> pc[t] = "idle"
=============================================================================
