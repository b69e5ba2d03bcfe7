------------------------------ MODULE RWMutex -------------------------------
(***************************************************************************)
(* RWMutex (include/cio/sync.hpp): a writer-preferring readers/writer lock *)
(* of one atomic word, with a spin lock over the two lists of waiters.      *)
(*                                                                         *)
(* The word is a record of its fields kWriter, kWriterPending and the       *)
(* count of readers.  Every atomic operation on it is a step of its own;    *)
(* a compare-exchange loop is the one exchange that succeeds.  The lists    *)
(* are stacks, as the code pushes and takes at the head.                    *)
(***************************************************************************)
EXTENDS Tasks

VARIABLES
  state,          \* state_: [writer, pending, readers]
  queueLock,      \* the task that holds mutex_
  readWaiters, writeWaiters

rwVars == <<state, queueLock, readWaiters, writeWaiters>>

Free == [writer |-> FALSE, pending |-> FALSE, readers |-> 0]
Written == [Free EXCEPT !.writer = TRUE]

RWInit ==
  /\ state = Free
  /\ queueLock = NoTask
  /\ readWaiters = <<>>
  /\ writeWaiters = <<>>

OneMoreReader == [state EXCEPT !.readers = @ + 1]
Pended == [state EXCEPT !.pending = TRUE]

Unused == state = Free
BugReadable == ~state.writer           \* forgets the writers that wait
Readable == ~state.writer /\ ~state.pending

(* rlock's await_ready, and try_rlock.                                      *)
RLock(t) ==
  /\ \/ Begin(t, "rlock", IF Readable THEN "reading" ELSE "rslow")
     \/ Begin(t, "try_rlock", IF Readable THEN "reading" ELSE "idle")
  /\ state' = IF Readable THEN OneMoreReader ELSE state
  /\ UNCHANGED <<queueLock, readWaiters, writeWaiters>>

(* lock's await_ready, and try_lock.                                        *)
WLock(t) ==
  /\ \/ Begin(t, "lock", IF Unused THEN "writing" ELSE "wslow")
     \/ Begin(t, "try_lock", IF Unused THEN "writing" ELSE "idle")
  /\ state' = IF Unused THEN Written ELSE state
  /\ UNCHANGED <<queueLock, readWaiters, writeWaiters>>

(* acquire_read_or_publish_pending, under mutex_.                           *)
BugRPublish(t) ==                      \* queues without publishing its intent
  /\ pc[t] = "rslow"
  /\ queueLock = NoTask
  /\ IF Readable
     THEN /\ state' = OneMoreReader
          /\ Only(t, "reading")
          /\ UNCHANGED queueLock
     ELSE /\ queueLock' = t
          /\ Only(t, "rpush")
          /\ UNCHANGED state
  /\ UNCHANGED <<readWaiters, writeWaiters>>

RPublish(t) ==
  /\ pc[t] = "rslow"
  /\ queueLock = NoTask
  /\ IF Readable
     THEN /\ state' = OneMoreReader
          /\ Only(t, "reading")
          /\ UNCHANGED queueLock
     ELSE /\ state' = Pended
          /\ queueLock' = t
          /\ Only(t, "rpush")
  /\ UNCHANGED <<readWaiters, writeWaiters>>

(* acquire_write_or_publish_pending, under mutex_.                          *)
WPublish(t) ==
  /\ pc[t] = "wslow"
  /\ queueLock = NoTask
  /\ IF Unused
     THEN /\ state' = Written
          /\ Only(t, "writing")
          /\ UNCHANGED queueLock
     ELSE /\ state' = Pended
          /\ queueLock' = t
          /\ Only(t, "wpush")
  /\ UNCHANGED <<readWaiters, writeWaiters>>

(* await_suspend pushes its node, releases mutex_ and stays suspended.      *)
RPush(t) ==
  /\ pc[t] = "rpush"
  /\ readWaiters' = <<t>> \o readWaiters
  /\ queueLock' = NoTask
  /\ Only(t, "rwait")
  /\ UNCHANGED <<state, writeWaiters>>

WPush(t) ==
  /\ pc[t] = "wpush"
  /\ writeWaiters' = <<t>> \o writeWaiters
  /\ queueLock' = NoTask
  /\ Only(t, "wwait")
  /\ UNCHANGED <<state, readWaiters>>

-----------------------------------------------------------------------------
(* runlock: the last reader out of a pended lock hands it to a writer.      *)
OneLessReader == [state EXCEPT !.readers = @ - 1]

RUnlock(t) ==
  /\ pc[t] = "reading"
  /\ state' = OneLessReader
  /\ Only(t, IF state' = [Free EXCEPT !.pending = TRUE] THEN "runlock" ELSE "idle")
  /\ UNCHANGED <<queueLock, readWaiters, writeWaiters>>

(* unlock: the exchange of exactly kWriter, or else the queue.              *)
BugWUnlock(t) ==                       \* a store, whatever waits
  /\ pc[t] = "writing"
  /\ state' = Free
  /\ Only(t, "idle")
  /\ UNCHANGED <<queueLock, readWaiters, writeWaiters>>

WUnlock(t) ==
  /\ pc[t] = "writing"
  /\ state' = IF state = Written THEN Free ELSE state
  /\ Only(t, IF state = Written THEN "idle" ELSE "unlock")
  /\ UNCHANGED <<queueLock, readWaiters, writeWaiters>>

(* take_next_writer_locked and publish_writer_handoff.                      *)
PassToWriter(t) ==
  /\ writeWaiters # <<>>
  /\ writeWaiters' = Tail(writeWaiters)
  /\ toWake' = [toWake EXCEPT ![t] = <<Head(writeWaiters)>>]
  /\ state' = [Written EXCEPT !.pending = Len(writeWaiters) > 1 \/ readWaiters # <<>>]
  /\ Goto(t, "wake")
  /\ UNCHANGED <<op, prog, queueLock, readWaiters>>

(* No writer waits: unlock wakes every waiting reader at once, and runlock
   takes back a pending bit that has no waiter. *)
PassToReaders(t) ==
  LET woken == IF pc[t] = "unlock" THEN readWaiters ELSE <<>> IN
  /\ writeWaiters = <<>>
  /\ readWaiters' = IF pc[t] = "unlock" THEN <<>> ELSE readWaiters
  /\ toWake' = [toWake EXCEPT ![t] = woken]
  /\ state' = [Free EXCEPT !.readers = Len(woken)]
  /\ Goto(t, IF woken = <<>> THEN "idle" ELSE "wake")
  /\ UNCHANGED <<op, prog, queueLock, writeWaiters>>

Handoff(t) ==
  /\ pc[t] \in {"runlock", "unlock"}
  /\ queueLock = NoTask
  /\ PassToWriter(t) \/ PassToReaders(t)

Granted(u) == IF pc[u] = "rwait" THEN "reading" ELSE "writing"

WakeWaiter(t) ==
  /\ pc[t] = "wake"
  /\ WakeFirst(t, Granted(Head(toWake[t])), "idle")
  /\ UNCHANGED rwVars

RWStep(t) ==
  \/ RLock(t) \/ WLock(t)
  \/ RPublish(t) \/ WPublish(t) \/ RPush(t) \/ WPush(t)
  \/ RUnlock(t) \/ WUnlock(t) \/ Handoff(t) \/ WakeWaiter(t)

RWNext == \E t \in Task : RWStep(t)
rwSpecVars == <<taskVars, rwVars>>
RWSpec == TasksInit /\ RWInit /\ [][RWNext]_rwSpecVars

-----------------------------------------------------------------------------
Waking == UNION {ToSet(toWake[t]) : t \in Task}
Readers == At("reading") \cup (Waking \cap At("rwait"))
Writers == At("writing") \cup (Waking \cap At("wwait"))

(* A writer excludes everybody else: the word counts exactly the readers    *)
(* that hold the lock or were handed it, its writer bit stands for exactly  *)
(* one such writer, and the two never meet.  The writer that is unlocking   *)
(* through the queue still owns its bit.                                    *)
(* Nobody is left behind in a list: whoever waits is announced by the       *)
(* pending bit, so no unlock takes its lock-free way past them; and a       *)
(* pending bit that no writer will clear has a queued writer behind it, or  *)
(* one being queued under mutex_, and a reader that will hand over when it  *)
(* leaves, or is doing so: the branch of runlock that takes back a pending  *)
(* bit without its waiter is never needed.                                  *)
RWMutexSound ==
  /\ state.readers = Cardinality(Readers)
  /\ Cardinality(Writers \cup At("unlock")) = IF state.writer THEN 1 ELSE 0
  /\ state.writer => state.readers = 0
  /\ readWaiters # <<>> \/ writeWaiters # <<>> => state.pending
  /\ state.pending /\ ~state.writer =>
       /\ writeWaiters # <<>> \/ At("wpush") # {}
       /\ Readers \cup At("runlock") # {}

(* Writer preference: once a writer is queued no reader gets in, so that a  *)
(* steady stream of readers cannot starve it.                               *)
WriterPreferred ==
  [][writeWaiters # <<>> => state'.readers <= state.readers]_rwSpecVars
=============================================================================
