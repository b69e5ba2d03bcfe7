---------------------------- MODULE MutexProofs -----------------------------
(***************************************************************************)
(* Mutual exclusion and the order of hand-over of Mutex, for any number of  *)
(* tasks and any programs of locks, try_locks and uses of a Cond.           *)
(***************************************************************************)
EXTENDS Mutex, FiniteSetTheorems, TLAPS

Labels == {"idle", "locked", "publish", "relock", "claim", "enqueue", "parked", "release",
           "contended", "handoff", "recv", "notify", "close"}
MutexOps == {"mutex", "try_mutex", "consume", "resting", "signal", "broadcast"}

(* Owners, task by task.                                                    *)
Holds(t) ==
  \/ pc[t] \in {"locked", "release", "contended"}
  \/ pc[t] \in {"notify", "close"} /\ op[t] = "broadcast"
Handed(t) == \E u \in Task : pc[u] = "handoff" /\ toWake[u] = <<t>>
Owns(t) == Holds(t) \/ Handed(t)

MutexTypes ==
  /\ pc \in [Task -> Labels]
  /\ op \in [Task -> MutexOps \cup {"none"}]
  /\ toWake = [t \in Task |-> toWake[t]]
  /\ bits \in SUBSET {"locked", "contended"}
  /\ spin \in Task \cup {NoTask}
  /\ queue \in Seq(Task)
  /\ \A t \in Task : pc[t] # "idle" => op[t] \in MutexOps
  /\ \A t \in Task : pc[t] \in {"notify", "close"} => op[t] \in {"signal", "broadcast"}

OneOwner ==
  /\ \A t, u \in Task : Owns(t) /\ Owns(u) => t = u
  /\ "locked" \in bits <=> \E t \in Task : Owns(t)

(* Who holds the spin lock, and what the word says meanwhile.               *)
SpinInPlace ==
  /\ \A t \in Task : pc[t] \in {"claim", "enqueue"} <=> spin = t
  /\ \A t \in Task : pc[t] = "claim" => bits = {"contended"}
  /\ \A t \in Task : pc[t] = "enqueue" => bits = {"locked", "contended"}
  /\ bits = {"contended"} => \E t \in Task : pc[t] = "claim"

QueueInPlace ==
  /\ queue # <<>> => bits = {"locked", "contended"}
  /\ \A i \in 1 .. Len(queue) : pc[queue[i]] = "parked" /\ ~Handed(queue[i])
  /\ \A i, j \in 1 .. Len(queue) : queue[i] = queue[j] => i = j

(* One hand-over at a time, to a task that is parked.                       *)
HandoverInPlace ==
  /\ \A t \in Task : pc[t] = "handoff" =>
       \E u \in Task : toWake[t] = <<u>> /\ pc[u] = "parked"
  /\ \A t, u \in Task : pc[t] = "handoff" /\ pc[u] = "handoff" => t = u

MutexInv == MutexTypes /\ OneOwner /\ SpinInPlace /\ QueueInPlace /\ HandoverInPlace

-----------------------------------------------------------------------------
(* The invariant implies exclusion as the runs check it: Owners is the set  *)
(* of the tasks that own the mutex, and has one member or none.             *)
OwnersNamed == Owners = {t \in Task : Owns(t)}

(* The set of owners that the properties name is that of the tasks that own.*)
LEMMA OwnersAreOwns ==
  ASSUME MutexInv
  PROVE  OwnersNamed
<1>1. HandedTo = {t \in Task : Handed(t)}
  <2>1. ASSUME NEW x \in HandedTo PROVE x \in Task /\ Handed(x)
    <3>1. PICK u \in Task : pc[u] = "handoff" /\ x \in ToSet(toWake[u])
      BY <2>1, Zenon DEF HandedTo, At
    <3>2. PICK v \in Task : toWake[u] = <<v>>
      BY <3>1, Zenon DEF MutexInv, HandoverInPlace
    <3>3. x = v
      BY <3>1, <3>2 DEF ToSet
    <3> QED BY <3>1, <3>2, <3>3, Zenon DEF Handed
  <2>2. ASSUME NEW x \in Task, Handed(x) PROVE x \in HandedTo
    <3>1. PICK u \in Task : pc[u] = "handoff" /\ toWake[u] = <<x>>
      BY <2>2, Zenon DEF Handed
    <3>2. x \in ToSet(toWake[u])
      BY <3>1 DEF ToSet
    <3> QED BY <3>1, <3>2, Zenon DEF HandedTo, At
  <2> QED BY <2>1, <2>2, Zenon
<1>2. \A t \in Task : pc[t] # "idle" => op[t] \in MutexOps
  BY Zenon DEF MutexInv, MutexTypes
<1>3. \A l : l # "idle" => InMutex(l) = At(l)
  BY <1>2, Zenon DEF InMutex, At, MutexOps
<1>4. /\ InMutex("locked") = At("locked") /\ InMutex("release") = At("release")
      /\ InMutex("contended") = At("contended") /\ InMutex("notify") = At("notify")
      /\ InMutex("close") = At("close")
  BY <1>3
<1>5. Owners = At("locked") \cup At("release") \cup At("contended")
               \cup {t \in At("notify") \cup At("close") : op[t] = "broadcast"}
               \cup {t \in Task : Handed(t)}
  BY <1>1, <1>4, Zenon DEF Owners
<1> QED BY <1>5, Zenon DEF OwnersNamed, At, Owns, Holds

(* One owner or none is what MutexExclusion counts.                         *)
LEMMA InvImpliesExclusion == MutexInv => MutexExclusion
<1> SUFFICES ASSUME MutexInv PROVE MutexExclusion
  OBVIOUS
<1>1. Owners = {t \in Task : Owns(t)}
  BY OwnersAreOwns, Zenon DEF OwnersNamed
<1>2. Cardinality(Owners) = IF "locked" \in bits THEN 1 ELSE 0
  <2>1. CASE "locked" \in bits
    <3>1. PICK t \in Task : Owns(t)
      BY <2>1, Zenon DEF MutexInv, OneOwner
    <3>2. Owners = {t}
      BY <1>1, <3>1, Zenon DEF MutexInv, OneOwner
    <3> QED BY <2>1, <3>2, FS_Singleton, Zenon
  <2>2. CASE "locked" \notin bits
    <3>1. Owners = {}
      BY <1>1, <2>2, Zenon DEF MutexInv, OneOwner
    <3> QED BY <2>2, <3>1, FS_EmptySet, Zenon
  <2> QED BY <2>1, <2>2, Zenon
<1>3. bits = {"contended"} <=> At("claim") # {}
  BY Zenon DEF MutexInv, SpinInPlace, At
<1>4. queue # <<>> => bits = {"locked", "contended"}
  BY Zenon DEF MutexInv, QueueInPlace
<1> QED BY <1>2, <1>3, <1>4, Zenon DEF MutexExclusion
-----------------------------------------------------------------------------
(* What a step of t leaves alone.                                           *)
OthersKeep(t) ==
  \A u \in Task \ {t} : pc'[u] = pc[u] /\ op'[u] = op[u] /\ toWake'[u] = toWake[u]

(* Ownership passes to the head of the queue alone.                         *)
InOrder == queue # <<>> => \A v \in Task : Owns(v)' => Owns(v) \/ v = Head(queue)

(* A step of a task outside a hand-over makes and ends none.                *)
LEMMA HandedKept ==
  ASSUME NEW t \in Task, OthersKeep(t), pc[t] # "handoff", pc'[t] # "handoff"
  PROVE  \A v \in Task : Handed(v)' <=> Handed(v)
BY Zenon DEF OthersKeep, Handed

(* Nor does it make or end anybody else's ownership.                        *)
LEMMA OwnsKept ==
  ASSUME NEW t \in Task, OthersKeep(t), pc[t] # "handoff", pc'[t] # "handoff"
  PROVE  \A v \in Task \ {t} : Owns(v)' <=> Owns(v)
<1>1. \A v \in Task : Handed(v)' <=> Handed(v)
  BY HandedKept
<1> QED BY <1>1, Zenon DEF OthersKeep, Owns, Holds

(* No hand-over names t unless t is parked.                                 *)
LEMMA HandedIsParked ==
  ASSUME MutexInv, NEW t \in Task, pc[t] # "parked"
  PROVE  ~Handed(t)
<1> SUFFICES ASSUME Handed(t) PROVE FALSE
  OBVIOUS
<1>1. PICK u \in Task : pc[u] = "handoff" /\ toWake[u] = <<t>>
  BY Zenon DEF Handed
<1>2. PICK v \in Task : toWake[u] = <<v>> /\ pc[v] = "parked"
  BY <1>1, Zenon DEF MutexInv, HandoverInPlace
<1>3. v = t
  BY <1>1, <1>2
<1> QED BY <1>2, <1>3, Zenon

(* The hand-over survives a step of a task that has no part in it.          *)
LEMMA HandoverKept ==
  ASSUME MutexInv, NEW t \in Task, OthersKeep(t), pc[t] \notin {"handoff", "parked"},
         pc'[t] # "handoff"
  PROVE  HandoverInPlace'
<1>1. ASSUME NEW u \in Task, pc'[u] = "handoff"
      PROVE  \E v \in Task : toWake'[u] = <<v>> /\ pc'[v] = "parked"
  <2>1. u # t /\ pc[u] = "handoff" /\ toWake'[u] = toWake[u]
    BY <1>1, Zenon DEF OthersKeep
  <2>2. PICK v \in Task : toWake[u] = <<v>> /\ pc[v] = "parked"
    BY <2>1, Zenon DEF MutexInv, HandoverInPlace
  <2>3. v # t
    BY <2>2, Zenon
  <2> QED BY <2>1, <2>2, <2>3, Zenon DEF OthersKeep
<1>2. \A u, w \in Task : pc'[u] = "handoff" /\ pc'[w] = "handoff" => u = w
  BY Zenon DEF OthersKeep, MutexInv, HandoverInPlace
<1> QED BY <1>1, <1>2, Zenon DEF HandoverInPlace

(* So does the queue.                                                       *)
LEMMA QueueKept ==
  ASSUME MutexInv, NEW t \in Task, OthersKeep(t), pc[t] \notin {"handoff", "parked"},
         pc'[t] # "handoff", queue' = queue, queue # <<>> => bits' = {"locked", "contended"}
  PROVE  QueueInPlace'
<1>1. \A v \in Task : Handed(v)' <=> Handed(v)
  BY HandedKept, Zenon
<1>2. ASSUME NEW i \in 1 .. Len(queue)
      PROVE  pc'[queue[i]] = "parked" /\ ~Handed(queue[i])'
  <2>1. queue[i] \in Task
    BY <1>2 DEF MutexInv, MutexTypes
  <2>2. pc[queue[i]] = "parked" /\ ~Handed(queue[i])
    BY <1>2, Zenon DEF MutexInv, QueueInPlace
  <2>3. queue[i] # t
    BY <2>2, Zenon
  <2>4. Handed(queue[i])' <=> (\E u \in Task : pc'[u] = "handoff" /\ toWake'[u] = <<queue[i]>>)
    BY Zenon DEF Handed
  <2> QED BY <1>1, <2>1, <2>2, <2>3, <2>4, Zenon DEF OthersKeep, Handed
<1>3. \A i, j \in 1 .. Len(queue) : queue[i] = queue[j] => i = j
  BY Zenon DEF MutexInv, QueueInPlace
<1> QED BY <1>2, <1>3, Zenon DEF QueueInPlace

Elsewhere == {"claim", "enqueue", "parked", "handoff"}

(* A step that leaves the mutex alone.                                      *)
LEMMA QuietStep ==
  ASSUME MutexInv, NEW t \in Task, OthersKeep(t), MutexTypes',
         pc[t] \notin Elsewhere, pc'[t] \notin Elsewhere,
         Holds(t)' <=> Holds(t), UNCHANGED <<bits, spin, queue>>
  PROVE  MutexInv' /\ InOrder
<1>1. \A v \in Task : Owns(v)' <=> Owns(v)
  <2>1. \A v \in Task \ {t} : Owns(v)' <=> Owns(v)
    BY OwnsKept, Zenon DEF Elsewhere
  <2>2. Handed(t)' <=> Handed(t)
    BY HandedKept, Zenon DEF Elsewhere
  <2> QED BY <2>1, <2>2, Zenon DEF Owns
<1>2. OneOwner'
  BY <1>1, Zenon DEF MutexInv, OneOwner
<1>3. SpinInPlace'
  <2>1. \A u \in Task : pc'[u] \in {"claim", "enqueue"} <=> pc[u] \in {"claim", "enqueue"}
    BY Zenon DEF OthersKeep, Elsewhere
  <2>2. \A u \in Task : (pc'[u] = "claim" <=> pc[u] = "claim")
                        /\ (pc'[u] = "enqueue" <=> pc[u] = "enqueue")
    BY Zenon DEF OthersKeep, Elsewhere
  <2>3. /\ \A u \in Task : pc[u] \in {"claim", "enqueue"} <=> spin = u
        /\ \A u \in Task : pc[u] = "claim" => bits = {"contended"}
        /\ \A u \in Task : pc[u] = "enqueue" => bits = {"locked", "contended"}
        /\ bits = {"contended"} => \E u \in Task : pc[u] = "claim"
    BY Zenon DEF MutexInv, SpinInPlace
  <2>4. bits' = bits /\ spin' = spin
    OBVIOUS
  <2>5. \A u \in Task : pc'[u] \in {"claim", "enqueue"} <=> spin' = u
    BY <2>1, <2>3, <2>4, Zenon
  <2>6. \A u \in Task : pc'[u] = "claim" => bits' = {"contended"}
    BY <2>2, <2>3, <2>4, Zenon
  <2>7. \A u \in Task : pc'[u] = "enqueue" => bits' = {"locked", "contended"}
    BY <2>2, <2>3, <2>4, Zenon
  <2>8. bits' = {"contended"} => \E u \in Task : pc'[u] = "claim"
    BY <2>2, <2>3, <2>4, Zenon
  <2> QED BY <2>5, <2>6, <2>7, <2>8, Zenon DEF SpinInPlace
<1>4. QueueInPlace'
  <2>1. queue # <<>> => bits' = {"locked", "contended"}
    BY Zenon DEF MutexInv, QueueInPlace
  <2> QED BY <2>1, QueueKept, Zenon DEF Elsewhere
<1>5. HandoverInPlace'
  BY HandoverKept, Zenon DEF Elsewhere
<1>6. InOrder
  BY <1>1, Zenon DEF InOrder
<1> QED BY <1>2, <1>3, <1>4, <1>5, <1>6, Zenon DEF MutexInv

(* A step by which t gets the mutex, which nobody owns and nobody queues    *)
(* for, with or without the spin lock.                                      *)
LEMMA AcquireStep ==
  ASSUME MutexInv, NEW t \in Task, OthersKeep(t), MutexTypes',
         pc[t] \notin {"parked", "handoff", "enqueue"}, pc'[t] = "locked",
         "locked" \notin bits, "locked" \in bits', queue' = queue,
         IF pc[t] = "claim" THEN spin' = NoTask ELSE spin' = spin /\ bits = {}
  PROVE  MutexInv' /\ InOrder
<1>1. \A v \in Task : Owns(v)' <=> v = t
  <2>1. \A v \in Task \ {t} : Owns(v)' <=> Owns(v)
    BY OwnsKept, Zenon
  <2>2. \A v \in Task : ~Owns(v)
    BY Zenon DEF MutexInv, OneOwner
  <2> QED BY <2>1, <2>2, Zenon DEF Owns, Holds
<1>2. OneOwner'
  BY <1>1, Zenon DEF OneOwner
<1>3. \A u \in Task : pc'[u] \notin {"claim", "enqueue"} /\ spin' # u
  <2>1. CASE pc[t] = "claim"
    <3>1. spin = t
      BY <2>1, Zenon DEF MutexInv, SpinInPlace
    <3>2. \A u \in Task \ {t} : pc[u] \notin {"claim", "enqueue"}
      BY <3>1, Zenon DEF MutexInv, SpinInPlace
    <3>3. \A u \in Task : NoTask # u
      BY NoTaskAssumption, Zenon
    <3> QED BY <2>1, <3>2, <3>3, Zenon DEF OthersKeep
  <2>2. CASE pc[t] # "claim"
    <3>1. bits # {"contended"} /\ bits # {"locked", "contended"}
      BY <2>2
    <3>2. \A u \in Task : pc[u] \notin {"claim", "enqueue"}
      BY <3>1, Zenon DEF MutexInv, SpinInPlace
    <3>3. \A u \in Task : spin # u
      BY <3>2, Zenon DEF MutexInv, SpinInPlace
    <3> QED BY <2>2, <3>2, <3>3, Zenon DEF OthersKeep
  <2> QED BY <2>1, <2>2, Zenon
<1>4. SpinInPlace'
  <2>1. bits' # {"contended"}
    OBVIOUS
  <2> QED BY <1>3, <2>1, Zenon DEF SpinInPlace
<1>5. queue = <<>>
  BY Zenon DEF MutexInv, QueueInPlace
<1>6. QueueInPlace'
  BY <1>5, QueueKept, Zenon
<1>7. HandoverInPlace'
  BY HandoverKept, Zenon
<1> QED BY <1>2, <1>4, <1>5, <1>6, <1>7, Zenon DEF MutexInv, InOrder

(* A step by which the owner t gives the mutex up, nobody being queued or   *)
(* about to be.                                                             *)
LEMMA ReleaseStep ==
  ASSUME MutexInv, NEW t \in Task, OthersKeep(t), MutexTypes', Holds(t),
         pc'[t] \in {"idle", "recv", "notify"}, ~Holds(t)', bits' = {}, spin' = spin,
         queue = <<>>, queue' = queue, \A u \in Task : pc[u] # "enqueue"
  PROVE  MutexInv' /\ InOrder
<1>1. pc[t] \notin {"handoff", "parked", "claim", "enqueue"}
  BY Zenon DEF Holds
<1>2. "locked" \in bits
  BY Zenon DEF MutexInv, OneOwner, Owns
<1>3. \A v \in Task : ~Owns(v)'
  <2>1. \A v \in Task \ {t} : Owns(v)' <=> Owns(v)
    BY <1>1, OwnsKept, Zenon
  <2>2. \A v \in Task \ {t} : ~Owns(v)
    BY Zenon DEF MutexInv, OneOwner, Owns
  <2>3. ~Handed(t)'
    BY <1>1, HandedKept, HandedIsParked, Zenon
  <2> QED BY <2>1, <2>2, <2>3, Zenon DEF Owns
<1>4. OneOwner'
  BY <1>3, Zenon DEF OneOwner
<1>5. SpinInPlace'
  <2>1. bits # {"contended"}
    BY <1>2
  <2>2. \A u \in Task : pc[u] \notin {"claim", "enqueue"} /\ spin # u
    BY <2>1, Zenon DEF MutexInv, SpinInPlace
  <2>3. \A u \in Task : pc'[u] \notin {"claim", "enqueue"}
    BY <2>2, Zenon DEF OthersKeep
  <2>4. bits' # {"contended"}
    OBVIOUS
  <2> QED BY <2>2, <2>3, <2>4, Zenon DEF SpinInPlace
<1>6. QueueInPlace'
  BY <1>1, QueueKept, Zenon
<1>7. HandoverInPlace'
  BY <1>1, HandoverKept, Zenon
<1> QED BY <1>4, <1>5, <1>6, <1>7, Zenon DEF MutexInv, InOrder

-----------------------------------------------------------------------------
(* One lemma per operation.  A lock is taken only when the word is zero.    *)
LEMMA LockKeeps ==
  ASSUME MutexInv, NEW t \in Task, Lock(t)
  PROVE  MutexInv' /\ InOrder
<1> USE DEF MutexInv
<1>1. /\ pc[t] \in {"idle", "relock"}
      /\ pc' = [pc EXCEPT ![t] = pc'[t]]
      /\ toWake' = toWake
      /\ \/ op' = op /\ pc[t] = "relock"
         \/ \E o \in MutexOps : op' = [op EXCEPT ![t] = o]
      /\ spin' = spin /\ queue' = queue
  BY SMTT(30) DEF Lock, BeginLock, Begin, Only, Goto, MutexTypes, MutexOps
<1>2. IF Available THEN pc'[t] = "locked" /\ bits' = {"locked"}
                   ELSE pc'[t] \in {"publish", "idle"} /\ bits' = bits
  BY SMTT(30) DEF Lock, BeginLock, Begin, Only, Goto, MutexTypes
<1>3. OthersKeep(t)
  BY <1>1 DEF OthersKeep, MutexTypes
<1>4. MutexTypes'
  BY <1>1, <1>2, SMTT(30) DEF MutexTypes, Labels, MutexOps
<1>5. CASE Available
  BY <1>1, <1>2, <1>3, <1>4, <1>5, AcquireStep DEF Available
<1>6. CASE ~Available
  <2>1. ~Holds(t) /\ ~Holds(t)'
    BY <1>1, <1>2, <1>6, Zenon DEF Holds
  <2> QED BY <1>1, <1>2, <1>3, <1>4, <1>6, <2>1, QuietStep DEF Elsewhere
<1> QED BY <1>5, <1>6, Zenon

(* The spin lock comes with the contended bit, alone or beside the owner's. *)
LEMMA PublishKeeps ==
  ASSUME MutexInv, NEW t \in Task, Publish(t)
  PROVE  MutexInv' /\ InOrder
<1>1. /\ pc[t] = "publish" /\ spin = NoTask /\ spin' = t
      /\ bits' = bits \cup {"contended"} /\ queue' = queue
      /\ pc' = [pc EXCEPT ![t] = IF "locked" \in bits THEN "enqueue" ELSE "claim"]
      /\ op' = op /\ toWake' = toWake
  BY Zenon DEF Publish, Only, Goto
<1>2. OthersKeep(t) /\ MutexTypes'
  BY <1>1, SMTT(30) DEF OthersKeep, MutexInv, MutexTypes, Labels
<1>3. pc'[t] = IF "locked" \in bits THEN "enqueue" ELSE "claim"
  BY <1>1 DEF MutexInv, MutexTypes
<1>4. \A u \in Task : spin # u /\ pc[u] \notin {"claim", "enqueue"}
  BY <1>1, NoTaskAssumption, Zenon DEF MutexInv, SpinInPlace
<1>5. bits # {"contended"} /\ bits \in SUBSET {"locked", "contended"}
  BY <1>4, Zenon DEF MutexInv, SpinInPlace, MutexTypes
<1>6. bits' = IF "locked" \in bits THEN {"locked", "contended"} ELSE {"contended"}
  BY <1>1, <1>5
<1>7. \A v \in Task : Owns(v)' <=> Owns(v)
  <2>1. \A v \in Task \ {t} : Owns(v)' <=> Owns(v)
    BY <1>1, <1>2, <1>3, OwnsKept
  <2>2. Handed(t)' <=> Handed(t)
    BY <1>1, <1>2, <1>3, HandedKept
  <2>3. ~Holds(t) /\ ~Holds(t)'
    BY <1>1, <1>3 DEF Holds
  <2> QED BY <2>1, <2>2, <2>3, Zenon DEF Owns
<1>8. OneOwner'
  <2>1. "locked" \in bits' <=> "locked" \in bits
    BY <1>6
  <2> QED BY <1>7, <2>1, Zenon DEF MutexInv, OneOwner
<1>9. SpinInPlace'
  <2>1. \A u \in Task : pc'[u] \in {"claim", "enqueue"} <=> u = t
    BY <1>2, <1>3, <1>4, Zenon DEF OthersKeep
  <2>2. \A u \in Task : pc'[u] = "claim" => bits' = {"contended"}
    BY <1>3, <1>6, <2>1
  <2>3. \A u \in Task : pc'[u] = "enqueue" => bits' = {"locked", "contended"}
    BY <1>3, <1>6, <2>1
  <2>4. bits' = {"contended"} => pc'[t] = "claim"
    BY <1>3, <1>6
  <2> QED BY <1>1, <2>1, <2>2, <2>3, <2>4, Zenon DEF SpinInPlace
<1>10. QueueInPlace'
  <2>1. queue # <<>> => bits' = {"locked", "contended"}
    BY <1>6 DEF MutexInv, QueueInPlace
  <2> QED BY <1>1, <1>2, <1>3, <2>1, QueueKept
<1>11. HandoverInPlace'
  BY <1>1, <1>2, <1>3, HandoverKept
<1>12. InOrder
  BY <1>7, Zenon DEF InOrder
<1> QED BY <1>2, <1>8, <1>9, <1>10, <1>11, <1>12, Zenon DEF MutexInv

(* A lock released before its waiter has queued is claimed by it.           *)
LEMMA ClaimKeeps ==
  ASSUME MutexInv, NEW t \in Task, Claim(t)
  PROVE  MutexInv' /\ InOrder
<1>1. /\ pc[t] = "claim" /\ spin' = NoTask /\ bits' = {"locked", "contended"}
      /\ queue' = queue /\ pc' = [pc EXCEPT ![t] = "locked"] /\ op' = op /\ toWake' = toWake
  BY Zenon DEF Claim, Only, Goto
<1>2. bits = {"contended"}
  BY <1>1, Zenon DEF MutexInv, SpinInPlace
<1>3. OthersKeep(t) /\ MutexTypes' /\ pc'[t] = "locked"
  BY <1>1, SMTT(30) DEF OthersKeep, MutexInv, MutexTypes, Labels
<1> QED BY <1>1, <1>2, <1>3, AcquireStep

(* A waiter is queued behind the others.                                    *)
LEMMA EnqueueKeeps ==
  ASSUME MutexInv, NEW t \in Task, Enqueue(t)
  PROVE  MutexInv' /\ InOrder
<1>1. /\ pc[t] = "enqueue" /\ spin' = NoTask /\ bits' = bits /\ queue' = Append(queue, t)
      /\ pc' = [pc EXCEPT ![t] = "parked"] /\ op' = op /\ toWake' = toWake
  BY Zenon DEF Enqueue, Only, Goto
<1>2. spin = t /\ bits = {"locked", "contended"}
  BY <1>1, Zenon DEF MutexInv, SpinInPlace
<1>3. OthersKeep(t) /\ MutexTypes' /\ pc'[t] = "parked"
  BY <1>1, SMTT(30) DEF OthersKeep, MutexInv, MutexTypes, Labels
<1>4. \A v \in Task : Handed(v)' <=> Handed(v)
  BY <1>1, <1>3, HandedKept
<1>5. OneOwner' /\ InOrder
  <2>1. \A v \in Task \ {t} : Owns(v)' <=> Owns(v)
    BY <1>1, <1>3, OwnsKept
  <2>2. ~Holds(t) /\ ~Holds(t)'
    BY <1>1, <1>3 DEF Holds
  <2>3. \A v \in Task : Owns(v)' <=> Owns(v)
    BY <1>4, <2>1, <2>2, Zenon DEF Owns
  <2>4. InOrder
    BY <2>3, Zenon DEF InOrder
  <2> QED BY <1>1, <2>3, <2>4, Zenon DEF MutexInv, OneOwner
<1>6. SpinInPlace'
  <2>1. \A u \in Task \ {t} : pc[u] \notin {"claim", "enqueue"}
    BY <1>2, Zenon DEF MutexInv, SpinInPlace
  <2>2. \A u \in Task : pc'[u] \notin {"claim", "enqueue"}
    BY <1>3, <2>1, Zenon DEF OthersKeep
  <2>3. \A u \in Task : spin' # u
    BY <1>1, NoTaskAssumption, Zenon
  <2>4. bits' # {"contended"}
    BY <1>1, <1>2
  <2> QED BY <2>2, <2>3, <2>4, Zenon DEF SpinInPlace
<1>7. QueueInPlace'
  <2>1. /\ queue \in Seq(Task)
        /\ \A i \in 1 .. Len(queue) : queue[i] \in Task /\ pc[queue[i]] = "parked" /\ ~Handed(queue[i])
        /\ \A i, j \in 1 .. Len(queue) : queue[i] = queue[j] => i = j
    BY DEF MutexInv, QueueInPlace, MutexTypes
  <2>2. \A i \in 1 .. Len(queue) : queue[i] # t
    BY <1>1, <2>1
  <2>3. /\ Len(queue') = Len(queue) + 1 /\ Len(queue) \in Nat
        /\ queue'[Len(queue) + 1] = t
        /\ \A i \in 1 .. Len(queue) : queue'[i] = queue[i]
    BY <1>1, <2>1
  <2>4. \A i, j \in 1 .. Len(queue') : queue'[i] = queue'[j] => i = j
    BY <2>1, <2>2, <2>3, SMTT(30)
  <2>5. ~Handed(t)'
    BY <1>1, <1>4, HandedIsParked
  <2>6. ASSUME NEW v \in Task, v = t \/ (pc[v] = "parked" /\ ~Handed(v))
        PROVE  pc'[v] = "parked" /\ ~Handed(v)'
    BY <1>3, <1>4, <2>5, <2>6, Zenon DEF OthersKeep
  <2>7. ASSUME NEW i \in 1 .. Len(queue')
        PROVE  \/ queue'[i] = t
               \/ /\ queue'[i] \in Task /\ pc[queue'[i]] = "parked"
                  /\ ~(\E u \in Task : pc[u] = "handoff" /\ toWake[u] = <<queue'[i]>>)
    BY <2>1, <2>3, SMTT(30) DEF Handed
  <2>8. \A i \in 1 .. Len(queue') : pc'[queue'[i]] = "parked" /\ ~Handed(queue[i])'
    BY <2>6, <2>7, Zenon DEF Handed
  <2>9. bits' = {"locked", "contended"}
    BY <1>1, <1>2
  <2> QED BY <2>4, <2>8, <2>9, Zenon DEF QueueInPlace
<1>8. HandoverInPlace'
  BY <1>1, <1>3, HandoverKept
<1> QED BY <1>3, <1>5, <1>6, <1>7, <1>8, Zenon DEF MutexInv

(* Where a task goes from the mutex, it does not hold it.                   *)
LEMMA AfterUnlockOutside ==
  ASSUME NEW t \in Task
  PROVE  /\ AfterUnlock(t) \in {"idle", "recv", "notify"}
         /\ AfterUnlock(t) = "notify" => op[t] = "signal"
BY DEF AfterUnlock

(* The fast way out is open only when nobody waits.                         *)
LEMMA UnlockKeeps ==
  ASSUME MutexInv, NEW t \in Task, Unlock(t)
  PROVE  MutexInv' /\ InOrder
<1> DEFINE fast == t \notin tagged /\ bits = {"locked"}
<1>1. /\ pc[t] = "release" /\ bits' = IF fast THEN {} ELSE bits
      /\ pc' = [pc EXCEPT ![t] = IF fast THEN AfterUnlock(t) ELSE "contended"]
      /\ op' = op /\ toWake' = toWake /\ spin' = spin /\ queue' = queue
  BY Zenon DEF Unlock, Only, Goto
<1>2. pc'[t] = IF fast THEN AfterUnlock(t) ELSE "contended"
  BY <1>1 DEF MutexInv, MutexTypes
<1>3. OthersKeep(t) /\ MutexTypes'
  BY <1>1, AfterUnlockOutside, SMTT(30) DEF OthersKeep, MutexInv, MutexTypes, Labels
<1>4. CASE fast
  <2>1. ~Holds(t)'
    BY <1>1, <1>2, <1>4, AfterUnlockOutside DEF Holds
  <2>2. queue = <<>> /\ \A u \in Task : pc[u] # "enqueue"
    BY <1>4 DEF MutexInv, QueueInPlace, SpinInPlace
  <2> QED BY <1>1, <1>2, <1>3, <1>4, <2>1, <2>2, AfterUnlockOutside, ReleaseStep DEF Holds
<1>5. CASE ~fast
  <2>1. Holds(t) /\ Holds(t)'
    BY <1>1, <1>2, <1>5 DEF Holds
  <2> QED BY <1>1, <1>2, <1>3, <1>5, <2>1, QuietStep DEF Elsewhere
<1> QED BY <1>4, <1>5, Zenon

(* The owner gives up the mutex, or passes it on to the first in the queue. *)
LEMMA UnlockContendedKeeps ==
  ASSUME MutexInv, NEW t \in Task, UnlockContended(t)
  PROVE  MutexInv' /\ InOrder
<1>1. /\ pc[t] = "contended" /\ spin = NoTask /\ spin' = spin /\ op' = op
      /\ bits' = IF queue = <<>> THEN {} ELSE bits
      /\ queue' = IF queue = <<>> THEN queue ELSE Tail(queue)
      /\ toWake' = [toWake EXCEPT ![t] = IF queue = <<>> THEN <<>> ELSE <<Head(queue)>>]
      /\ pc' = [pc EXCEPT ![t] = IF queue = <<>> THEN AfterUnlock(t) ELSE "handoff"]
  BY Zenon DEF UnlockContended, Goto
<1>2. /\ pc'[t] = IF queue = <<>> THEN AfterUnlock(t) ELSE "handoff"
      /\ toWake'[t] = IF queue = <<>> THEN <<>> ELSE <<Head(queue)>>
  BY <1>1 DEF MutexInv, MutexTypes
<1>3. OthersKeep(t)
  BY <1>1, SMTT(30) DEF OthersKeep, MutexInv, MutexTypes
<1>4. MutexTypes'
  <2>1. pc' \in [Task -> Labels] /\ toWake' = [u \in Task |-> toWake'[u]]
    BY <1>1, AfterUnlockOutside, SMTT(30) DEF MutexInv, MutexTypes, Labels
  <2>2. queue' \in Seq(Task) /\ bits' \in SUBSET {"locked", "contended"}
    BY <1>1 DEF MutexInv, MutexTypes
  <2>3. \A u \in Task : pc'[u] # "idle" => op'[u] \in MutexOps
    BY <1>1, <1>2, <1>3, Zenon DEF OthersKeep, MutexInv, MutexTypes
  <2>4. \A u \in Task : pc'[u] \in {"notify", "close"} => op'[u] \in {"signal", "broadcast"}
    BY <1>1, <1>2, <1>3, AfterUnlockOutside DEF OthersKeep, MutexInv, MutexTypes
  <2> QED BY <1>1, <2>1, <2>2, <2>3, <2>4, Zenon DEF MutexInv, MutexTypes
<1>5. \A u \in Task : spin # u /\ pc[u] \notin {"claim", "enqueue"}
  BY <1>1, NoTaskAssumption, Zenon DEF MutexInv, SpinInPlace
<1>6. CASE queue = <<>>
  <2>1. ~Holds(t)'
    BY <1>1, <1>2, <1>6, AfterUnlockOutside DEF Holds
  <2> QED BY <1>1, <1>2, <1>3, <1>4, <1>5, <1>6, <2>1, AfterUnlockOutside, ReleaseStep DEF Holds
<1>7. CASE queue # <<>>
  <2> DEFINE h == Head(queue)
  <2>1. /\ h \in Task /\ h = queue[1] /\ pc[h] = "parked" /\ ~Handed(h)
        /\ Len(queue) \in Nat /\ Len(queue') = Len(queue) - 1 /\ Len(queue) >= 1
        /\ \A i \in 1 .. Len(queue') : queue'[i] = queue[i + 1] /\ i + 1 \in 1 .. Len(queue)
        /\ \A i \in 1 .. Len(queue) : queue[i] \in Task
    <3>1. queue \in Seq(Task) /\ queue' = Tail(queue)
      BY <1>1, <1>7 DEF MutexInv, MutexTypes
    <3>2. /\ h \in Task /\ h = queue[1] /\ Len(queue) \in Nat /\ Len(queue) >= 1
          /\ Len(queue') = Len(queue) - 1
          /\ \A i \in 1 .. Len(queue') : queue'[i] = queue[i + 1] /\ i + 1 \in 1 .. Len(queue)
          /\ \A i \in 1 .. Len(queue) : queue[i] \in Task
      BY <1>7, <3>1, SMTT(30)
    <3>3. pc[queue[1]] = "parked" /\ ~Handed(queue[1])
      BY <3>2 DEF MutexInv, QueueInPlace
    <3> QED BY <3>2, <3>3
  <2>2. pc'[t] = "handoff" /\ toWake'[t] = <<h>> /\ bits' = bits /\ bits = {"locked", "contended"}
    BY <1>1, <1>2, <1>7 DEF MutexInv, QueueInPlace
  <2>3. h # t /\ pc'[h] = "parked"
    BY <1>1, <1>3, <2>1 DEF OthersKeep
  <2>4. \A u \in Task : pc[u] # "handoff"
    <3> SUFFICES ASSUME NEW u \in Task, pc[u] = "handoff" PROVE FALSE
      OBVIOUS
    <3>1. PICK v \in Task : toWake[u] = <<v>> /\ pc[v] = "parked"
      BY Zenon DEF MutexInv, HandoverInPlace
    <3>2. Owns(v) /\ Owns(t) /\ v # t
      BY <1>1, <3>1, Zenon DEF Owns, Holds, Handed
    <3> QED BY <3>2, Zenon DEF MutexInv, OneOwner
  <2>5. \A u \in Task : pc'[u] = "handoff" <=> u = t
    BY <1>3, <2>2, <2>4, Zenon DEF OthersKeep
  <2>6. \A v : Handed(v)' <=> v = h
    <3>1. \A v : Handed(v)' <=> toWake'[t] = <<v>>
      BY <2>5, Zenon DEF Handed
    <3>2. \A v : <<h>> = <<v>> <=> h = v
      OBVIOUS
    <3> QED BY <2>2, <3>1, <3>2, Zenon
  <2>7. OneOwner' /\ InOrder
    <3>1. \A v \in Task : Holds(v) => v = t
      BY <1>1, Zenon DEF MutexInv, OneOwner, Owns, Holds
    <3>2. \A v \in Task : ~Holds(v)'
      BY <1>3, <2>2, <3>1, Zenon DEF OthersKeep, Holds
    <3>3. \A v \in Task : Owns(v)' <=> v = h
      BY <2>6, <3>2, Zenon DEF Owns
    <3>4. "locked" \in bits'
      BY <2>2
    <3>5. InOrder
      BY <3>3, Zenon DEF InOrder
    <3> QED BY <2>1, <3>3, <3>4, <3>5, Zenon DEF OneOwner
  <2>8. SpinInPlace'
    <3>1. \A u \in Task : spin' # u /\ pc'[u] \notin {"claim", "enqueue"}
      BY <1>1, <1>3, <1>5, <2>2, Zenon DEF OthersKeep
    <3>2. bits' # {"contended"}
      BY <2>2
    <3> QED BY <3>1, <3>2, Zenon DEF SpinInPlace
  <2>9. QueueInPlace'
    <3>1. \A i, j \in 1 .. Len(queue) : queue[i] = queue[j] => i = j
      BY Zenon DEF MutexInv, QueueInPlace
    <3>2. \A i \in 1 .. Len(queue') : queue'[i] # h
      BY <2>1, <3>1, SMTT(30)
    <3>3. \A i, j \in 1 .. Len(queue') : queue'[i] = queue'[j] => i = j
      BY <2>1, <3>1, SMTT(30)
    <3>4. \A i \in 1 .. Len(queue) : pc[queue[i]] = "parked"
      BY Zenon DEF MutexInv, QueueInPlace
    <3>5. \A i \in 1 .. Len(queue') : pc[queue'[i]] = "parked" /\ queue'[i] \in Task
      BY <2>1, <3>4, SMTT(30)
    <3>6. \A i \in 1 .. Len(queue') : pc'[queue'[i]] = "parked" /\ ~Handed(queue[i])'
      BY <1>1, <1>3, <2>6, <3>2, <3>5, Zenon DEF OthersKeep
    <3> QED BY <2>2, <3>3, <3>6, Zenon DEF QueueInPlace
  <2>10. HandoverInPlace'
    BY <2>1, <2>2, <2>3, <2>5, Zenon DEF HandoverInPlace
  <2> QED BY <1>4, <2>7, <2>8, <2>9, <2>10, Zenon DEF MutexInv
<1> QED BY <1>6, <1>7, Zenon

(* The task that was handed the mutex goes on as its owner.                 *)
LEMMA WakeHandoffKeeps ==
  ASSUME MutexInv, NEW t \in Task, WakeHandoff(t)
  PROVE  MutexInv' /\ InOrder
<1>1. pc[t] = "handoff" /\ op' = op /\ UNCHANGED <<bits, spin, queue>>
  BY DEF WakeHandoff, WakeFirst, mutexVars, muVars
<1>2. PICK u \in Task : toWake[t] = <<u>> /\ pc[u] = "parked"
  BY <1>1, Zenon DEF MutexInv, HandoverInPlace
<1>3. Head(toWake[t]) = u /\ Len(toWake[t]) = 1 /\ u # t
  BY <1>1, <1>2
<1>4. pc' = [pc EXCEPT ![u] = "locked", ![t] = AfterUnlock(t)]
  BY <1>3 DEF WakeHandoff, WakeFirst
<1>5. /\ pc'[u] = "locked" /\ pc'[t] = AfterUnlock(t)
      /\ \A v \in Task \ {t, u} : pc'[v] = pc[v]
  BY <1>3, <1>4 DEF MutexInv, MutexTypes
<1>6. MutexTypes'
  <2>1. pc' \in [Task -> Labels]
    BY <1>4, AfterUnlockOutside, SMTT(30) DEF MutexInv, MutexTypes, Labels
  <2>2. toWake' = [v \in Task |-> toWake'[v]]
    BY DEF WakeHandoff, WakeFirst, MutexInv, MutexTypes
  <2>3. op[t] \in MutexOps /\ op[u] \in MutexOps
    BY <1>1, <1>2 DEF MutexInv, MutexTypes
  <2>4. \A v \in Task : pc'[v] # "idle" => op'[v] \in MutexOps
    BY <1>1, <1>5, <2>3, Zenon DEF MutexInv, MutexTypes
  <2>5. \A v \in Task : pc'[v] \in {"notify", "close"} => op'[v] \in {"signal", "broadcast"}
    BY <1>1, <1>5, AfterUnlockOutside DEF MutexInv, MutexTypes
  <2> QED BY <1>1, <2>1, <2>2, <2>4, <2>5 DEF MutexInv, MutexTypes
<1>7. \A v \in Task : pc'[v] # "handoff"
  <2>1. \A v \in Task : pc[v] = "handoff" => v = t
    BY <1>1, Zenon DEF MutexInv, HandoverInPlace
  <2>2. AfterUnlock(t) # "handoff"
    BY AfterUnlockOutside
  <2> QED BY <1>5, <2>1, <2>2
<1>8. \A v : ~Handed(v)'
  BY <1>7, Zenon DEF Handed
<1>9. OneOwner' /\ InOrder
  <2>1. \A v \in Task : Owns(v) <=> v = u
    BY <1>1, <1>2, Zenon DEF MutexInv, OneOwner, Owns, Handed
  <2>2. ~Holds(t)' /\ Holds(u)'
    BY <1>1, <1>5, AfterUnlockOutside DEF Holds
  <2>3. \A v \in Task \ {t, u} : Holds(v)' <=> Holds(v)
    BY <1>1, <1>5, Zenon DEF Holds
  <2>4. \A v \in Task : Owns(v)' <=> v = u
    BY <1>8, <2>1, <2>2, <2>3, Zenon DEF Owns
  <2>5. "locked" \in bits'
    BY <1>1, <2>1 DEF MutexInv, OneOwner
  <2>6. InOrder
    BY <2>1, <2>4, Zenon DEF InOrder
  <2> QED BY <2>4, <2>5, <2>6, Zenon DEF OneOwner
<1>10. SpinInPlace'
  <2>1. AfterUnlock(t) \notin {"claim", "enqueue"}
    BY AfterUnlockOutside
  <2>2. \A v \in Task : (pc'[v] = "claim" <=> pc[v] = "claim")
                        /\ (pc'[v] = "enqueue" <=> pc[v] = "enqueue")
    BY <1>1, <1>2, <1>5, <2>1
  <2>3. bits' = bits /\ spin' = spin
    BY <1>1
  <2>4. \A v \in Task : pc'[v] \in {"claim", "enqueue"} <=> spin' = v
    BY <2>2, <2>3, Zenon DEF MutexInv, SpinInPlace
  <2>5. \A v \in Task : pc'[v] = "claim" => bits' = {"contended"}
    BY <2>2, <2>3, Zenon DEF MutexInv, SpinInPlace
  <2>6. \A v \in Task : pc'[v] = "enqueue" => bits' = {"locked", "contended"}
    BY <2>2, <2>3, Zenon DEF MutexInv, SpinInPlace
  <2>7. bits' = {"contended"} => \E v \in Task : pc'[v] = "claim"
    BY <2>2, <2>3, Zenon DEF MutexInv, SpinInPlace
  <2> QED BY <2>4, <2>5, <2>6, <2>7, Zenon DEF SpinInPlace
<1>11. QueueInPlace'
  <2>1. queue' = queue /\ bits' = bits
    BY <1>1
  <2>2. \A i \in 1 .. Len(queue) : queue[i] \in Task
    BY DEF MutexInv, MutexTypes
  <2>3. Handed(u)
    BY <1>1, <1>2, Zenon DEF Handed
  <2>4. ASSUME NEW i \in 1 .. Len(queue)
        PROVE  pc'[queue[i]] = "parked" /\ ~Handed(queue[i])'
    <3>1. pc[queue[i]] = "parked" /\ ~Handed(queue[i])
      BY Zenon DEF MutexInv, QueueInPlace
    <3>2. queue[i] # u /\ queue[i] # t
      BY <1>1, <2>3, <3>1
    <3> QED BY <1>5, <1>8, <2>2, <3>1, <3>2, Zenon
  <2>5. \A i, j \in 1 .. Len(queue) : queue[i] = queue[j] => i = j
    BY Zenon DEF MutexInv, QueueInPlace
  <2>6. queue # <<>> => bits = {"locked", "contended"}
    BY Zenon DEF MutexInv, QueueInPlace
  <2> QED BY <2>1, <2>4, <2>5, <2>6, Zenon DEF QueueInPlace
<1>12. HandoverInPlace'
  BY <1>7, Zenon DEF HandoverInPlace
<1> QED BY <1>6, <1>9, <1>10, <1>11, <1>12, Zenon DEF MutexInv

(* The critical sections and the Cond never touch the mutex itself.         *)
LEMMA CriticalKeeps ==
  ASSUME MutexInv, NEW t \in Task, Critical(t) \/ Produce(t) \/ Wait(t) \/ Recv(t)
  PROVE  MutexInv' /\ InOrder
<1>1. /\ UNCHANGED <<bits, spin, queue>> /\ toWake' = toWake
      /\ pc' = [pc EXCEPT ![t] = pc'[t]]
      /\ \/ pc[t] = "locked" /\ pc'[t] = "release" /\ op' = op
         \/ pc[t] = "locked" /\ pc'[t] = "notify" /\ op' = op /\ op[t] = "broadcast"
         \/ pc[t] = "locked" /\ pc'[t] = "release" /\ op' = [op EXCEPT ![t] = "resting"]
         \/ pc[t] = "recv" /\ pc'[t] = "relock" /\ op' = [op EXCEPT ![t] = "consume"]
  BY SMTT(30) DEF Critical, Produce, Wait, Recv, Only, Goto, muVars, MutexInv, MutexTypes
<1>2. OthersKeep(t) /\ MutexTypes'
  BY <1>1, SMTT(30) DEF OthersKeep, MutexInv, MutexTypes, Labels, MutexOps
<1>3. Holds(t)' <=> Holds(t)
  BY <1>1, SMTT(30) DEF Holds, MutexInv, MutexTypes
<1> QED BY <1>1, <1>2, <1>3, QuietStep DEF Elsewhere

(* A broadcast goes on under the mutex, a signal without it.                *)
LEMMA NotifyKeeps ==
  ASSUME MutexInv, NEW t \in Task, Notify(t) \/ Close(t)
  PROVE  MutexInv' /\ InOrder
<1>1. op' = op /\ UNCHANGED <<bits, spin, queue>> /\ pc[t] \in {"notify", "close"}
  BY DEF Notify, Close, muVars
<1>2. \E w, l : /\ toWake' = [toWake EXCEPT ![t] = w]
                /\ pc' = [pc EXCEPT ![t] = l] /\ l \in {"close", AfterNotify(t)}
  <2>1. CASE Notify(t)
    <3> DEFINE n == IF op[t] = "signal" /\ sleepers # <<>> THEN 1 ELSE Len(sleepers)
               w == SubSeq(sleepers, 1, n)
               l == IF n = 0 THEN AfterNotify(t) ELSE "close"
    <3>1. toWake' = [toWake EXCEPT ![t] = w] /\ pc' = [pc EXCEPT ![t] = l]
      BY <2>1, Zenon DEF Notify, Goto
    <3>2. l \in {"close", AfterNotify(t)}
      BY Zenon
    <3> QED BY <3>1, <3>2, Zenon
  <2>2. CASE Close(t)
    <3> DEFINE l == IF Len(toWake[t]) = 1 THEN AfterNotify(t) ELSE "close"
    <3>1. toWake' = [toWake EXCEPT ![t] = Tail(toWake[t])] /\ pc' = [pc EXCEPT ![t] = l]
      BY <2>2, Zenon DEF Close, Goto
    <3>2. l \in {"close", AfterNotify(t)}
      BY Zenon
    <3> QED BY <3>1, <3>2, Zenon
  <2> QED BY <2>1, <2>2, Zenon
<1>3. op[t] \in {"signal", "broadcast"}
  BY <1>1 DEF MutexInv, MutexTypes
<1>4. PICK w, l : /\ toWake' = [toWake EXCEPT ![t] = w]
                  /\ pc' = [pc EXCEPT ![t] = l]
                  /\ l = "close" \/ l = IF op[t] = "signal" THEN "idle" ELSE "release"
  BY <1>2, Zenon DEF AfterNotify
<1>5. pc'[t] = l
  BY <1>4 DEF MutexInv, MutexTypes
<1>6. OthersKeep(t)
  BY <1>1, <1>4 DEF OthersKeep, MutexInv, MutexTypes
<1>7. MutexTypes'
  <2>1. pc' \in [Task -> Labels] /\ toWake' = [u \in Task |-> toWake'[u]]
    BY <1>4 DEF MutexInv, MutexTypes, Labels
  <2>2. \A u \in Task : pc'[u] # "idle" => op'[u] \in MutexOps
    BY <1>1, <1>3, <1>5, <1>6 DEF OthersKeep, MutexInv, MutexTypes, MutexOps
  <2>3. \A u \in Task : pc'[u] \in {"notify", "close"} => op'[u] \in {"signal", "broadcast"}
    BY <1>1, <1>3, <1>5, <1>6 DEF OthersKeep, MutexInv, MutexTypes
  <2> QED BY <1>1, <2>1, <2>2, <2>3 DEF MutexInv, MutexTypes
<1>8. Holds(t)' <=> Holds(t)
  BY <1>1, <1>3, <1>4, <1>5 DEF Holds
<1> QED BY <1>1, <1>4, <1>5, <1>6, <1>7, <1>8, QuietStep DEF Elsewhere

-----------------------------------------------------------------------------
(* Init implies the invariant.                                              *)
LEMMA InitEstablishes == TasksInit /\ MutexInit => MutexInv
<1> SUFFICES ASSUME TasksInit, MutexInit PROVE MutexInv
  OBVIOUS
<1>1. \A t \in Task : pc[t] = "idle" /\ spin # t
  BY NoTaskAssumption DEF TasksInit, MutexInit
<1>2. \A t \in Task : ~Owns(t)
  BY <1>1 DEF Owns, Holds, Handed
<1>3. MutexTypes
  BY <1>1 DEF TasksInit, MutexInit, MutexTypes, Labels
<1>4. OneOwner /\ SpinInPlace
  BY <1>1, <1>2 DEF MutexInit, OneOwner, SpinInPlace
<1>5. QueueInPlace
  BY DEF MutexInit, QueueInPlace
<1>6. HandoverInPlace
  BY <1>1 DEF HandoverInPlace
<1> QED BY <1>3, <1>4, <1>5, <1>6, Zenon DEF MutexInv

(* Every step keeps the invariant and passes the mutex on in order.         *)
LEMMA NextKeeps == MutexInv /\ [MutexNext]_mutexSpecVars => MutexInv' /\ InOrder
<1> SUFFICES ASSUME MutexInv, [MutexNext]_mutexSpecVars PROVE MutexInv' /\ InOrder
  OBVIOUS
<1>1. CASE MutexNext
  <2>1. PICK t \in Task : MutexStep(t)
    BY <1>1, Zenon DEF MutexNext
  <2> QED
    BY <2>1, LockKeeps, PublishKeeps, ClaimKeeps, EnqueueKeeps, UnlockKeeps,
       UnlockContendedKeeps, WakeHandoffKeeps, CriticalKeeps, NotifyKeeps, Zenon DEF MutexStep
<1>2. CASE UNCHANGED mutexSpecVars
  <2>1. UNCHANGED <<pc, op, toWake, bits, spin, queue>>
    BY <1>2, Zenon DEF mutexSpecVars, taskVars, mutexVars, muVars
  <2>2. \A v : (Owns(v)' <=> Owns(v)) /\ (Handed(v)' <=> Handed(v))
    BY <2>1, Zenon DEF Owns, Holds, Handed
  <2>3. MutexTypes' /\ SpinInPlace' /\ HandoverInPlace'
    BY <2>1 DEF MutexInv, MutexTypes, SpinInPlace, HandoverInPlace
  <2>4. OneOwner' /\ InOrder
    BY <2>1, <2>2, Zenon DEF MutexInv, OneOwner, InOrder
  <2>5. QueueInPlace'
    BY <2>1, <2>2 DEF MutexInv, QueueInPlace
  <2> QED BY <2>3, <2>4, <2>5, Zenon DEF MutexInv
<1> QED BY <1>1, <1>2, Zenon

(* The inductive invariant holds in every state.                            *)
THEOREM MutexInvariant == MutexSpec => []MutexInv
<1>1. MutexInv /\ [MutexNext]_mutexSpecVars => MutexInv'
  BY NextKeeps, Zenon
<1> QED BY InitEstablishes, <1>1, PTL DEF MutexSpec

(* Mutual exclusion of Mutex: however many tasks lock, try to lock, wait in *)
(* a Cond and hand over, the locked bit stands for exactly one owner.       *)
THEOREM MutexExclusive == MutexSpec => []MutexExclusion
BY MutexInvariant, InvImpliesExclusion, PTL

(* Hand-over is first come, first served, for any number of waiters: while  *)
(* somebody is queued, no step makes anybody but the head of the queue a    *)
(* new owner.                                                               *)
THEOREM MutexHandsInOrder == MutexSpec => HandedInOrder
<1>1. MutexInv => OwnersNamed
  BY OwnersAreOwns, Zenon
<1>2. ASSUME MutexInv, OwnersNamed, OwnersNamed', [MutexNext]_mutexSpecVars
      PROVE  [queue # <<>> => Owners' \subseteq Owners \cup {Head(queue)}]_mutexSpecVars
  <2>1. InOrder
    BY <1>2, NextKeeps, Zenon
  <2> QED BY <1>2, <2>1, Zenon DEF InOrder, OwnersNamed
<1> QED BY <1>1, <1>2, MutexInvariant, PTL DEF MutexSpec, HandedInOrder
=============================================================================
