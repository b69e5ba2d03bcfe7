--------------------------- MODULE SelectInvariant ---------------------------
(***************************************************************************)
(* Proofs about channels and select, for any tasks, channels, capacities   *)
(* and operations.  The inductive invariant IndInv joins the invariants of *)
(* Select with what ties a task's progress to its phase, its timer and,    *)
(* while it enqueues, to the channels it holds locked.                      *)
(***************************************************************************)
EXTENDS Select, SequenceTheorems, TLAPS

(* What ties a task's progress to the rest of the state; with the           *)
(* invariants above it is inductive.                                        *)
OpInPlace(t) ==
  /\ pc[t] = "idle" <=> op[t] = NoOp
  /\ pc[t] \in {"enqueue", "arm", "park", "finish"} => IsSelect(t)
  /\ pc[t] = "parked" => op[t].how \in {"await", "select"}
  /\ pc[t] \in {"idle", "start", "enqueue"} => winner[t] = NoWinner
  /\ pc[t] \in {"idle", "start", "enqueue", "arm", "park", "finish"} =>
       status[t] = "pending" \/ IsSelect(t)
  /\ pc[t] \in {"idle", "start"} => status[t] = "pending"
  /\ pc[t] = "finish" => Decided(t)
  /\ pc[t] = "parked" => cursor[t] = 1 \/ ~IsSelect(t)
  /\ toWake[t] # {} => pc[t] = "wake"
  /\ ~IsSelect(t) => winner[t] = NoWinner

PhaseInPlace(t) ==
  /\ pc[t] \in {"idle", "start", "enqueue"} => phase[t] = "setup"
  /\ pc[t] \in {"arm", "park"} =>
       phase[t] = "setup" \/ (phase[t] = "resumed" /\ Decided(t))
  /\ pc[t] = "parked" /\ IsSelect(t) =>
       phase[t] = IF run[t] = 1 \/ firing[t] \in {"won", "schedule"}
                  THEN "resumed" ELSE "parked"

TimerInPlace(t) ==
  /\ timer[t] # "idle" => IsSelect(t) /\ pc[t] \in {"park", "parked", "finish"}
  /\ timer[t] \in {"idle", "armed"} => firing[t] = "none"
  /\ timer[t] = "firing" <=> firing[t] \in {"claim", "exchange", "lost", "won"}
  /\ firing[t] \in {"won", "schedule"} => pc[t] = "parked"

(* While a select enqueues its waiters it holds the lock of every channel   *)
(* it names, and what it found when it scanned them still holds.            *)
StillBlocked(t) ==
  /\ cursor[t] <= Len(op[t].cases) + 1
  /\ \A i \in 1..Len(op[t].cases), c \in Chan : CaseOf(t, i).ch = c =>
       /\ mutex[c] = t
       /\ ~closed[c]
       /\ CaseOf(t, i).dir = "send" =>
            /\ count[c] = Capacity[c]
            /\ \A k \in AcquirableAt(receivers[c]) : receivers[c][k][1] = t
       /\ CaseOf(t, i).dir = "recv" =>
            /\ count[c] = 0
            /\ \A k \in AcquirableAt(senders[c]) : senders[c][k][1] = t

ProgressInPlace ==
  \A t \in Task : /\ OpInPlace(t) /\ PhaseInPlace(t) /\ TimerInPlace(t)
                  /\ pc[t] = "enqueue" => StillBlocked(t)

IndInv ==
  /\ TypeOK /\ WaitersInPlace /\ NoneStranded /\ ResumedOnce /\ ProgressInPlace

-----------------------------------------------------------------------------
(* Waiter lists. *)

(* Dropping the first k waiters of a list. *)
LEMMA DropToFacts ==
  ASSUME NEW S, NEW q \in Seq(S), NEW k \in 1..Len(q)
  PROVE  /\ DropTo(q, k) \in Seq(S)
         /\ Len(DropTo(q, k)) = Len(q) - k
         /\ \A j \in 1..(Len(q) - k) : DropTo(q, k)[j] = q[j + k]
BY SMTT(60), SubSeqProperties DEF DropTo

(* Unlinking one waiter of a list. *)
LEMMA WithoutFacts ==
  ASSUME NEW S, NEW q \in Seq(S), NEW w
  PROVE  /\ Without(q, w) \in Seq(S)
         /\ \A j \in 1..Len(Without(q, w)) : \E k \in 1..Len(q) : q[k] = Without(q, w)[j]
         /\ (\A j, k \in 1..Len(q) : q[j] = q[k] => j = k) =>
              /\ \A j, k \in 1..Len(Without(q, w)) :
                   Without(q, w)[j] = Without(q, w)[k] => j = k
              /\ ~Listed(w, Without(q, w))
<1>1. CASE \E k \in 1..Len(q) : q[k] = w
  <2> DEFINE n == CHOOSE k \in 1..Len(q) : q[k] = w
             r == [j \in 1..(Len(q) - 1) |-> IF j < n THEN q[j] ELSE q[j + 1]]
  <2>1. n \in 1..Len(q) /\ q[n] = w
    BY Zenon, <1>1
  <2>2. Without(q, w) = r
    BY Zenon, <1>1 DEF Without
  <2>3. Len(q) \in Nat /\ DOMAIN q = 1..Len(q) /\ \A j \in 1..Len(q) : q[j] \in S
    BY SMTT(60)
  <2> HIDE DEF n
  <2>4. r \in [1..(Len(q) - 1) -> S] /\ Len(q) - 1 \in Nat
    BY SMTT(60), <2>1, <2>3
  <2>5. r \in Seq(S) /\ Len(r) = Len(q) - 1
    BY SMTT(60), <2>4, IsASeq
  <2>6. \A j \in 1..(Len(q) - 1) : r[j] = q[j] \/ r[j] = q[j + 1]
    BY Zenon
  <2>7. \A j \in 1..(Len(q) - 1) : j < n => r[j] = q[j]
    BY Zenon
  <2>8. \A j \in 1..(Len(q) - 1) : j >= n => r[j] = q[j + 1]
    BY SMTT(60), <2>1, <2>3
  <2> HIDE DEF r
  <2>9. \A j \in 1..Len(r) : \E k \in 1..Len(q) : q[k] = r[j]
    <3>1. SUFFICES ASSUME NEW j \in 1..(Len(q) - 1)
                   PROVE  \E k \in 1..Len(q) : q[k] = r[j]
      BY Zenon, <2>5
    <3>2. j \in 1..Len(q) /\ j + 1 \in 1..Len(q)
      BY SMTT(60), <2>3
    <3>3. QED
      BY Zenon, <2>6, <3>2
  <2>10. ASSUME \A j, k \in 1..Len(q) : q[j] = q[k] => j = k
         PROVE  \A j, k \in 1..Len(r) : r[j] = r[k] => j = k
    <3>1. SUFFICES ASSUME NEW j \in 1..(Len(q) - 1), NEW k \in 1..(Len(q) - 1),
                          r[j] = r[k]
                   PROVE  j = k
      BY Zenon, <2>5
    <3>2. /\ j \in 1..Len(q) /\ j + 1 \in 1..Len(q)
          /\ k \in 1..Len(q) /\ k + 1 \in 1..Len(q)
      BY SMTT(60), <2>3
    <3>3. CASE j < n /\ k < n
      BY Zenon, <2>7, <2>10, <3>1, <3>2, <3>3
    <3>4. CASE j < n /\ k >= n
      <4>1. q[j] = q[k + 1]
        BY Zenon, <2>7, <2>8, <3>1, <3>4
      <4>2. j = k + 1
        BY Zenon, <2>10, <3>2, <4>1
      <4>3. QED
        BY SMTT(60), <2>1, <3>4, <4>2
    <3>5. CASE j >= n /\ k < n
      <4>1. q[j + 1] = q[k]
        BY Zenon, <2>7, <2>8, <3>1, <3>5
      <4>2. j + 1 = k
        BY Zenon, <2>10, <3>2, <4>1
      <4>3. QED
        BY SMTT(60), <2>1, <3>5, <4>2
    <3>6. CASE j >= n /\ k >= n
      <4>1. q[j + 1] = q[k + 1]
        BY Zenon, <2>8, <3>1, <3>6
      <4>2. j + 1 = k + 1
        BY Zenon, <2>10, <3>2, <4>1
      <4>3. QED
        BY SMTT(60), <4>2
    <3>7. QED
      BY SMTT(60), <2>1, <3>3, <3>4, <3>5, <3>6
  <2>11. ASSUME \A j, k \in 1..Len(q) : q[j] = q[k] => j = k,
                NEW j \in 1..(Len(q) - 1)
         PROVE  r[j] # w
    <3>1. j \in 1..Len(q) /\ j + 1 \in 1..Len(q)
      BY SMTT(60), <2>3
    <3>2. CASE j < n
      <4>1. r[j] = q[j] /\ j # n
        BY SMTT(60), <2>1, <2>7, <3>2
      <4>2. QED
        BY Zenon, <2>1, <2>11, <3>1, <4>1
    <3>3. CASE j >= n
      <4>1. r[j] = q[j + 1] /\ j + 1 # n
        BY SMTT(60), <2>1, <2>8, <3>3
      <4>2. QED
        BY Zenon, <2>1, <2>11, <3>1, <4>1
    <3>4. QED
      BY SMTT(60), <2>1, <3>2, <3>3
  <2>12. QED
    BY Zenon, <2>2, <2>5, <2>9, <2>10, <2>11 DEF Listed
<1>2. CASE ~\E k \in 1..Len(q) : q[k] = w
  BY Zenon, <1>2 DEF Without, Listed
<1>3. QED
  BY Zenon, <1>1, <1>2

-----------------------------------------------------------------------------
(* What a step leaves alone. *)

SameTask(u) ==
  /\ pc'[u] = pc[u] /\ op'[u] = op[u] /\ winner'[u] = winner[u]
  /\ phase'[u] = phase[u] /\ status'[u] = status[u] /\ run'[u] = run[u]
  /\ timer'[u] = timer[u] /\ firing'[u] = firing[u] /\ cursor'[u] = cursor[u]
  /\ toWake'[u] = toWake[u]

Shrunk(q2, q1) ==
  /\ \A j \in 1..Len(q2) : Listed(q2[j], q1)
  /\ \A j, k \in 1..Len(q2) : q2[j] = q2[k] => j = k

(* The lists of channel c only lose waiters, and those that stay do not     *)
(* become acquirable.                                                        *)
ShrinksAt(c) ==
  /\ Shrunk(senders'[c], senders[c]) /\ Shrunk(receivers'[c], receivers[c])
  /\ \A w \in Waiter : (Listed(w, senders'[c]) \/ Listed(w, receivers'[c])) /\ Acquirable(w)'
       => Acquirable(w)

ListsShrink == \A c \in Chan : ShrinksAt(c)

(* Channels locked by a task other than t keep their lock and their state.  *)
LockRespected(t) ==
  \A c \in Chan : mutex[c] \notin {NoTask, t} =>
    mutex'[c] = mutex[c] /\ closed'[c] = closed[c] /\ count'[c] = count[c]

(* What is said of a task that a step leaves alone stays true. *)
LEMMA SameInPlace ==
  ASSUME NEW u \in Task, SameTask(u)
  PROVE  /\ Decided(u)' <=> Decided(u)
         /\ IsSelect(u)' <=> IsSelect(u)
         /\ OpInPlace(u) => OpInPlace(u)'
         /\ PhaseInPlace(u) => PhaseInPlace(u)'
         /\ TimerInPlace(u) => TimerInPlace(u)'
         /\ \A i \in CaseIndex :
              /\ Acquirable(<<u, i>>)' <=> Acquirable(<<u, i>>)
              /\ \A dir, c : WaiterInPlace(<<u, i>>, dir, c) <=> WaiterInPlace(<<u, i>>, dir, c)'
<1>1. IsSelect(u)' <=> IsSelect(u)
  BY Zenon DEF SameTask, IsSelect
<1>2. Decided(u)' <=> Decided(u)
  BY Zenon, <1>1 DEF SameTask, Decided
<1>3. OpInPlace(u) => OpInPlace(u)'
  BY Zenon, <1>1, <1>2 DEF SameTask, OpInPlace
<1>4. PhaseInPlace(u) => PhaseInPlace(u)'
  BY Zenon, <1>1, <1>2 DEF SameTask, PhaseInPlace
<1>5. TimerInPlace(u) => TimerInPlace(u)'
  BY Zenon, <1>1, <1>2 DEF SameTask, TimerInPlace
<1>6. ASSUME NEW i \in CaseIndex
      PROVE  Acquirable(<<u, i>>)' <=> Acquirable(<<u, i>>)
  BY Zenon, <1>1 DEF SameTask, Acquirable
<1>7. ASSUME NEW i \in CaseIndex, NEW dir, NEW c
      PROVE  WaiterInPlace(<<u, i>>, dir, c) <=> WaiterInPlace(<<u, i>>, dir, c)'
  BY Zenon, <1>1, <1>2 DEF SameTask, WaiterInPlace, CaseOf
<1>8. QED
  BY Zenon, <1>1, <1>2, <1>3, <1>4, <1>5, <1>6, <1>7

(* A list element is a waiter: a task and a case. *)
LEMMA ListedIsWaiter ==
  ASSUME ChanTypeOK, NEW c \in Chan, NEW w, Listed(w, senders[c]) \/ Listed(w, receivers[c])
  PROVE  w \in Waiter /\ w[1] \in Task /\ w[2] \in CaseIndex /\ w = <<w[1], w[2]>>
<1>1. senders[c] \in Seq(Waiter) /\ receivers[c] \in Seq(Waiter)
  BY Zenon DEF ChanTypeOK
<1>2. w \in Waiter
  BY SMTT(60), <1>1 DEF Listed
<1>3. QED
  BY SMTT(60), <1>2 DEF Waiter

(* The lists stay in order when they only shrink and the waiters that stay  *)
(* are still in place.                                                       *)
LEMMA WaitersKept ==
  ASSUME WaitersInPlace, ListsShrink,
         \A c \in Chan : \A w :
           /\ Listed(w, senders'[c]) /\ WaiterInPlace(w, "send", c) =>
                WaiterInPlace(w, "send", c)'
           /\ Listed(w, receivers'[c]) /\ WaiterInPlace(w, "recv", c) =>
                WaiterInPlace(w, "recv", c)'
  PROVE  WaitersInPlace'
<1>1. SUFFICES ASSUME NEW c \in Chan
               PROVE  ListInPlace(senders[c], "send", c)' /\ ListInPlace(receivers[c], "recv", c)'
  BY Zenon DEF WaitersInPlace
<1>2. ListInPlace(senders[c], "send", c) /\ ListInPlace(receivers[c], "recv", c)
  BY Zenon DEF WaitersInPlace
<1>3. Shrunk(senders'[c], senders[c]) /\ Shrunk(receivers'[c], receivers[c])
  BY Zenon DEF ListsShrink, ShrinksAt
<1>4. \A k \in 1..Len(senders'[c]) : WaiterInPlace(senders[c][k], "send", c)'
  <2>1. SUFFICES ASSUME NEW k \in 1..Len(senders'[c])
                 PROVE  WaiterInPlace(senders[c][k], "send", c)'
    BY Zenon
  <2>a. PICK w : w = senders'[c][k]
    BY Zenon
  <2>2. Listed(w, senders'[c]) /\ Listed(w, senders[c])
    BY Zenon, <1>3, <2>a DEF Shrunk, Listed
  <2>3. WaiterInPlace(w, "send", c)
    BY Zenon, <1>2, <2>2 DEF ListInPlace, Listed
  <2>4. WaiterInPlace(w, "send", c)'
    BY Zenon, <2>2, <2>3
  <2>5. QED
    BY Zenon, <2>a, <2>4 DEF WaiterInPlace, CaseOf, IsSelect, Decided
<1>5. \A k \in 1..Len(receivers'[c]) : WaiterInPlace(receivers[c][k], "recv", c)'
  <2>1. SUFFICES ASSUME NEW k \in 1..Len(receivers'[c])
                 PROVE  WaiterInPlace(receivers[c][k], "recv", c)'
    BY Zenon
  <2>a. PICK w : w = receivers'[c][k]
    BY Zenon
  <2>2. Listed(w, receivers'[c]) /\ Listed(w, receivers[c])
    BY Zenon, <1>3, <2>a DEF Shrunk, Listed
  <2>3. WaiterInPlace(w, "recv", c)
    BY Zenon, <1>2, <2>2 DEF ListInPlace, Listed
  <2>4. WaiterInPlace(w, "recv", c)'
    BY Zenon, <2>2, <2>3
  <2>5. QED
    BY Zenon, <2>a, <2>4 DEF WaiterInPlace, CaseOf, IsSelect, Decided
<1>6. QED
  BY Zenon, <1>3, <1>4, <1>5 DEF ListInPlace, Shrunk

(* An acquirable waiter of a list that shrank was acquirable before. *)
LEMMA AcquirableBefore ==
  ASSUME NEW c \in Chan, ShrinksAt(c), ChanTypeOK'
  PROVE  /\ \A k \in AcquirableAt(receivers[c])' :
              \E j \in AcquirableAt(receivers[c]) : receivers[c][j] = receivers'[c][k]
         /\ \A k \in AcquirableAt(senders[c])' :
              \E j \in AcquirableAt(senders[c]) : senders[c][j] = senders'[c][k]
<1>1. ASSUME NEW k \in AcquirableAt(receivers[c])'
      PROVE  \E j \in AcquirableAt(receivers[c]) : receivers[c][j] = receivers'[c][k]
  <2>1. PICK w : w = receivers'[c][k]
    BY Zenon
  <2>2. k \in 1..Len(receivers'[c]) /\ Acquirable(w)'
    BY Zenon, <2>1 DEF AcquirableAt, Acquirable, IsSelect
  <2>3. Listed(w, receivers'[c]) /\ Listed(w, receivers[c])
    BY Zenon, <2>1, <2>2 DEF ShrinksAt, Shrunk, Listed
  <2>4. w \in Waiter
    <3>1. receivers'[c] \in Seq(Waiter)
      BY Zenon DEF ChanTypeOK
    <3>2. QED
      BY SMTT(60), <2>1, <2>2, <3>1
  <2>5. Acquirable(w)
    BY Zenon, <2>2, <2>3, <2>4 DEF ShrinksAt
  <2>6. QED
    BY Zenon, <2>1, <2>3, <2>5 DEF Listed, AcquirableAt
<1>2. ASSUME NEW k \in AcquirableAt(senders[c])'
      PROVE  \E j \in AcquirableAt(senders[c]) : senders[c][j] = senders'[c][k]
  <2>1. PICK w : w = senders'[c][k]
    BY Zenon
  <2>2. k \in 1..Len(senders'[c]) /\ Acquirable(w)'
    BY Zenon, <2>1 DEF AcquirableAt, Acquirable, IsSelect
  <2>3. Listed(w, senders'[c]) /\ Listed(w, senders[c])
    BY Zenon, <2>1, <2>2 DEF ShrinksAt, Shrunk, Listed
  <2>4. w \in Waiter
    <3>1. senders'[c] \in Seq(Waiter)
      BY Zenon DEF ChanTypeOK
    <3>2. QED
      BY SMTT(60), <2>1, <2>2, <3>1
  <2>5. Acquirable(w)
    BY Zenon, <2>2, <2>3, <2>4 DEF ShrinksAt
  <2>6. QED
    BY Zenon, <2>1, <2>3, <2>5 DEF Listed, AcquirableAt
<1>3. QED
  BY Zenon, <1>1, <1>2

(* Nothing gets stranded on a channel whose lists only shrink, unless its   *)
(* count or its closed flag changes.                                        *)
LEMMA StrandedKept ==
  ASSUME NoneStranded, ChanTypeOK', NEW c \in Chan, ShrinksAt(c),
         AcquirableAt(receivers[c])' # {} => ~closed'[c] /\ count'[c] = 0,
         AcquirableAt(senders[c])' # {} => ~closed'[c] /\ count'[c] = Capacity[c]
  PROVE  /\ AcquirableAt(receivers[c])' # {} => ~closed'[c] /\ count'[c] = 0
         /\ AcquirableAt(senders[c])' # {} => ~closed'[c] /\ count'[c] = Capacity[c]
         /\ \A j \in AcquirableAt(receivers[c])', k \in AcquirableAt(senders[c])' :
              receivers'[c][j][1] = senders'[c][k][1]
<1>1. ASSUME NEW j \in AcquirableAt(receivers[c])', NEW k \in AcquirableAt(senders[c])'
      PROVE  receivers'[c][j][1] = senders'[c][k][1]
  <2>1. PICK i \in AcquirableAt(receivers[c]) : receivers[c][i] = receivers'[c][j]
    BY Zenon, AcquirableBefore
  <2>2. PICK l \in AcquirableAt(senders[c]) : senders[c][l] = senders'[c][k]
    BY Zenon, AcquirableBefore
  <2>3. receivers[c][i][1] = senders[c][l][1]
    BY Zenon DEF NoneStranded
  <2>4. QED
    BY Zenon, <2>1, <2>2, <2>3
<1>2. QED
  BY Zenon, <1>1

(* The same when its count and its closed flag stay as they are.            *)
LEMMA StrandedUnchanged ==
  ASSUME NoneStranded, ChanTypeOK', NEW c \in Chan, ShrinksAt(c),
         closed'[c] = closed[c], count'[c] = count[c]
  PROVE  /\ AcquirableAt(receivers[c])' # {} => ~closed'[c] /\ count'[c] = 0
         /\ AcquirableAt(senders[c])' # {} => ~closed'[c] /\ count'[c] = Capacity[c]
         /\ \A j \in AcquirableAt(receivers[c])', k \in AcquirableAt(senders[c])' :
              receivers'[c][j][1] = senders'[c][k][1]
<1>1. AcquirableAt(receivers[c])' # {} => ~closed'[c] /\ count'[c] = 0
  BY Zenon, AcquirableBefore DEF NoneStranded
<1>2. AcquirableAt(senders[c])' # {} => ~closed'[c] /\ count'[c] = Capacity[c]
  BY Zenon, AcquirableBefore DEF NoneStranded
<1>3. QED
  BY Zenon, <1>1, <1>2, StrandedKept

(* A select that is enqueueing is not disturbed by a step of another task.  *)
LEMMA StillBlockedKept ==
  ASSUME NEW t \in Task, NEW u \in Task, u # t, StillBlocked(u), SameTask(u),
         NoTask \notin Task, ChanTypeOK', LockRespected(t),
         \A c \in Chan : mutex[c] = u => ShrinksAt(c)
  PROVE  StillBlocked(u)'
<1>1. cursor'[u] <= Len(op'[u].cases) + 1
  BY Zenon DEF StillBlocked, SameTask
<1>2. ASSUME NEW i \in 1..Len(op'[u].cases), NEW c \in Chan, CaseOf(u, i)'.ch = c
      PROVE  /\ mutex'[c] = u
             /\ ~closed'[c]
             /\ CaseOf(u, i)'.dir = "send" =>
                  /\ count'[c] = Capacity[c]
                  /\ \A k \in AcquirableAt(receivers[c])' : receivers'[c][k][1] = u
             /\ CaseOf(u, i)'.dir = "recv" =>
                  /\ count'[c] = 0
                  /\ \A k \in AcquirableAt(senders[c])' : senders'[c][k][1] = u
  <2>1. /\ i \in 1..Len(op[u].cases)
        /\ CaseOf(u, i).ch = c
        /\ CaseOf(u, i)' = CaseOf(u, i)
    BY Zenon, <1>2 DEF SameTask, CaseOf
  <2>2. mutex[c] = u /\ ~closed[c]
    BY Zenon, <2>1 DEF StillBlocked
  <2>3. mutex'[c] = u /\ closed'[c] = closed[c] /\ count'[c] = count[c]
    BY Zenon, <2>2 DEF LockRespected
  <2>4. ASSUME CaseOf(u, i).dir = "send", NEW k \in AcquirableAt(receivers[c])'
        PROVE  receivers'[c][k][1] = u
    <3>1. PICK j \in AcquirableAt(receivers[c]) : receivers[c][j] = receivers'[c][k]
      BY Zenon, <2>2, AcquirableBefore
    <3>2. receivers[c][j][1] = u
      BY Zenon, <2>1, <2>4 DEF StillBlocked
    <3>3. QED
      BY Zenon, <3>1, <3>2
  <2>5. ASSUME CaseOf(u, i).dir = "recv", NEW k \in AcquirableAt(senders[c])'
        PROVE  senders'[c][k][1] = u
    <3>1. PICK j \in AcquirableAt(senders[c]) : senders[c][j] = senders'[c][k]
      BY Zenon, <2>2, AcquirableBefore
    <3>2. senders[c][j][1] = u
      BY Zenon, <2>1, <2>5 DEF StillBlocked
    <3>3. QED
      BY Zenon, <3>1, <3>2
  <2>6. CaseOf(u, i).dir = "send" => count[c] = Capacity[c]
    BY Zenon, <2>1 DEF StillBlocked
  <2>7. CaseOf(u, i).dir = "recv" => count[c] = 0
    BY Zenon, <2>1 DEF StillBlocked
  <2>8. QED
    BY Zenon, <2>1, <2>2, <2>3, <2>4, <2>5, <2>6, <2>7
<1>3. QED
  BY Zenon, <1>1, <1>2 DEF StillBlocked

(* A step that leaves the wake lists alone makes or ends no claim there. *)
LEMMA WakesKept ==
  ASSUME NEW u \in Task, UNCHANGED toWake
  PROVE  (Woken(u)' <=> Woken(u)) /\ (WokenOnce(u)' <=> WokenOnce(u))
BY Zenon DEF Woken, WokenOnce

(* What the two values of run mean to Claimed and OnceAt.                   *)
LEMMA RunValues ==
  /\ ~(0 > 0) /\ 0 <= 1 /\ 0 # 1
  /\ 1 > 0 /\ 1 <= 1 /\ 0 + 1 = 1
BY SMTT(60)

(* Nor does the phase of a task go wrong when nothing it is compared with   *)
(* changes.                                                                  *)
LEMMA PhaseKept ==
  ASSUME NEW t \in Task, PhaseInPlace(t), pc'[t] = pc[t], phase'[t] = phase[t],
         run'[t] = run[t], IsSelect(t)' <=> IsSelect(t), Decided(t) => Decided(t)',
         firing'[t] \in {"won", "schedule"} <=> firing[t] \in {"won", "schedule"}
  PROVE  PhaseInPlace(t)'
BY Zenon DEF PhaseInPlace

(* Claims on tasks that a step leaves alone, when no wake list changes.     *)
LEMMA OnceKept ==
  ASSUME NEW u \in Task, OnceAt(u), SameTask(u), UNCHANGED toWake
  PROVE  OnceAt(u)'
<1>1. Decided(u)' <=> Decided(u)
  BY Zenon, SameInPlace
<1>2. (Woken(u)' <=> Woken(u)) /\ (TimerOwes(u)' <=> TimerOwes(u))
  BY Zenon, WakesKept DEF TimerOwes, SameTask
<1>3. Claimed(u)' <=> Claimed(u)
  BY Zenon, <1>2 DEF Claimed, SameTask
<1>4. QED
  BY Zenon, <1>1, <1>2, <1>3, WakesKept DEF OnceAt, SameTask

(* A step that changes nothing but t's own progress. *)
OnlyTask(t) ==
  /\ UNCHANGED <<closed, count, senders, receivers, toWake>>
  /\ \A c \in Chan : mutex[c] \notin {NoTask, t} => mutex'[c] = mutex[c]
  /\ \A u \in Task \ {t} : SameTask(u)

(* t's own waiters stay in place and none becomes acquirable. *)
OwnWaitersKept(t) ==
  \A i \in CaseIndex, c \in Chan, dir \in {"send", "recv"} :
    WaiterInPlace(<<t, i>>, dir, c) =>
      /\ WaiterInPlace(<<t, i>>, dir, c)'
      /\ Acquirable(<<t, i>>)' => Acquirable(<<t, i>>)

(* They do when the step leaves t's place and outcome alone. *)
LEMMA OwnKept ==
  ASSUME NEW t \in Task, pc'[t] = pc[t], op'[t] = op[t], winner'[t] = winner[t],
         status'[t] = status[t], cursor'[t] = cursor[t]
  PROVE  OwnWaitersKept(t)
<1>1. (IsSelect(t)' <=> IsSelect(t)) /\ (Decided(t)' <=> Decided(t))
  BY Zenon DEF IsSelect, Decided
<1>2. SUFFICES ASSUME NEW i \in CaseIndex, NEW c \in Chan, NEW dir \in {"send", "recv"},
                      WaiterInPlace(<<t, i>>, dir, c)
               PROVE  /\ WaiterInPlace(<<t, i>>, dir, c)'
                      /\ Acquirable(<<t, i>>)' => Acquirable(<<t, i>>)
  BY Zenon DEF OwnWaitersKept
<1>3. PICK w : w = <<t, i>> /\ w[1] = t
  <2>1. <<t, i>>[1] = t
    BY SMTT(60)
  <2>2. QED
    BY Zenon, <2>1
<1>4. WaiterInPlace(w, dir, c)' <=> WaiterInPlace(w, dir, c)
  BY Zenon, <1>1, <1>3 DEF WaiterInPlace, CaseOf
<1>5. Acquirable(w)' <=> Acquirable(w)
  BY Zenon, <1>1, <1>3 DEF Acquirable
<1>6. QED
  BY Zenon, <1>2, <1>3, <1>4, <1>5

(* And when a select goes on to a later stage with all its waiters.         *)
LEMMA OwnMoved ==
  ASSUME NEW t \in Task, IsSelect(t), IsSelect(t)', op'[t] = op[t], winner'[t] = winner[t],
         pc[t] \in {"arm", "park", "parked"},
         pc'[t] \in {"park", "parked"} \/ (pc'[t] = "finish" /\ cursor'[t] = 1)
  PROVE  OwnWaitersKept(t)
<1>1. SUFFICES ASSUME NEW i \in CaseIndex, NEW c \in Chan, NEW dir \in {"send", "recv"},
                      WaiterInPlace(<<t, i>>, dir, c)
               PROVE  /\ WaiterInPlace(<<t, i>>, dir, c)'
                      /\ Acquirable(<<t, i>>)' => Acquirable(<<t, i>>)
  BY Zenon DEF OwnWaitersKept
<1>2. PICK w : w = <<t, i>> /\ w[1] = t /\ w[2] = i
  <2>1. <<t, i>>[1] = t /\ <<t, i>>[2] = i
    BY SMTT(60)
  <2>2. QED
    BY Zenon, <2>1
<1>3. i >= 1
  BY SMTT(60), ChannelAssumption DEF CaseIndex
<1>4. /\ op[t] # NoOp /\ i \in 1..Len(op[t].cases)
      /\ op[t].cases[i] = [dir |-> dir, ch |-> c] /\ i # winner[t]
  BY Zenon, <1>1, <1>2 DEF WaiterInPlace, CaseOf
<1>5. pc'[t] \in {"arm", "park", "parked"} \/ (pc'[t] = "finish" /\ i >= cursor'[t])
  BY Zenon, <1>3
<1>6. WaiterInPlace(w, dir, c)'
  BY Zenon, <1>2, <1>4, <1>5 DEF WaiterInPlace, CaseOf
<1>7. Acquirable(w)' => Acquirable(w)
  BY Zenon, <1>2 DEF Acquirable
<1>8. QED
  BY Zenon, <1>2, <1>6, <1>7

(* Such a step preserves the invariant if it does so for t. *)
LEMMA QuietStep ==
  ASSUME IndInv, NEW t \in Task, TypeOK', OnlyTask(t), OwnWaitersKept(t),
         OnceAt(t)', OpInPlace(t)', PhaseInPlace(t)', TimerInPlace(t)',
         pc'[t] = "enqueue" => StillBlocked(t)'
  PROVE  IndInv'
<1>1. /\ UNCHANGED <<closed, count, senders, receivers, toWake>>
      /\ \A u \in Task \ {t} : SameTask(u)
  BY Zenon DEF OnlyTask
<1>2. /\ TypeOK /\ ChanTypeOK /\ ChanTypeOK' /\ WaitersInPlace /\ NoneStranded
      /\ ResumedOnce /\ ProgressInPlace
  BY Zenon DEF IndInv, TypeOK
<1>3. ASSUME NEW c \in Chan
      PROVE  Shrunk(senders'[c], senders[c]) /\ Shrunk(receivers'[c], receivers[c])
  <2>1. ListInPlace(senders[c], "send", c) /\ ListInPlace(receivers[c], "recv", c)
    BY Zenon, <1>2 DEF WaitersInPlace
  <2>2. QED
    BY Zenon, <1>1, <2>1 DEF ListInPlace, Shrunk, Listed
<1>4. ASSUME NEW c \in Chan, NEW w,
             Listed(w, senders'[c]) \/ Listed(w, receivers'[c])
      PROVE  /\ Acquirable(w)' => Acquirable(w)
             /\ Listed(w, senders'[c]) /\ WaiterInPlace(w, "send", c) =>
                  WaiterInPlace(w, "send", c)'
             /\ Listed(w, receivers'[c]) /\ WaiterInPlace(w, "recv", c) =>
                  WaiterInPlace(w, "recv", c)'
  <2>1. w[1] \in Task /\ w[2] \in CaseIndex /\ w = <<w[1], w[2]>>
    BY Zenon, <1>1, <1>2, <1>4, ListedIsWaiter
  <2>2. PICK u \in Task, i \in CaseIndex : w = <<u, i>>
    BY Zenon, <2>1
  <2>3. CASE u # t
    BY Zenon, <1>1, <2>2, <2>3, SameInPlace
  <2>4. CASE u = t
    <3>1. /\ Listed(w, senders'[c]) => WaiterInPlace(w, "send", c)
          /\ Listed(w, receivers'[c]) => WaiterInPlace(w, "recv", c)
      BY SMTT(60), <1>1, <1>2 DEF WaitersInPlace, ListInPlace, Listed
    <3>2. QED
      BY Zenon, <1>4, <2>2, <2>4, <3>1 DEF OwnWaitersKept
  <2>5. QED
    BY Zenon, <2>3, <2>4
<1>5. ListsShrink
  BY Zenon, <1>3, <1>4 DEF ListsShrink, ShrinksAt
<1>6. WaitersInPlace'
  BY Zenon, <1>2, <1>4, <1>5, WaitersKept
<1>7. NoneStranded'
  <2>1. SUFFICES ASSUME NEW c \in Chan
                 PROVE  /\ AcquirableAt(receivers[c])' # {} => ~closed'[c] /\ count'[c] = 0
                        /\ AcquirableAt(senders[c])' # {} => ~closed'[c] /\ count'[c] = Capacity[c]
                        /\ \A j \in AcquirableAt(receivers[c])', k \in AcquirableAt(senders[c])' :
                             receivers'[c][j][1] = senders'[c][k][1]
    BY Zenon DEF NoneStranded
  <2>2. QED
    BY Zenon, <1>1, <1>2, <1>5, StrandedUnchanged DEF ListsShrink
<1>8. ResumedOnce'
  <2>1. ASSUME NEW u \in Task, u # t
        PROVE  OnceAt(u)'
    BY Zenon, <1>1, <1>2, <2>1, OnceKept DEF ResumedOnce
  <2>2. QED
    BY Zenon, <2>1 DEF ResumedOnce
<1>9. ProgressInPlace'
  <2>1. ASSUME NEW u \in Task, u # t
        PROVE  OpInPlace(u)' /\ PhaseInPlace(u)' /\ TimerInPlace(u)'
    BY Zenon, <1>1, <1>2, <2>1, SameInPlace DEF ProgressInPlace
  <2>2. ASSUME NEW u \in Task, u # t, pc'[u] = "enqueue"
        PROVE  StillBlocked(u)'
    <3>1. SameTask(u) /\ pc[u] = "enqueue"
      BY Zenon, <1>1, <2>2 DEF SameTask
    <3>2. StillBlocked(u)
      BY Zenon, <1>2, <3>1 DEF ProgressInPlace
    <3>3. LockRespected(t)
      BY Zenon, <1>1 DEF LockRespected, OnlyTask
    <3>4. QED
      BY Zenon, <1>2, <1>5, <2>2, <3>1, <3>2, <3>3, StillBlockedKept, ChannelAssumption DEF ListsShrink
  <2>3. QED
    BY Zenon, <2>1, <2>2 DEF ProgressInPlace
<1>10. QED
  BY Zenon, <1>6, <1>7, <1>8, <1>9 DEF IndInv

(* What the invariant says of the task that moves. *)
LEMMA AtTask ==
  ASSUME IndInv, NEW t \in Task
  PROVE  /\ OpInPlace(t) /\ PhaseInPlace(t) /\ TimerInPlace(t) /\ OnceAt(t)
         /\ pc[t] = "enqueue" => StillBlocked(t)
         /\ pc[t] \in PcState /\ op[t] \in Op \cup {NoOp} /\ ops[t] \in 0..MaxOps
         /\ winner[t] \in 0..DefaultCase /\ phase[t] \in Phase /\ status[t] \in Status
         /\ value[t] \in Msg \cup {NoMsg} /\ toWake[t] \subseteq Waiter /\ run[t] \in Nat
         /\ cursor[t] \in 1..(MaxCases + 1) /\ timer[t] \in TimerState
         /\ firing[t] \in FiringState
<1>1. TaskTypeOK
  BY Zenon DEF IndInv, TypeOK
<1>2. ProgressInPlace /\ ResumedOnce
  BY Zenon DEF IndInv
<1>3. QED
  BY Zenon, <1>1, <1>2 DEF TaskTypeOK, ProgressInPlace, ResumedOnce

(* A task that is not waiting has no claim on it and no timer.  Whoever has *)
(* claims on it waits.                                                       *)
LEMMA AtRest ==
  ASSUME IndInv, NEW t \in Task
  PROVE  /\ pc[t] \in {"idle", "start", "enqueue", "wake", "done"} =>
              /\ run[t] = 0 /\ ~Woken(t) /\ ~Claimed(t)
              /\ firing[t] = "none" /\ timer[t] = "idle"
         /\ pc[t] \in {"arm", "park", "finish"} =>
              run[t] = 0 /\ firing[t] \notin {"won", "schedule"} /\ IsSelect(t)
         /\ run[t] > 0 =>
              /\ run[t] = 1 /\ pc[t] = "parked" /\ Decided(t) /\ ~Woken(t) /\ ~TimerOwes(t)
         /\ Woken(t) \/ TimerOwes(t) => run[t] = 0
<1>1. /\ run[t] \in Nat /\ OnceAt(t) /\ TimerInPlace(t) /\ OpInPlace(t)
      /\ firing[t] \in FiringState
  BY Zenon, AtTask
<1>2. run[t] > 0 => /\ run[t] = 1 /\ pc[t] = "parked" /\ Decided(t)
                    /\ ~Woken(t) /\ ~TimerOwes(t)
  BY SMTT(60), <1>1 DEF OnceAt, Claimed
<1>3. pc[t] \in {"arm", "park", "finish"} =>
        run[t] = 0 /\ firing[t] \notin {"won", "schedule"} /\ IsSelect(t)
  BY SMTT(60), <1>1, <1>2 DEF TimerInPlace, OpInPlace
<1>4. ASSUME pc[t] \in {"idle", "start", "enqueue", "wake", "done"}
      PROVE  /\ run[t] = 0 /\ ~Woken(t) /\ ~Claimed(t)
             /\ firing[t] = "none" /\ timer[t] = "idle"
  <2>1. ~Claimed(t)
    BY Zenon, <1>1, <1>4 DEF OnceAt
  <2>2. timer[t] = "idle" /\ firing[t] = "none"
    BY Zenon, <1>1, <1>4 DEF TimerInPlace
  <2>3. QED
    BY SMTT(60), <1>1, <2>1, <2>2 DEF Claimed
<1>5. run[t] = 0 \/ run[t] > 0
  BY SMTT(60), <1>1
<1>6. QED
  BY Zenon, <1>2, <1>3, <1>4, <1>5

-----------------------------------------------------------------------------
(* The steps that change only the progress of one task, one by one. *)

(* A task calling send, recv, try_*, close or select keeps the invariant.   *)
LEMMA StartStep ==
  ASSUME IndInv, NEW t \in Task, NEW o \in Op, Start(t, o), UNCHANGED selectVars
  PROVE  IndInv'
<1>1. UNCHANGED <<ring, count, sendIndex, recvIndex, closed, senders,
                  receivers, mutex, winner, phase, status, value, toWake, run,
                  cursor, timer, firing>>
  BY Zenon DEF Start, chanVars, channelVars, taskVars, selectVars
<1>2. /\ pc[t] = "idle"
      /\ ops[t] < MaxOps
      /\ op' = [op EXCEPT ![t] = o]
      /\ ops' = [ops EXCEPT ![t] = @ + 1]
      /\ pc' = [pc EXCEPT ![t] = "start"]
  BY Zenon DEF Start
<1>3. TaskTypeOK /\ ChanTypeOK
  BY Zenon DEF IndInv, TypeOK
<1>4. OpInPlace(t) /\ PhaseInPlace(t) /\ TimerInPlace(t) /\ OnceAt(t)
  BY Zenon, AtTask
<1>5. /\ op'[t] = o
      /\ ops'[t] = ops[t] + 1
      /\ pc'[t] = "start"
  BY Zenon, <1>2, <1>3 DEF TaskTypeOK
<1>6. TypeOK'
  <2>1. ChanTypeOK'
    BY Zenon, <1>1, <1>2, <1>3 DEF ChanTypeOK
  <2>2. /\ op' \in [Task -> Op \cup {NoOp}]
        /\ ops' \in [Task -> 0..MaxOps]
        /\ pc' \in [Task -> PcState]
    BY SMTT(60), <1>2, <1>3, ChannelAssumption DEF TaskTypeOK, PcState
  <2>3. QED
    BY Zenon, <1>1, <1>3, <2>1, <2>2 DEF TypeOK, TaskTypeOK
<1>7. OnlyTask(t)
  BY Zenon, <1>1, <1>2, <1>3 DEF OnlyTask, SameTask, TaskTypeOK, ChanTypeOK
<1>8. /\ run[t] = 0 /\ ~Woken(t) /\ ~Claimed(t) /\ firing[t] = "none" /\ timer[t] = "idle"
      /\ o # NoOp /\ op[t] = NoOp /\ winner[t] = NoWinner /\ status[t] = "pending"
      /\ phase[t] = "setup" /\ toWake[t] = {}
  BY Zenon, <1>2, <1>4, AtRest, ChannelAssumption DEF OpInPlace, PhaseInPlace
<1>9. ~Decided(t)'
  BY Zenon, <1>1, <1>2, <1>5, <1>8 DEF IsSelect, Decided, TimeoutCase, NoWinner
<1>10. OwnWaitersKept(t)
  BY Zenon, <1>1, <1>2, <1>4, <1>5, <1>8, <1>9 DEF OwnWaitersKept, WaiterInPlace, Acquirable, CaseOf, CaseIndex, NoWinner
<1>11. OnceAt(t)'
  BY Zenon, <1>1, <1>2, <1>4, <1>5, <1>8, <1>9, WakesKept DEF OnceAt, Claimed, TimerOwes
<1>12. OpInPlace(t)'
  BY Zenon, <1>1, <1>2, <1>4, <1>5, <1>8, <1>9 DEF OpInPlace, NoWinner
<1>13. PhaseInPlace(t)'
  BY Zenon, <1>1, <1>2, <1>4, <1>5, <1>8, <1>9 DEF PhaseInPlace
<1>14. TimerInPlace(t)'
  BY Zenon, <1>1, <1>2, <1>4, <1>5, <1>8, <1>9 DEF TimerInPlace
<1>15. pc'[t] = "enqueue" => StillBlocked(t)'
  BY Zenon, <1>5
<1>16. QED
  BY Zenon, <1>6, <1>7, <1>10, <1>11, <1>12, <1>13, <1>14, <1>15, QuietStep

(* So does a select locking its next channel (ChannelMutex).                *)
LEMMA LockStep ==
  ASSUME IndInv, NEW t \in Task, NEW d \in Chan, Lock(t, d)
  PROVE  IndInv'
<1>1. UNCHANGED <<ring, count, sendIndex, recvIndex, closed, senders,
                  receivers, pc, op, ops, winner, phase, status, value, toWake,
                  run, cursor, timer, firing>>
  BY Zenon DEF Lock, chanVars, channelVars, taskVars, selectVars
<1>2. /\ pc[t] = "start"
      /\ mutex[d] = NoTask
      /\ mutex' = [mutex EXCEPT ![d] = t]
  BY Zenon DEF Lock
<1>3. TaskTypeOK /\ ChanTypeOK
  BY Zenon DEF IndInv, TypeOK
<1>4. OpInPlace(t) /\ PhaseInPlace(t) /\ TimerInPlace(t) /\ OnceAt(t)
  BY Zenon, AtTask
<1>5. pc'[t] = pc[t]
  BY Zenon, <1>1
<1>6. TypeOK'
  <2>1. ChanTypeOK'
    BY Zenon, <1>1, <1>2, <1>3 DEF ChanTypeOK
  <2>2. QED
    BY Zenon, <1>1, <1>3, <2>1 DEF TypeOK, TaskTypeOK
<1>7. OnlyTask(t)
  BY Zenon, <1>1, <1>2, <1>3 DEF OnlyTask, SameTask, TaskTypeOK, ChanTypeOK
<1>8. /\ run[t] = 0 /\ ~Woken(t) /\ ~Claimed(t) /\ firing[t] = "none" /\ timer[t] = "idle"
  BY Zenon, <1>1, <1>2, <1>4, AtRest DEF OpInPlace, PhaseInPlace, TimerInPlace, Decided, IsSelect
<1>9. (IsSelect(t)' <=> IsSelect(t)) /\ (Decided(t)' <=> Decided(t))
  BY Zenon, <1>1, <1>2, <1>5, <1>8 DEF IsSelect, Decided, TimeoutCase, NoWinner
<1>10. OwnWaitersKept(t)
  BY Zenon, <1>1, <1>2, <1>4, <1>5, <1>8, <1>9 DEF OwnWaitersKept, WaiterInPlace, Acquirable, CaseOf, CaseIndex, NoWinner
<1>11. OnceAt(t)'
  BY Zenon, <1>1, <1>4, <1>9, WakesKept DEF OnceAt, Claimed, TimerOwes
<1>12. OpInPlace(t)'
  BY Zenon, <1>1, <1>4, <1>9 DEF OpInPlace
<1>13. PhaseInPlace(t)'
  BY Zenon, <1>1, <1>2, <1>4, <1>5, <1>8, <1>9 DEF PhaseInPlace
<1>14. TimerInPlace(t)'
  BY Zenon, <1>1, <1>2, <1>4, <1>5, <1>8, <1>9 DEF TimerInPlace
<1>15. pc'[t] = "enqueue" => StillBlocked(t)'
  BY Zenon, <1>2, <1>5
<1>16. QED
  BY Zenon, <1>6, <1>7, <1>10, <1>11, <1>12, <1>13, <1>14, <1>15, QuietStep

(* setup() unlocking its channels after the last waiter.                    *)
LEMMA EnqueuedAllStep ==
  ASSUME IndInv, NEW t \in Task, EnqueuedAll(t)
  PROVE  IndInv'
<1>1. UNCHANGED <<ring, count, sendIndex, recvIndex, closed, senders,
                  receivers, op, ops, winner, phase, status, value, toWake,
                  run, cursor, timer, firing>>
  BY Zenon DEF EnqueuedAll, chanVars, channelVars, taskVars, selectVars
<1>2. /\ pc[t] = "enqueue"
      /\ pc' = [pc EXCEPT ![t] = IF op[t].timeout THEN "arm" ELSE "park"]
      /\ mutex' = [c \in Chan |-> IF mutex[c] = t THEN NoTask ELSE mutex[c]]
  BY Zenon DEF EnqueuedAll, UnlockAll
<1>3. TaskTypeOK /\ ChanTypeOK
  BY Zenon DEF IndInv, TypeOK
<1>4. OpInPlace(t) /\ PhaseInPlace(t) /\ TimerInPlace(t) /\ OnceAt(t)
  BY Zenon, AtTask
<1>5. /\ pc'[t] = IF op[t].timeout THEN "arm" ELSE "park"
  BY Zenon, <1>2, <1>3 DEF TaskTypeOK
<1>6. TypeOK'
  <2>1. ChanTypeOK'
    BY Zenon, <1>1, <1>2, <1>3 DEF ChanTypeOK
  <2>2. /\ pc' \in [Task -> PcState]
    BY Zenon, <1>2, <1>3, ChannelAssumption DEF TaskTypeOK, PcState, Phase, Status, TimerState,
       FiringState, TimeoutCase, DefaultCase, NoWinner
  <2>3. QED
    BY Zenon, <1>1, <1>3, <2>1, <2>2 DEF TypeOK, TaskTypeOK
<1>7. OnlyTask(t)
  BY Zenon, <1>1, <1>2, <1>3 DEF OnlyTask, SameTask, TaskTypeOK, ChanTypeOK
<1>8. /\ run[t] = 0 /\ ~Woken(t) /\ ~Claimed(t) /\ firing[t] = "none" /\ timer[t] = "idle"
      /\ IsSelect(t) /\ winner[t] = NoWinner /\ ~Decided(t) /\ phase[t] = "setup" /\ toWake[t] = {}
  BY Zenon, <1>1, <1>2, <1>4, AtRest DEF OpInPlace, PhaseInPlace, TimerInPlace, Decided, IsSelect
<1>9. (IsSelect(t)' <=> IsSelect(t)) /\ (Decided(t)' <=> Decided(t))
  BY Zenon, <1>1, <1>2, <1>5, <1>8 DEF IsSelect, Decided, TimeoutCase, NoWinner
<1>10. OwnWaitersKept(t)
  BY SMTT(60), <1>1, <1>2, <1>4, <1>5, <1>8, <1>9 DEF OwnWaitersKept, WaiterInPlace, Acquirable, CaseOf, CaseIndex, NoWinner
<1>11. OnceAt(t)'
  BY Zenon, <1>1, <1>2, <1>4, <1>5, <1>8, <1>9, WakesKept DEF OnceAt, Claimed, TimerOwes
<1>12. OpInPlace(t)'
  BY SMTT(60), <1>1, <1>2, <1>4, <1>5, <1>8, <1>9 DEF OpInPlace, NoWinner
<1>13. PhaseInPlace(t)'
  BY SMTT(60), <1>1, <1>2, <1>4, <1>5, <1>8, <1>9 DEF PhaseInPlace
<1>14. TimerInPlace(t)'
  BY Zenon, <1>1, <1>2, <1>4, <1>5, <1>8, <1>9 DEF TimerInPlace
<1>15. pc'[t] = "enqueue" => StillBlocked(t)'
  BY Zenon, <1>5
<1>16. QED
  BY Zenon, <1>6, <1>7, <1>10, <1>11, <1>12, <1>13, <1>14, <1>15, QuietStep

(* case_arm putting the timeout into the timer heap.                        *)
LEMMA ArmStep ==
  ASSUME IndInv, NEW t \in Task, Arm(t)
  PROVE  IndInv'
<1>1. UNCHANGED <<ring, count, sendIndex, recvIndex, closed, senders,
                  receivers, mutex, op, ops, winner, phase, status, value,
                  toWake, run, cursor, firing>>
  BY Zenon DEF Arm, chanVars, channelVars, taskVars, selectVars
<1>2. /\ pc[t] = "arm"
      /\ timer' = [timer EXCEPT ![t] = "armed"]
      /\ pc' = [pc EXCEPT ![t] = "park"]
  BY Zenon DEF Arm
<1>3. TaskTypeOK /\ ChanTypeOK
  BY Zenon DEF IndInv, TypeOK
<1>4. OpInPlace(t) /\ PhaseInPlace(t) /\ TimerInPlace(t) /\ OnceAt(t)
  BY Zenon, AtTask
<1>5. /\ timer'[t] = "armed"
      /\ pc'[t] = "park"
  BY Zenon, <1>2, <1>3 DEF TaskTypeOK
<1>6. TypeOK'
  <2>1. ChanTypeOK'
    BY Zenon, <1>1, <1>2, <1>3 DEF ChanTypeOK
  <2>2. /\ timer' \in [Task -> TimerState]
        /\ pc' \in [Task -> PcState]
    BY Zenon, <1>2, <1>3, ChannelAssumption DEF TaskTypeOK, PcState, Phase, Status, TimerState,
       FiringState, TimeoutCase, DefaultCase, NoWinner
  <2>3. QED
    BY Zenon, <1>1, <1>3, <2>1, <2>2 DEF TypeOK, TaskTypeOK
<1>7. OnlyTask(t)
  BY Zenon, <1>1, <1>2, <1>3 DEF OnlyTask, SameTask, TaskTypeOK, ChanTypeOK
<1>8. /\ IsSelect(t) /\ run[t] = 0 /\ timer[t] = "idle" /\ firing[t] = "none" /\ toWake[t] = {}
  BY Zenon, <1>1, <1>2, <1>4, AtRest DEF OpInPlace, PhaseInPlace, TimerInPlace, Decided, IsSelect
<1>9. (IsSelect(t)' <=> IsSelect(t)) /\ (Decided(t)' <=> Decided(t))
  BY Zenon, <1>1, <1>2, <1>5, <1>8 DEF IsSelect, Decided, TimeoutCase, NoWinner
<1>10. OwnWaitersKept(t)
  BY Zenon, <1>1, <1>2, <1>5, <1>8, <1>9, OwnMoved
<1>11. OnceAt(t)'
  BY Zenon, <1>1, <1>2, <1>4, <1>5, <1>8, <1>9, WakesKept DEF OnceAt, Claimed, TimerOwes
<1>12. OpInPlace(t)'
  BY Zenon, <1>1, <1>2, <1>4, <1>5, <1>8, <1>9 DEF OpInPlace, NoWinner
<1>13. PhaseInPlace(t)'
  BY Zenon, <1>1, <1>2, <1>4, <1>5, <1>8, <1>9 DEF PhaseInPlace
<1>14. TimerInPlace(t)'
  BY Zenon, <1>1, <1>2, <1>4, <1>5, <1>8, <1>9 DEF TimerInPlace
<1>15. pc'[t] = "enqueue" => StillBlocked(t)'
  BY Zenon, <1>5
<1>16. QED
  BY Zenon, <1>6, <1>7, <1>10, <1>11, <1>12, <1>13, <1>14, <1>15, QuietStep

(* The compare-exchange that ends setup(): parked, or a waker was first.    *)
LEMMA ParkStep ==
  ASSUME IndInv, NEW t \in Task, Park(t)
  PROVE  IndInv'
<1>1. UNCHANGED <<ring, count, sendIndex, recvIndex, closed, senders,
                  receivers, mutex, op, ops, winner, status, value, toWake,
                  run, timer, firing>>
  BY Zenon DEF Park, chanVars, channelVars, taskVars, selectVars
<1>2. /\ pc[t] = "park"
      /\ phase' = [phase EXCEPT ![t] = IF @ = "setup" THEN "parked" ELSE @]
      /\ pc' = [pc EXCEPT ![t] = IF phase[t] = "setup" THEN "parked" ELSE "finish"]
      /\ cursor' = [cursor EXCEPT ![t] = 1]
  BY Zenon DEF Park
<1>3. TaskTypeOK /\ ChanTypeOK
  BY Zenon DEF IndInv, TypeOK
<1>4. OpInPlace(t) /\ PhaseInPlace(t) /\ TimerInPlace(t) /\ OnceAt(t)
  BY Zenon, AtTask
<1>5. /\ phase'[t] = IF phase[t] = "setup" THEN "parked" ELSE phase[t]
      /\ pc'[t] = IF phase[t] = "setup" THEN "parked" ELSE "finish"
      /\ cursor'[t] = 1
  BY Zenon, <1>2, <1>3 DEF TaskTypeOK
<1>6. TypeOK'
  <2>1. ChanTypeOK'
    BY Zenon, <1>1, <1>2, <1>3 DEF ChanTypeOK
  <2>2. /\ phase' \in [Task -> Phase]
        /\ pc' \in [Task -> PcState]
        /\ cursor' \in [Task -> 1..(MaxCases + 1)]
    BY SMTT(60), <1>2, <1>3, ChannelAssumption DEF TaskTypeOK, PcState, Phase, Status, TimerState,
       FiringState, TimeoutCase, DefaultCase, NoWinner
  <2>3. QED
    BY Zenon, <1>1, <1>3, <2>1, <2>2 DEF TypeOK, TaskTypeOK
<1>7. OnlyTask(t)
  BY Zenon, <1>1, <1>2, <1>3 DEF OnlyTask, SameTask, TaskTypeOK, ChanTypeOK
<1>8. /\ IsSelect(t) /\ op[t].how = "select" /\ run[t] = 0 /\ firing[t] \notin {"won", "schedule"} /\ toWake[t] = {}
      /\ phase[t] # "setup" => phase[t] = "resumed" /\ Decided(t)
  BY Zenon, <1>1, <1>2, <1>4, AtRest DEF OpInPlace, PhaseInPlace, TimerInPlace, Decided, IsSelect
<1>9. (IsSelect(t)' <=> IsSelect(t)) /\ (Decided(t)' <=> Decided(t))
  BY Zenon, <1>1, <1>2, <1>5, <1>8 DEF IsSelect, Decided, TimeoutCase, NoWinner
<1>10. OwnWaitersKept(t)
  BY Zenon, <1>1, <1>2, <1>5, <1>8, <1>9, OwnMoved
<1>11. OnceAt(t)'
  BY SMTT(60), <1>1, <1>2, <1>4, <1>5, <1>8, <1>9, WakesKept DEF OnceAt, Claimed, TimerOwes
<1>12. OpInPlace(t)'
  BY SMTT(60), <1>1, <1>2, <1>4, <1>5, <1>8, <1>9 DEF OpInPlace, NoWinner
<1>13. PhaseInPlace(t)'
  BY SMTT(60), <1>1, <1>2, <1>4, <1>5, <1>8, <1>9 DEF PhaseInPlace
<1>14. TimerInPlace(t)'
  BY Zenon, <1>1, <1>2, <1>4, <1>5, <1>8, <1>9 DEF TimerInPlace
<1>15. pc'[t] = "enqueue" => StillBlocked(t)'
  BY Zenon, <1>5
<1>16. QED
  BY Zenon, <1>6, <1>7, <1>10, <1>11, <1>12, <1>13, <1>14, <1>15, QuietStep

(* The scheduler resuming a parked select.                                  *)
LEMMA SelectResumeStep ==
  ASSUME IndInv, NEW t \in Task, SelectResume(t)
  PROVE  IndInv'
<1>1. UNCHANGED <<ring, count, sendIndex, recvIndex, closed, senders,
                  receivers, mutex, op, ops, winner, phase, status, value,
                  toWake, cursor, timer, firing>>
  BY Zenon DEF SelectResume, chanVars, channelVars, taskVars, selectVars
<1>2. /\ pc[t] = "parked"
      /\ IsSelect(t)
      /\ run[t] > 0
      /\ run' = [run EXCEPT ![t] = @ - 1]
      /\ pc' = [pc EXCEPT ![t] = "finish"]
  BY Zenon DEF SelectResume
<1>3. TaskTypeOK /\ ChanTypeOK
  BY Zenon DEF IndInv, TypeOK
<1>4. OpInPlace(t) /\ PhaseInPlace(t) /\ TimerInPlace(t) /\ OnceAt(t)
  BY Zenon, AtTask
<1>5. /\ run'[t] = run[t] - 1
      /\ pc'[t] = "finish"
  BY Zenon, <1>2, <1>3 DEF TaskTypeOK
<1>6. TypeOK'
  <2>1. ChanTypeOK'
    BY Zenon, <1>1, <1>2, <1>3 DEF ChanTypeOK
  <2>2. /\ run' \in [Task -> Nat]
        /\ pc' \in [Task -> PcState]
    BY SMTT(60), <1>2, <1>3, ChannelAssumption DEF TaskTypeOK, PcState, Phase, Status, TimerState,
       FiringState, TimeoutCase, DefaultCase, NoWinner
  <2>3. QED
    BY Zenon, <1>1, <1>3, <2>1, <2>2 DEF TypeOK, TaskTypeOK
<1>7. OnlyTask(t)
  BY Zenon, <1>1, <1>2, <1>3 DEF OnlyTask, SameTask, TaskTypeOK, ChanTypeOK
<1>8. /\ run[t] = 1 /\ Decided(t) /\ ~Woken(t) /\ ~TimerOwes(t) /\ cursor[t] = 1
      /\ op[t].how = "select" /\ op[t] # NoOp /\ toWake[t] = {}
  BY Zenon, <1>2, <1>4, AtRest DEF OpInPlace, IsSelect
<1>9. (IsSelect(t)' <=> IsSelect(t)) /\ (Decided(t)' <=> Decided(t))
  BY Zenon, <1>1, <1>2, <1>5, <1>8 DEF IsSelect, Decided, TimeoutCase, NoWinner
<1>10. OwnWaitersKept(t)
  BY Zenon, <1>1, <1>2, <1>5, <1>8, <1>9, OwnMoved
<1>11. OnceAt(t)'
  BY SMTT(60), <1>1, <1>2, <1>4, <1>5, <1>8, <1>9, WakesKept DEF OnceAt, Claimed, TimerOwes
<1>12. OpInPlace(t)'
  BY Zenon, <1>1, <1>2, <1>4, <1>5, <1>8, <1>9 DEF OpInPlace, NoWinner
<1>13. PhaseInPlace(t)'
  BY Zenon, <1>1, <1>2, <1>4, <1>5, <1>8, <1>9 DEF PhaseInPlace
<1>14. TimerInPlace(t)'
  BY Zenon, <1>1, <1>2, <1>4, <1>5, <1>8, <1>9 DEF TimerInPlace, TimerOwes
<1>15. pc'[t] = "enqueue" => StillBlocked(t)'
  BY Zenon, <1>5
<1>16. QED
  BY Zenon, <1>6, <1>7, <1>10, <1>11, <1>12, <1>13, <1>14, <1>15, QuietStep

(* finish() taking its timeout back, once no callback is running.           *)
LEMMA DisarmStep ==
  ASSUME IndInv, NEW t \in Task, Disarm(t)
  PROVE  IndInv'
<1>1. UNCHANGED <<ring, count, sendIndex, recvIndex, closed, senders,
                  receivers, mutex, op, ops, winner, phase, status, value,
                  toWake, run, cursor, firing>>
  BY Zenon DEF Disarm, chanVars, channelVars, taskVars, selectVars
<1>2. /\ pc[t] = "finish"
      /\ cursor[t] > Len(op[t].cases)
      /\ timer[t] # "firing"
      /\ timer' = [timer EXCEPT ![t] = "idle"]
      /\ pc' = [pc EXCEPT ![t] = "done"]
  BY Zenon DEF Disarm
<1>3. TaskTypeOK /\ ChanTypeOK
  BY Zenon DEF IndInv, TypeOK
<1>4. OpInPlace(t) /\ PhaseInPlace(t) /\ TimerInPlace(t) /\ OnceAt(t)
  BY Zenon, AtTask
<1>5. /\ timer'[t] = "idle"
      /\ pc'[t] = "done"
  BY Zenon, <1>2, <1>3 DEF TaskTypeOK
<1>6. TypeOK'
  <2>1. ChanTypeOK'
    BY Zenon, <1>1, <1>2, <1>3 DEF ChanTypeOK
  <2>2. /\ timer' \in [Task -> TimerState]
        /\ pc' \in [Task -> PcState]
    BY Zenon, <1>2, <1>3, ChannelAssumption DEF TaskTypeOK, PcState, Phase, Status, TimerState,
       FiringState, TimeoutCase, DefaultCase, NoWinner
  <2>3. QED
    BY Zenon, <1>1, <1>3, <2>1, <2>2 DEF TypeOK, TaskTypeOK
<1>7. OnlyTask(t)
  BY Zenon, <1>1, <1>2, <1>3 DEF OnlyTask, SameTask, TaskTypeOK, ChanTypeOK
<1>8. /\ run[t] = 0 /\ IsSelect(t) /\ op[t] # NoOp /\ toWake[t] = {} /\ firing[t] = "none" /\ cursor[t] \in Nat
      /\ op[t] \in Op /\ Len(op[t].cases) \in Nat
  <2>1. run[t] = 0 /\ IsSelect(t) /\ op[t] # NoOp /\ toWake[t] = {}
    BY Zenon, <1>2, <1>4, AtRest DEF OpInPlace
  <2>2. firing[t] = "none"
    BY Zenon, <1>2, <1>4, AtRest, AtTask DEF TimerInPlace, TimerState, FiringState
  <2>3. cursor[t] \in Nat /\ op[t] \in Op
    BY SMTT(60), <1>3, <2>1, ChannelAssumption DEF TaskTypeOK
  <2>4. Len(op[t].cases) \in Nat
    BY SMTT(60), <2>3, ChannelAssumption DEF OpType
  <2>5. QED
    BY Zenon, <2>1, <2>2, <2>3, <2>4
<1>9. (IsSelect(t)' <=> IsSelect(t)) /\ (Decided(t)' <=> Decided(t))
  BY Zenon, <1>1, <1>2, <1>5, <1>8 DEF IsSelect, Decided, TimeoutCase, NoWinner
<1>10. OwnWaitersKept(t)
  <2>1. SUFFICES ASSUME NEW i \in CaseIndex, NEW c \in Chan, NEW dir \in {"send", "recv"},
                        WaiterInPlace(<<t, i>>, dir, c)
                 PROVE  FALSE
    BY Zenon DEF OwnWaitersKept
  <2>2. PICK w : w = <<t, i>> /\ w[1] = t /\ w[2] = i
    <3>1. <<t, i>>[1] = t /\ <<t, i>>[2] = i
      BY SMTT(60)
    <3>2. QED
      BY Zenon, <3>1
  <2>3. i \in 1..Len(op[t].cases) /\ i >= cursor[t]
    BY Zenon, <1>2, <1>8, <2>1, <2>2 DEF WaiterInPlace, IsSelect
  <2>4. QED
    BY SMTT(60), <1>2, <1>8, <2>3
<1>11. OnceAt(t)'
  BY Zenon, <1>1, <1>2, <1>4, <1>5, <1>8, <1>9, WakesKept DEF OnceAt, Claimed, TimerOwes
<1>12. OpInPlace(t)'
  BY Zenon, <1>1, <1>2, <1>4, <1>5, <1>8, <1>9 DEF OpInPlace, NoWinner
<1>13. PhaseInPlace(t)'
  BY Zenon, <1>1, <1>2, <1>4, <1>5, <1>8, <1>9 DEF PhaseInPlace
<1>14. TimerInPlace(t)'
  BY Zenon, <1>1, <1>2, <1>4, <1>5, <1>8, <1>9 DEF TimerInPlace
<1>15. pc'[t] = "enqueue" => StillBlocked(t)'
  BY Zenon, <1>5
<1>16. QED
  BY Zenon, <1>6, <1>7, <1>10, <1>11, <1>12, <1>13, <1>14, <1>15, QuietStep

(* The end of the wake list.                                                *)
LEMMA WakesDoneStep ==
  ASSUME IndInv, NEW t \in Task, WakesDone(t), UNCHANGED selectVars
  PROVE  IndInv'
<1>1. UNCHANGED <<ring, count, sendIndex, recvIndex, closed, senders,
                  receivers, mutex, op, ops, winner, phase, status, value,
                  toWake, run, cursor, timer, firing>>
  BY Zenon DEF WakesDone, chanVars, channelVars, taskVars, selectVars
<1>2. /\ pc[t] = "wake"
      /\ toWake[t] = {}
      /\ pc' = [pc EXCEPT ![t] = "done"]
  BY Zenon DEF WakesDone
<1>3. TaskTypeOK /\ ChanTypeOK
  BY Zenon DEF IndInv, TypeOK
<1>4. OpInPlace(t) /\ PhaseInPlace(t) /\ TimerInPlace(t) /\ OnceAt(t)
  BY Zenon, AtTask
<1>5. /\ pc'[t] = "done"
  BY Zenon, <1>2, <1>3 DEF TaskTypeOK
<1>6. TypeOK'
  <2>1. ChanTypeOK'
    BY Zenon, <1>1, <1>2, <1>3 DEF ChanTypeOK
  <2>2. /\ pc' \in [Task -> PcState]
    BY Zenon, <1>2, <1>3, ChannelAssumption DEF TaskTypeOK, PcState, Phase, Status, TimerState,
       FiringState, TimeoutCase, DefaultCase, NoWinner
  <2>3. QED
    BY Zenon, <1>1, <1>3, <2>1, <2>2 DEF TypeOK, TaskTypeOK
<1>7. OnlyTask(t)
  BY Zenon, <1>1, <1>2, <1>3 DEF OnlyTask, SameTask, TaskTypeOK, ChanTypeOK
<1>8. /\ run[t] = 0 /\ ~Woken(t) /\ ~Claimed(t) /\ firing[t] = "none" /\ timer[t] = "idle"
  BY Zenon, <1>2, AtRest
<1>9. (IsSelect(t)' <=> IsSelect(t)) /\ (Decided(t)' <=> Decided(t))
  BY Zenon, <1>1, <1>2, <1>5, <1>8 DEF IsSelect, Decided, TimeoutCase, NoWinner
<1>10. OwnWaitersKept(t)
  BY Zenon, <1>1, <1>2, <1>4, <1>5, <1>8, <1>9 DEF OwnWaitersKept, WaiterInPlace, Acquirable, CaseOf, CaseIndex, NoWinner
<1>11. OnceAt(t)'
  BY Zenon, <1>1, <1>2, <1>4, <1>5, <1>8, <1>9, WakesKept DEF OnceAt, Claimed, TimerOwes
<1>12. OpInPlace(t)'
  BY Zenon, <1>1, <1>2, <1>4, <1>5, <1>8, <1>9 DEF OpInPlace, NoWinner
<1>13. PhaseInPlace(t)'
  BY Zenon, <1>1, <1>2, <1>4, <1>5, <1>8, <1>9 DEF PhaseInPlace
<1>14. TimerInPlace(t)'
  BY Zenon, <1>1, <1>2, <1>4, <1>5, <1>8, <1>9 DEF TimerInPlace
<1>15. pc'[t] = "enqueue" => StillBlocked(t)'
  BY Zenon, <1>5
<1>16. QED
  BY Zenon, <1>6, <1>7, <1>10, <1>11, <1>12, <1>13, <1>14, <1>15, QuietStep

(* The scheduler resuming a parked send or recv.                            *)
LEMMA ResumeStep ==
  ASSUME IndInv, NEW t \in Task, Resume(t), UNCHANGED selectVars
  PROVE  IndInv'
<1>1. UNCHANGED <<ring, count, sendIndex, recvIndex, closed, senders,
                  receivers, mutex, op, ops, winner, phase, status, value,
                  toWake, cursor, timer, firing>>
  BY Zenon DEF Resume, chanVars, channelVars, taskVars, selectVars
<1>2. /\ pc[t] = "parked"
      /\ ~IsSelect(t)
      /\ run[t] > 0
      /\ run' = [run EXCEPT ![t] = @ - 1]
      /\ pc' = [pc EXCEPT ![t] = "done"]
  BY Zenon DEF Resume
<1>3. TaskTypeOK /\ ChanTypeOK
  BY Zenon DEF IndInv, TypeOK
<1>4. OpInPlace(t) /\ PhaseInPlace(t) /\ TimerInPlace(t) /\ OnceAt(t)
  BY Zenon, AtTask
<1>5. /\ run'[t] = run[t] - 1
      /\ pc'[t] = "done"
  BY Zenon, <1>2, <1>3 DEF TaskTypeOK
<1>6. TypeOK'
  <2>1. ChanTypeOK'
    BY Zenon, <1>1, <1>2, <1>3 DEF ChanTypeOK
  <2>2. /\ run' \in [Task -> Nat]
        /\ pc' \in [Task -> PcState]
    BY SMTT(60), <1>2, <1>3, ChannelAssumption DEF TaskTypeOK, PcState, Phase, Status, TimerState,
       FiringState, TimeoutCase, DefaultCase, NoWinner
  <2>3. QED
    BY Zenon, <1>1, <1>3, <2>1, <2>2 DEF TypeOK, TaskTypeOK
<1>7. OnlyTask(t)
  BY Zenon, <1>1, <1>2, <1>3 DEF OnlyTask, SameTask, TaskTypeOK, ChanTypeOK
<1>8. /\ run[t] = 1 /\ Decided(t) /\ ~Woken(t) /\ ~TimerOwes(t) /\ toWake[t] = {} /\ timer[t] = "idle" /\ firing[t] = "none"
  BY Zenon, <1>2, <1>4, AtRest DEF OpInPlace, TimerInPlace
<1>9. (IsSelect(t)' <=> IsSelect(t)) /\ (Decided(t)' <=> Decided(t))
  BY Zenon, <1>1, <1>2, <1>5, <1>8 DEF IsSelect, Decided, TimeoutCase, NoWinner
<1>10. OwnWaitersKept(t)
  BY Zenon, <1>1, <1>2, <1>4, <1>5, <1>8, <1>9 DEF OwnWaitersKept, WaiterInPlace, Acquirable, CaseOf
<1>11. OnceAt(t)'
  BY SMTT(60), <1>1, <1>2, <1>4, <1>5, <1>8, <1>9, WakesKept DEF OnceAt, Claimed, TimerOwes
<1>12. OpInPlace(t)'
  BY Zenon, <1>1, <1>2, <1>4, <1>5, <1>8, <1>9 DEF OpInPlace, NoWinner
<1>13. PhaseInPlace(t)'
  BY Zenon, <1>1, <1>2, <1>4, <1>5, <1>8, <1>9 DEF PhaseInPlace
<1>14. TimerInPlace(t)'
  BY Zenon, <1>1, <1>2, <1>4, <1>5, <1>8, <1>9 DEF TimerInPlace
<1>15. pc'[t] = "enqueue" => StillBlocked(t)'
  BY Zenon, <1>5
<1>16. QED
  BY Zenon, <1>6, <1>7, <1>10, <1>11, <1>12, <1>13, <1>14, <1>15, QuietStep

(* await_resume handing over the result and dropping the awaiter.           *)
LEMMA ReturnStep ==
  ASSUME IndInv, NEW t \in Task, Return(t), UNCHANGED selectVars
  PROVE  IndInv'
<1>1. UNCHANGED <<ring, count, sendIndex, recvIndex, closed, senders,
                  receivers, mutex, ops, toWake, run, cursor, timer, firing>>
  BY Zenon DEF Return, chanVars, channelVars, taskVars, selectVars
<1>2. /\ pc[t] = "done"
      /\ pc' = [pc EXCEPT ![t] = "idle"]
      /\ op' = [op EXCEPT ![t] = NoOp]
      /\ winner' = [winner EXCEPT ![t] = NoWinner]
      /\ phase' = [phase EXCEPT ![t] = "setup"]
      /\ status' = [status EXCEPT ![t] = "pending"]
      /\ value' = [value EXCEPT ![t] = NoMsg]
  BY Zenon DEF Return
<1>3. TaskTypeOK /\ ChanTypeOK
  BY Zenon DEF IndInv, TypeOK
<1>4. OpInPlace(t) /\ PhaseInPlace(t) /\ TimerInPlace(t) /\ OnceAt(t)
  BY Zenon, AtTask
<1>5. /\ pc'[t] = "idle"
      /\ op'[t] = NoOp
      /\ winner'[t] = NoWinner
      /\ phase'[t] = "setup"
      /\ status'[t] = "pending"
      /\ value'[t] = NoMsg
  BY Zenon, <1>2, <1>3 DEF TaskTypeOK
<1>6. TypeOK'
  <2>1. ChanTypeOK'
    BY Zenon, <1>1, <1>2, <1>3 DEF ChanTypeOK
  <2>2. /\ pc' \in [Task -> PcState]
        /\ op' \in [Task -> Op \cup {NoOp}]
        /\ winner' \in [Task -> 0..DefaultCase]
        /\ phase' \in [Task -> Phase]
        /\ status' \in [Task -> Status]
        /\ value' \in [Task -> Msg \cup {NoMsg}]
    BY SMTT(60), <1>2, <1>3, ChannelAssumption DEF TaskTypeOK, PcState, Phase, Status, TimerState,
       FiringState, TimeoutCase, DefaultCase, NoWinner
  <2>3. QED
    BY Zenon, <1>1, <1>3, <2>1, <2>2 DEF TypeOK, TaskTypeOK
<1>7. OnlyTask(t)
  BY Zenon, <1>1, <1>2, <1>3 DEF OnlyTask, SameTask, TaskTypeOK, ChanTypeOK
<1>8. /\ run[t] = 0 /\ ~Woken(t) /\ ~Claimed(t) /\ firing[t] = "none" /\ timer[t] = "idle" /\ toWake[t] = {}
  BY Zenon, <1>2, <1>4, AtRest DEF OpInPlace
<1>9. ~Decided(t)' /\ ~IsSelect(t)'
  BY Zenon, <1>1, <1>2, <1>5, <1>8 DEF IsSelect, Decided, TimeoutCase, NoWinner
<1>10. OwnWaitersKept(t)
  BY Zenon, <1>1, <1>2, <1>4, <1>5, <1>8, <1>9 DEF OwnWaitersKept, WaiterInPlace, Acquirable, CaseOf
<1>11. OnceAt(t)'
  BY Zenon, <1>1, <1>2, <1>4, <1>5, <1>8, <1>9, WakesKept DEF OnceAt, Claimed, TimerOwes
<1>12. OpInPlace(t)'
  BY Zenon, <1>1, <1>2, <1>4, <1>5, <1>8, <1>9 DEF OpInPlace, NoWinner
<1>13. PhaseInPlace(t)'
  BY Zenon, <1>1, <1>2, <1>4, <1>5, <1>8, <1>9 DEF PhaseInPlace
<1>14. TimerInPlace(t)'
  BY Zenon, <1>1, <1>2, <1>4, <1>5, <1>8, <1>9 DEF TimerInPlace
<1>15. pc'[t] = "enqueue" => StillBlocked(t)'
  BY Zenon, <1>5
<1>16. QED
  BY Zenon, <1>6, <1>7, <1>10, <1>11, <1>12, <1>13, <1>14, <1>15, QuietStep

(* The timer service popping an expired timeout.                            *)
LEMMA ExpireStep ==
  ASSUME IndInv, NEW t \in Task, Expire(t)
  PROVE  IndInv'
<1>1. UNCHANGED <<ring, count, sendIndex, recvIndex, closed, senders,
                  receivers, mutex, pc, op, ops, winner, phase, status, value,
                  toWake, run, cursor>>
  BY Zenon DEF Expire, chanVars, channelVars, taskVars, selectVars
<1>2. /\ timer[t] = "armed"
      /\ timer' = [timer EXCEPT ![t] = "firing"]
      /\ firing' = [firing EXCEPT ![t] = "claim"]
  BY Zenon DEF Expire
<1>3. TaskTypeOK /\ ChanTypeOK
  BY Zenon DEF IndInv, TypeOK
<1>4. OpInPlace(t) /\ PhaseInPlace(t) /\ TimerInPlace(t) /\ OnceAt(t)
  BY Zenon, AtTask
<1>5. /\ timer'[t] = "firing"
      /\ firing'[t] = "claim"
  BY Zenon, <1>2, <1>3 DEF TaskTypeOK
<1>6. TypeOK'
  <2>1. ChanTypeOK'
    BY Zenon, <1>1, <1>2, <1>3 DEF ChanTypeOK
  <2>2. /\ timer' \in [Task -> TimerState]
        /\ firing' \in [Task -> FiringState]
    BY Zenon, <1>2, <1>3, ChannelAssumption DEF TaskTypeOK, PcState, Phase, Status, TimerState,
       FiringState, TimeoutCase, DefaultCase, NoWinner
  <2>3. QED
    BY Zenon, <1>1, <1>3, <2>1, <2>2 DEF TypeOK, TaskTypeOK
<1>7. OnlyTask(t)
  BY Zenon, <1>1, <1>2, <1>3 DEF OnlyTask, SameTask, TaskTypeOK, ChanTypeOK
<1>8. /\ IsSelect(t) /\ pc[t] \in {"park", "parked", "finish"} /\ firing[t] = "none"
  BY Zenon, <1>2, <1>4 DEF TimerInPlace
<1>9. (IsSelect(t)' <=> IsSelect(t)) /\ (Decided(t)' <=> Decided(t))
  BY Zenon, <1>1, <1>2, <1>5, <1>8 DEF IsSelect, Decided, TimeoutCase, NoWinner
<1>10. OwnWaitersKept(t)
  BY Zenon, <1>1, OwnKept
<1>11. OnceAt(t)'
  BY Zenon, <1>1, <1>2, <1>4, <1>5, <1>8, <1>9, WakesKept DEF OnceAt, Claimed, TimerOwes
<1>12. OpInPlace(t)'
  BY Zenon, <1>1, <1>2, <1>4, <1>5, <1>8, <1>9 DEF OpInPlace, NoWinner
<1>13. PhaseInPlace(t)'
  BY Zenon, <1>1, <1>2, <1>4, <1>5, <1>8, <1>9, PhaseKept
<1>14. TimerInPlace(t)'
  BY Zenon, <1>1, <1>2, <1>4, <1>5, <1>8, <1>9 DEF TimerInPlace
<1>15. pc'[t] = "enqueue" => StillBlocked(t)'
  BY Zenon, <1>1, <1>8
<1>16. QED
  BY Zenon, <1>6, <1>7, <1>10, <1>11, <1>12, <1>13, <1>14, <1>15, QuietStep

(* select_timeout_fired competing for the winner word.                      *)
LEMMA TimerClaimStep ==
  ASSUME IndInv, NEW t \in Task, TimerClaim(t)
  PROVE  IndInv'
<1>1. UNCHANGED <<ring, count, sendIndex, recvIndex, closed, senders,
                  receivers, mutex, pc, op, ops, phase, status, value, toWake,
                  run, cursor, timer>>
  BY Zenon DEF TimerClaim, chanVars, channelVars, taskVars, selectVars
<1>2. /\ firing[t] = "claim"
      /\ winner' = [winner EXCEPT ![t] = IF @ = NoWinner THEN TimeoutCase ELSE @]
      /\ firing' = [firing EXCEPT ![t] = IF winner[t] = NoWinner THEN "exchange" ELSE "lost"]
  BY Zenon DEF TimerClaim
<1>3. TaskTypeOK /\ ChanTypeOK
  BY Zenon DEF IndInv, TypeOK
<1>4. OpInPlace(t) /\ PhaseInPlace(t) /\ TimerInPlace(t) /\ OnceAt(t)
  BY Zenon, AtTask
<1>5. /\ winner'[t] = IF winner[t] = NoWinner THEN TimeoutCase ELSE winner[t]
      /\ firing'[t] = IF winner[t] = NoWinner THEN "exchange" ELSE "lost"
  BY Zenon, <1>2, <1>3 DEF TaskTypeOK
<1>6. TypeOK'
  <2>1. ChanTypeOK'
    BY Zenon, <1>1, <1>2, <1>3 DEF ChanTypeOK
  <2>2. /\ winner' \in [Task -> 0..DefaultCase]
        /\ firing' \in [Task -> FiringState]
    BY SMTT(60), <1>2, <1>3, ChannelAssumption DEF TaskTypeOK, PcState, Phase, Status, TimerState,
       FiringState, TimeoutCase, DefaultCase, NoWinner
  <2>3. QED
    BY Zenon, <1>1, <1>3, <2>1, <2>2 DEF TypeOK, TaskTypeOK
<1>7. OnlyTask(t)
  BY Zenon, <1>1, <1>2, <1>3 DEF OnlyTask, SameTask, TaskTypeOK, ChanTypeOK
<1>8. /\ IsSelect(t) /\ pc[t] \in {"park", "parked", "finish"} /\ timer[t] = "firing"
      /\ pc[t] = "finish" => winner[t] # NoWinner
      /\ winner[t] = NoWinner => ~Decided(t) /\ ~Claimed(t) /\ run[t] = 0 /\ ~Woken(t)
      /\ winner[t] = NoWinner /\ pc[t] = "park" => phase[t] = "setup"
      /\ winner[t] # NoWinner => Decided(t)
      /\ ~TimerOwes(t) /\ TimeoutCase \notin CaseIndex /\ TimeoutCase # NoWinner
  <2>1. IsSelect(t) /\ pc[t] \in {"park", "parked", "finish"} /\ timer[t] = "firing"
    BY Zenon, <1>2, <1>4 DEF TimerInPlace
  <2>2. winner[t] = NoWinner <=> ~Decided(t)
    BY Zenon, <2>1 DEF Decided
  <2>3. ~Decided(t) => ~Claimed(t)
    BY Zenon, <1>4 DEF OnceAt
  <2>4. run[t] \in Nat
    BY Zenon, AtTask
  <2>5. ~Claimed(t) => run[t] = 0 /\ ~Woken(t)
    BY SMTT(60), <2>4 DEF Claimed
  <2>6. pc[t] = "finish" => Decided(t)
    BY Zenon, <1>4 DEF OpInPlace
  <2>7. pc[t] = "park" /\ ~Decided(t) => phase[t] = "setup"
    BY Zenon, <1>4 DEF PhaseInPlace
  <2>8. ~TimerOwes(t) /\ TimeoutCase \notin CaseIndex /\ TimeoutCase # NoWinner
    BY SMTT(60), <1>2, ChannelAssumption DEF TimerOwes, TimeoutCase, CaseIndex, NoWinner
  <2>9. QED
    BY Zenon, <2>1, <2>2, <2>3, <2>5, <2>6, <2>7, <2>8
<1>9. IsSelect(t)' /\ Decided(t)'
  BY Zenon, <1>1, <1>2, <1>5, <1>8 DEF IsSelect, Decided, TimeoutCase, NoWinner
<1>10. OwnWaitersKept(t)
  <2>1. SUFFICES ASSUME NEW i \in CaseIndex, NEW c \in Chan, NEW dir \in {"send", "recv"},
                        WaiterInPlace(<<t, i>>, dir, c)
                 PROVE  /\ WaiterInPlace(<<t, i>>, dir, c)'
                        /\ Acquirable(<<t, i>>)' => Acquirable(<<t, i>>)
    BY Zenon DEF OwnWaitersKept
  <2>2. PICK w : w = <<t, i>> /\ w[1] = t /\ w[2] = i
    <3>1. <<t, i>>[1] = t /\ <<t, i>>[2] = i
      BY SMTT(60)
    <3>2. QED
      BY Zenon, <3>1
  <2>3. winner'[t] # NoWinner /\ i # winner'[t]
    BY Zenon, <1>5, <1>8, <2>1, <2>2 DEF WaiterInPlace
  <2>4. WaiterInPlace(w, dir, c)'
    BY Zenon, <1>1, <1>8, <1>9, <2>1, <2>2, <2>3 DEF WaiterInPlace, CaseOf
  <2>5. ~Acquirable(w)'
    BY Zenon, <1>9, <2>2, <2>3 DEF Acquirable
  <2>6. QED
    BY Zenon, <2>2, <2>4, <2>5
<1>11. OnceAt(t)'
  <2>1. TimerOwes(t)' <=> winner[t] = NoWinner
    BY Zenon, <1>5 DEF TimerOwes
  <2>2. Claimed(t)' <=> Claimed(t) \/ winner[t] = NoWinner
    BY Zenon, <1>1, <1>8, <2>1, WakesKept DEF Claimed
  <2>3. QED
    <3>1. (Woken(t)' <=> Woken(t)) /\ WokenOnce(t)'
      BY Zenon, <1>1, <1>4, WakesKept DEF OnceAt
    <3>2. ASSUME winner[t] = NoWinner PROVE OnceAt(t)'
      BY Zenon, <1>1, <1>4, <1>8, <1>9, <2>1, <2>2, <3>1, <3>2, RunValues DEF OnceAt
    <3>3. ASSUME winner[t] # NoWinner PROVE OnceAt(t)'
      BY Zenon, <1>1, <1>4, <1>8, <1>9, <2>1, <2>2, <3>1, <3>3 DEF OnceAt
    <3>4. QED
      BY Zenon, <3>2, <3>3
<1>12. OpInPlace(t)'
  BY Zenon, <1>1, <1>2, <1>4, <1>5, <1>8, <1>9 DEF OpInPlace
<1>13. PhaseInPlace(t)'
  <2>1. firing[t] \notin {"won", "schedule"} /\ firing'[t] \notin {"won", "schedule"}
    <3>1. firing[t] = "claim" /\ (firing'[t] = "exchange" \/ firing'[t] = "lost")
      BY Zenon, <1>2, <1>5
    <3>2. QED
      BY Zenon, <3>1
  <2>2. (IsSelect(t)' <=> IsSelect(t)) /\ (Decided(t) => Decided(t)')
    BY Zenon, <1>8, <1>9
  <2>3. QED
    BY Zenon, <1>1, <1>4, <2>1, <2>2, PhaseKept
<1>14. TimerInPlace(t)'
  BY Zenon, <1>1, <1>5, <1>8, <1>9 DEF TimerInPlace
<1>15. pc'[t] = "enqueue" => StillBlocked(t)'
  BY Zenon, <1>1, <1>8
<1>16. QED
  BY Zenon, <1>6, <1>7, <1>10, <1>11, <1>12, <1>13, <1>14, <1>15, QuietStep

(* Its phase exchange, which says who resumes the select.                   *)
LEMMA TimerExchangeStep ==
  ASSUME IndInv, NEW t \in Task, TimerExchange(t)
  PROVE  IndInv'
<1>1. UNCHANGED <<ring, count, sendIndex, recvIndex, closed, senders,
                  receivers, mutex, pc, op, ops, winner, status, value, toWake,
                  run, cursor, timer>>
  BY Zenon DEF TimerExchange, chanVars, channelVars, taskVars, selectVars
<1>2. /\ firing[t] = "exchange"
      /\ phase' = [phase EXCEPT ![t] = "resumed"]
      /\ firing' = [firing EXCEPT ![t] = IF phase[t] = "parked" THEN "won" ELSE "lost"]
  BY Zenon DEF TimerExchange
<1>3. TaskTypeOK /\ ChanTypeOK
  BY Zenon DEF IndInv, TypeOK
<1>4. OpInPlace(t) /\ PhaseInPlace(t) /\ TimerInPlace(t) /\ OnceAt(t)
  BY Zenon, AtTask
<1>5. /\ phase'[t] = "resumed"
      /\ firing'[t] = IF phase[t] = "parked" THEN "won" ELSE "lost"
  BY Zenon, <1>2, <1>3 DEF TaskTypeOK
<1>6. TypeOK'
  <2>1. ChanTypeOK'
    BY Zenon, <1>1, <1>2, <1>3 DEF ChanTypeOK
  <2>2. /\ phase' \in [Task -> Phase]
        /\ firing' \in [Task -> FiringState]
    BY Zenon, <1>2, <1>3, ChannelAssumption DEF TaskTypeOK, PcState, Phase, Status, TimerState,
       FiringState, TimeoutCase, DefaultCase, NoWinner
  <2>3. QED
    BY Zenon, <1>1, <1>3, <2>1, <2>2 DEF TypeOK, TaskTypeOK
<1>7. OnlyTask(t)
  BY Zenon, <1>1, <1>2, <1>3 DEF OnlyTask, SameTask, TaskTypeOK, ChanTypeOK
<1>8. /\ IsSelect(t) /\ pc[t] \in {"park", "parked"} /\ timer[t] = "firing"
      /\ Decided(t) /\ run[t] = 0 /\ ~Woken(t) /\ TimerOwes(t) /\ Claimed(t)
      /\ phase[t] = IF pc[t] = "parked" THEN "parked" ELSE "setup"
  <2>1. IsSelect(t) /\ pc[t] \in {"park", "parked", "finish"} /\ timer[t] = "firing"
    BY Zenon, <1>2, <1>4 DEF TimerInPlace
  <2>2. TimerOwes(t) /\ Claimed(t)
    BY Zenon, <1>2 DEF TimerOwes, Claimed
  <2>3. /\ Decided(t) /\ ~Woken(t)
        /\ pc[t] = "parked" \/ (pc[t] = "park" /\ phase[t] = "setup")
    BY Zenon, <1>4, <2>1, <2>2 DEF OnceAt
  <2>4. run[t] = 0
    BY Zenon, <2>2, AtRest
  <2>5. pc[t] = "parked" => phase[t] = "parked"
    BY Zenon, <1>2, <1>4, <2>1, <2>4, RunValues DEF PhaseInPlace
  <2>6. QED
    BY Zenon, <2>1, <2>2, <2>3, <2>4, <2>5
<1>9. (IsSelect(t)' <=> IsSelect(t)) /\ (Decided(t)' <=> Decided(t))
  BY Zenon, <1>1, <1>2, <1>5, <1>8 DEF IsSelect, Decided, TimeoutCase, NoWinner
<1>10. OwnWaitersKept(t)
  BY Zenon, <1>1, OwnKept
<1>11. OnceAt(t)'
  <2>1. /\ run'[t] = 0 /\ pc'[t] = pc[t] /\ ~Woken(t)' /\ WokenOnce(t)'
        /\ TimerOwes(t)' <=> pc[t] = "parked"
    BY Zenon, <1>1, <1>4, <1>5, <1>8, WakesKept DEF OnceAt, TimerOwes
  <2>2. QED
    BY Zenon, <1>5, <1>8, <1>9, <2>1, RunValues DEF OnceAt, Claimed
<1>12. OpInPlace(t)'
  BY Zenon, <1>1, <1>2, <1>4, <1>5, <1>8, <1>9 DEF OpInPlace, NoWinner
<1>13. PhaseInPlace(t)'
  BY Zenon, <1>1, <1>2, <1>4, <1>5, <1>8, <1>9 DEF PhaseInPlace
<1>14. TimerInPlace(t)'
  BY Zenon, <1>1, <1>5, <1>8, <1>9 DEF TimerInPlace
<1>15. pc'[t] = "enqueue" => StillBlocked(t)'
  BY Zenon, <1>1, <1>8
<1>16. QED
  BY Zenon, <1>6, <1>7, <1>10, <1>11, <1>12, <1>13, <1>14, <1>15, QuietStep

(* The timer service publishing kFired after the callback.                  *)
LEMMA TimerFiredStep ==
  ASSUME IndInv, NEW t \in Task, TimerFired(t)
  PROVE  IndInv'
<1>1. UNCHANGED <<ring, count, sendIndex, recvIndex, closed, senders,
                  receivers, mutex, pc, op, ops, winner, phase, status, value,
                  toWake, run, cursor>>
  BY Zenon DEF TimerFired, chanVars, channelVars, taskVars, selectVars
<1>2. /\ firing[t] \in {"lost", "won"}
      /\ timer' = [timer EXCEPT ![t] = "fired"]
      /\ firing' = [firing EXCEPT ![t] = IF @ = "won" THEN "schedule" ELSE "none"]
  BY Zenon DEF TimerFired
<1>3. TaskTypeOK /\ ChanTypeOK
  BY Zenon DEF IndInv, TypeOK
<1>4. OpInPlace(t) /\ PhaseInPlace(t) /\ TimerInPlace(t) /\ OnceAt(t)
  BY Zenon, AtTask
<1>5. /\ timer'[t] = "fired"
      /\ firing'[t] = IF firing[t] = "won" THEN "schedule" ELSE "none"
  BY Zenon, <1>2, <1>3 DEF TaskTypeOK
<1>6. TypeOK'
  <2>1. ChanTypeOK'
    BY Zenon, <1>1, <1>2, <1>3 DEF ChanTypeOK
  <2>2. /\ timer' \in [Task -> TimerState]
        /\ firing' \in [Task -> FiringState]
    BY Zenon, <1>2, <1>3, ChannelAssumption DEF TaskTypeOK, PcState, Phase, Status, TimerState,
       FiringState, TimeoutCase, DefaultCase, NoWinner
  <2>3. QED
    BY Zenon, <1>1, <1>3, <2>1, <2>2 DEF TypeOK, TaskTypeOK
<1>7. OnlyTask(t)
  BY Zenon, <1>1, <1>2, <1>3 DEF OnlyTask, SameTask, TaskTypeOK, ChanTypeOK
<1>8. /\ IsSelect(t) /\ pc[t] \in {"park", "parked", "finish"} /\ timer[t] = "firing"
      /\ firing[t] = "won" => pc[t] = "parked"
      /\ TimerOwes(t) <=> firing[t] = "won"
  BY Zenon, <1>2, <1>4 DEF TimerInPlace, TimerOwes
<1>9. (IsSelect(t)' <=> IsSelect(t)) /\ (Decided(t)' <=> Decided(t))
  BY Zenon, <1>1, <1>2, <1>5, <1>8 DEF IsSelect, Decided, TimeoutCase, NoWinner
<1>10. OwnWaitersKept(t)
  BY Zenon, <1>1, OwnKept
<1>11. OnceAt(t)'
  <2>1. TimerOwes(t)' <=> TimerOwes(t)
    BY SMTT(60), <1>2, <1>5, <1>8 DEF TimerOwes
  <2>2. QED
    BY Zenon, <1>1, <1>4, <1>9, <2>1, WakesKept DEF OnceAt, Claimed
<1>12. OpInPlace(t)'
  BY Zenon, <1>1, <1>2, <1>4, <1>5, <1>8, <1>9 DEF OpInPlace, NoWinner
<1>13. PhaseInPlace(t)'
  <2>1. firing'[t] \in {"won", "schedule"} <=> firing[t] \in {"won", "schedule"}
    <3>1. \/ firing[t] = "won" /\ firing'[t] = "schedule"
          \/ firing[t] = "lost" /\ firing'[t] = "none"
      BY Zenon, <1>2, <1>5
    <3>2. QED
      BY Zenon, <3>1
  <2>2. QED
    BY Zenon, <1>1, <1>4, <1>9, <2>1, PhaseKept
<1>14. TimerInPlace(t)'
  BY SMTT(60), <1>1, <1>2, <1>4, <1>5, <1>8, <1>9 DEF TimerInPlace
<1>15. pc'[t] = "enqueue" => StillBlocked(t)'
  BY Zenon, <1>1, <1>8
<1>16. QED
  BY Zenon, <1>6, <1>7, <1>10, <1>11, <1>12, <1>13, <1>14, <1>15, QuietStep

(* The timer service scheduling the handle the callback returned.           *)
LEMMA TimerScheduleStep ==
  ASSUME IndInv, NEW t \in Task, TimerSchedule(t)
  PROVE  IndInv'
<1>1. UNCHANGED <<ring, count, sendIndex, recvIndex, closed, senders,
                  receivers, mutex, pc, op, ops, winner, phase, status, value,
                  toWake, cursor, timer>>
  BY Zenon DEF TimerSchedule, chanVars, channelVars, taskVars, selectVars
<1>2. /\ firing[t] = "schedule"
      /\ run' = [run EXCEPT ![t] = @ + 1]
      /\ firing' = [firing EXCEPT ![t] = "none"]
  BY Zenon DEF TimerSchedule
<1>3. TaskTypeOK /\ ChanTypeOK
  BY Zenon DEF IndInv, TypeOK
<1>4. OpInPlace(t) /\ PhaseInPlace(t) /\ TimerInPlace(t) /\ OnceAt(t)
  BY Zenon, AtTask
<1>5. /\ run'[t] = run[t] + 1
      /\ firing'[t] = "none"
  BY Zenon, <1>2, <1>3 DEF TaskTypeOK
<1>6. TypeOK'
  <2>1. ChanTypeOK'
    BY Zenon, <1>1, <1>2, <1>3 DEF ChanTypeOK
  <2>2. /\ run' \in [Task -> Nat]
        /\ firing' \in [Task -> FiringState]
    BY SMTT(60), <1>2, <1>3 DEF TaskTypeOK, FiringState
  <2>3. QED
    BY Zenon, <1>1, <1>3, <2>1, <2>2 DEF TypeOK, TaskTypeOK
<1>7. OnlyTask(t)
  BY Zenon, <1>1, <1>2, <1>3 DEF OnlyTask, SameTask, TaskTypeOK, ChanTypeOK
<1>8. /\ IsSelect(t) /\ pc[t] = "parked" /\ timer[t] = "fired"
      /\ Decided(t) /\ run[t] = 0 /\ ~Woken(t) /\ TimerOwes(t) /\ phase[t] = "resumed"
  <2>1. pc[t] = "parked" /\ timer[t] = "fired" /\ IsSelect(t)
    BY Zenon, <1>2, <1>4, AtTask DEF TimerInPlace, TimerState
  <2>2. TimerOwes(t) /\ Claimed(t)
    BY Zenon, <1>2 DEF TimerOwes, Claimed
  <2>3. Decided(t) /\ ~Woken(t)
    BY Zenon, <1>4, <2>2 DEF OnceAt
  <2>4. run[t] = 0
    BY Zenon, <2>2, AtRest
  <2>5. phase[t] = "resumed"
    BY Zenon, <1>2, <1>4, <2>1 DEF PhaseInPlace
  <2>6. QED
    BY Zenon, <2>1, <2>2, <2>3, <2>4, <2>5
<1>9. (IsSelect(t)' <=> IsSelect(t)) /\ (Decided(t)' <=> Decided(t))
  BY Zenon, <1>1, <1>2, <1>5, <1>8 DEF IsSelect, Decided, TimeoutCase, NoWinner
<1>10. OwnWaitersKept(t)
  BY Zenon, <1>1, OwnKept
<1>11. OnceAt(t)'
  <2>1. /\ run'[t] = 1 /\ pc'[t] = "parked" /\ ~Woken(t)' /\ WokenOnce(t)' /\ ~TimerOwes(t)'
    BY Zenon, <1>1, <1>4, <1>5, <1>8, RunValues, WakesKept DEF OnceAt, TimerOwes
  <2>2. QED
    BY Zenon, <1>8, <1>9, <2>1, RunValues DEF OnceAt, Claimed
<1>12. OpInPlace(t)'
  BY Zenon, <1>1, <1>2, <1>4, <1>5, <1>8, <1>9 DEF OpInPlace, NoWinner
<1>13. PhaseInPlace(t)'
  <2>1. run'[t] = 1 /\ pc'[t] = "parked" /\ phase'[t] = "resumed"
    BY Zenon, <1>1, <1>5, <1>8, RunValues
  <2>2. QED
    BY Zenon, <2>1 DEF PhaseInPlace
<1>14. TimerInPlace(t)'
  BY Zenon, <1>1, <1>2, <1>4, <1>5, <1>8, <1>9 DEF TimerInPlace
<1>15. pc'[t] = "enqueue" => StillBlocked(t)'
  BY Zenon, <1>1, <1>8
<1>16. QED
  BY Zenon, <1>6, <1>7, <1>10, <1>11, <1>12, <1>13, <1>14, <1>15, QuietStep
=============================================================================
