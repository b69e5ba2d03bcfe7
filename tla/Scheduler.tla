----------------------------- MODULE Scheduler -----------------------------
(***************************************************************************)
(* The M:N scheduler: the run loop of a worker, its runnext slot, FIFO,     *)
(* inbox and the shared queue, the bitmap of published victims with its     *)
(* clear epoch, searcher credits, stealing, parking and every schedule_*    *)
(* entry point, over the blocking poll of module Poller.                    *)
(*                                                                          *)
(* A thread, worker or foreign, works through an agenda: the calls it still *)
(* has to make, innermost first, each <<name, frames it carries, argument>>.*)
(* One access to a word that other threads touch is one step.  The FIFO and *)
(* the inbox are sequences here; module RunQueue shows that the rings give  *)
(* each of their operations one instant at which it takes effect.           *)
(***************************************************************************)
EXTENDS Poller, Functions

CONSTANTS
  Frame, Outside,          \* coroutine frames and foreign threads
  LocalCap, InboxCap,      \* kLocalQueueCapacity, kRemoteInboxCapacity
  DrainBatch,              \* kInboxDrainBatch
  ServiceEvery, GlobalEvery,    \* kLocalServiceInterval, kGlobalQueueInterval
  SizeMod,                 \* 2^width of the shared queue's size_
  Plan                     \* the programs to explore: what the frames do

Thread == Worker \cup Outside
None == "none"

ASSUME SchedulerAssumption ==
  /\ LocalCap \in Nat /\ LocalCap >= 2 /\ InboxCap \in Nat \ {0}
  /\ DrainBatch \in Nat \ {0} /\ SizeMod > Cardinality(Frame)
  /\ GlobalEvery % ServiceEvery # 0      \* else the one would hide the other

VARIABLES
  prog,        \* the program explored
  code,        \* what each frame and foreign thread still has to do
  cur,         \* the frame a worker is running
  agenda,      \* the calls each thread still has to make
  runnext, queue, inbox,   \* of each worker
  global, gsize,           \* the shared queue and its separate counter
  stealable,   \* stealable_workers_
  known,       \* has_published_stealable_
  stale,       \* clear_epoch differs from seen_clear_epoch
  credit,      \* searcher_credit_
  parked,      \* returned_from_park
  tick, cursor, grace,     \* tick_, fair_cursor_, cooperative_io_local_grace_
  ticket,      \* owner_poll_request_ns_: the monitor found the shard stale
  armed, ready \* frames suspended on a shard, and those the kernel reports

frames == <<prog, code, cur>>
shared == <<global, gsize>>
hints == <<stealable, known, stale, credit>>
loop == <<parked, tick, cursor, grace>>
io == <<armed, ready, ticket>>
vars == <<pollerVars, frames, agenda, runnext, queue, inbox, shared, hints, loop, io>>

Team == prog.workers
Size == Cardinality(Team)

SchedInit ==
  /\ prog \in Plan
  /\ idle = prog.asleep /\ polling = prog.asleep     \* parked from the start
  /\ place = [w \in Worker |-> IF w \in prog.asleep THEN "blocked" ELSE "run"]
  /\ pending = {} /\ token = {} /\ stop = FALSE
  /\ plan = [w \in Worker |-> Never] /\ until = [w \in Worker |-> Never]
  /\ code = prog.code
  /\ cur = [t \in Thread |-> IF t \in Worker THEN None ELSE t]
  /\ agenda = [t \in Thread |-> IF t \in Worker THEN <<>>
                                ELSE << <<"body", <<>>, 0>> >>]
  /\ runnext = [w \in Worker |-> None]
  /\ queue = [w \in Worker |-> <<>>] /\ inbox = [w \in Worker |-> <<>>]
  /\ global = <<>> /\ gsize = 0
  /\ stealable = {} /\ known = {} /\ stale = {} /\ credit = {} /\ parked = {}
  /\ tick = [w \in Worker |-> 0] /\ cursor = [w \in Worker |-> 0] /\ grace = {}
  /\ armed = prog.armed /\ ready = [w \in Worker |-> <<>>]
  /\ ticket = {}

-----------------------------------------------------------------------------
(* The agenda.  Do replaces the innermost call by the calls it makes;       *)
(* Select ends a search with the item found: the worker resumes it, or      *)
(* stages it in runnext and goes on.                                        *)
At(t, call) == agenda[t] # <<>> /\ Head(agenda[t])[1] = call
Items(t) == Head(agenda[t])[2]
Arg(t) == Head(agenda[t])[3]
Become(t, calls) == agenda' = [agenda EXCEPT ![t] = calls]
Do(t, calls) == Become(t, calls \o Tail(agenda[t]))
When(cond, calls) == IF cond THEN calls ELSE <<>>
Select(t, calls, then, f) ==
  Become(t, calls \o << <<then, <<f>>, 0>> >> \o
            When(then = "stage", Tail(agenda[t])))

Push(fs, mode) == << <<"push", fs, [mode |-> mode, kept |-> 0]>> >>
Publish(n) == << <<"publish", <<>>, n>> >>
Search(n) == << <<"search", <<>>, [more |-> n, tries |-> Size]>> >>
Wake(w) == << <<"flag", <<>>, w>> >>
BugWakeIdle(n) == << <<"idle", <<>>, n - 1>> >>   \* one worker short
WakeIdle(n) == << <<"idle", <<>>, n>> >>
Repair(w, batch, tries) ==
  << <<"repair", batch, [victim |-> w, tries |-> tries]>> >>
Steal == When(Size > 1, << <<"steal", <<>>, Size>> >>)
Local == << <<"local", <<>>, 0>> >>
Inbox(then) == << <<"inbox", <<>>, then>> >>
Shared(fs, wakes) ==
  << <<"global", fs, 0>>, <<"count", <<>>, Len(fs)>> >> \o wakes

-----------------------------------------------------------------------------
(* Worker::push and push_overflow.                                          *)
Enqueue(t) ==
  LET fs == Items(t)  a == Arg(t) IN
  /\ At(t, "push")
  /\ IF fs = <<>>
     THEN /\ Do(t, CASE a.mode = "private" \/ a.kept = 0 -> <<>>
                     [] a.mode = "shared" -> Publish(a.kept)
                     [] a.mode = "io" -> When(queue[t] # <<>>, Publish(a.kept)))
          /\ UNCHANGED queue
     ELSE IF Len(queue[t]) < LocalCap
     THEN /\ queue' = [queue EXCEPT ![t] = Append(@, Head(fs))]
          /\ Do(t, << <<"push", Tail(fs), [a EXCEPT !.kept = @ + 1]>> >>)
     ELSE /\ Do(t, << <<"spill", <<Head(fs)>>, Len(queue[t])>>,
                      <<"push", Tail(fs), a>> >>)
          /\ UNCHANGED queue
  /\ UNCHANGED <<runnext, inbox, shared, hints, loop, io, frames, pollerVars>>

(* pop_half fails when a thief moved the head after it was read.            *)
Spill(t) ==
  LET n == IF Len(queue[t]) = Arg(t) THEN Arg(t) \div 2 ELSE 0 IN
  /\ At(t, "spill")
  /\ queue' = [queue EXCEPT ![t] = SubSeq(@, n + 1, Len(@))]
  /\ Do(t, Shared(SubSeq(queue[t], 1, n) \o Items(t),
                  << <<"expose", <<>>, 0>> >> \o WakeIdle(1)))
  /\ UNCHANGED <<runnext, inbox, shared, hints, loop, io, frames, pollerVars>>

Expose(t) ==
  /\ At(t, "expose")
  /\ Do(t, When(queue[t] # <<>>, Publish(1)))
  /\ UNCHANGED <<runnext, queue, inbox, shared, hints, loop, io, frames,
                 pollerVars>>

(* GlobalRunQueue: the item is visible under the lock before it is counted, *)
(* so a consumer may take it first and the counter wraps for a moment.      *)
GlobalPush(t) ==
  /\ At(t, "global") \/ At(t, "count")
  /\ Do(t, <<>>)
  /\ global' = global \o Items(t)
  /\ gsize' = (gsize + Arg(t)) % SizeMod
  /\ UNCHANGED <<runnext, queue, inbox, hints, loop, io, frames, pollerVars>>

TakeGlobal(n) ==
  /\ global' = SubSeq(global, n + 1, Len(global))
  /\ gsize' = (gsize - n) % SizeMod

GlobalEmpty == gsize = 0 \/ global = <<>>

(* find_work takes a share of the shared queue and keeps the rest.          *)
PopBatch(t) ==
  LET n == Min({Len(global), Len(global) \div Size + 1, LocalCap \div 2}) IN
  /\ At(t, "batch")
  /\ IF GlobalEmpty THEN Do(t, <<>>) /\ UNCHANGED <<global, gsize>>
     ELSE /\ TakeGlobal(n)
          /\ Select(t, Push(SubSeq(global, 2, n), "shared"), "resume",
                    Head(global))
  /\ UNCHANGED <<runnext, queue, inbox, hints, loop, io, frames, pollerVars>>

-----------------------------------------------------------------------------
(* publish_stealable, with the handshake that lets a burst skip the bitmap. *)
PublishStealable(t) ==
  /\ At(t, "publish")
  /\ IF Size = 1 THEN Do(t, <<>>) /\ UNCHANGED <<known, stale>>
     ELSE /\ known' = known \cup {t}
          /\ stale' = stale \ {t}
          /\ Do(t, IF t \notin known \/ t \in stale
                   THEN << <<"set", <<>>, Arg(t)>> >>
                   ELSE When(Arg(t) > 1, Search(Arg(t))))
  /\ UNCHANGED <<runnext, queue, inbox, shared, stealable, credit, loop, io,
                 frames, pollerVars>>

SetStealable(t) ==
  /\ At(t, "set")
  /\ stealable' = stealable \cup {t}
  /\ Do(t, When(t \notin stealable \/ Arg(t) > 1, Search(Arg(t))))
  /\ UNCHANGED <<runnext, queue, inbox, shared, known, stale, credit, loop, io,
                 frames, pollerVars>>

(* repair_stealable by the owner, which remembers the answer, or by a thief *)
(* that goes on with its batch: only the thread whose exchange cleared the  *)
(* bit raises the clear epoch and looks at the queue again.                 *)
Repaired(t, a, batch, yes) ==
  /\ known' = IF a.victim # t THEN known
              ELSE IF yes THEN known \cup {t} ELSE known \ {t}
  /\ IF a.victim = t THEN Do(t, <<>>)
     ELSE IF batch = <<>>
     THEN Do(t, When(a.tries > 1, << <<"steal", <<>>, a.tries - 1>> >>))
     ELSE Select(t, Push(Tail(batch), "shared") \o When(yes, Search(1)),
                 "resume", Head(batch))

StillQueued(v) == queue[v] # <<>>

RepairStealable(t) ==
  LET a == Arg(t)  batch == Items(t)  v == a.victim IN
  /\ \/ /\ At(t, "repair")
        /\ IF v \notin stealable THEN Repaired(t, a, batch, FALSE)
           ELSE Do(t, << <<"look", batch, a>> >>) /\ UNCHANGED known
        /\ UNCHANGED <<stealable, stale>>
     \/ /\ At(t, "look")
        /\ IF queue[v] # <<>> THEN Repaired(t, a, batch, TRUE)
           ELSE Do(t, << <<"clear", batch, a>> >>) /\ UNCHANGED known
        /\ UNCHANGED <<stealable, stale>>
     \/ /\ At(t, "clear")
        /\ stealable' = stealable \ {v}
        /\ IF v \notin stealable THEN Repaired(t, a, batch, FALSE)
           ELSE Do(t, << <<"epoch", batch, a>> >>) /\ UNCHANGED known
        /\ UNCHANGED stale
     \/ /\ At(t, "epoch")
        /\ stale' = stale \cup {v}
        /\ Do(t, << <<"again", batch, a>> >>)
        /\ UNCHANGED <<stealable, known>>
     \/ /\ At(t, "again")
        /\ IF ~StillQueued(v) THEN Repaired(t, a, batch, FALSE)
           ELSE Do(t, << <<"reset", batch, a>> >>) /\ UNCHANGED known
        /\ UNCHANGED <<stealable, stale>>
     \/ /\ At(t, "reset")
        /\ stealable' = stealable \cup {v}
        /\ Do(t, Search(1) \o << <<"repaired", batch, a>> >>)
        /\ UNCHANGED <<known, stale>>
     \/ /\ At(t, "repaired")
        /\ Repaired(t, a, batch, TRUE)
        /\ UNCHANGED <<stealable, stale>>
  /\ UNCHANGED <<runnext, queue, inbox, shared, credit, loop, io, frames,
                 pollerVars>>

-----------------------------------------------------------------------------
(* wake_one_searcher: the credit is stored before the exact claim, and a    *)
(* lost claim leaves it behind.  more counts the searchers still wanted.    *)
FindSearcher(t) ==
  /\ At(t, "search")
  /\ \/ /\ idle = {} \/ Arg(t).tries = 0
        /\ Do(t, <<>>)
     \/ /\ Arg(t).tries > 0
        /\ \E w \in idle :
             Do(t, << <<"credit", <<>>, w>>,
                      <<"claim", <<>>, [Arg(t) EXCEPT !.tries = @ - 1]
                                        @@ [who |-> w]>> >>)
  /\ UNCHANGED <<runnext, queue, inbox, shared, hints, loop, io, frames,
                 pollerVars>>

GiveCredit(t) ==
  /\ At(t, "credit")
  /\ credit' = credit \cup {Arg(t)}
  /\ Do(t, <<>>)
  /\ UNCHANGED <<runnext, queue, inbox, shared, stealable, known, stale, loop,
                 io, frames, pollerVars>>

ClaimSearcher(t) ==
  LET a == Arg(t)  next == [more |-> a.more, tries |-> a.tries] IN
  /\ At(t, "claim")
  /\ idle' = idle \ {a.who}
  /\ Do(t, IF a.who \in idle
           THEN Wake(a.who) \o When(a.more > 1, Search(a.more - 1))
           ELSE << <<"search", <<>>, next>> >>)
  /\ UNCHANGED <<runnext, queue, inbox, shared, hints, loop, io, frames,
                 pending, token, polling, plan, place, until, stop>>

(* wake_one_idle, repeated by notify_batch, and wake_worker of one target.  *)
ClaimIdle(t) ==
  /\ \/ /\ At(t, "idle")
        /\ IF idle = {} \/ Arg(t) = 0 THEN Do(t, <<>>) /\ UNCHANGED idle
           ELSE \E w \in idle : /\ idle' = idle \ {w}
                                /\ Do(t, Wake(w) \o WakeIdle(Arg(t) - 1))
     \/ /\ At(t, "target")
        /\ idle' = idle \ {Arg(t)}
        /\ Do(t, When(Arg(t) \in idle, Wake(Arg(t))))
  /\ UNCHANGED <<runnext, queue, inbox, shared, hints, loop, io, frames,
                 pending, token, polling, plan, place, until, stop>>

(* Reactor::wake, two steps of module Poller.                               *)
WakeReactor(t) ==
  \E at \in {"flag", "write"} :
    /\ At(t, at)
    /\ LET next == NudgeNext(Arg(t), at, Never) IN
       Do(t, When(next # "none", << <<next, <<>>, Arg(t)>> >>))
    /\ NudgeStep(Arg(t), at)
    /\ UNCHANGED <<runnext, queue, inbox, shared, hints, loop, io, frames>>

-----------------------------------------------------------------------------
(* steal_from_peers: a published peer, half of its queue, the repair of its *)
(* bit; consume_searcher_credit before anything else after a park.          *)
StealFrom(t) ==
  /\ At(t, "steal")
  /\ LET victims == stealable \ {t} IN
     \/ victims = {} /\ Do(t, <<>>)
     \/ \E v \in victims : Do(t, << <<"grab", <<>>, [victim |-> v,
                                                     tries |-> Arg(t)]>> >>)
  /\ UNCHANGED <<runnext, queue, inbox, shared, hints, loop, io, frames,
                 pollerVars>>

BugGrab(t) ==                                \* the head moves one short
  LET v == Arg(t).victim  n == Len(queue[v]) - Len(queue[v]) \div 2 IN
  /\ At(t, "grab")
  /\ queue' = [queue EXCEPT ![v] = SubSeq(@, Max({n, 1}), Len(@))]
  /\ Do(t, Repair(v, SubSeq(queue[v], 1, n), Arg(t).tries))
  /\ UNCHANGED <<runnext, inbox, shared, hints, loop, io, frames, pollerVars>>

Grab(t) ==
  LET v == Arg(t).victim  n == Len(queue[v]) - Len(queue[v]) \div 2 IN
  /\ At(t, "grab")
  /\ queue' = [queue EXCEPT ![v] = SubSeq(@, n + 1, Len(@))]
  /\ Do(t, Repair(v, SubSeq(queue[v], 1, n), Arg(t).tries))
  /\ UNCHANGED <<runnext, inbox, shared, hints, loop, io, frames, pollerVars>>

ConsumeCredit(t) ==
  /\ \/ /\ At(t, "consume")
        /\ credit' = credit \ {t}
        /\ Do(t, When(t \in credit, Steal \o << <<"pass", <<>>, 0>> >>))
     \/ /\ At(t, "pass")
        /\ Do(t, When(stealable # {}, Search(1)))
        /\ UNCHANGED credit
     \/ /\ At(t, "adopt")
        /\ credit' = IF stealable # {} THEN credit \cup {t} ELSE credit
        /\ Do(t, <<>>)
  /\ UNCHANGED <<runnext, queue, inbox, shared, stealable, known, stale, loop,
                 io, frames, pollerVars>>

(* take_local and push_next: runnext first, then the FIFO.                  *)
TakeLocal(t) ==
  /\ At(t, "local")
  /\ runnext' = [runnext EXCEPT ![t] = None]
  /\ IF runnext[t] # None
     THEN Select(t, <<>>, "resume", runnext[t]) /\ UNCHANGED queue
     ELSE IF queue[t] # <<>>
     THEN /\ queue' = [queue EXCEPT ![t] = Tail(@)]
          /\ Select(t, When(t \in known, Repair(t, <<>>, 0)), "resume",
                    Head(queue[t]))
     ELSE Do(t, <<>>) /\ UNCHANGED queue
  /\ UNCHANGED <<inbox, shared, hints, loop, io, frames, pollerVars>>

(* drain_inbox: the first item is handed out, the others join the FIFO.     *)
DrainInbox(t) ==
  LET n == Min({Len(inbox[t]), DrainBatch}) IN
  /\ At(t, "inbox")
  /\ IF n = 0 THEN Do(t, <<>>) /\ UNCHANGED inbox
     ELSE /\ inbox' = [inbox EXCEPT ![t] = SubSeq(@, n + 1, Len(@))]
          /\ Select(t, Push(SubSeq(inbox[t], 2, n), "shared"), Arg(t),
                    Head(inbox[t]))
  /\ UNCHANGED <<runnext, queue, shared, hints, loop, io, frames, pollerVars>>

(* stage_fairness_item exposes every local item the staged one overtakes;   *)
(* deliver is the first item of a batch that may take a free runnext.       *)
Stage(t) ==
  LET f == Head(Items(t)) IN
  /\ \/ /\ At(t, "stage")
        /\ runnext' = [runnext EXCEPT ![t] = f]
        /\ Do(t, IF runnext[t] # None THEN Push(<<runnext[t]>>, "shared")
                 ELSE << <<"expose", <<>>, 0>> >>)
     \/ /\ At(t, "deliver")
        /\ IF runnext[t] = None
           THEN /\ runnext' = [runnext EXCEPT ![t] = f]
                /\ Do(t, Push(Tail(Items(t)), Arg(t)))
           ELSE Do(t, Push(Items(t), Arg(t))) /\ UNCHANGED runnext
     \/ /\ At(t, "next")
        /\ runnext' = [runnext EXCEPT ![t] = f]
        /\ Do(t, When(runnext[t] # None, Push(<<runnext[t]>>, "private")))
  /\ UNCHANGED <<queue, inbox, shared, hints, loop, io, frames, pollerVars>>

(* Reactor::poll(0) by the owner: the reported frames are delivered, and a  *)
(* wake token is drained before wake_pending_ is dropped.  find_work polls  *)
(* only before a steal; service_fairness publishes the private FIFO that a  *)
(* completion in runnext would overtake.                                    *)
PollNow(w, why) == When(w \in prog.shards, << <<"poll", <<>>, why>> >>)

Poll(t) ==
  /\ \/ /\ At(t, "poll")
        /\ IF Arg(t) = "find" /\ stealable = {}
           THEN Do(t, <<>>) /\ UNCHANGED <<ready, token>>
           ELSE /\ ready' = [ready EXCEPT ![t] = <<>>]
                /\ token' = token \ {t}
                /\ Do(t, When(t \in token, << <<"unpend", <<>>, 0>> >>) \o
                     When(ready[t] # <<>>, << <<"deliver", ready[t], "io">> >>) \o
                     When(Arg(t) = "find", Local \o Inbox("resume")) \o
                     When(/\ Arg(t) = "service" /\ runnext[t] = None
                          /\ queue[t] # <<>>, << <<"protect", <<>>, 0>> >>))
        /\ UNCHANGED pending
     \/ /\ At(t, "unpend")
        /\ pending' = pending \ {t}
        /\ Do(t, <<>>)
        /\ UNCHANGED <<ready, token>>
     \/ /\ At(t, "protect")
        /\ Do(t, When(runnext[t] # None, Publish(1)))
        /\ UNCHANGED <<ready, token, pending>>
  /\ UNCHANGED <<runnext, queue, inbox, shared, hints, loop, armed, ticket, frames,
                 idle, polling, plan, place, until, stop>>

-----------------------------------------------------------------------------
(* Worker::run, next_local with its two checkpoints, and find_work.         *)
Free(w) == place[w] = "run" /\ agenda[w] = <<>> /\ cur[w] = None

Loop(w) ==
  /\ Free(w)
  /\ parked' = parked \ {w}
  /\ IF stop
     THEN MoveTo(w, "exited") /\ idle' = idle \ {w} /\ UNCHANGED agenda
     ELSE /\ Become(w, When(w \in parked, << <<"consume", <<>>, 0>> >>) \o
                       << <<"tick", <<>>, 0>> >>)
          /\ UNCHANGED <<place, idle>>
  /\ UNCHANGED <<runnext, queue, inbox, shared, hints, tick, cursor, grace, io,
                 frames, pending, token, polling, plan, until, stop>>

Checkpoint(t, n, every) == t \in prog.checkpoints /\ n % every = 0

NextLocal(t) ==
  LET n == (tick[t] + 1) % (ServiceEvery * GlobalEvery) IN
  /\ At(t, "tick")
  /\ tick' = IF t \in prog.checkpoints THEN [tick EXCEPT ![t] = n] ELSE tick
  /\ Do(t, When(Checkpoint(t, n, ServiceEvery),
                Inbox("stage") \o PollNow(t, "service") \o Local) \o
           When(Checkpoint(t, n, GlobalEvery), << <<"fair", <<>>, 0>> >>) \o Local \o
           Inbox("resume") \o << <<"batch", <<>>, 0>> >> \o
           PollNow(t, "find") \o Steal \o << <<"park", <<>>, 0>> >>)
  /\ ticket' = IF Checkpoint(t, n, ServiceEvery) THEN ticket \ {t} ELSE ticket
  /\ UNCHANGED <<runnext, queue, inbox, shared, hints, parked, cursor, grace,
                 armed, ready, frames, pollerVars>>

(* service_global_fairness: the shared queue and the FIFO take turns.       *)
ServiceGlobal(t) ==
  LET source == (cursor[t] + Arg(t)) % 2 IN
  /\ At(t, "fair")
  /\ IF source = 0 /\ ~GlobalEmpty
     THEN /\ TakeGlobal(1)
          /\ Do(t, << <<"stage", <<Head(global)>>, 0>> >> \o Local)
          /\ UNCHANGED queue
     ELSE /\ IF source = 1 /\ queue[t] # <<>>
             THEN /\ queue' = [queue EXCEPT ![t] = Tail(@)]
                  /\ Do(t, When(t \in known, Repair(t, <<>>, 0)) \o
                           << <<"stage", <<Head(queue[t])>>, 0>> >> \o Local)
             ELSE /\ Do(t, When(Arg(t) = 0, << <<"fair", <<>>, 1>> >>))
                  /\ UNCHANGED queue
          /\ UNCHANGED shared
  /\ cursor' = IF global' # global \/ queue' # queue
               THEN [cursor EXCEPT ![t] = (source + 1) % 2]
               ELSE IF Arg(t) = 1 THEN [cursor EXCEPT ![t] = (@ + 1) % 2]
               ELSE cursor
  /\ UNCHANGED <<runnext, inbox, hints, parked, tick, grace, io, frames,
                 pollerVars>>

Resume(t) ==
  /\ At(t, "resume")
  /\ cur' = [cur EXCEPT ![t] = Head(Items(t))]
  /\ Become(t, << <<"body", <<>>, 0>> >>)
  /\ grace' = grace \ {t}
  /\ UNCHANGED <<prog, code, runnext, queue, inbox, shared, hints, parked, tick,
                 cursor, io, pollerVars>>

-----------------------------------------------------------------------------
(* park and leave_park around the poll of module Poller.                    *)
HasWork(w) ==
  \/ runnext[w] # None \/ queue[w] # <<>> \/ inbox[w] # <<>>
  \/ gsize # 0 \/ stealable # {}

Park(w) ==
  \/ /\ At(w, "park")
     /\ Do(w, Repair(w, <<>>, 0) \o << <<"sleep", <<>>, 0>> >>)
     /\ UNCHANGED <<pollerVars, frames, runnext, queue, inbox, shared, hints,
                    loop, io>>
  \/ /\ At(w, "sleep")
     /\ place[w] = "run"
     /\ idle' = idle \cup {w}
     /\ MoveTo(w, "recheck")
     /\ Do(w, <<>>)
     /\ UNCHANGED <<pending, token, polling, plan, until, stop, frames, runnext,
                    queue, inbox, shared, hints, loop, io>>
  \/ /\ agenda[w] = <<>>
     /\ \/ Recheck(w, HasWork(w)) \/ Snapshot(w, Never) \/ PollEnter(w)
        \/ PollPlan(w) \/ PollReturn(w, ready[w] # <<>>) \/ Drain(w) \/ Unpoll(w)
     /\ UNCHANGED <<frames, agenda, runnext, queue, inbox, shared, hints, loop,
                    io>>
  \/ /\ PollerReturned(w)
     /\ ready' = [ready EXCEPT ![w] = <<>>]
     /\ Become(w, When(ready[w] # <<>>, << <<"deliver", ready[w], "io">> >>))
     /\ UNCHANGED <<frames, runnext, queue, inbox, shared, hints, loop, armed,
                    ticket>>
  \/ /\ LeavePark(w)
     /\ agenda[w] = <<>>
     /\ Become(w, << <<"adopt", <<>>, 0>> >>)
     /\ parked' = parked \cup {w}
     /\ UNCHANGED <<frames, runnext, queue, inbox, shared, hints, tick, cursor,
                    grace, io>>

(* The kernel reports a descriptor a frame waits on (external).             *)
Readiness(w) ==
  \E f \in armed[w] :
    /\ armed' = [armed EXCEPT ![w] = @ \ {f}]
    /\ ready' = [ready EXCEPT ![w] = Append(@, f)]
    /\ UNCHANGED <<frames, agenda, runnext, queue, inbox, shared, hints, loop,
                   ticket, pollerVars>>

(* monitor_pass: a shard whose owner has been running tasks for a while gets *)
(* a ticket.                                                                *)
Monitor(w) ==
  /\ w \in prog.shards \ (polling \cup ticket)
  /\ cur[w] # None
  /\ ~stop
  /\ ticket' = ticket \cup {w}
  /\ UNCHANGED <<frames, agenda, runnext, queue, inbox, shared, hints, loop,
                 armed, ready, pollerVars>>

-----------------------------------------------------------------------------
(* What a running frame, or a foreign thread, asks of the scheduler.  A     *)
(* worker keeps the work on its own queue; a foreign thread goes through    *)
(* the shared queue, schedule_completion_fallback.                          *)
Fallback(fs) == Shared(fs, WakeIdle(Min({Len(fs), Size})))

BugEnqueueRemote(v, f) ==                    \* a full inbox wakes nobody
  IF Len(inbox[v]) < InboxCap THEN << <<"target", <<>>, v>> >>
  ELSE Shared(<<f>>, <<>>)

EnqueueRemote(v, f) ==
  IF Len(inbox[v]) < InboxCap THEN << <<"target", <<>>, v>> >>
  ELSE Shared(<<f>>, WakeIdle(1))

Schedule(t, op) ==
  CASE op[1] = "spawn" ->            \* schedule_frame, schedule_spawn_frame
         IF t \in Worker THEN Push(<<op[2]>>, "shared") ELSE Fallback(<<op[2]>>)
    [] op[1] = "next" ->             \* schedule_next_frame
         IF t \in Worker THEN << <<"next", <<op[2]>>, 0>> >>
         ELSE Fallback(<<op[2]>>)
    [] op[1] = "wake" ->             \* schedule_completion_wake
         IF t = op[3] THEN Push(<<op[2]>>, "shared") ELSE Fallback(<<op[2]>>)
    [] op[1] = "all" ->              \* schedule_batch
         IF t \in Worker THEN Push(op[2], "shared") ELSE Fallback(op[2])
    [] op[1] = "fire" ->             \* schedule_batch_to
         IF t = op[3] THEN << <<"deliver", op[2], "shared">> >>
         ELSE Fallback(op[2])

(* shutdown wakes every shard, whether or not its worker published idle.    *)
BugWakeAll(ws) == FlattenSeq([i \in 1..(Cardinality(ws) - 1) |-> Wake(SetToSeq(ws)[i])])
WakeAll(ws) == FlattenSeq([i \in 1..Cardinality(ws) |-> Wake(SetToSeq(ws)[i])])

Call(t) ==
  LET f == cur[t]  op == Head(code[f]) IN
  /\ At(t, "body")
  /\ code[f] # <<>>
  /\ code' = [code EXCEPT ![f] = IF op[1] \in {"again", "restart"}
                                 THEN prog.code[f] ELSE Tail(@)]
  /\ \/ /\ op[1] \in {"spawn", "next", "wake", "all", "fire"}
        /\ Do(t, Schedule(t, op) \o << Head(agenda[t]) >>)
        /\ UNCHANGED <<cur, inbox, armed, stop>>
     \/ /\ op[1] = "to"                          \* schedule_to_frame
        /\ Do(t, (IF t = op[3] THEN Push(<<op[2]>>, "shared")
                  ELSE EnqueueRemote(op[3], op[2])) \o << Head(agenda[t]) >>)
        /\ inbox' = IF t = op[3] \/ Len(inbox[op[3]]) = InboxCap THEN inbox
                    ELSE [inbox EXCEPT ![op[3]] = Append(@, op[2])]
        /\ UNCHANGED <<cur, armed, stop>>
     \/ /\ op[1] = "yield"                       \* reschedule_self
        /\ cur' = [cur EXCEPT ![t] = None]
        /\ Do(t, Push(<<f>>, "private"))
        /\ UNCHANGED <<inbox, armed, stop>>
     \/ /\ op[1] = "restart"          \* suspends until it is scheduled again
        /\ cur' = [cur EXCEPT ![t] = None]
        /\ Do(t, <<>>)
        /\ UNCHANGED <<inbox, armed, stop>>
     \/ /\ op[1] = "await"                      \* suspends on a shard
        /\ cur' = [cur EXCEPT ![t] = None]
        /\ armed' = [armed EXCEPT ![op[2]] = @ \cup {f}]
        /\ Do(t, <<>>)
        /\ UNCHANGED <<inbox, stop>>
     \/ /\ op[1] = "again"
        /\ UNCHANGED <<agenda, cur, inbox, armed, stop>>
     \/ /\ op[1] = "spin"                       \* never returns to the loop
        /\ Do(t, << <<"spin", <<>>, 0>> >>)
        /\ UNCHANGED <<cur, inbox, armed, stop>>
     \/ /\ op[1] = "io"
        /\ Do(t, << <<"check", <<>>, 1>>, Head(agenda[t]) >>)
        /\ UNCHANGED <<cur, inbox, armed, stop>>
     \/ /\ op[1] = "stop"                       \* Scheduler::shutdown
        /\ stop' = TRUE
        /\ Do(t, WakeAll(Team) \o << Head(agenda[t]) >>)
        /\ UNCHANGED <<cur, inbox, armed>>
  /\ UNCHANGED <<prog, runnext, queue, shared, hints, loop, ready, ticket, idle,
                 pending, token, polling, plan, place, until>>

Return(t) ==
  /\ At(t, "body")
  /\ code[cur[t]] = <<>>
  /\ cur' = [cur EXCEPT ![t] = None]
  /\ Do(t, <<>>)
  /\ UNCHANGED <<prog, code, runnext, queue, inbox, shared, hints, loop, io,
                 pollerVars>>

-----------------------------------------------------------------------------
(* prepare_cooperative_io_checkpoint: a frame whose operations complete     *)
(* without suspending gives way to demand; a purely local backlog gets one  *)
(* quota of grace.                                                          *)
Debt(t) ==
  (IF runnext[t] # None \/ queue[t] # <<>> THEN {"local"} ELSE {}) \cup
  (IF inbox[t] # <<>> THEN {"inbox"} ELSE {}) \cup
  (IF gsize # 0 THEN {"global"} ELSE {})

Yield(t, debt) ==
  /\ cur' = [cur EXCEPT ![t] = None]
  /\ grace' = grace \ {t}
  /\ Become(t, << <<"demand", <<cur[t]>>, [debt |-> debt, staged |-> FALSE]>> >>)

CooperativeCheck(t) ==
  /\ At(t, "check")
  /\ \/ /\ stop
        /\ Yield(t, {})
     \/ /\ ~stop
        /\ Debt(t) # {}
        /\ IF Arg(t) = 1 /\ Debt(t) = {"local"} /\ t \notin grace
           THEN /\ grace' = grace \cup {t}
                /\ Do(t, <<>>)
                /\ UNCHANGED cur
           ELSE Yield(t, Debt(t))
     \/ /\ ~stop
        /\ Debt(t) = {}
        /\ UNCHANGED cur
        /\ IF Arg(t) = 1 /\ t \in ticket
           THEN /\ Do(t, PollNow(t, "ticket") \o << <<"check", <<>>, 2>> >>)
                /\ UNCHANGED grace
           ELSE /\ Do(t, <<>>)
                /\ grace' = grace \ {t}
  /\ ticket' = IF Arg(t) = 1 /\ ~stop /\ Debt(t) = {} THEN ticket \ {t} ELSE ticket
  /\ UNCHANGED <<prog, code, runnext, queue, inbox, shared, hints, parked, tick,
                 cursor, armed, ready, pollerVars>>

(* reschedule_self_for_cooperative_io: one shared item, then one of the     *)
(* inbox, ahead of the frame, which is published if either was found.       *)
Demand(t) ==
  LET a == Arg(t)
      Rest(d, s) == << <<"demand", Items(t), [debt |-> a.debt \ {d},
                                              staged |-> s]>> >>
  IN
  /\ At(t, "demand")
  /\ CASE "global" \in a.debt ->
            IF GlobalEmpty
            THEN /\ Do(t, Rest("global", a.staged))
                 /\ UNCHANGED <<shared, inbox, cursor>>
            ELSE /\ TakeGlobal(1)
                 /\ cursor' = [cursor EXCEPT ![t] = 1]
                 /\ Do(t, << <<"stage", <<Head(global)>>, 0>> >> \o
                          Rest("global", TRUE))
                 /\ UNCHANGED inbox
       [] "inbox" \in a.debt /\ "global" \notin a.debt ->
            /\ Do(t, Inbox("stage") \o Rest("inbox", TRUE))
            /\ UNCHANGED <<shared, inbox, cursor>>
       [] OTHER ->
            /\ Do(t, Push(Items(t), IF a.staged \/ ("local" \in a.debt /\ idle # {})
                                    THEN "shared" ELSE "private"))
            /\ UNCHANGED <<shared, inbox, cursor>>
  /\ UNCHANGED <<runnext, queue, hints, parked, tick, grace, io, frames,
                 pollerVars>>

-----------------------------------------------------------------------------
Act(t) ==
  \/ Enqueue(t) \/ Spill(t) \/ Expose(t) \/ GlobalPush(t) \/ PopBatch(t)
  \/ PublishStealable(t) \/ SetStealable(t) \/ RepairStealable(t)
  \/ FindSearcher(t) \/ GiveCredit(t) \/ ClaimSearcher(t) \/ ClaimIdle(t)
  \/ WakeReactor(t) \/ StealFrom(t) \/ Grab(t) \/ ConsumeCredit(t)
  \/ TakeLocal(t) \/ DrainInbox(t) \/ Stage(t) \/ Poll(t)
  \/ NextLocal(t) \/ ServiceGlobal(t) \/ Resume(t)
  \/ Call(t) \/ Return(t) \/ CooperativeCheck(t) \/ Demand(t)

(* A call that touches only words its own thread uses commutes with every   *)
(* step of the others, so while some thread is at one, only that thread     *)
(* moves: the interleavings left out reach no other state of shared words.  *)
Own(t) ==
  IF agenda[t] = <<>>
  THEN t \in Team /\ place[t] \in {"snapshot", "enter", "plan", "unpoll"}
  ELSE LET call == Head(agenda[t]) IN
       \/ call[1] \in {"tick", "resume", "park", "stage", "deliver", "next",
                       "protect"}
       \/ call[1] = "push" /\ call[2] = <<>> /\ call[3].mode # "io"
       \/ call[1] = "local" /\ (runnext[t] # None \/ queue[t] = <<>>)
       \/ call[1] = "body" /\ \/ code[cur[t]] = <<>>
                              \/ Head(code[cur[t]])[1] \notin {"to", "stop"}

Turn(t) ==
  LET own == {u \in Thread : Own(u)}
  IN  IF own = {} THEN TRUE ELSE t = CHOOSE u \in own : TRUE

Step(t) == Act(t) \/ (t \in Team /\ (Loop(t) \/ Park(t)))

Next ==
  \/ \E t \in Thread : Turn(t) /\ Step(t)
  \/ \E w \in Team : Readiness(w) \/ Monitor(w)

(* A worker thread or a foreign thread that can take a step takes one; the  *)
(* monitor passes over the shards every 50 us to 10 ms.                     *)
Fairness ==
  /\ \A t \in Thread : WF_vars(Step(t))
  /\ \A w \in Worker : WF_vars(Monitor(w))
Spec == SchedInit /\ [][Next]_vars /\ Fairness

-----------------------------------------------------------------------------
Occurs(f, s) == Cardinality({i \in DOMAIN s : s[i] = f})
Carried(t) == FlattenSeq([i \in DOMAIN agenda[t] |-> agenda[t][i][2]])

(* The places a frame that is to be resumed can be in.                      *)
HeldBy(w) == <<runnext[w]>> \o queue[w] \o inbox[w] \o ready[w]
Held(f) ==
  \/ f \in Range(global)
  \/ \E w \in Worker : f \in Range(HeldBy(w))
  \/ \E t \in Thread : f \in Range(Carried(t))
Spins(w) == At(w, "spin")

(* No frame is in two places or resumed by two workers, whatever races      *)
(* between the owner, thieves and the overflow path.                        *)
OnePlace ==
  \A f \in Frame :
    Occurs(f, global) + Cardinality({w \in Worker : cur[w] = f})
    + SumFunction([w \in Worker |-> Occurs(f, HeldBy(w))])
    + SumFunction([t \in Thread |-> Occurs(f, Carried(t))]) <= 1

(* When every thread is at rest, blocked in its poll without a wake or in a *)
(* task that never suspends, a blocked worker has left nothing behind: no   *)
(* own item, nothing in the shared queue and no published victim.           *)
Asleep(w) == place[w] = "blocked" /\ w \notin token /\ ready[w] = <<>>
NoLostWake ==
  (/\ \A t \in Outside : agenda[t] = <<>>
   /\ \A w \in Team : Asleep(w) \/ Spins(w))
  => \A w \in Team : Asleep(w) =>
       /\ runnext[w] = None /\ queue[w] = <<>> /\ inbox[w] = <<>>
       /\ global = <<>> /\ gsize = 0 /\ stealable = {}

(* A scheduled frame is resumed, although other workers run tasks that      *)
(* never suspend and a pair hands itself over for ever.  Excused: the stop, *)
(* all workers in such tasks, and a frame only one of those may resume.     *)
Excused(f) ==
  \/ stop
  \/ \A w \in Team : Spins(w)
  \/ /\ f \in prog.private
     /\ \E w \in Team : Spins(w) /\ f \in Range(<<runnext[w]>> \o inbox[w] \o ready[w])
Runs ==
  \A f \in Frame : Held(f) ~> (Excused(f) \/ \E w \in Worker : cur[w] = f)

(* After the stop every worker that is not caught in a task leaves its loop,*)
(* also one that was entering its poll when the stop was published.         *)
StopEnds == stop ~> \A w \in Team : place[w] = "exited" \/ Spins(w)
=============================================================================
