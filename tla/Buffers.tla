------------------------------ MODULE Buffers -------------------------------
(***************************************************************************)
(* The two-level free lists: BufferPool (pool.hpp, pool.cpp), whose thread  *)
(* cache may outlive the pool it names, and FramePool (frame_pool.hpp),     *)
(* which passes whole batches between threads.  Tasks are threads, each     *)
(* with a cache of its own; buffers and frames go back on any thread.       *)
(*                                                                         *)
(* A block of memory has an identity and a size, 0 while the allocator has  *)
(* it.  The class sizes are MinBytes * 2^i.  One frame class stands for     *)
(* all: classes share nothing.                                              *)
(***************************************************************************)
EXTENDS Tasks, FiniteSetsExt

CONSTANTS
  Block,             \* addresses of memory
  Address,           \* addresses of BufferPools
  Requests,          \* sizes asked for
  MinBytes, Classes, ExactFrom, CacheDepth,
  Batch, CachePerClass, CentralBatches, FrameBytes

VARIABLES
  bytes,      \* per block: what operator new gave it, 0 when it is free
  pools,      \* the BufferPools that exist
  owner,      \* per thread: ThreadCache::owner
  cached,     \* per thread and class: ThreadCache::free_list
  central,    \* per pool and class: BufferPool::central_
  held,       \* the PooledBuffers in use
  carried,    \* per thread: what a slow path carries to its lock
  frames,     \* the coroutine frames in use
  fcache, fcount,   \* per thread: FramePool::Cache
  batches     \* Central::batches, up to its count

bufferPoolVars == <<pools, owner, cached, central, held>>
framePoolVars == <<frames, fcache, fcount, batches>>
bufferVars == <<bytes, carried, bufferPoolVars, framePoolVars>>

Class == 0 .. Classes - 1
class_bytes(i) == MinBytes * 2^i
MaxPooled == class_bytes(Classes - 1)
class_of(n) == Min({i \in Class : class_bytes(i) >= n} \cup {Classes - 1})
NoPool == "no pool"
Empty == [i \in Class |-> <<>>]

BuffersInit ==
  /\ bytes = [b \in Block |-> 0]
  /\ pools = Address
  /\ owner = [t \in Task |-> NoPool]
  /\ cached = [t \in Task |-> Empty]
  /\ central = [p \in Address |-> Empty]
  /\ held = {} /\ carried = [t \in Task |-> <<>>]
  /\ frames = {} /\ batches = <<>>
  /\ fcache = [t \in Task |-> <<>>] /\ fcount = [t \in Task |-> 0]

(* operator new and operator delete.                                        *)
Fresh == Min({b \in Block : bytes[b] = 0})
Freed(bs) == [b \in Block |-> IF b \in bs THEN 0 ELSE bytes[b]]
All(lists) == UNION {ToSet(lists[i]) : i \in Class}

-----------------------------------------------------------------------------
(* drain_cache and cache: blocks of another pool are freed, never handed    *)
(* back.                                                                    *)
BugRehome(t, p) ==                     \* gives them back to the pool it names
  /\ owner' = [owner EXCEPT ![t] = p]
  /\ IF owner[t] \in {p, NoPool} THEN UNCHANGED <<bytes, central>>
     ELSE /\ central' = [central EXCEPT ![owner[t]] =
                            [i \in Class |-> @[i] \o cached[t][i]]]
          /\ UNCHANGED bytes
Rehome(t, p) ==
  /\ owner' = [owner EXCEPT ![t] = p]
  /\ bytes' = IF owner[t] = p THEN bytes ELSE Freed(All(cached[t]))
  /\ UNCHANGED central
Local(t, p) == IF owner[t] = p THEN cached[t] ELSE Empty

Buffer(p, b, n, asked) == [pool |-> p, block |-> b, size |-> n, asked |-> asked]

(* get: too large for the pool, the thread's cache, or get_slow.            *)
GetLarge(t, n) ==
  /\ n > MaxPooled
  /\ bytes' = [bytes EXCEPT ![Fresh] = n]
  /\ held' = held \cup {Buffer(NoPool, Fresh, n, n)}
  /\ Begin(t, "get", "idle")
  /\ UNCHANGED <<pools, owner, cached, central, carried, framePoolVars>>

GetPooled(t, n, p) ==
  LET i == class_of(n)
      l == Local(t, p) IN
  /\ n <= MaxPooled
  /\ Rehome(t, p)
  /\ IF l[i] # <<>>
     THEN /\ Begin(t, "get", "idle")
          /\ cached' = [cached EXCEPT ![t] = [l EXCEPT ![i] = Tail(@)]]
          /\ held' = held \cup {Buffer(p, Head(l[i]), class_bytes(i), n)}
          /\ UNCHANGED carried
     ELSE /\ Begin(t, "get", "get_slow")
          /\ cached' = [cached EXCEPT ![t] = l]
          /\ carried' = [carried EXCEPT ![t] = <<p, i, n>>]
          /\ UNCHANGED held
  /\ UNCHANGED <<pools, framePoolVars>>

GetBuffer(t) ==
  \E n \in Requests, p \in pools :
    LET m == IF n = 0 THEN 1 ELSE n IN GetLarge(t, m) \/ GetPooled(t, m, p)

(* get_slow refills a batch under the pool's lock, from the back; without   *)
(* one it allocates the whole class.                                        *)
GetSlow(t) ==
  LET p == carried[t][1]
      i == carried[t][2]
      shared == central[p][i]
      move == IF Len(shared) < CacheDepth THEN Len(shared) ELSE CacheDepth
      rest == Len(shared) - move
      chosen == IF move = 0 THEN Fresh ELSE shared[rest + 1] IN
  /\ pc[t] = "get_slow"
  /\ central' = [central EXCEPT ![p][i] = SubSeq(@, 1, rest)]
  /\ cached' = [cached EXCEPT ![t][i] = SubSeq(shared, rest + 2, Len(shared))]
  /\ bytes' = IF move = 0 THEN [bytes EXCEPT ![chosen] = class_bytes(i)] ELSE bytes
  /\ held' = held \cup {Buffer(p, chosen, class_bytes(i), carried[t][3])}
  /\ carried' = [carried EXCEPT ![t] = <<>>]
  /\ Only(t, "idle")
  /\ UNCHANGED <<pools, owner, framePoolVars>>

(* release and put.  A pooled size is exact, so that above a threshold its  *)
(* class is a difference of logarithms.                                     *)
Log2(n) == CHOOSE k \in 0 .. n : 2^k <= n /\ n < 2^(k + 1)
put_class(n) == IF n < ExactFrom THEN class_of(n) ELSE Log2(n) - Log2(MinBytes)

PutLarge(t, x) ==
  /\ x.pool = NoPool
  /\ bytes' = Freed({x.block})
  /\ Begin(t, "put", "idle")
  /\ UNCHANGED <<owner, cached, central, carried>>

PutPooled(t, x) ==
  LET i == put_class(x.size)
      l == Local(t, x.pool)
      fits == Len(l[i]) < CacheDepth IN
  /\ x.pool # NoPool
  /\ Rehome(t, x.pool)
  /\ Begin(t, "put", IF fits THEN "idle" ELSE "put_slow")
  /\ cached' = [cached EXCEPT ![t] = IF fits THEN [l EXCEPT ![i] = <<x.block>> \o @] ELSE l]
  /\ carried' = [carried EXCEPT ![t] = IF fits THEN <<>> ELSE <<x.pool, i, x.block>>]

PutBuffer(t) ==
  \E x \in held :
    /\ PutLarge(t, x) \/ PutPooled(t, x)
    /\ held' = held \ {x}
    /\ UNCHANGED <<pools, framePoolVars>>

PutSlow(t) ==
  /\ pc[t] = "put_slow"
  /\ central' = [central EXCEPT ![carried[t][1]][carried[t][2]] = Append(@, carried[t][3])]
  /\ carried' = [carried EXCEPT ![t] = <<>>]
  /\ Only(t, "idle")
  /\ UNCHANGED <<bytes, pools, owner, cached, held, framePoolVars>>

(* ~BufferPool, of a pool that nobody uses any more; another may be built   *)
(* at its address.                                                          *)
DestroyPool(t) ==
  \E p \in pools :
    /\ \A x \in held : x.pool # p
    /\ \A u \in At("get_slow") \cup At("put_slow") : carried[u][1] # p
    /\ Begin(t, "destroy", "idle")
    /\ bytes' = Freed(All(central[p]))
    /\ central' = [central EXCEPT ![p] = Empty]
    /\ pools' = pools \ {p}
    /\ UNCHANGED <<owner, cached, held, carried, framePoolVars>>

ConstructPool(t) ==
  /\ Begin(t, "construct", "idle")
  /\ pools' = Address
  /\ UNCHANGED <<bytes, owner, cached, central, held, carried, framePoolVars>>

(* The thread ends: ~ThreadCache, and FramePool's ~Cache.                   *)
ExitThread(t) ==
  /\ Begin(t, "exit", "idle")
  /\ bytes' = Freed(All(cached[t]) \cup ToSet(fcache[t]))
  /\ owner' = [owner EXCEPT ![t] = NoPool]
  /\ cached' = [cached EXCEPT ![t] = Empty]
  /\ fcache' = [fcache EXCEPT ![t] = <<>>]
  /\ fcount' = [fcount EXCEPT ![t] = 0]
  /\ UNCHANGED <<pools, central, held, carried, frames, batches>>

-----------------------------------------------------------------------------
(* FramePool::allocate.                                                     *)
Allocate(t) ==
  /\ IF fcache[t] # <<>>
     THEN /\ Begin(t, "new", "idle")
          /\ frames' = frames \cup {Head(fcache[t])}
          /\ fcache' = [fcache EXCEPT ![t] = Tail(@)]
          /\ fcount' = [fcount EXCEPT ![t] = @ - 1]
     ELSE /\ Begin(t, "new", "allocate_slow")
          /\ UNCHANGED <<frames, fcache, fcount>>
  /\ UNCHANGED <<bytes, carried, bufferPoolVars, batches>>

AllocateSlow(t) ==
  LET chain == IF batches = <<>> THEN <<Fresh>> ELSE Last(batches) IN
  /\ pc[t] = "allocate_slow"
  /\ batches' = IF batches = <<>> THEN <<>> ELSE Front(batches)
  /\ bytes' = IF batches = <<>> THEN [bytes EXCEPT ![Fresh] = FrameBytes] ELSE bytes
  /\ frames' = frames \cup {Head(chain)}
  /\ fcache' = [fcache EXCEPT ![t] = Tail(chain)]
  /\ fcount' = [fcount EXCEPT ![t] = IF batches = <<>> THEN @ ELSE Batch - 1]
  /\ Only(t, "idle")
  /\ UNCHANGED <<carried, bufferPoolVars>>

(* deallocate: a cache that is full detaches a batch for the central list.  *)
Deallocate(t) ==
  \E f \in frames :
    LET list == <<f>> \o fcache[t]
        full == fcount[t] + 1 >= CachePerClass IN
    /\ Begin(t, "delete", IF full THEN "spill_batch" ELSE "idle")
    /\ frames' = frames \ {f}
    /\ fcache' = [fcache EXCEPT ![t] = IF full THEN SubSeq(list, Batch + 1, Len(list)) ELSE list]
    /\ fcount' = [fcount EXCEPT ![t] = IF full THEN @ + 1 - Batch ELSE @ + 1]
    /\ carried' = [carried EXCEPT ![t] = IF full THEN SubSeq(list, 1, Batch) ELSE <<>>]
    /\ UNCHANGED <<bytes, bufferPoolVars, batches>>

SpillBatch(t) ==
  /\ pc[t] = "spill_batch"
  /\ IF Len(batches) < CentralBatches
     THEN batches' = Append(batches, carried[t]) /\ UNCHANGED bytes
     ELSE bytes' = Freed(ToSet(carried[t])) /\ UNCHANGED batches
  /\ carried' = [carried EXCEPT ![t] = <<>>]
  /\ Only(t, "idle")
  /\ UNCHANGED <<bufferPoolVars, frames, fcache, fcount>>

BufferStep(t) ==
  \/ GetBuffer(t) \/ GetSlow(t) \/ PutBuffer(t) \/ PutSlow(t)
  \/ DestroyPool(t) \/ ConstructPool(t) \/ ExitThread(t)
  \/ Allocate(t) \/ AllocateSlow(t) \/ Deallocate(t) \/ SpillBatch(t)

-----------------------------------------------------------------------------
(* The lists that blocks are on, each with its place.                       *)
Shelf(place, list) == [place |-> place, list |-> list]
Shelves ==
  {x \in {Shelf(<<"cache", y>>, cached[y[1]][y[2]]) : y \in Task \X Class}
     \cup {Shelf(<<"central", y>>, central[y[1]][y[2]]) : y \in Address \X Class}
     \cup {Shelf(<<"put", t>>, <<carried[t][3]>>) : t \in At("put_slow")}
     \cup {Shelf(<<"frames", t>>, fcache[t]) : t \in Task}
     \cup {Shelf(<<"batch", j>>, batches[j]) : j \in DOMAIN batches}
     \cup {Shelf(<<"spill", t>>, carried[t]) : t \in At("spill_batch")} : x.list # <<>>}
InUse == {x.block : x \in held} \cup frames
Shelved == UNION {ToSet(x.list) : x \in Shelves}

(* Every block that the allocator gave out is in exactly one place, and none *)
(* that it has back is in any, also when a cache outlives its pool or is     *)
(* taken over by a pool at the same address, and no block is given to a pool *)
(* that is gone.  A buffer holds what was asked for, a free list its class,  *)
(* and a frame cache and its batches are as long as their counts say.        *)
BlocksOwned ==
  /\ InUse \cup Shelved = {b \in Block : bytes[b] # 0}
  /\ InUse \cap Shelved = {}
  /\ Cardinality(InUse) = Cardinality(held) + Cardinality(frames)
  /\ \A x \in Shelves :
       /\ IsInjective(x.list)
       /\ \A y \in Shelves \ {x} : ToSet(x.list) \cap ToSet(y.list) = {}
  /\ \A x \in held : x.size = bytes[x.block] /\ x.size >= x.asked
  /\ \A i \in Class :
       /\ \A p \in Address : \A b \in ToSet(central[p][i]) : bytes[b] = class_bytes(i)
       /\ \A t \in Task : \A b \in ToSet(cached[t][i]) : bytes[b] = class_bytes(i)
  /\ \A p \in Address \ pools : central[p] = Empty
  /\ \A t \in Task : fcount[t] = Len(fcache[t]) /\ fcount[t] < CachePerClass
  /\ \A j \in DOMAIN batches : Len(batches[j]) = Batch
=============================================================================
