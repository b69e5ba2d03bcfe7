------------------------------ MODULE RunQueue ------------------------------
(***************************************************************************)
(* The rings of include/cio/detail/queue.hpp, one step per shared access.   *)
(* LocalRunQueue: the owner pushes, pops and spills, thieves copy what they *)
(* then claim with one exchange of the head.  BoundedMpscQueue: producers   *)
(* reserve a position, then publish its slot; the owner consumes in order.  *)
(***************************************************************************)
EXTENDS Tasks

CONSTANTS
  RingSize,     \* kLocalQueueCapacity
  IndexMod,     \* the counters of the ring are words: 2^32
  InboxSize     \* kRemoteInboxCapacity

ASSUME RingAssumption == IndexMod % RingSize = 0 /\ IndexMod > 2 * RingSize

VARIABLES
  head, tail, buf,        \* LocalRunQueue
  producer_pos, consumer_pos, slots,   \* BoundedMpscQueue
  hand,                   \* what a task has loaded: h, t (or pos) and items
  fresh,                  \* the next item
  taken, received         \* history: what has left each ring

ringVars == <<head, tail, buf, producer_pos, consumer_pos, slots, hand, fresh, taken, received>>
inboxVars == <<producer_pos, consumer_pos, slots, received>>

Mod(n) == (n + IndexMod) % IndexMod
Nothing == [h |-> 0, t |-> 0, got |-> <<>>]

(* The counters of the ring are about to wrap.                              *)
RingInit ==
  /\ head = IndexMod - 2 /\ tail = IndexMod - 2
  /\ buf = [i \in 0..RingSize - 1 |-> 0]
  /\ producer_pos = 0 /\ consumer_pos = 0
  /\ slots = [i \in 0..InboxSize - 1 |-> [sequence |-> i, frame |-> 0]]
  /\ hand = [t \in Task |-> Nothing]
  /\ fresh = 1 /\ taken = <<>> /\ received = <<>>

-----------------------------------------------------------------------------
(* push, by the owner: only it writes the tail and the slots.               *)
PushLoad(t) ==
  /\ Begin(t, "push", "push_slot")
  /\ hand' = [hand EXCEPT ![t] = [h |-> head, t |-> tail, got |-> <<>>]]
  /\ UNCHANGED <<head, tail, buf, fresh, taken>>

BugRingFull(n) == n > RingSize         \* off by one

RingFull(n) == n >= RingSize

PushSlot(t) ==
  LET full == RingFull(Mod(hand[t].t - hand[t].h)) IN
  /\ pc[t] = "push_slot"
  /\ buf' = IF full THEN buf ELSE [buf EXCEPT ![hand[t].t % RingSize] = fresh]
  /\ Only(t, IF full THEN "pop_half" ELSE "push_tail")
  /\ UNCHANGED <<head, tail, hand, fresh, taken>>

PushTail(t) ==
  /\ pc[t] = "push_tail"
  /\ tail' = Mod(tail + 1)
  /\ fresh' = fresh + 1
  /\ Only(t, "idle")
  /\ UNCHANGED <<head, buf, hand, taken>>

(* The slots from h on, as they are now.                                    *)
Slots(h, n) == [i \in 1..n |-> buf[(h + i - 1) % RingSize]]

(* push_overflow, pop_half: what no thief took meanwhile goes to the global
   queue with the new item. *)
PopHalf(t) ==
  /\ pc[t] = "pop_half"
  /\ hand' = [hand EXCEPT ![t] = [h |-> head, t |-> tail,
                                  got |-> Slots(head, Mod(tail - head) \div 2)]]
  /\ Only(t, "spill")
  /\ UNCHANGED <<head, tail, buf, fresh, taken>>

(* One compare-exchange of the head takes what was copied.                  *)
Claimed(t) ==
  IF head = hand[t].h
  THEN head' = Mod(head + Len(hand[t].got)) /\ taken' = taken \o hand[t].got
  ELSE UNCHANGED <<head, taken>>

Spill(t) ==
  /\ pc[t] = "spill"
  /\ Claimed(t)
  /\ fresh' = fresh + 1
  /\ hand' = [hand EXCEPT ![t] = Nothing]
  /\ Only(t, "idle")
  /\ UNCHANGED <<tail, buf>>

(* pop, by the owner.                                                       *)
PopLoad(t) ==
  /\ \/ Begin(t, "pop", IF tail = head THEN "idle" ELSE "pop_claim")
     \/ pc[t] = "pop_again" /\ Only(t, IF tail = head THEN "idle" ELSE "pop_claim")
  /\ hand' = [hand EXCEPT ![t] = [h |-> head, t |-> tail,
                                  got |-> IF tail = head THEN <<>> ELSE Slots(head, 1)]]
  /\ UNCHANGED <<head, tail, buf, fresh, taken>>

PopClaim(t) ==
  /\ pc[t] = "pop_claim"
  /\ Claimed(t)
  /\ Only(t, IF head = hand[t].h THEN "idle" ELSE "pop_again")
  /\ UNCHANGED <<tail, buf, hand, fresh>>

-----------------------------------------------------------------------------
(* grab, by a thief: head, tail, each slot, and the exchange.               *)
GrabHead(t) ==
  /\ Begin(t, "grab", "grab_tail") \/ (pc[t] = "grab_again" /\ Only(t, "grab_tail"))
  /\ hand' = [hand EXCEPT ![t] = [Nothing EXCEPT !.h = head]]
  /\ UNCHANGED <<head, tail, buf, fresh, taken>>

Half(n) == n - n \div 2
GrabTail(t) ==
  LET n == Half(Mod(tail - hand[t].h)) IN
  /\ pc[t] = "grab_tail"
  /\ hand' = [hand EXCEPT ![t].t = tail]
  /\ Only(t, CASE n = 0 -> "idle" [] n > RingSize \div 2 -> "grab_again"
               [] OTHER -> "grab_copy")
  /\ UNCHANGED <<head, tail, buf, fresh, taken>>

GrabCopy(t) ==
  LET n == Half(Mod(hand[t].t - hand[t].h))
      done_ == Len(hand[t].got) IN
  /\ pc[t] = "grab_copy"
  /\ hand' = [hand EXCEPT ![t].got = Append(@, buf[(hand[t].h + done_) % RingSize])]
  /\ Only(t, IF done_ + 1 = n THEN "grab_claim" ELSE "grab_copy")
  /\ UNCHANGED <<head, tail, buf, fresh, taken>>

GrabClaim(t) ==
  /\ pc[t] = "grab_claim"
  /\ Claimed(t)
  /\ Only(t, IF head = hand[t].h THEN "idle" ELSE "grab_again")
  /\ UNCHANGED <<tail, buf, hand, fresh>>

-----------------------------------------------------------------------------
(* try_push: load the position, look at its slot, reserve, publish.         *)
SendLoad(t) ==
  /\ Begin(t, "send", "send_look") \/ (pc[t] = "send_again" /\ Only(t, "send_look"))
  /\ hand' = [hand EXCEPT ![t] = [Nothing EXCEPT !.h = producer_pos]]
  /\ UNCHANGED <<inboxVars, fresh>>

SendLook(t) ==
  LET sequence == slots[hand[t].h % InboxSize].sequence IN
  /\ pc[t] = "send_look"
  /\ Only(t, CASE sequence = hand[t].h -> "send_reserve" [] sequence < hand[t].h -> "idle"
               [] OTHER -> "send_again")
  /\ UNCHANGED <<inboxVars, hand, fresh>>

SendReserve(t) ==
  LET won == producer_pos = hand[t].h IN
  /\ pc[t] = "send_reserve"
  /\ producer_pos' = IF won THEN producer_pos + 1 ELSE producer_pos
  /\ hand' = [hand EXCEPT ![t] = IF won THEN [@ EXCEPT !.got = <<fresh>>]
                                 ELSE [@ EXCEPT !.h = producer_pos]]
  /\ fresh' = IF won THEN fresh + 1 ELSE fresh
  /\ Only(t, IF won THEN "send_publish" ELSE "send_look")
  /\ UNCHANGED <<consumer_pos, slots, received>>

SendPublish(t) ==
  /\ pc[t] = "send_publish"
  /\ slots' = [slots EXCEPT ![hand[t].h % InboxSize] =
                 [sequence |-> hand[t].h + 1, frame |-> hand[t].got[1]]]
  /\ hand' = [hand EXCEPT ![t] = Nothing]
  /\ Only(t, "idle")
  /\ UNCHANGED <<producer_pos, consumer_pos, fresh, received>>

(* BoundedMpscQueue::pop: a reserved slot reads as empty.                   *)
Receive(t) ==
  LET i == consumer_pos % InboxSize IN
  /\ Begin(t, "receive", "idle")
  /\ IF slots[i].sequence = consumer_pos + 1
     THEN /\ received' = Append(received, slots[i].frame)
          /\ slots' = [slots EXCEPT ![i].sequence = consumer_pos + InboxSize]
          /\ consumer_pos' = consumer_pos + 1
     ELSE UNCHANGED <<received, slots, consumer_pos>>
  /\ UNCHANGED <<producer_pos, hand, fresh>>

RingStep(t) ==
  \/ /\ \/ PushLoad(t) \/ PushSlot(t) \/ PushTail(t) \/ PopHalf(t) \/ Spill(t)
        \/ PopLoad(t) \/ PopClaim(t) \/ GrabHead(t) \/ GrabTail(t) \/ GrabCopy(t)
        \/ GrabClaim(t)
     /\ UNCHANGED inboxVars
  \/ /\ SendLoad(t) \/ SendLook(t) \/ SendReserve(t) \/ SendPublish(t) \/ Receive(t)
     /\ UNCHANGED <<head, tail, buf, taken>>

-----------------------------------------------------------------------------
(* A reserved position holds the item of the producer that reserved it.     *)
Pending(p) ==
  IF slots[p % InboxSize].sequence = p + 1 THEN slots[p % InboxSize].frame
  ELSE (CHOOSE r \in {hand[t] : t \in At("send_publish")} : r.h = p).got[1]

Ring == INSTANCE Fifo WITH Capacity <- RingSize, out <- taken,
                           items <- Slots(head, Mod(tail - head))
Inbox == INSTANCE Fifo WITH Capacity <- InboxSize, out <- received,
  items <- [i \in 1..producer_pos - consumer_pos |-> Pending(consumer_pos + i - 1)]

(* Both rings are bounded queues, whatever their owner, thieves and          *)
(* producers do to each other: a push takes effect when the tail moves, a    *)
(* reservation when the position does, and pop, pop_half and grab when their *)
(* exchange of the head succeeds, with the items then at the front.          *)
RingsAreFifo == Ring!Spec /\ Inbox!Spec
=============================================================================
