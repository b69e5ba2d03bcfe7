-------------------------------- MODULE Fifo --------------------------------
(***************************************************************************)
(* What a bounded queue promises: items enter at the back, one at a time    *)
(* and never beyond its capacity, and leave from the front, each once and   *)
(* in order, whoever takes them.                                            *)
(***************************************************************************)
EXTENDS Naturals, Sequences, SequencesExt

CONSTANT Capacity

VARIABLES items, out    \* what is inside; what has left, in the order it left

Put ==
  /\ Len(items) < Capacity
  /\ items' # <<>> /\ Front(items') = items
  /\ UNCHANGED out

Take == \E n \in 1..Len(items) :
  /\ out' = out \o SubSeq(items, 1, n)
  /\ items' = SubSeq(items, n + 1, Len(items))

Spec == items = <<>> /\ out = <<>> /\ [][Put \/ Take]_<<items, out>>
=============================================================================
