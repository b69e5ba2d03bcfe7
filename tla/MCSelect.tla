------------------------------ MODULE MCSelect ------------------------------
(* Instances of Select for TLC. *)
EXTENDS Select, TLC

S(c) == [dir |-> "send", ch |-> c]
R(c) == [dir |-> "recv", ch |-> c]
Plain(h, k) == [how |-> h, cases |-> <<k>>, timeout |-> FALSE, default |-> FALSE]
Sel(ks, t, d) == [how |-> "select", cases |-> ks, timeout |-> t, default |-> d]

(* Channel 1 is unbuffered, channel 2 has one slot. *)
MCChan == {1, 2}
MCCapacity == [c \in MCChan |-> c - 1]

MCOp == {Plain("await", S(1)), Plain("await", R(2)), Plain("close", R(1)),
         Sel(<<R(1), S(2)>>, TRUE, FALSE),
         Sel(<<S(2), S(1)>>, FALSE, FALSE),
         Sel(<<R(1), S(1)>>, FALSE, FALSE),
         Sel(<<R(2), R(Nil)>>, FALSE, TRUE)}

TaskSymmetry == Permutations(Task)

(* The liveness instance: selects that meet over two channels in both       *)
(* orders, one with a timeout, one with a default, and a task that closes.  *)
LiveOp == {Plain("await", S(1)), Plain("close", R(1)),
           Sel(<<R(1), S(2)>>, TRUE, FALSE),
           Sel(<<R(2)>>, FALSE, TRUE),
           Sel(<<R(2), S(1)>>, FALSE, FALSE)}
=============================================================================
