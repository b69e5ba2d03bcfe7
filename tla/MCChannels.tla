----------------------------- MODULE MCChannels -----------------------------
(* The safety instance of Select: either one operation per task over an     *)
(* unbuffered and a one-slot channel, selects included, or two plain        *)
(* operations per task on a two-slot channel, whose ring wraps around.      *)
EXTENDS MCSelect

VARIABLE part

AllChan == {1, 2, 3}
AllCapacity == [c \in AllChan |-> c - 1]
RingOp == {Plain("await", S(3)), Plain("await", R(3)), Plain("try", S(3)),
           Plain("try", R(3)), Plain("close", R(3))}
AllOp == MCOp \cup RingOp

MCInit == Init /\ part \in {"select", "ring"}
MCNext ==
  /\ Next
  /\ part' = part
  /\ \A t \in Task :
       /\ op'[t] \in (IF part = "ring" THEN RingOp ELSE MCOp) \cup {NoOp}
       /\ part = "select" => ops'[t] <= 1
MCSpec == MCInit /\ [][MCNext]_<<vars, part>>
=============================================================================
