------------------------------ MODULE MCSched ------------------------------
(* The programs the scheduler is explored with, one per initial state.      *)
EXTENDS Scheduler

CONSTANTS w1, w2, x

NoCode == [f \in Frame \cup Outside |-> <<>>]
Program(workers, awake, waiting, private, checkpoints, body) ==
  [workers |-> workers, asleep |-> workers \ awake, shards |-> DOMAIN waiting,
   armed |-> waiting @@ [w \in Worker |-> {}], private |-> private, checkpoints |-> checkpoints, code |-> body @@ NoCode]
Both == {w1, w2}

(* Published work behind a task that never suspends.                        *)
Published ==
  Program(Both, {}, <<>>, {}, {}, x :> << <<"spawn", "a">> >> @@
    "a" :> << <<"spawn", "b">>, <<"spawn", "c">>, <<"spin">> >>)

(* A batch that overflows the FIFO, and the tail of the batch.              *)
Overflow ==
  Program(Both, {}, <<>>, {}, {}, x :> << <<"wake", "a", w1>> >> @@
    "a" :> << <<"all", <<"b", "c", "d", "e", "f">>>>, <<"spin">> >>)

(* Targeted submissions beyond the inbox, to a worker about to park.        *)
Targeted ==
  Program(Both, {}, <<>>, {"e"}, {},
    x :> << <<"to", "a", w2>>, <<"to", "e", w2>> >> @@
    "a" :> << <<"to", "b", w1>>, <<"to", "c", w1>>, <<"spin">> >>)

(* A pair that hands itself over for ever, on the only worker.              *)
Handoff ==
  Program({w1}, {}, <<>>, {}, {w1},
    x :> << <<"spawn", "a">>, <<"spawn", "c">>, <<"to", "d", w1>> >> @@
    "a" :> << <<"next", "b">>, <<"restart">> >> @@
    "b" :> << <<"next", "a">>, <<"restart">> >>)

(* A private FIFO that a completion overtakes at a checkpoint.              *)
Overtaken ==
  Program(Both, {}, w1 :> {"e"}, {"a", "e"}, {w1}, x :> << <<"to", "a", w1>> >> @@
    "a" :> << <<"yield">>, <<"yield">> >> @@ "e" :> << <<"spin">> >>)

(* A frame whose I/O never suspends, on the only worker.                    *)
Busy ==
  Program({w1}, {}, w1 :> {"b"}, {}, {},
    x :> << <<"spawn", "a">>, <<"spawn", "c">>, <<"to", "d", w1>> >> @@
    "a" :> << <<"io">>, <<"again">> >> @@ "d" :> << <<"yield">>, <<"await", w1>> >> @@
    "c" :> << <<"next", "f">>, <<"fire", <<"e">>, w1>> >>)

(* Two completions of one shard, against a batch fired from outside.        *)
Completions ==
  Program(Both, {}, w1 :> {"a"}, {"a"}, {},
    x :> << <<"fire", <<"c">>, w1>> >> @@
    "a" :> << <<"spawn", "d">> >> @@ "c" :> << <<"spin">> >>)

(* The stop, while a worker is on its way into its poll.                    *)
Stopped ==
  Program(Both, {w1}, <<>>, {}, {},
    x :> << <<"spawn", "a">>, <<"stop">> >> @@ "a" :> << <<"io">>, <<"again">> >>)

Programs == { Published, Overflow, Targeted, Handoff, Overtaken, Busy,
              Completions, Stopped }
=============================================================================
