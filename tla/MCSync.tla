------------------------------- MODULE MCSync -------------------------------
(* An instance of Sync for TLC: each set of programs exercises one of the   *)
(* primitives, so that their state spaces add up and do not multiply.  The  *)
(* tasks are interchangeable, so one order of each three programs is enough.*)
EXTENDS Sync, TLC

Roles(p, q, r) ==
  LET order == CHOOSE f \in [Task -> 1..3] : \A t, u \in Task : t # u => f[t] # f[u] IN
  [t \in Task |-> <<p, q, r>>[order[t]]]

AnyOf(s) == {Roles(s[i], s[j], s[k]) : <<i, j, k>> \in
               {x \in (DOMAIN s) \X (DOMAIN s) \X (DOMAIN s) : x[1] <= x[2] /\ x[2] <= x[3]}}

RWPrograms == AnyOf(<<<<"rlock", "lock">>, <<"lock", "try_rlock">>, <<"rlock">>,
                      <<"try_lock", "rlock">>, <<"lock">>>>)
MutexPrograms == AnyOf(<<<<"mutex", "try_mutex">>, <<"mutex", "mutex">>, <<"mutex">>>>)

(* As many tokens come as are consumed.                                     *)
CondPrograms ==
  {p \in AnyOf(<<<<"consume">>, <<"signal", "signal">>, <<"broadcast", "signal">>,
                 <<"signal">>>>) :
     Cardinality({t \in Task : p[t] = <<"consume">>})
       <= 2 * Cardinality({t \in Task : Len(p[t]) = 2})
          + Cardinality({t \in Task : p[t] = <<"signal">>})}

(* Every add has its done(), and no program waits before it has paid.       *)
GroupPrograms ==
  LET Adds == "add2" :> 2 @@ "add1" :> 1 @@ "done" :> -1 @@ "wait" :> 0
      Owes(p) == FoldFunction(+, 0, [i \in DOMAIN p |-> Adds[p[i]]]) IN
  {p \in AnyOf(<<<<"add2", "wait">>, <<"done", "wait">>, <<"done", "done">>,
                 <<"wait", "add1", "done">>, <<"add1", "done", "wait">>,
                 <<"add2", "add2", "done">>>>) :
     FoldFunction(+, 0, [t \in Task |-> Owes(p[t])]) <= 0}
OncePrograms == AnyOf(<<<<"once", "once">>, <<"once">>>>)

(* One parent starts and joins; its children are run by the other tasks.    *)
ParentPrograms ==
  {Roles(<<"spawn", "spawn", "join">>, q, r) :
     q \in {<<"child", "child">>, <<"fail", "child">>, <<"fail">>},
     r \in {<<"child", "join">>, <<"fail">>, <<"child">>}}
  \cup {Roles(<<"spawn", "join", "spawn", "join">>, <<"child", "child">>, r) :
          r \in {<<"join">>, <<"fail", "watch_group">>}}
  \cup {Roles(<<"spawn", "spawn", "join">>, <<"nest", "child">>, r) :
          r \in {<<"child", "join">>}}

(* A group whose spawn() is called from two tasks while children end.       *)
TwoSpawners ==
  {Roles(<<"spawn">>, <<"spawn", "spawn", "join">>, <<"child", "child", "child">>)}

ScopePrograms ==
  {Roles(p, q, r) :
     p \in {<<"scope", "watch_child">>, <<"deadline", "watch_child", "drop">>,
            <<"scope", "drop">>, <<"watch_root">>},
     q \in {<<"cancel_root">>, <<"watch_root", "cancel_child">>},
     r \in {<<"cancel_root", "cancel_root">>, <<"cancel_root", "watch_child">>}}
  \cup {Roles(<<"deadline", "watch_child", "drop">>, <<"expire">>, r) :
          r \in {<<"watch_child">>, <<"cancel_root">>}}
  \cup {Roles(<<"deadline", "drop">>, <<"expire">>, <<"cancel_root">>)}
  \cup {Roles(<<"watch_group">>, <<"cancel_group">>, <<"watch_group">>)}

HandlePrograms ==
  {Roles(<<"run">>, q, r) :
     q \in {<<"await", "detach">>, <<"detach">>, <<"await", "await", "detach">>},
     r \in {<<"await">>, <<"await", "await">>}}

PoolPrograms ==
  {Roles(p, q, r) : p \in {<<"file", "file">>, <<"file">>, <<"generic">>},
                    q \in {<<"file">>, <<"file", "generic">>},
                    r \in {<<"file">>, <<"shutdown">>, <<"file", "shutdown">>}}
  \cup {Roles(<<"shutdown">>, <<"file">>, <<"shutdown">>)}

(* An owner that fills its ring of four and spills, with two thieves; and a
   consumer whose inbox of two is filled by two producers. *)
RingPrograms ==
  {Roles(<<"push", "push", "push", "push", "push", "push">>, <<"grab">>, <<"grab">>),
   Roles(<<"push", "pop", "push", "pop">>, <<"grab">>, <<"grab">>),
   Roles(<<"receive", "receive", "receive", "receive">>, <<"send", "send">>, <<"send", "send">>)}

(* shutdown() abandons roots that have not run, so here it meets wakers only. *)
RuntimePrograms ==
  {Roles(p, q, r) : p \in {<<"root", "graceful">>, <<"outer">>, <<"wake", "wake">>},
                    q \in {<<"root">>, <<"wake">>}, r \in {<<"graceful">>, <<"wake", "graceful">>}}
  \cup {Roles(<<"wake">>, <<"graceful">>, <<"stop">>), Roles(<<"wake", "wake">>, <<"stop">>, <<"stop", "root">>)}

(* A child that ends while it is waited for, interrupted, killed or let go, and
   one whose streams fill their pipes in turn or run over by what they hold. *)
ProcessPrograms ==
  {Roles(<<"command", "child_wait", "child_wait", "child_drop">>, q, r) :
     q \in {<<"interrupt", "kill">>, <<"child_wait">>, <<"kill", "child_drop">>},
     r \in {<<>>, <<"child_wait">>}}
  \cup {Roles(<<o>>, <<>>, <<>>) : o \in {"cmd_run", "cmd_output"}}
MCScripts == {<<>>, <<"out">>, <<"err", "err", "err", "out">>,
              <<"out", "err", "out", "err">>, <<"out", "out", "out", "out">>}
LongScripts == {<<"out", "out", "out", "out", "out">>}

(* Buffers that change threads and pools, of two sizes and one too large, and
   frames that one thread makes and others give back. *)
BufferPrograms ==
  {Roles(<<"get", "get", "put", "put", "get">>, <<"put", "get">>, <<>>),
   Roles(<<"get", "put", "destroy", "construct", "get">>, <<"get", "put">>, <<>>),
   Roles(<<"get", "put", "get">>, <<"exit", "destroy", "put">>, <<>>),
   Roles(<<"new", "new", "new", "new", "new">>,
         <<"delete", "delete", "delete", "delete", "delete", "new", "exit">>, <<>>)}

DialPrograms ==
  {Roles(<<"dial">>, <<>>, <<>>), Roles(<<"dial_timeout">>, <<>>, <<>>),
   Roles(<<"dial_token">>, <<"cancel_dial">>, <<>>), Roles(<<"dial_both">>, <<"cancel_dial">>, <<>>)}
MCHosts ==
  LET a(family, fate) == [family |-> family, fate |-> fate]
      three == <<a("v6", "silent"), a("v6", "accepts"), a("v4", "accepts")>>
      two == <<a("v4", "refuses"), a("v6", "silent")>> IN
  [o \in Dials |-> IF o = "dial_both" THEN {two, Tail(three)} ELSE {two, three}]

LookupPrograms ==
  {Roles(<<"lookup">>, <<"withdraw">>, <<>>), Roles(<<"lookup_v4">>, <<"withdraw">>, <<>>)}

(* Enough passes for a ticket, a request, its grace, and one more.          *)
DriverPrograms ==
  {Roles(<<"pass", "pass", "pass", "pass", "pass">>, <<"drive", "drive">>, <<"serve">>),
   Roles(<<"pass_alone", "pass_alone", "pass_alone">>, <<"serve">>, <<>>),
   Roles(<<"pass", "pass", "pass">>, <<"drive">>, <<"detach_all">>)}

MCPrograms ==
  [rwmutex |-> RWPrograms, mutex |-> MutexPrograms \cup CondPrograms,
   waitgroup |-> GroupPrograms, once |-> OncePrograms,
   group |-> ParentPrograms \cup ScopePrograms, handle |-> HandlePrograms,
   pool |-> PoolPrograms, ring |-> RingPrograms, runtime |-> RuntimePrograms,
   process |-> ProcessPrograms, buffers |-> BufferPrograms,
   dial |-> DialPrograms, lookup |-> LookupPrograms, driver |-> DriverPrograms]
MCOnce == "once" :> OncePrograms
MCTwoSpawners == "group" :> TwoSpawners
MCOutput == "process" :> {Roles(<<"cmd_output">>, <<>>, <<>>)}
=============================================================================
