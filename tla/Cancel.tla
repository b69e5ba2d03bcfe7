------------------------------- MODULE Cancel -------------------------------
(***************************************************************************)
(* Cancellation (include/cio/group.hpp) and derived scopes (context.cpp):   *)
(* the CancelState of a root source, of a scope made under it with          *)
(* with_cancel or with_deadline, and of a TaskGroup.  A hook of the root    *)
(* cancels the scope; done() makes the channel when it is first asked for.  *)
(***************************************************************************)
EXTENDS Tasks

Scope == {"root", "child", "group"}

VARIABLES
  handle,     \* "none", "local" to make_scope, "open", or "dropped"
  flag,       \* CancelState::cancelled
  fired,      \* under hooks_mutex: the hooks have been taken
  hooks,      \* the scopes whose ParentLink is registered
  doneChan,   \* the done channel: "none", "open" or "closed"
  alarm,      \* the scope's deadline timer is armed
  calls       \* per task: the cancel() calls it is in, innermost first

cancelVars == <<handle, flag, fired, hooks, doneChan, alarm, calls>>

CancelInit ==
  /\ handle = [s \in Scope |-> IF s = "child" THEN "none" ELSE "open"]
  /\ flag = [s \in Scope |-> FALSE] /\ fired = [s \in Scope |-> FALSE]
  /\ hooks = [s \in Scope |-> {}] /\ doneChan = [s \in Scope |-> "none"]
  /\ alarm = FALSE
  /\ calls = [t \in Task |-> <<>>]

Calling(s) == <<[scope |-> s, at |-> "flag", links |-> {}, close |-> FALSE]>>
Watched(s) == CASE s = "root" -> "watch_root" [] s = "child" -> "watch_child"
                [] s = "group" -> "watch_group"

(* A state lives while a handle, a token or a running cancel() holds it.    *)
Owned(s) ==
  \/ handle[s] \in {"local", "open"}
  \/ \E t \in Task : \/ pc[t] # "idle" /\ op[t] = Watched(s)
                     \/ \E i \in DOMAIN calls[t] : calls[t][i].scope = s

(* make_scope has returned the source, and it is not gone.                  *)
Published(s) ==
  /\ handle[s] = "open"
  /\ s = "child" => ~\E t \in Task : pc[t] # "idle" /\ op[t] \in {"scope", "deadline"}

-----------------------------------------------------------------------------
(* CancelState::cancel; ~TaskGroup cancels the group that was not joined.   *)
Cancel(t, o, s) ==
  /\ Published(s)
  /\ Begin(t, o, "cancel")
  /\ calls' = [calls EXCEPT ![t] = Calling(s)]
  /\ UNCHANGED <<handle, flag, fired, hooks, doneChan, alarm>>

(* A failed child goes on to finish; any other caller returns.              *)
Leave(t) ==
  IF Len(calls[t]) > 1 THEN UNCHANGED taskVars
  ELSE Only(t, IF op[t] = "fail" THEN "finish" ELSE "idle")

SetFlag(t) ==
  LET f == Head(calls[t]) IN
  /\ f.at = "flag"
  /\ flag' = [flag EXCEPT ![f.scope] = TRUE]
  /\ IF flag[f.scope] THEN calls' = [calls EXCEPT ![t] = Tail(@)] /\ Leave(t)
     ELSE calls' = [calls EXCEPT ![t][1].at = "lock"] /\ UNCHANGED taskVars
  /\ UNCHANGED <<fired, hooks, doneChan>>

TakeHooks(t) ==
  LET f == Head(calls[t]) IN
  /\ f.at = "lock"
  /\ fired' = [fired EXCEPT ![f.scope] = TRUE]
  /\ hooks' = [hooks EXCEPT ![f.scope] = {}]
  /\ calls' = [calls EXCEPT ![t][1] = [f EXCEPT !.at = "hooks",
                   !.links = hooks[f.scope], !.close = doneChan[f.scope] # "none"]]
  /\ UNCHANGED <<flag, doneChan, taskVars>>

(* ParentLink::on_cancel locks its weak reference.                          *)
RunHooks(t) ==
  LET f == Head(calls[t]) IN
  /\ f.at = "hooks"
  /\ \/ /\ f.links = {}
        /\ doneChan' = [doneChan EXCEPT ![f.scope] = IF f.close THEN "closed" ELSE @]
        /\ calls' = [calls EXCEPT ![t] = Tail(@)]
        /\ Leave(t)
     \/ \E s \in f.links :
          /\ calls' = [calls EXCEPT ![t] = (IF Owned(s) THEN Calling(s) ELSE <<>>)
                                             \o <<[f EXCEPT !.links = @ \ {s}]>> \o Tail(@)]
          /\ UNCHANGED <<doneChan, taskVars>>
  /\ UNCHANGED <<flag, fired, hooks>>

Cancelling(t) ==
  /\ pc[t] = "cancel"
  /\ SetFlag(t) \/ TakeHooks(t) \/ RunHooks(t)
  /\ UNCHANGED <<handle, alarm>>

-----------------------------------------------------------------------------
(* CancelToken::done, and a task that waits for it.                         *)
BugDoneChannel(t, s) ==                \* made open, whatever has happened
  /\ Begin(t, Watched(s), "watch")
  /\ Published(s)
  /\ doneChan' = [doneChan EXCEPT ![s] = IF @ # "none" THEN @ ELSE "open"]
  /\ UNCHANGED <<handle, flag, fired, hooks, alarm, calls>>

DoneChannel(t, s) ==
  /\ Begin(t, Watched(s), "watch")
  /\ Published(s)
  /\ doneChan' = [doneChan EXCEPT ![s] = IF @ # "none" THEN @
                                 ELSE IF fired[s] THEN "closed" ELSE "open"]
  /\ UNCHANGED <<handle, flag, fired, hooks, alarm, calls>>

Seen(t) ==
  /\ pc[t] = "watch"
  /\ \E s \in Scope : op[t] = Watched(s) /\ doneChan[s] = "closed"
  /\ Only(t, "idle")
  /\ UNCHANGED cancelVars

-----------------------------------------------------------------------------
(* make_scope, link_to_parent, and the end of a scope.                      *)
MakeScope(t, o) ==
  /\ Begin(t, o, "link")
  /\ handle["child"] = "none"
  /\ handle' = [handle EXCEPT !["child"] = "local"]
  /\ alarm' = (o = "deadline")
  /\ UNCHANGED <<flag, fired, hooks, doneChan, calls>>

LinkToParent(t) ==
  /\ pc[t] = "link"
  /\ handle' = [handle EXCEPT !["child"] = "open"]
  /\ IF fired["root"]
     THEN /\ calls' = [calls EXCEPT ![t] = Calling("child")]
          /\ Only(t, "cancel")
          /\ UNCHANGED hooks
     ELSE /\ hooks' = [hooks EXCEPT !["root"] = @ \cup {"child"}]
          /\ Only(t, "idle")
          /\ UNCHANGED calls
  /\ UNCHANGED <<flag, fired, doneChan, alarm>>

(* The callback of after_func locks its weak reference too.                 *)
Expire(t) ==
  /\ alarm
  /\ Begin(t, "expire", IF Owned("child") THEN "cancel" ELSE "idle")
  /\ calls' = [calls EXCEPT ![t] = IF Owned("child") THEN Calling("child") ELSE <<>>]
  /\ alarm' = FALSE
  /\ UNCHANGED <<handle, flag, fired, hooks, doneChan>>

Drop(t) ==
  /\ Begin(t, "drop", "unhook")
  /\ Published("child")
  /\ handle' = [handle EXCEPT !["child"] = "dropped"]
  /\ UNCHANGED <<flag, fired, hooks, doneChan, alarm, calls>>

(* ~ScopeKeepalive, once the last owner has gone.                           *)
Unhook(t) ==
  /\ pc[t] = "unhook"
  /\ ~Owned("child")
  /\ alarm' = FALSE
  /\ hooks' = [hooks EXCEPT !["root"] = @ \ {"child"}]
  /\ Only(t, "idle")
  /\ UNCHANGED <<handle, flag, fired, doneChan, calls>>

CancelStep(t) ==
  \/ Cancel(t, "cancel_root", "root") \/ Cancel(t, "cancel_child", "child")
  \/ Cancel(t, "cancel_group", "group")
  \/ Cancelling(t) \/ Seen(t) \/ \E s \in Scope : DoneChannel(t, s)
  \/ \E o \in {"scope", "deadline"} : MakeScope(t, o)
  \/ LinkToParent(t) \/ Expire(t) \/ Drop(t) \/ Unhook(t)

-----------------------------------------------------------------------------
InCancel(s, Cond(_)) ==
  \E t \in Task : \E i \in DOMAIN calls[t] : calls[t][i].scope = s /\ Cond(calls[t][i])

(* Whatever cancel() has passed is reached all the same: once the hooks of  *)
(* a state were taken, a done channel is closed, or the canceller has it in *)
(* hand, and an open scope under the root is cancelled, or about to be, at  *)
(* whatever moment done(), make_scope and cancel() met (CancelState).       *)
CancelReaches ==
  /\ \A s \in Scope : fired[s] /\ doneChan[s] = "open" => InCancel(s, LAMBDA f : f.close)
  /\ fired["root"] /\ handle["child"] = "open" /\ ~flag["child"] =>
       \/ InCancel("root", LAMBDA f : "child" \in f.links)
       \/ InCancel("child", LAMBDA f : f.at = "flag")
=============================================================================
