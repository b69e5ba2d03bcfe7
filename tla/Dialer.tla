------------------------------- MODULE Dialer -------------------------------
(***************************************************************************)
(* Dialer::dial_tcp and TcpConn::dial (net.cpp): connection attempts to the *)
(* addresses of a host are raced, each in a task of its own with a watcher  *)
(* that closes its socket when the race is stopped; the first success wins, *)
(* the others are cancelled and joined.                                     *)
(*                                                                         *)
(* One task dials.  The lookup is taken by its contract (module Lookup).    *)
(* The kernel is external: an address accepts, refuses or stays silent.     *)
(* Channels, select and cancel() are taken by their contracts (modules      *)
(* Select and Cancel): a select takes the first of two events, of two       *)
(* channels that are ready either, and a channel before a timeout.          *)
(***************************************************************************)
EXTENDS Tasks

CONSTANT Hosts      \* what a lookup may return, for each kind of dial: sequences
                    \* of addresses with their family, "v4" or "v6", and their fate

VARIABLES
  tokenFired,  \* the caller's token has fired
  late,        \* the overall deadline has passed
  targets,     \* the addresses, in the order of the attempts
  started, finished,
  attempt,     \* per target, how far its task is
  sock,        \* per target, its socket: none, open, closed
  connected,   \* per target, what await_connect returned
  settled,     \* the attempts whose settled channel is closed
  watch,       \* per target, its watcher
  results,     \* the channel of results: <<target, outcome>>
  stopped,     \* the shared CancelSource has fired
  relay,       \* the watcher of the caller's token, and its settled channel
  winner,      \* the target whose connection is returned, or 0
  last,        \* the last error
  outcome      \* what dial_tcp returned

attemptVars == <<attempt, sock, connected, settled, watch>>
raceVars == <<targets, started, finished, winner, last>>
dialVars == <<tokenFired, late, stopped, relay, results, outcome, attemptVars, raceVars>>

DialInit ==
  /\ tokenFired = FALSE /\ late = FALSE /\ stopped = FALSE
  /\ targets = <<>> /\ started = 0 /\ finished = 0 /\ results = <<>>
  /\ attempt = <<>> /\ sock = <<>> /\ connected = <<>> /\ watch = <<>>
  /\ settled = {} /\ relay = "none" /\ winner = 0
  /\ last = "unreachable" /\ outcome = "none"

Dials == {"dial", "dial_token", "dial_timeout", "dial_both"}
HasToken(t) == op[t] \in {"dial_token", "dial_both"}
HasTimeout(t) == op[t] \in {"dial_timeout", "dial_both"}

(* interleave_families: the families take turns, each in its own order, and *)
(* the family of the first address begins.                                  *)
Nth(s, i) == IF i <= Len(s) THEN <<s[i]>> ELSE <<>>
interleave_families(addresses) ==
  LET first == SelectSeq(addresses, LAMBDA a : a.family = addresses[1].family)
      second == SelectSeq(addresses, LAMBDA a : a.family # addresses[1].family) IN
  FlattenSeq([i \in 1 .. Len(addresses) |-> Nth(first, i) \o Nth(second, i)])

-----------------------------------------------------------------------------
(* dial_tcp up to the lookup's answer.                                      *)
DialTcp(t) ==
  \E o \in Dials :
    LET refused == tokenFired /\ o \in {"dial_token", "dial_both"} IN
    /\ Begin(t, o, IF refused THEN "idle" ELSE "dial_lookup")
    /\ outcome' = IF refused THEN "cancelled" ELSE "none"
    /\ UNCHANGED <<tokenFired, late, stopped, relay, results, attemptVars, raceVars>>

LookupFails(t) ==
  /\ pc[t] = "dial_lookup"
  /\ \/ outcome' = "no address"
     \/ HasToken(t) /\ tokenFired /\ outcome' = "cancelled"
  /\ Only(t, "idle")
  /\ UNCHANGED <<tokenFired, late, stopped, relay, results, attemptVars, raceVars>>

(* The race begins.                                                         *)
LookedUp(t) ==
  /\ pc[t] = "dial_lookup"
  /\ \E addresses \in Hosts[op[t]] :
       /\ targets' = interleave_families(addresses)
       /\ attempt' = [i \in DOMAIN targets' |-> "none"]
       /\ sock' = [i \in DOMAIN targets' |-> "none"]
       /\ connected' = [i \in DOMAIN targets' |-> "none"]
       /\ watch' = [i \in DOMAIN targets' |-> "none"]
  /\ relay' = IF HasToken(t) THEN "watching" ELSE "none"
  /\ Only(t, "dial_race")
  /\ UNCHANGED <<tokenFired, late, stopped, results, outcome, settled, started, finished,
                 winner, last>>

(* One turn of the loop: the next attempt, then a select.                   *)
Launch(t) ==
  /\ pc[t] = "dial_race"
  /\ started' = IF started < Len(targets) THEN started + 1 ELSE started
  /\ attempt' = IF started < Len(targets)
                THEN [attempt EXCEPT ![started + 1] = "begin"] ELSE attempt
  /\ Only(t, "dial_wait")
  /\ UNCHANGED <<tokenFired, late, stopped, relay, results, outcome, sock, connected,
                 settled, watch, targets, finished, winner, last>>

ReceiveResult(t) ==
  /\ pc[t] = "dial_wait"
  /\ results # <<>>
  /\ results' = Tail(results)
  /\ finished' = finished + 1
  /\ LET i == Head(results)[1]
         result == Head(results)[2]
         over == result \in {"connected", "cancelled"} \/ finished + 1 = Len(targets) IN
     /\ winner' = IF result = "connected" THEN i ELSE winner
     /\ last' = IF result = "connected" THEN "unreachable" ELSE result
     /\ Only(t, IF over THEN "dial_stop" ELSE "dial_race")
  /\ UNCHANGED <<tokenFired, late, stopped, relay, outcome, attemptVars, targets, started>>

Stagger(t) ==
  /\ pc[t] = "dial_wait"
  /\ results = <<>>
  /\ started < Len(targets)
  /\ Only(t, "dial_race")
  /\ UNCHANGED dialVars

Overdue(t) ==
  /\ pc[t] = "dial_wait"
  /\ results = <<>>
  /\ HasTimeout(t) /\ late
  /\ Only(t, "dial_stop")
  /\ UNCHANGED dialVars

StopAll(t) ==
  /\ pc[t] = "dial_stop"
  /\ stopped' = TRUE
  /\ Only(t, "dial_join")
  /\ UNCHANGED <<tokenFired, late, relay, results, outcome, attemptVars, raceVars>>

(* The attempts are joined, then the watcher is told.                       *)
BugJoinAttempts(t) ==                  \* only the winner is joined
  /\ pc[t] = "dial_join"
  /\ winner # 0 => attempt[winner] = "ended"
  /\ relay' = IF relay = "watching" THEN "settled" ELSE relay
  /\ Only(t, "dial_unwatch")
  /\ UNCHANGED <<tokenFired, late, stopped, results, outcome, attemptVars, raceVars>>
JoinAttempts(t) ==
  /\ pc[t] = "dial_join"
  /\ \A i \in 1 .. started : attempt[i] = "ended"
  /\ relay' = IF relay = "watching" THEN "settled" ELSE relay
  /\ Only(t, "dial_unwatch")
  /\ UNCHANGED <<tokenFired, late, stopped, results, outcome, attemptVars, raceVars>>

(* What is left in the channel goes with it.                                *)
DialReturn(t) ==
  /\ pc[t] = "dial_unwatch"
  /\ relay \in {"none", "done"}
  /\ outcome' =
       CASE winner # 0 -> "connected"
         [] winner = 0 /\ HasToken(t) /\ tokenFired -> "cancelled"
         [] winner = 0 /\ ~(HasToken(t) /\ tokenFired) ->
              IF HasTimeout(t) /\ late /\ last # "cancelled" THEN "timed out" ELSE last
  /\ results' = <<>>
  /\ sock' = [i \in DOMAIN sock |->
                IF <<i, "connected">> \in ToSet(results) THEN "closed" ELSE sock[i]]
  /\ Only(t, "idle")
  /\ UNCHANGED <<tokenFired, late, stopped, relay, attempt, connected, settled, watch, raceVars>>

CancelDial(t) ==
  /\ Begin(t, "cancel_dial", "idle")
  /\ tokenFired' = TRUE
  /\ UNCHANGED <<late, stopped, relay, results, outcome, attemptVars, raceVars>>

DialStep(t) ==
  \/ DialTcp(t) \/ LookupFails(t) \/ LookedUp(t) \/ Launch(t) \/ ReceiveResult(t)
  \/ Stagger(t) \/ Overdue(t) \/ StopAll(t) \/ JoinAttempts(t) \/ DialReturn(t) \/ CancelDial(t)

-----------------------------------------------------------------------------
(* TcpConn::dial with a token: its task sends the result and ends.          *)
Ends(i, result) ==
  /\ attempt' = [attempt EXCEPT ![i] = "ended"]
  /\ results' = Append(results, <<i, result>>)

BeginConnect(i) ==
  \/ Ends(i, "refused") /\ UNCHANGED <<sock, watch>>
  \/ /\ targets[i].fate = "accepts"                 \* at once
     /\ Ends(i, "connected")
     /\ sock' = [sock EXCEPT ![i] = "open"]
     /\ UNCHANGED watch
  \/ /\ attempt' = [attempt EXCEPT ![i] = "connecting"]
     /\ sock' = [sock EXCEPT ![i] = "open"]
     /\ watch' = [watch EXCEPT ![i] = "watching"]
     /\ UNCHANGED results

DialOne(i) ==
  /\ attempt[i] = "begin"
  /\ IF stopped THEN Ends(i, "cancelled") /\ UNCHANGED <<sock, watch>>
                ELSE BeginConnect(i)
  /\ UNCHANGED <<connected, settled>>

(* await_connect returns, and settled is closed.  The kernel gives up on a  *)
(* silent address too, but only after minutes: a dial with a token or a     *)
(* deadline is not to depend on that.                                       *)
Answers(i) == targets[i].fate # "silent" \/ \E t \in Task : op[t] = "dial"
AwaitConnect(i) ==
  /\ attempt[i] = "connecting"
  /\ \/ sock[i] = "closed" /\ connected' = [connected EXCEPT ![i] = "refused"]
     \/ /\ sock[i] = "open" /\ Answers(i)
        /\ connected' = [connected EXCEPT ![i] =
                           IF targets[i].fate = "accepts" THEN "connected" ELSE "refused"]
  /\ attempt' = [attempt EXCEPT ![i] = "joining"]
  /\ settled' = settled \cup {i}
  /\ UNCHANGED <<results, sock, watch>>

JoinWatcher(i) ==
  /\ attempt[i] = "joining"
  /\ watch[i] \in {"cancelled", "quiet"}
  /\ Ends(i, IF watch[i] = "cancelled" THEN "cancelled" ELSE connected[i])
  /\ sock' = [sock EXCEPT ![i] =
                IF watch[i] = "quiet" /\ connected[i] = "connected" THEN @ ELSE "closed"]
  /\ UNCHANGED <<connected, settled, watch>>

(* The watcher of one attempt: close() is a step of its own.                *)
Watcher(i) ==
  /\ \/ /\ watch[i] = "watching" /\ stopped
        /\ watch' = [watch EXCEPT ![i] = "closing"] /\ UNCHANGED sock
     \/ /\ watch[i] = "watching" /\ i \in settled
        /\ watch' = [watch EXCEPT ![i] = "quiet"] /\ UNCHANGED sock
     \/ /\ watch[i] = "closing"
        /\ watch' = [watch EXCEPT ![i] = "cancelled"]
        /\ sock' = [sock EXCEPT ![i] = "closed"]
  /\ UNCHANGED <<attempt, connected, settled, results>>

AttemptStep(i) ==
  /\ DialOne(i) \/ AwaitConnect(i) \/ JoinWatcher(i) \/ Watcher(i)
  /\ UNCHANGED <<taskVars, tokenFired, late, stopped, relay, outcome, raceVars>>

(* The watcher that passes the caller's token on.                           *)
Relay ==
  /\ \/ /\ relay \in {"watching", "settled"} /\ tokenFired
        /\ relay' = "cancelling" /\ UNCHANGED stopped
     \/ relay = "settled" /\ relay' = "done" /\ UNCHANGED stopped
     \/ relay = "cancelling" /\ relay' = "done" /\ stopped' = TRUE
  /\ UNCHANGED <<taskVars, tokenFired, late, results, outcome, attemptVars, raceVars>>

Clock ==
  /\ ~late
  /\ \E t \in Task : pc[t] # "idle" /\ HasTimeout(t)
  /\ late' = TRUE
  /\ UNCHANGED <<taskVars, tokenFired, stopped, relay, results, outcome, attemptVars, raceVars>>

DialOthers == (\E i \in DOMAIN attempt : AttemptStep(i)) \/ Relay \/ Clock

-----------------------------------------------------------------------------
(* "Nothing is detached": when dial_tcp returns after a race, no attempt    *)
(* and no watcher is left, and of all sockets exactly the one it returns is *)
(* open.  It reports a cancellation only when its token fired, a timeout    *)
(* only when the deadline has passed, and the error of an address only when *)
(* every address was tried.  The families took turns while both had         *)
(* addresses.                                                               *)
DialSound ==
  /\ \A t \in Task :
       pc[t] = "idle" /\ op[t] \in Dials /\ targets # <<>> =>
         /\ \A i \in DOMAIN targets :
              /\ attempt[i] \in {"none", "ended"}
              /\ watch[i] \in {"none", "quiet", "cancelled"}
              /\ sock[i] = "open" <=> i = winner
         /\ relay \in {"none", "done"}
         /\ outcome = "connected" <=> winner # 0
         /\ outcome = "cancelled" => HasToken(t) /\ tokenFired
         /\ outcome = "timed out" => HasTimeout(t) /\ late
         /\ outcome = "refused" => \A i \in DOMAIN targets : attempt[i] = "ended"
         /\ outcome # "unreachable"
  /\ \A i, j, k \in DOMAIN targets :
       i + 1 = j /\ j < k /\ targets[i].family = targets[j].family
       => targets[k].family = targets[i].family
=============================================================================
