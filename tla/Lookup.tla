------------------------------- MODULE Lookup -------------------------------
(***************************************************************************)
(* dns::Resolver::lookup (dns.cpp): both families are resolved at once, the *)
(* IPv6 one in a task of its own; each asks the servers in rounds, every    *)
(* time from a new socket with a new query id, under a deadline, and goes   *)
(* over to TCP for a truncated answer.                                      *)
(*                                                                         *)
(* The network is external: it loses, delays and repeats datagrams, and     *)
(* delivers them to whoever has the port by then; what an answer says is    *)
(* chosen when it arrives.  An id is the query itself: ids that coincide    *)
(* are left out.  Of an answer only its kind is kept, and of errors that    *)
(* there was one.  One lookup is made.                                      *)
(***************************************************************************)
EXTENDS Tasks

CONSTANTS Servers, Attempts,   \* how many; Config::servers, Config::attempts
          Port                 \* the ports a socket may be given

Family == {"v4", "v6"}
Kinds == {"addresses", "empty", "no entry"}   \* of complete answers
Turns == Servers * Attempts

VARIABLES
  stage,       \* per family: off, next, udp, tcp, done
  turn,        \* per family: how many queries it has begun
  port,        \* per family: the port of its socket
  found,       \* per family: what resolve_type returned, and for which query
  wire,        \* answers under way: the port and the query of each
  withdrawn,   \* the lookup's token has fired
  answer       \* what lookup returned

familyVars == <<stage, turn, port, found>>
lookupVars == <<familyVars, wire, withdrawn, answer>>

NoAnswer == [kind |-> "none", query |-> <<>>]
LookupInit ==
  /\ stage = [f \in Family |-> "off"] /\ turn = [f \in Family |-> 0]
  /\ port \in [Family -> {CHOOSE p \in Port : TRUE}]
  /\ found = [f \in Family |-> NoAnswer]
  /\ wire = {} /\ withdrawn = FALSE /\ answer = "none"

(* lookup: a token that has fired, a literal, the hosts file, a name that   *)
(* cannot be encoded or a lack of servers answer at once.                   *)
LookupAtOnce(t) ==
  /\ \E o \in {"lookup", "lookup_v4"} :
       /\ Begin(t, o, "idle")
       /\ answer' \in IF withdrawn THEN {"cancelled"}
                      ELSE {"addresses", IF o = "lookup" THEN "no entry" ELSE "failed"}
  /\ UNCHANGED <<familyVars, wire, withdrawn>>

LookupStarts(t) ==
  /\ ~withdrawn
  /\ \E o \in {"lookup", "lookup_v4"} :
       /\ Begin(t, o, "lookup")
       /\ stage' = [f \in Family |-> IF f = "v4" \/ o = "lookup" THEN "next" ELSE "off"]
  /\ UNCHANGED <<turn, port, found, wire, withdrawn, answer>>

(* Both are joined and their addresses merged; with none, a cancellation of *)
(* either goes before "no entry".                                           *)
Merge ==
  LET kinds == {found[f].kind : f \in Family} IN
  CASE "addresses" \in kinds -> "addresses"
    [] "addresses" \notin kinds /\ "cancelled" \in kinds -> "cancelled"
    [] "addresses" \notin kinds /\ "cancelled" \notin kinds -> "no entry"

LookupReturns(t) ==
  /\ pc[t] = "lookup"
  /\ \A f \in Family : stage[f] \in {"off", "done"}
  /\ answer' = IF op[t] = "lookup" THEN Merge ELSE found["v4"].kind
  /\ Only(t, "idle")
  /\ UNCHANGED <<familyVars, wire, withdrawn>>

Withdraw(t) ==
  /\ Begin(t, "withdraw", "idle")
  /\ withdrawn' = TRUE
  /\ UNCHANGED <<familyVars, wire, answer>>

LookupStep(t) == LookupAtOnce(t) \/ LookupStarts(t) \/ LookupReturns(t) \/ Withdraw(t)

-----------------------------------------------------------------------------
(* resolve_type of one family.                                              *)
Query(f) == <<f, turn[f]>>
Resolved(f, kind) ==
  /\ stage' = [stage EXCEPT ![f] = "done"]
  /\ found' = [found EXCEPT ![f] = [kind |-> kind, query |-> Query(f)]]
  /\ UNCHANGED <<turn, port>>

GiveUp(f) ==
  /\ stage[f] = "next"
  /\ \/ turn[f] = Turns /\ Resolved(f, "failed")
     \/ turn[f] < Turns /\ withdrawn /\ Resolved(f, "cancelled")
  /\ UNCHANGED wire

Taken(f) == {port[g] : g \in {h \in Family \ {f} : stage[h] = "udp"}}

Ask(f) ==
  /\ stage[f] = "next"
  /\ turn[f] < Turns
  /\ ~withdrawn
  /\ turn' = [turn EXCEPT ![f] = @ + 1]
  /\ \/ UNCHANGED <<stage, port, wire>>                        \* no socket, or not sent
     \/ \E p \in Port \ Taken(f) :
          /\ stage' = [stage EXCEPT ![f] = "udp"]
          /\ port' = [port EXCEPT ![f] = p]
          /\ wire' = wire \cup {[port |-> p, query |-> <<f, turn[f] + 1>>]}
  /\ UNCHANGED found

Retry(f) ==
  /\ stage' = [stage EXCEPT ![f] = "next"]
  /\ UNCHANGED <<turn, port, found>>

(* query_udp_once goes on with what parse_response can use: not another     *)
(* query's answer; one that is malformed or failed is as good as lost.      *)
BugUsable(f, m) == m.port = port[f]               \* any id
Usable(f, m) == m.port = port[f] /\ m.query = Query(f)

Datagram(f) ==
  /\ stage[f] = "udp"
  /\ \E m \in wire, k \in Kinds :
       /\ Usable(f, m)
       /\ found' = [found EXCEPT ![f] = [kind |-> k, query |-> m.query]]
  /\ stage' = [stage EXCEPT ![f] = "done"]
  /\ UNCHANGED <<turn, port, wire>>

Truncated(f) ==
  /\ stage[f] = "udp"
  /\ \E m \in wire : Usable(f, m)
  /\ stage' = [stage EXCEPT ![f] = "tcp"]
  /\ UNCHANGED <<turn, port, found, wire>>

(* query_tcp_once.                                                          *)
OverTcp(f) ==
  /\ stage[f] = "tcp"
  /\ \/ \E k \in Kinds : Resolved(f, k)
     \/ Retry(f)
  /\ UNCHANGED wire

(* The deadline covers both ways; other errors of a socket are like it.     *)
Interrupted(f) ==
  /\ stage[f] \in {"udp", "tcp"}
  /\ Retry(f) \/ (withdrawn /\ Resolved(f, "cancelled"))
  /\ UNCHANGED wire

Resolves(f) ==
  /\ GiveUp(f) \/ Ask(f) \/ Datagram(f) \/ Truncated(f) \/ OverTcp(f) \/ Interrupted(f)
  /\ UNCHANGED <<taskVars, withdrawn, answer>>

-----------------------------------------------------------------------------
(* Whatever the network does to datagrams, what a family has found answers  *)
(* its own last query and not an earlier one or the other family's; it      *)
(* gives up only when every server was asked every time, and reports a      *)
(* cancellation only when the token fired.  The lookup has addresses as     *)
(* soon as a family has, whatever became of the other.                      *)
LookupSound ==
  /\ \A f \in Family :
       /\ found[f].kind # "none" => found[f].query = Query(f)
       /\ found[f].kind = "failed" => turn[f] = Turns
       /\ found[f].kind = "cancelled" => withdrawn
  /\ \A t \in Task : pc[t] = "idle" /\ op[t] = "lookup" /\ (\A f \in Family : stage[f] = "done") =>
       /\ answer = "addresses" <=> \E f \in Family : found[f].kind = "addresses"
       /\ answer = "cancelled" => withdrawn
=============================================================================
