------------------------------ MODULE MCReactor ------------------------------
(***************************************************************************)
(* Programs for the reactor: three tasks, two sockets and one recycled     *)
(* descriptor, with what the peers send.                                   *)
(***************************************************************************)
EXTENDS Reactor

Nothing == [r |-> 0, w |-> 0]
Both == <<"r", "w">>
Call == [name |-> "io", s |-> "a", loop |-> TcpRead, want |-> 2, val |-> 0,
         dirs |-> Both, tok |-> Null, mode |-> "set", foreign |-> FALSE,
         avail |-> Nothing]

Io(s, loop, n) == [Call EXCEPT !.s = s, !.loop = loop, !.want = n]
Far(s, loop, n) == [Io(s, loop, n) EXCEPT !.foreign = TRUE]
OpenIt(s, n) == [Call EXCEPT !.name = "open", !.s = s, !.want = n]
CloseIt(s) == [Call EXCEPT !.name = "close", !.s = s]
Deadline(ds, v) == [Call EXCEPT !.name = "deadline", !.dirs = ds, !.val = v]
BindIt(s, k) == [Call EXCEPT !.name = "bind", !.s = s, !.tok = k]
CancelIt == [Call EXCEPT !.name = "cancel", !.tok = "k"]
StopIt == [Call EXCEPT !.name = "stop"]

\* Timeout(socket, v, read) and its destructor.
Scope(v) == <<[Call EXCEPT !.name = "save", !.dirs = UnixDeadline.read],
              [Deadline(UnixDeadline.read, v) EXCEPT !.mode = "scope"]>>
Restore == <<[Deadline(UnixDeadline.read, 0) EXCEPT !.mode = "restore"]>>

Program(p, q, r, fromA, fromB, avail) ==
    [ops |-> [t \in Task |-> CASE t = "t1" -> p [] t = "t2" -> q [] OTHER -> r],
     open |-> <<"a">>, avail |-> avail,
     input |-> [s \in Sock |-> IF s = "a" THEN fromA ELSE fromB]]

Read(s) == Io(s, TcpRead, 2)

\* Two readers queue on a direction that a third task closes.
Queue ==
    Program(<<Read("a")>>, <<Read("a")>>, <<CloseIt("a")>>, <<"r">>, <<>>, Nothing)
Foreign ==
    Program(<<Far("a", TcpRead, 2)>>, <<Far("a", UnixRead, 2)>>, <<CloseIt("a")>>,
            <<>>, <<>>, Nothing)
\* The descriptor and the fd are recycled under a reader.
Recycle ==
    Program(<<Read("a")>>, <<CloseIt("a"), OpenIt("b", 1), Read("b")>>,
            <<CloseIt("a")>>, <<"r">>, <<"r">>, Nothing)
\* A deadline is set, expires, is replaced by one in the past, is cleared.
Expire ==
    Program(<<Read("a")>>, <<Deadline(TcpDeadline.all, 2)>>, <<CloseIt("a")>>,
            <<>>, <<>>, Nothing)
Replace ==
    Program(<<Io("a", UdpReadFrom, 1)>>, <<Deadline(UdpDeadline.read, 2)>>,
            <<Deadline(UdpDeadline.read, 1)>>, <<"r">>, <<>>, Nothing)
Accepting ==
    Program(<<Io("a", TcpAccept, 1)>>, <<Deadline(ListenerDeadline.all, 2)>>, <<>>,
            <<"r">>, <<>>, Nothing)
Scoped ==
    Program(Scope(3) \o <<Io("a", UnixRead, 2)>> \o Restore,
            <<Deadline(UnixDeadline.read, 2)>>, <<Deadline(UnixDeadline.read, 0)>>,
            <<>>, <<>>, Nothing)
\* A token is bound and cancelled around reads, and the socket closed.
Bound ==
    Program(<<Read("a"), Read("a")>>, <<BindIt("a", "k"), CloseIt("a")>>,
            <<CancelIt>>, <<"r">>, <<>>, Nothing)
Rebound ==
    Program(<<Read("a")>>, <<BindIt("a", "k"), BindIt("a", Null), BindIt("a", "k")>>,
            <<CancelIt, CancelIt>>, <<>>, <<>>, Nothing)
\* Short results, the hint and the edges.
Short ==
    Program(<<Read("a"), Read("a")>>, <<Io("a", TcpTryRead, 2)>>, <<>>,
            <<"r", "r", "r">>, <<>>, Nothing)
Writers ==
    Program(<<Io("a", TcpWrite, 2)>>, <<Io("a", UnixWrite, 2)>>, <<>>,
            <<"w", "w", "w">>, <<>>, [r |-> 0, w |-> 1])
Pair(loop) ==
    Program(<<Io("a", loop, 1)>>, <<Io("a", loop, 1)>>, <<>>,
            <<loop.dir, loop.dir>>, <<>>, Nothing)
Alone(loop) ==
    Program(<<Io("a", loop, 1)>>, <<BindIt("a", "k")>>, <<CancelIt>>,
            <<loop.dir>>, <<>>, Nothing)
\* Two tasks wait on one direction without the operation FIFO.
Clash ==
    Program(<<Io("a", PollableRead, 1)>>, <<Io("a", PollableRead, 1)>>, <<>>, <<>>,
            <<>>, Nothing)
Ending ==
    Program(<<Read("a"), OpenIt("b", 1)>>, <<StopIt>>,
            <<OpenIt("b", 1), CloseIt("a"), OpenIt("b", 0)>>, <<>>, <<>>, Nothing)

Programs ==
    {Queue, Foreign, Recycle, Expire, Replace, Accepting, Scoped, Bound, Rebound,
     Short, Writers, Clash, Ending}
        \cup {Pair(l) : l \in {TcpAccept, UnixAccept, UdpReadFrom, UdpWriteTo,
                               UnixTryRead, UnixTryWrite, TcpTryWrite}}
        \cup {Alone(l) : l \in {PollableRead, PollableWrite, AwaitConnect}}

\* The peer sends its last bytes and closes before the event is fetched.
Fin ==
    {Program(<<Read("a"), Read("a")>>, <<>>, <<>>, <<"r", "fin">>, <<>>, Nothing)}

\* A socket closes after its token was cancelled; the next one never had one.
Inherit ==
    {Program(<<BindIt("a", "k"), CancelIt, CloseIt("a"), OpenIt("b", 1), Read("b")>>,
             <<>>, <<>>, <<>>, <<"r">>, Nothing)}

=============================================================================
