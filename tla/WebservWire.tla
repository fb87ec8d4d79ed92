---------------------------- MODULE WebservWire ----------------------------
(***************************************************************************)
(* The event loop with what its peers receive: wire[c] is the sequence of  *)
(* responses of which bytes were sent on the connection of c.  wire is a   *)
(* history variable: no action of Webserv depends on it.                   *)
(***************************************************************************)
EXTENDS Webserv, Sequences

VARIABLE wire

wireVars == <<vars, wire>>

WireInit == Init /\ wire = [c \in Clients |-> <<>>]

\* send accepts bytes of write_buffer_.
Begun(c) == IF left[c] = RespLen THEN Append(wire[c], buf[c]) ELSE wire[c]

WireAccept(c) == AcceptConn(c) /\ wire' = [wire EXCEPT ![c] = <<>>]

WireSendSome(c) == SendSome(c) /\ wire' = [wire EXCEPT ![c] = Begun(c)]

\* send accepts the rest, or fails.
WireSendLast(c) ==
    /\ SendLast(c)
    /\ wire' = [wire EXCEPT ![c] = Begun(c)] \/ UNCHANGED wire

\* HandleTimeout: send accepts some of the 408, or none.
WireExpireClient(c) ==
    /\ ExpireClient(c)
    /\ wire' = [wire EXCEPT ![c] = Append(@, "timeout")] \/ UNCHANGED wire

\* Steps on which nothing is sent to a client.
SilentClientStep(c) ==
    \/ RecvClosed(c) \/ RecvMore(c) \/ RecvError(c) \/ RunSync(c)
    \/ \E g \in Cgis : RunCgi(c, g) \/ RunCgiAddFails(c, g)

SilentStep ==
    \/ EpollWait \/ EpollWaitFails \/ BatchDone
    \/ \E o \in Sockets : DispatchDeleted(o)
    \/ AcceptFails
    \/ \E c \in Clients : SilentClientStep(c)
    \/ \E g \in Cgis : CgiStep(g)
    \/ Environment

WireNext ==
    \/ \E c \in Clients : WireAccept(c) \/ WireSendSome(c) \/ WireSendLast(c) \/ WireExpireClient(c)
    \/ SilentStep /\ UNCHANGED wire

WireSpec == WireInit /\ [][WireNext]_wireVars /\ Fairness

-----------------------------------------------------------------------------
C == INSTANCE Connection WITH
         Connections <- Clients,
         open <- {c \in Clients : Live(c)},
         wire <- wire

\* The event loop implements the abstract specification of a connection: no
\* peer receives bytes of two responses, but a 408 at the very end and the
\* answer of a script after the 400 for surplus data; and no placeholder is
\* ever sent (HandleEpollIn, HandleEpollOut, HandleTimeout and the callbacks
\* of a CgiSocket all write into the same write_buffer_).
ImplementsConnection == C!Spec

\* A connection on which an answer has begun is closed, even if its peer stops
\* reading: HandleEpollOut closes it, or CheckTimeout does.
BegunAnswerEnds == C!Liveness
=============================================================================
