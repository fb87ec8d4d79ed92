----------------------------- MODULE Connection ----------------------------
(***************************************************************************)
(* What a peer may rely on: the abstract specification of a connection.    *)
(*                                                                         *)
(* The server accepts a connection, begins at most one answer on it, and   *)
(* closes it.  Two things may follow bytes already sent: the answer of a   *)
(* CGI script, after the 400 for data that came after its request; and, as *)
(* the last thing on the connection, the 408 of a timeout.  Once an answer *)
(* has begun the connection is closed in the end, whatever the peer does.  *)
(***************************************************************************)
EXTENDS Sequences

CONSTANTS
    Connections

VARIABLES
    open, \* connections that are open
    wire  \* the responses begun on a connection, kept until the next Accept

vars == <<open, wire>>

Answers == {"page", "error", "cgi"}

Init == open = {} /\ wire = [c \in Connections |-> <<>>]

\* Where an answer of kind k may begin.
MayBegin(c, k) ==
    /\ c \in open /\ k \in Answers
    /\ wire[c] = <<>> \/ (wire[c] = <<"error">> /\ k = "cgi")

Begin(c, k) == MayBegin(c, k) /\ wire' = [wire EXCEPT ![c] = Append(@, k)]

Accept(c) ==
    /\ c \notin open
    /\ open' = open \cup {c}
    /\ wire' = [wire EXCEPT ![c] = <<>>]

Respond(c) == \E k \in Answers : Begin(c, k) /\ UNCHANGED open

Close(c) ==
    /\ c \in open /\ open' = open \ {c}
    /\ \/ UNCHANGED wire
       \/ \E k \in Answers : Begin(c, k)
       \/ wire' = [wire EXCEPT ![c] = Append(@, "timeout")]

Next == \E c \in Connections : Accept(c) \/ Respond(c) \/ Close(c)

Spec == Init /\ [][Next]_vars

\* An answer that has begun ends: complete, or with the connection.
Liveness == \A c \in Connections : wire[c] # <<>> ~> c \notin open
=============================================================================
