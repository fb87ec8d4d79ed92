--------------------------- MODULE WebservProofs ---------------------------
(***************************************************************************)
(* Proofs about the event loop, for any number of clients, CGI scripts,    *)
(* descriptors and faults: the types, the links between a client and its   *)
(* CgiSocket, stale events and child processes first; then sockets_, the   *)
(* answers and the responses sent in part; then CheckTimeout; and last,    *)
(* that the event loop implements Connection.                              *)
(***************************************************************************)
EXTENDS WebservWire, SequenceTheorems, TLAPS

USE SocketsAssumption, BoundsAssumption

\* -1 is no descriptor, and both kinds of objects are sockets.
LEMMA NoFdFacts == NoFd \notin Fds /\ Clients \subseteq Sockets /\ Cgis \subseteq Sockets
  BY DEF NoFd, Sockets

\* The state the server starts in has its type.
LEMMA TypeInit == Init => TypeOK
  BY NoFdFacts DEF Init, TypeOK, Points, Flags, Responses

\* sockets_.erase leaves a map from descriptors to objects.
LEMMA EraseType ==
  ASSUME TypeOK, NEW o \in Sockets, Erase(o)
  PROVE  sockets' \in [Fds -> Sockets \cup {NULL}]
  BY DEF Erase, TypeOK

\* RemoveCgiSocket leaves cgi_socket_ a pointer to a CgiSocket, or null.
LEMMA RemoveType ==
  ASSUME TypeOK, NEW g \in Cgis, RemoveCgiSocket(g)
  PROVE  cgi_socket' \in [Clients -> Cgis \cup {NULL}]
  BY DEF RemoveCgiSocket, TypeOK

\* Closing a client (EPOLL_CTL_DEL, erase, ~ClientSocket) keeps the type of all it
\* changes.
LEMMA CloseType ==
  ASSUME TypeOK, NEW c \in Clients, CloseClient(c)
  PROVE  /\ sockets' \in [Fds -> Sockets \cup {NULL}]
         /\ fd' \in [Sockets -> Fds \cup {NoFd}]
         /\ age' \in [Sockets -> 0..(Timeout + 1)]
         /\ interest' \in [Sockets -> Flags]
         /\ req' \in [Clients -> {"parsing", "done"}]
         /\ buf' \in [Clients -> Responses]
         /\ left' \in [Clients -> 0..RespLen]
         /\ cgi_socket' \in [Clients -> Cgis \cup {NULL}]
         /\ owner' \in [Cgis -> Clients \cup {NULL}]
<1>1. sockets' \in [Fds -> Sockets \cup {NULL}]
  BY EraseType, NoFdFacts DEF CloseClient
<1>2. owner' \in [Cgis -> Clients \cup {NULL}]
  BY DEF CloseClient, ForgetOwner, TypeOK
<1> QED
  BY <1>1, <1>2, NoFdFacts DEF CloseClient, Unregister, TypeOK, Flags, Responses

\* Starting a CGI script keeps the type of the members it sets.
LEMMA ForkType ==
  ASSUME TypeOK, NEW c \in Clients, NEW g \in Cgis, Fork(c, g)
  PROVE  /\ fd' \in [Sockets -> Fds \cup {NoFd}]
         /\ age' \in [Sockets -> 0..(Timeout + 1)]
         /\ req' \in [Clients -> {"parsing", "done"}]
         /\ buf' \in [Clients -> Responses]
         /\ left' \in [Clients -> 0..RespLen]
         /\ owner' \in [Cgis -> Clients \cup {NULL}]
         /\ proc' \in [Cgis -> {"none", "running", "zombie"}]
         /\ pair' \in [Cgis -> {"open", "closed"}]
         /\ hold' \in [Cgis -> SUBSET Sockets]
<1> USE NoFdFacts DEF Fork, TypeOK
<1>1. fd' \in [Sockets -> Fds \cup {NoFd}]
  OBVIOUS
<1>2. age' \in [Sockets -> 0..(Timeout + 1)]
  <2>1. PICK late \in {0, 1} : age' = [age EXCEPT ![c] = late, ![g] = 0]
    OBVIOUS
  <2> QED BY <2>1
<1>3. /\ req' \in [Clients -> {"parsing", "done"}]
      /\ buf' \in [Clients -> Responses]
      /\ left' \in [Clients -> 0..RespLen]
  BY DEF Buffer, Responses
<1>4. /\ owner' \in [Cgis -> Clients \cup {NULL}]
      /\ proc' \in [Cgis -> {"none", "running", "zombie"}]
      /\ pair' \in [Cgis -> {"open", "closed"}]
      /\ hold' \in [Cgis -> SUBSET Sockets]
  OBVIOUS
<1> QED BY <1>1, <1>2, <1>3, <1>4

\* Every handler, and every step around the loop, keeps all types.
LEMMA TypeNext == TypeOK /\ [Next]_vars => TypeOK'
<1> SUFFICES ASSUME TypeOK, [Next]_vars PROVE TypeOK'
  OBVIOUS
<1> USE NoFdFacts DEF Points, Flags, Responses, Live, loopVars, sockVars, batchVars,
        clientVars, childVars, Handled, Dispatch, Fault, Buffer
<1>1. CASE EpollWait
  BY <1>1 DEF EpollWait, TypeOK, MayBeReady
<1>2. CASE BatchDone
  BY <1>2 DEF BatchDone, TypeOK, ExpiredFds
<1>3. ASSUME NEW o \in Sockets, DispatchDeleted(o) PROVE TypeOK'
  BY <1>3 DEF DispatchDeleted, TypeOK
<1>4. CASE AcceptFails
  BY <1>4 DEF AcceptFails, TypeOK
<1>5. ASSUME NEW c \in Clients, ClientStep(c) PROVE TypeOK'
  <2> USE <1>5
  <2>1. CASE AcceptConn(c)
    BY <2>1 DEF AcceptConn, TypeOK
  <2>2. CASE RecvClosed(c)
    BY CloseType, <2>2 DEF RecvClosed, TypeOK
  <2>3. CASE RecvMore(c)
    BY <2>3 DEF RecvMore, TypeOK
  <2>4. CASE RecvError(c)
    <3>1. CASE Answer(c, "error") /\ UNCHANGED <<req, faults>>
      BY <2>4, <3>1 DEF RecvError, Answer, TypeOK
    <3>2. CASE Fault /\ CloseClient(c) /\ UNCHANGED <<loopVars, childVars>>
      BY CloseType, <2>4, <3>2 DEF RecvError, TypeOK
    <3> QED BY <2>4, <3>1, <3>2 DEF RecvError
  <2>5. CASE RunSync(c)
    <3>1. CASE /\ req' = [req EXCEPT ![c] = "done"]
               /\ Answer(c, "page") /\ UNCHANGED faults
      BY <2>5, <3>1 DEF RunSync, Answer, TypeOK
    <3>2. CASE /\ req' = [req EXCEPT ![c] = "done"]
               /\ Fault /\ Answer(c, "error")
      BY <2>5, <3>2 DEF RunSync, Answer, TypeOK
    <3>3. CASE Fault /\ CloseClient(c) /\ UNCHANGED <<loopVars, childVars>>
      BY CloseType, <2>5, <3>3 DEF RunSync, TypeOK
    <3> QED BY <2>5, <3>1, <3>2, <3>3 DEF RunSync
  <2>6. ASSUME NEW g \in Cgis, RunCgi(c, g) PROVE TypeOK'
    <3>1. Fork(c, g)
      BY <2>6 DEF RunCgi
    <3>2. sockets' \in [Fds -> Sockets \cup {NULL}] /\ interest' \in [Sockets -> Flags]
      BY <2>6 DEF RunCgi, TypeOK
    <3>3. ev' \in [Sockets -> Flags] /\ cgi_socket' \in [Clients -> Cgis \cup {NULL}]
      BY <2>6 DEF RunCgi, TypeOK
    <3>4. UNCHANGED <<pc, todo, waitee, lev, faults>>
      BY <2>6 DEF RunCgi
    <3> QED BY <3>1, <3>2, <3>3, <3>4, ForkType DEF TypeOK
  <2>7. ASSUME NEW g \in Cgis, RunCgiAddFails(c, g) PROVE TypeOK'
    <3>1. Fork(c, g)
      BY <2>7 DEF RunCgiAddFails
    <3>2. ev' \in [Sockets -> Flags] /\ cgi_socket' \in [Clients -> Cgis \cup {NULL}]
      BY <2>7 DEF RunCgiAddFails, TypeOK
    <3>3. /\ pc' = "addfail" /\ waitee' = g /\ faults' \in 0..MaxFaults
          /\ UNCHANGED <<todo, sockets, interest, lev>>
      BY <2>7 DEF RunCgiAddFails, TypeOK
    <3> QED BY <3>1, <3>2, <3>3, ForkType DEF TypeOK
  <2>8. CASE SendSome(c)
    BY <2>8 DEF SendSome, TypeOK
  <2>9. CASE SendLast(c)
    BY CloseType, <2>9 DEF SendLast, TypeOK
  <2>10. CASE ExpireClient(c)
    BY CloseType, <2>10 DEF ExpireClient, TypeOK
  <2> QED BY <2>1, <2>2, <2>3, <2>4, <2>5, <2>6, <2>7, <2>8, <2>9, <2>10 DEF ClientStep
<1>6. ASSUME NEW g \in Cgis, CgiStep(g) PROVE TypeOK'
  <2> USE <1>6
  <2>1. CASE CgiRead(g)
    BY <2>1 DEF CgiRead, TypeOK
  <2>2. CASE CgiEof(g)
    BY <2>2 DEF CgiEof, TypeOK
  <2>3. CASE CgiNotifies(g)
    <3>1. sockets' \in [Fds -> Sockets \cup {NULL}] /\ cgi_socket' \in [Clients -> Cgis \cup {NULL}]
      BY <2>3, EraseType, RemoveType DEF CgiNotifies
    <3>2. interest' \in [Sockets -> Flags] /\ faults' \in 0..MaxFaults
      BY <2>3 DEF CgiNotifies, TypeOK
    <3>3. age' \in [Sockets -> 0..(Timeout + 1)]
      BY <2>3 DEF CgiNotifies, TypeOK
    <3>4. buf' \in [Clients -> Responses] /\ left' \in [Clients -> 0..RespLen]
      BY <2>3 DEF CgiNotifies, TypeOK
    <3> QED BY <2>3, <3>1, <3>2, <3>3, <3>4 DEF CgiNotifies, Reap, TypeOK
  <2>4. CASE CgiEndsUnheard(g)
    <3>1. sockets' \in [Fds -> Sockets \cup {NULL}] /\ cgi_socket' \in [Clients -> Cgis \cup {NULL}]
      BY <2>4, EraseType, RemoveType DEF CgiEndsUnheard
    <3> QED BY <2>4, <3>1 DEF CgiEndsUnheard, Reap, TypeOK
  <2>5. CASE RunCgiAddFailsReaped(g)
    BY <2>5 DEF RunCgiAddFailsReaped, Reap, TypeOK
  <2>6. CASE ExpireCgi(g)
    BY <2>6 DEF ExpireCgi, RemoveCgiSocket, TypeOK
  <2>7. CASE ExpireCgiReaped(g)
    <3>1. sockets' \in [Fds -> Sockets \cup {NULL}]
      BY <2>7, EraseType DEF ExpireCgiReaped
    <3>2. interest' \in [Sockets -> Flags] /\ age' \in [Sockets -> 0..(Timeout + 1)]
      BY <2>7 DEF ExpireCgiReaped, TypeOK
    <3> QED BY <2>7, <3>1, <3>2 DEF ExpireCgiReaped, Reap, TypeOK
  <2> QED BY <2>1, <2>2, <2>3, <2>4, <2>5, <2>6, <2>7 DEF CgiStep
<1>7. CASE Tick
  BY <1>7 DEF Tick, TypeOK
<1>8. ASSUME NEW g \in Cgis, CgiClosesOutput(g) PROVE TypeOK'
  BY <1>8 DEF CgiClosesOutput, TypeOK
<1>9. ASSUME NEW g \in Cgis, CgiExits(g) PROVE TypeOK'
  BY <1>9 DEF CgiExits, TypeOK
<1>10. CASE EpollWaitFails
  BY <1>10 DEF EpollWaitFails, ExpiredFds, TypeOK
<1>11. CASE UNCHANGED vars
  BY <1>11 DEF vars, TypeOK
<1> QED
  BY <1>1, <1>2, <1>3, <1>4, <1>5, <1>6, <1>7, <1>8, <1>9, <1>10, <1>11 DEF Next, Loop, Environment

\* Every variable of the event loop keeps its type, over every handler, failing
\* call, timeout and exit of a script.
THEOREM TypeCorrect == Spec => []TypeOK
  BY TypeInit, TypeNext, PTL DEF Spec

-----------------------------------------------------------------------------
(***************************************************************************)
(* cgi_socket_ and owner_.  A client that has a CgiSocket has finished its *)
(* request, so it never gets a second one; and a CgiSocket whose           *)
(* destructor waits has been taken from its client.                        *)
(***************************************************************************)
LinksInv ==
    /\ LinksAgree
    /\ \A c \in Clients : cgi_socket[c] # NULL => req[c] = "done"
    /\ \A c \in Clients : cgi_socket[c] # NULL => ~ Terminated(cgi_socket[c])

\* No pointer is set when the server starts.
LEMMA LinksInit == Init => LinksInv
  BY DEF Init, LinksInv, LinksAgree, Terminated

\* Closing a client, from a handler or from CheckTimeout, leaves no pointer to
\* it and none from it.
LEMMA LinksClose ==
  ASSUME TypeOK, LinksInv, NEW c \in Clients, CloseClient(c),
         pc \in {"check", "dispatch"}, pc' = pc
  PROVE  LinksInv'
<1>1. \A g \in Cgis : ~ Terminated(g) /\ ~ Terminated(g)'
  BY DEF Terminated
<1>2. \A g \in Cgis : fd'[g] = fd[g]
  BY NoFdFacts DEF CloseClient, TypeOK
<1>3. /\ \A d \in Clients \ {c} : /\ fd'[d] = fd[d]
                                /\ cgi_socket'[d] = cgi_socket[d]
                                /\ req'[d] = req[d]
      /\ cgi_socket'[c] = NULL
  BY NoFdFacts DEF CloseClient, TypeOK
<1>4. \A g \in Cgis : owner'[g] = IF g = cgi_socket[c] THEN NULL ELSE owner[g]
  BY DEF CloseClient, ForgetOwner
<1>5. /\ cgi_socket \in [Clients -> Cgis \cup {NULL}]
      /\ owner \in [Cgis -> Clients \cup {NULL}]
  BY DEF TypeOK
<1> QED
  BY <1>1, <1>2, <1>3, <1>4, <1>5 DEF LinksInv, LinksAgree, Live

\* Starting a script gives a client its first CgiSocket, at an address no client
\* points at.
LEMMA LinksFork ==
  ASSUME TypeOK, LinksInv, NEW c \in Clients, NEW g \in Cgis, Fork(c, g),
         pc = "dispatch", ev[c] # "none", Live(c), req[c] = "parsing",
         \/ cgi_socket' = [cgi_socket EXCEPT ![c] = g] /\ pc' = "dispatch"
         \/ cgi_socket' = [cgi_socket EXCEPT ![c] = NULL] /\ pc' = "addfail" /\ waitee' = g
  PROVE  LinksInv'
<1>1. PICK f \in Fds : fd' = [fd EXCEPT ![g] = f]
  BY DEF Fork
<1>2. /\ \A o \in Sockets \ {g} : fd'[o] = fd[o]
      /\ fd'[g] # NoFd
      /\ fd[g] = NoFd
  BY <1>1, NoFdFacts DEF Fork, Fresh, Live, TypeOK
<1>3. /\ \A h \in Cgis \ {g} : owner'[h] = owner[h]
      /\ owner'[g] = c
      /\ \A d \in Clients \ {c} : req'[d] = req[d] /\ cgi_socket'[d] = cgi_socket[d]
      /\ req'[c] = "done"
  BY DEF Fork, TypeOK
<1>4. cgi_socket[c] = NULL
  BY DEF LinksInv
<1>5. /\ cgi_socket \in [Clients -> Cgis \cup {NULL}]
      /\ owner \in [Cgis -> Clients \cup {NULL}]
      /\ g \in Sockets /\ Clients \subseteq Sockets /\ Cgis \subseteq Sockets
  BY NoFdFacts DEF TypeOK
<1>6. CASE cgi_socket' = [cgi_socket EXCEPT ![c] = g] /\ pc' = "dispatch"
  BY <1>2, <1>3, <1>4, <1>5, <1>6 DEF LinksInv, LinksAgree, Live, Terminated
<1>7. CASE cgi_socket' = [cgi_socket EXCEPT ![c] = NULL] /\ pc' = "addfail" /\ waitee' = g
  BY <1>2, <1>3, <1>4, <1>5, <1>7 DEF LinksInv, LinksAgree, Live, Terminated
<1> QED BY <1>6, <1>7

\* Deleting a CgiSocket after waitpid leaves no pointer to it and none from it.
LEMMA LinksReap ==
  ASSUME TypeOK, LinksInv, NEW g \in Cgis, NEW point, NEW next,
         point \in {"eof", "expire", "addfail"}, next \in {"check", "dispatch"},
         Reap(g, point, next),
         IF point = "eof" THEN RemoveCgiSocket(g) ELSE cgi_socket' = cgi_socket
  PROVE  LinksInv'
<1>1. \A h \in Cgis : ~ Terminated(h)'
  BY DEF Terminated, Reap
<1>2. /\ \A o \in Sockets \ {g} : fd'[o] = fd[o]
      /\ \A h \in Cgis \ {g} : owner'[h] = owner[h] /\ ~ Terminated(h)
      /\ owner'[g] = NULL
      /\ req' = req
  BY NoFdFacts DEF Reap, TypeOK, Terminated
<1>3. /\ cgi_socket \in [Clients -> Cgis \cup {NULL}]
      /\ owner \in [Cgis -> Clients \cup {NULL}]
      /\ g \in Sockets /\ Clients \subseteq Sockets /\ Cgis \subseteq Sockets
  BY NoFdFacts DEF TypeOK
<1>4. \A c \in Clients : cgi_socket'[c] = IF cgi_socket[c] = g THEN NULL ELSE cgi_socket[c]
  <2>1. CASE point = "eof"
    BY <2>1, <1>3 DEF RemoveCgiSocket, LinksInv, LinksAgree
  <2>2. CASE point # "eof"
    BY <2>2, <1>3 DEF LinksInv, Reap, Terminated
  <2> QED BY <2>1, <2>2
<1>5. g \notin Clients
  BY DEF Sockets
<1> QED
  BY <1>1, <1>2, <1>3, <1>4, <1>5 DEF LinksInv, LinksAgree, Live

\* Every step keeps the pointers in agreement.
LEMMA LinksNext == TypeOK /\ LinksInv /\ [Next]_vars => LinksInv'
<1> SUFFICES ASSUME TypeOK, LinksInv, [Next]_vars PROVE LinksInv'
  OBVIOUS
<1> USE DEF loopVars, sockVars, batchVars, clientVars, childVars, Dispatch
<1> DEFINE Same ==
      /\ UNCHANGED <<fd, cgi_socket, owner, req>>
      /\ \/ UNCHANGED <<pc, waitee>>
         \/ pc \notin {"expire", "addfail"} /\ pc' \notin {"expire", "addfail"}
<1>1. Same => LinksInv'
  BY DEF LinksInv, LinksAgree, Live, Terminated
<1> HIDE DEF Same
<1>2. CASE UNCHANGED vars \/ EpollWait \/ EpollWaitFails \/ BatchDone \/ AcceptFails \/ Tick
  <2>1. Same
    BY <1>2 DEF Same, vars, EpollWait, EpollWaitFails, BatchDone, AcceptFails, Tick
  <2> QED BY <1>1, <2>1
<1>3. ASSUME NEW o \in Sockets, DispatchDeleted(o) PROVE LinksInv'
  BY <1>1, <1>3 DEF Same, DispatchDeleted
<1>4. ASSUME NEW g \in Cgis, CgiClosesOutput(g) \/ CgiExits(g) \/ CgiRead(g) \/ CgiEof(g)
      PROVE LinksInv'
  BY <1>1, <1>4 DEF Same, CgiClosesOutput, CgiExits, CgiRead, CgiEof
<1>5. ASSUME NEW c \in Clients, ClientStep(c) PROVE LinksInv'
  <2>1. CASE AcceptConn(c)
    <3>1. /\ \A o \in Sockets \ {c} : fd'[o] = fd[o]
          /\ UNCHANGED <<pc, waitee, cgi_socket, owner, req>>
          /\ fd[c] = NoFd
      BY <2>1 DEF AcceptConn, TypeOK, Fresh, Live
    <3>2. /\ cgi_socket \in [Clients -> Cgis \cup {NULL}]
          /\ owner \in [Cgis -> Clients \cup {NULL}]
          /\ Clients \subseteq Sockets /\ Cgis \subseteq Sockets
      BY NoFdFacts DEF TypeOK
    <3> QED BY <3>1, <3>2 DEF LinksInv, LinksAgree, Live, Terminated
  <2>2. CASE RecvClosed(c) \/ SendLast(c) \/ ExpireClient(c)
    BY <2>2, LinksClose DEF RecvClosed, SendLast, ExpireClient
  <2>3. CASE RecvMore(c) \/ SendSome(c)
    BY <1>1, <2>3 DEF Same, RecvMore, SendSome
  <2>4. CASE RecvError(c)
    <3>1. CASE Answer(c, "error") /\ UNCHANGED <<req, faults>>
      BY <1>1, <3>1 DEF Same, Answer
    <3>2. CASE CloseClient(c) /\ UNCHANGED loopVars
      BY <2>4, <3>2, LinksClose DEF RecvError
    <3> QED BY <2>4, <3>1, <3>2 DEF RecvError
  <2>5. CASE RunSync(c)
    <3>1. CASE req' = [req EXCEPT ![c] = "done"] /\ UNCHANGED <<pc, waitee, fd, cgi_socket, owner>>
      BY <3>1 DEF LinksInv, LinksAgree, Live, Terminated, TypeOK
    <3>2. CASE CloseClient(c) /\ UNCHANGED loopVars
      BY <2>5, <3>2, LinksClose DEF RunSync
    <3> QED BY <2>5, <3>1, <3>2 DEF RunSync, Answer
  <2>6. ASSUME NEW g \in Cgis, RunCgi(c, g) PROVE LinksInv'
    BY <2>6, LinksFork DEF RunCgi
  <2>7. ASSUME NEW g \in Cgis, RunCgiAddFails(c, g) PROVE LinksInv'
    BY <2>7, LinksFork DEF RunCgiAddFails
  <2> QED BY <1>5, <2>1, <2>2, <2>3, <2>4, <2>5, <2>6, <2>7 DEF ClientStep
<1>6. ASSUME NEW g \in Cgis, ExpireCgi(g) PROVE LinksInv'
  <2>1. /\ \A c \in Clients : cgi_socket'[c] = IF cgi_socket[c] = g THEN NULL ELSE cgi_socket[c]
        /\ UNCHANGED <<fd, owner, req>>
        /\ \A h \in Cgis : ~ Terminated(h) /\ (Terminated(h)' <=> h = g)
    BY <1>6 DEF ExpireCgi, RemoveCgiSocket, LinksInv, LinksAgree, Terminated
  <2>2. /\ cgi_socket \in [Clients -> Cgis \cup {NULL}]
        /\ owner \in [Cgis -> Clients \cup {NULL}]
    BY DEF TypeOK
  <2> QED BY <2>1, <2>2 DEF LinksInv, LinksAgree, Live
<1>7. ASSUME NEW g \in Cgis, CgiNotifies(g) \/ CgiEndsUnheard(g) PROVE LinksInv'
  <2>1. Reap(g, "eof", "dispatch") /\ RemoveCgiSocket(g)
    BY <1>7 DEF CgiNotifies, CgiEndsUnheard
  <2> QED BY <2>1, LinksReap
<1>8. ASSUME NEW g \in Cgis, RunCgiAddFailsReaped(g) PROVE LinksInv'
  BY <1>8, LinksReap DEF RunCgiAddFailsReaped
<1>9. ASSUME NEW g \in Cgis, ExpireCgiReaped(g) PROVE LinksInv'
  BY <1>9, LinksReap DEF ExpireCgiReaped
<1> QED
  BY <1>2, <1>3, <1>4, <1>5, <1>6, <1>7, <1>8, <1>9 DEF Next, Loop, Environment, CgiStep

\* cgi_socket_ and owner_ never dangle and always agree, whichever of the client
\* and the CgiSocket is deleted first and by which handler.
THEOREM LinksAlwaysAgree == Spec => []LinksAgree
<1>1. Init => TypeOK /\ LinksInv
  BY TypeInit, LinksInit
<1>2. TypeOK /\ LinksInv /\ [Next]_vars => (TypeOK /\ LinksInv)'
  BY TypeNext, LinksNext
<1>3. LinksInv => LinksAgree
  BY DEF LinksInv
<1> QED BY <1>1, <1>2, <1>3, PTL DEF Spec

-----------------------------------------------------------------------------
(***************************************************************************)
(* Events and registrations of clients.  CheckTimeout deletes clients      *)
(* other than the one being served, but only between two batches.          *)
(***************************************************************************)
EventsInv ==
    /\ ClientEventsLive
    /\ pc \in {"check", "expire"} => \A o \in Sockets : ev[o] = "none"

\* Nothing is registered when the server starts.
LEMMA EventsInit == Init => EventsInv
  BY NoFdFacts DEF Init, EventsInv, ClientEventsLive

\* A client is unregistered before it is deleted, and has no event pending.
LEMMA EventsClose ==
  ASSUME TypeOK, EventsInv, NEW c \in Clients, CloseClient(c),
         pc \in {"check", "dispatch"}, pc' = pc,
         \/ pc = "check" /\ ev' = ev
         \/ pc = "dispatch" /\ Handled(c)
  PROVE  EventsInv'
<1>1. /\ \A d \in Clients \ {c} : fd'[d] = fd[d] /\ interest'[d] = interest[d]
      /\ interest'[c] = "none"
  BY NoFdFacts DEF CloseClient, Unregister, TypeOK
<1>2. /\ \A d \in Clients \ {c} : ev'[d] = ev[d]
      /\ ev'[c] = "none"
      /\ pc = "check" => \A o \in Sockets : ev'[o] = "none"
  BY NoFdFacts DEF EventsInv, Handled, TypeOK
<1> QED BY <1>1, <1>2 DEF EventsInv, ClientEventsLive, Live

\* Every step keeps registrations and events of clients to live ones.
LEMMA EventsNext == TypeOK /\ LinksInv /\ EventsInv /\ [Next]_vars => EventsInv'
<1> SUFFICES ASSUME TypeOK, LinksInv, EventsInv, [Next]_vars PROVE EventsInv'
  OBVIOUS
<1> USE NoFdFacts DEF loopVars, sockVars, batchVars, clientVars, childVars, Dispatch
<1>1. CASE UNCHANGED vars \/ EpollWaitFails \/ AcceptFails \/ Tick
  BY <1>1 DEF vars, EpollWaitFails, AcceptFails, Tick, EventsInv, ClientEventsLive, Live
<1>2. CASE EpollWait
  BY <1>2 DEF EpollWait, EventsInv, ClientEventsLive, Live, MayBeReady
<1>3. CASE BatchDone
  BY <1>3 DEF BatchDone, Batch, EventsInv, ClientEventsLive, Live
<1>4. ASSUME NEW o \in Sockets, DispatchDeleted(o) PROVE EventsInv'
  BY <1>4 DEF DispatchDeleted, EventsInv, ClientEventsLive, Live
<1>5. ASSUME NEW g \in Cgis, CgiClosesOutput(g) PROVE EventsInv'
  BY <1>5 DEF CgiClosesOutput, EventsInv, ClientEventsLive, Live
<1>6. ASSUME NEW g \in Cgis, CgiExits(g) PROVE EventsInv'
  BY <1>6 DEF CgiExits, EventsInv, ClientEventsLive, Live
<1>7. ASSUME NEW c \in Clients, ClientStep(c) PROVE EventsInv'
  <2>1. CASE AcceptConn(c)
    BY <2>1 DEF AcceptConn, EventsInv, ClientEventsLive, Live, TypeOK
  <2>2. CASE RecvClosed(c) \/ SendLast(c) \/ ExpireClient(c)
    BY <2>2, EventsClose DEF RecvClosed, SendLast, ExpireClient
  <2>3. CASE RecvMore(c) \/ SendSome(c)
    BY <2>3 DEF RecvMore, SendSome, Handled, EventsInv, ClientEventsLive, Live, TypeOK
  <2>4. ASSUME NEW kind, Dispatch(c, "in"), Answer(c, kind) PROVE EventsInv'
    BY <2>4 DEF Answer, Handled, EventsInv, ClientEventsLive, Live, TypeOK
  <2>5. CASE RecvError(c)
    <3>1. CASE CloseClient(c) /\ UNCHANGED loopVars
      BY <2>5, <3>1, EventsClose DEF RecvError
    <3> QED BY <2>4, <2>5, <3>1 DEF RecvError
  <2>6. CASE RunSync(c)
    <3>1. CASE CloseClient(c) /\ UNCHANGED loopVars
      BY <2>6, <3>1, EventsClose DEF RunSync
    <3> QED BY <2>4, <2>6, <3>1 DEF RunSync
  <2>7. ASSUME NEW g \in Cgis, RunCgi(c, g) \/ RunCgiAddFails(c, g) PROVE EventsInv'
    <3>1. PICK f \in Fds : fd' = [fd EXCEPT ![g] = f]
      BY <2>7 DEF RunCgi, RunCgiAddFails, Fork
    <3>2. \A d \in Clients : fd'[d] = fd[d] /\ interest'[d] = interest[d]
      BY <2>7, <3>1 DEF RunCgi, RunCgiAddFails, TypeOK, Sockets
    <3>3. \A d \in Clients : ev'[d] \in {ev[d], "none"}
      BY <2>7 DEF RunCgi, RunCgiAddFails, Handled, TypeOK
    <3>4. pc' \in {"dispatch", "addfail"}
      BY <2>7 DEF RunCgi, RunCgiAddFails
    <3> QED BY <3>2, <3>3, <3>4 DEF EventsInv, ClientEventsLive, Live
  <2> QED BY <1>7, <2>1, <2>2, <2>3, <2>5, <2>6, <2>7 DEF ClientStep
<1>8. ASSUME NEW g \in Cgis, CgiStep(g) PROVE EventsInv'
  <2>1. CASE CgiRead(g) \/ CgiEof(g) \/ ExpireCgi(g)
    BY <2>1 DEF CgiRead, CgiEof, ExpireCgi, Handled, EventsInv, ClientEventsLive, Live, TypeOK
  <2>2. CASE CgiNotifies(g) \/ CgiEndsUnheard(g) \/ RunCgiAddFailsReaped(g) \/ ExpireCgiReaped(g)
    <3>1. /\ fd' = [fd EXCEPT ![g] = NoFd]
          /\ ev' = ev
          /\ pc' = "dispatch" \/ (pc = "expire" /\ pc' = "check")
      BY <2>2 DEF CgiNotifies, CgiEndsUnheard, RunCgiAddFailsReaped, ExpireCgiReaped, Reap
    <3>2. \A c \in Clients : fd'[c] = fd[c]
      BY <3>1 DEF TypeOK, Sockets
    <3>3. \A c \in Clients : \/ interest'[c] = interest[c]
                            \/ c = owner[g]
      BY <2>2 DEF CgiNotifies, CgiEndsUnheard, RunCgiAddFailsReaped, ExpireCgiReaped, TypeOK, Sockets
    <3>4. \A c \in Clients : c = owner[g] => Live(c)
      BY DEF LinksInv, LinksAgree
    <3> QED BY <3>1, <3>2, <3>3, <3>4 DEF EventsInv, ClientEventsLive, Live
  <2> QED BY <1>8, <2>1, <2>2 DEF CgiStep
<1> QED
  BY <1>1, <1>2, <1>3, <1>4, <1>5, <1>6, <1>7, <1>8 DEF Next, Loop, Environment

\* The epoll set and the current batch never refer to a deleted ClientSocket.
THEOREM ClientEventsAlwaysLive == Spec => []ClientEventsLive
<1>1. Init => TypeOK /\ LinksInv /\ EventsInv
  BY TypeInit, LinksInit, EventsInit
<1>2. TypeOK /\ LinksInv /\ EventsInv /\ [Next]_vars => (TypeOK /\ LinksInv /\ EventsInv)'
  BY TypeNext, LinksNext, EventsNext
<1>3. EventsInv => ClientEventsLive
  BY DEF EventsInv
<1> QED BY <1>1, <1>2, <1>3, PTL DEF Spec

-----------------------------------------------------------------------------
(***************************************************************************)
(* Children and the descriptions they inherit.                             *)
(***************************************************************************)
ChildInv ==
    /\ NoOrphanChild
    /\ DanglingOnlyIfInherited
    /\ \A g \in Cgis : pc = "addfail" /\ waitee = g => interest[g] = "none"
    /\ \A g \in Cgis : g \notin hold[g]

\* There is no child when the server starts.
LEMMA ChildInit == Init => ChildInv
  BY NoFdFacts DEF Init, ChildInv, NoOrphanChild, DanglingOnlyIfInherited

\* Steps that leave children and CgiSockets alone.
LEMMA ChildSame ==
  ASSUME ChildInv, UNCHANGED <<proc, hold>>, pc' # "addfail" \/ UNCHANGED <<pc, waitee>>,
         \A g \in Cgis : fd'[g] = fd[g] /\ interest'[g] = interest[g]
  PROVE  ChildInv'
  BY DEF ChildInv, NoOrphanChild, DanglingOnlyIfInherited, Live, Held

\* Starting a script.
LEMMA ChildFork ==
  ASSUME TypeOK, ChildInv, NEW c \in Clients, NEW g \in Cgis, Fork(c, g), pc = "dispatch",
         \/ interest' = [interest EXCEPT ![g] = "in"] /\ pc' = "dispatch"
         \/ interest' = interest /\ pc' = "addfail" /\ waitee' = g
  PROVE  ChildInv'
<1>1. PICK f \in Fds : fd' = [fd EXCEPT ![g] = f]
  BY DEF Fork
<1>2. /\ \A h \in Cgis \ {g} : /\ fd'[h] = fd[h]
                             /\ proc'[h] = proc[h] /\ hold'[h] = hold[h]
                             /\ interest'[h] = interest[h]
      /\ fd'[g] # NoFd
      /\ g \notin hold'[g]
      /\ proc[g] = "none"
      /\ pc' = "addfail" => interest'[g] = "none"
  BY <1>1, NoFdFacts DEF Fork, Fresh, Live, TypeOK
<1>3. \A h \in Cgis \ {g} : Held(h, NULL) => Held(h, NULL)'
  BY <1>2 DEF Held
<1> QED
  BY <1>2, <1>3 DEF ChildInv, NoOrphanChild, DanglingOnlyIfInherited, Live

\* A CgiSocket is deleted when its child was waited for: its registration is
\* gone, or another child holds its description.
LEMMA ChildReap ==
  ASSUME TypeOK, ChildInv, NEW g \in Cgis, NEW point, NEW next,
         next \in {"check", "dispatch"}, Reap(g, point, next),
         \A h \in Cgis \ {g} : interest'[h] = interest[h],
         interest'[g] = "none" \/ Held(g, NULL)
  PROVE  ChildInv'
<1>1. /\ \A h \in Cgis \ {g} : fd'[h] = fd[h] /\ proc'[h] = proc[h]
      /\ proc[g] = "zombie" /\ proc'[g] = "none"
      /\ hold' = hold
      /\ pc' # "addfail"
  BY NoFdFacts DEF Reap, TypeOK
<1>2. \A h \in Cgis : Held(h, NULL) => Held(h, NULL)'
  BY <1>1 DEF Held
<1> QED
  BY <1>1, <1>2 DEF ChildInv, NoOrphanChild, DanglingOnlyIfInherited, Live

\* The end of a script closes what it held.
LEMMA ChildExits ==
  ASSUME TypeOK, ChildInv, NEW g \in Cgis, CgiExits(g)
  PROVE  ChildInv'
<1>1. /\ proc'[g] = "zombie" /\ proc[g] = "running" /\ hold'[g] = {}
      /\ \A h \in Cgis \ {g} : proc'[h] = proc[h] /\ hold'[h] = hold[h]
      /\ UNCHANGED <<fd, pc, waitee>>
      /\ \A o \in Sockets : interest'[o] \in {interest[o], "none"}
  BY DEF CgiExits, TypeOK, loopVars
<1>2. ASSUME NEW h \in Cgis, interest'[h] # "none", ~ Live(h)
      PROVE  Held(h, NULL)'
  <2>1. Held(h, NULL)
    BY <1>1, <1>2, NoFdFacts DEF ChildInv, DanglingOnlyIfInherited
  <2>2. h \notin hold[g] \/ Held(h, g)
    BY <1>2, NoFdFacts DEF CgiExits
  <2>3. PICK k \in Cgis \ {g} : proc[k] = "running" /\ h \in hold[k]
    BY <2>1, <2>2 DEF Held
  <2>4. k # NULL
    BY NoFdFacts
  <2> QED BY <2>3, <2>4, <1>1 DEF Held
<1> QED
  BY <1>1, <1>2, NoFdFacts DEF ChildInv, NoOrphanChild, DanglingOnlyIfInherited, Live

\* Every step leaves each child its CgiSocket, and no stale registration but
\* those a child keeps alive.
LEMMA ChildNext == TypeOK /\ ChildInv /\ [Next]_vars => ChildInv'
<1> SUFFICES ASSUME TypeOK, ChildInv, [Next]_vars PROVE ChildInv'
  OBVIOUS
<1> USE NoFdFacts DEF loopVars, sockVars, batchVars, clientVars, childVars, Dispatch
<1>1. CASE UNCHANGED vars \/ EpollWait \/ EpollWaitFails \/ BatchDone \/ AcceptFails \/ Tick
  BY <1>1, ChildSame DEF vars, EpollWait, EpollWaitFails, BatchDone, AcceptFails, Tick
<1>2. ASSUME NEW o \in Sockets, DispatchDeleted(o) PROVE ChildInv'
  BY <1>2, ChildSame DEF DispatchDeleted
<1>3. ASSUME NEW g \in Cgis, CgiClosesOutput(g) \/ CgiRead(g) \/ CgiEof(g) \/ ExpireCgi(g)
      PROVE ChildInv'
  BY <1>3, ChildSame DEF CgiClosesOutput, CgiRead, CgiEof, ExpireCgi
<1>4. ASSUME NEW g \in Cgis, CgiExits(g) PROVE ChildInv'
  BY <1>4, ChildExits
<1>5. ASSUME NEW c \in Clients, ClientStep(c) PROVE ChildInv'
  <2>1. \A g \in Cgis : g # c
    BY DEF Sockets
  <2>2. ASSUME CloseClient(c), UNCHANGED childVars, pc' = pc, waitee' = waitee PROVE ChildInv'
    BY <2>1, <2>2, ChildSame DEF CloseClient, Unregister, TypeOK
  <2>3. ASSUME NEW kind, Answer(c, kind) PROVE ChildInv'
    BY <2>1, <2>3, ChildSame DEF Answer, TypeOK
  <2>4. CASE AcceptConn(c)
    BY <2>1, <2>4, ChildSame DEF AcceptConn, TypeOK
  <2>5. CASE RecvClosed(c) \/ SendLast(c) \/ ExpireClient(c)
    BY <2>2, <2>5 DEF RecvClosed, SendLast, ExpireClient
  <2>6. CASE RecvMore(c) \/ SendSome(c)
    BY <2>6, ChildSame DEF RecvMore, SendSome
  <2>7. CASE RecvError(c) \/ RunSync(c)
    BY <2>2, <2>3, <2>7 DEF RecvError, RunSync
  <2>8. ASSUME NEW g \in Cgis, RunCgi(c, g) \/ RunCgiAddFails(c, g) PROVE ChildInv'
    BY <2>8, ChildFork DEF RunCgi, RunCgiAddFails
  <2> QED BY <1>5, <2>4, <2>5, <2>6, <2>7, <2>8 DEF ClientStep
<1>6. ASSUME NEW g \in Cgis, CgiNotifies(g) \/ CgiEndsUnheard(g) PROVE ChildInv'
  <2>1. Reap(g, "eof", "dispatch")
    BY <1>6 DEF CgiNotifies, CgiEndsUnheard
  <2>2. /\ \A h \in Cgis \ {g} : interest'[h] = interest[h]
        /\ interest'[g] = "none"
    BY <1>6 DEF CgiNotifies, CgiEndsUnheard, TypeOK, Sockets
  <2> QED BY <2>1, <2>2, ChildReap
<1>7. ASSUME NEW g \in Cgis, RunCgiAddFailsReaped(g) PROVE ChildInv'
  <2>1. Reap(g, "addfail", "dispatch") /\ interest' = interest /\ interest[g] = "none"
    BY <1>7 DEF RunCgiAddFailsReaped, Reap, ChildInv
  <2> QED BY <2>1, ChildReap
<1>8. ASSUME NEW g \in Cgis, ExpireCgiReaped(g) PROVE ChildInv'
  <2>1. Reap(g, "expire", "check")
    BY <1>8 DEF ExpireCgiReaped
  <2>2. /\ \A h \in Cgis \ {g} : interest'[h] = interest[h]
        /\ interest'[g] = "none" \/ Held(g, NULL)
    BY <1>8 DEF ExpireCgiReaped, TypeOK
  <2> QED BY <2>1, <2>2, ChildReap
<1> QED
  BY <1>1, <1>2, <1>3, <1>4, <1>5, <1>6, <1>7, <1>8 DEF Next, Loop, Environment, CgiStep

\* Every child of CgiExecutor::Run has a CgiSocket that will wait for it.
THEOREM NeverOrphanChild == Spec => []NoOrphanChild
<1>1. Init => TypeOK /\ ChildInv
  BY TypeInit, ChildInit
<1>2. TypeOK /\ ChildInv /\ [Next]_vars => (TypeOK /\ ChildInv)'
  BY TypeNext, ChildNext
<1>3. ChildInv => NoOrphanChild
  BY DEF ChildInv
<1> QED BY <1>1, <1>2, <1>3, PTL DEF Spec

\* A registration in the epoll set outlives its CgiSocket only if CheckTimeout
\* closed it while a child forked later had inherited its description.
THEOREM OnlyInheritedDangle == Spec => []DanglingOnlyIfInherited
<1>1. Init => TypeOK /\ ChildInv
  BY TypeInit, ChildInit
<1>2. TypeOK /\ ChildInv /\ [Next]_vars => (TypeOK /\ ChildInv)'
  BY TypeNext, ChildNext
<1>3. ChildInv => DanglingOnlyIfInherited
  BY DEF ChildInv
<1> QED BY <1>1, <1>2, <1>3, PTL DEF Spec

-----------------------------------------------------------------------------
(***************************************************************************)
(* sockets_.  Its entries tell live sockets apart by their descriptors.    *)
(***************************************************************************)
SocketsInv ==
    /\ SocketsExact
    /\ pc = "addfail" => \A f \in Fds : sockets[f] # waitee

\* The map is empty but for listening sockets when the server starts.
LEMMA SocketsInit == Init => SocketsInv
  BY NoFdFacts DEF Init, SocketsInv, SocketsExact, Live

\* Steps that neither create nor delete a socket.
LEMMA SocketsSame ==
  ASSUME SocketsInv, UNCHANGED <<sockets, fd>>,
         UNCHANGED <<pc, waitee>> \/ (pc # "addfail" /\ pc' # "addfail")
  PROVE  SocketsInv'
  BY DEF SocketsInv, SocketsExact, Live

\* A live socket that is not being destroyed after a failed registration has an
\* entry, so no two of them share a descriptor.
LEMMA SocketsRemove ==
  ASSUME TypeOK, SocketsInv, NEW o \in Sockets, Live(o), Erase(o),
         fd' = [fd EXCEPT ![o] = NoFd], pc # "addfail", pc' # "addfail"
  PROVE  SocketsInv'
<1>1. /\ fd[o] \in Fds
      /\ fd'[o] = NoFd
      /\ \A p \in Sockets \ {o} : fd'[p] = fd[p] /\ fd[p] \in Fds \cup {NoFd}
      /\ sockets'[fd[o]] = NULL
      /\ \A f \in Fds \ {fd[o]} : sockets'[f] = sockets[f]
      /\ \A f \in Fds : sockets[f] \in Sockets \cup {NULL}
  BY NoFdFacts DEF TypeOK, Live, Erase
<1>2. \A p \in Sockets : Live(p) => sockets[fd[p]] = p
  BY DEF SocketsInv, SocketsExact
<1>3. ASSUME NEW f \in Fds, sockets'[f] # NULL PROVE fd'[sockets'[f]] = f
  <2>1. f # fd[o] /\ sockets'[f] = sockets[f] /\ sockets[f] \in Sockets
    BY <1>1, <1>3
  <2>2. fd[sockets[f]] = f
    BY <1>3, <2>1 DEF SocketsInv, SocketsExact
  <2>3. sockets[f] # o
    BY <2>1, <2>2
  <2> QED BY <1>1, <2>1, <2>2, <2>3
<1>4. ASSUME NEW p \in Sockets, fd'[p] # NoFd PROVE sockets'[fd'[p]] = p
  <2>1. p # o /\ fd'[p] = fd[p] /\ fd[p] \in Fds
    BY <1>1, <1>4
  <2>2. sockets[fd[p]] = p /\ sockets[fd[o]] = o
    BY <1>2, <1>4, <2>1 DEF Live
  <2>3. fd[p] # fd[o]
    BY <2>1, <2>2
  <2> QED BY <1>1, <2>1, <2>2, <2>3
<1> QED BY <1>3, <1>4 DEF SocketsInv, SocketsExact, Live

\* A new socket gets a free descriptor and the entry under it.
LEMMA SocketsAdd ==
  ASSUME TypeOK, SocketsInv, NEW o \in Sockets, ~ Live(o), NEW f \in Fds, LowestFree(f),
         fd' = [fd EXCEPT ![o] = f], sockets' = [sockets EXCEPT ![f] = o],
         pc = "dispatch", pc' = "dispatch"
  PROVE  SocketsInv'
<1>1. /\ fd'[o] = f
      /\ \A p \in Sockets \ {o} : fd'[p] = fd[p] /\ fd[p] # f /\ fd[p] \in Fds \cup {NoFd}
      /\ sockets'[f] = o
      /\ \A k \in Fds \ {f} : sockets'[k] = sockets[k] /\ sockets[k] \in Sockets \cup {NULL}
  BY DEF TypeOK, LowestFree, FreeFds
<1>2. fd[o] = NoFd /\ NoFd \notin Fds
  BY NoFdFacts DEF Live
<1> QED
  BY <1>1, <1>2 DEF SocketsInv, SocketsExact, Live

\* Every step keeps sockets_ exact.
LEMMA SocketsNext == TypeOK /\ ChildInv /\ SocketsInv /\ [Next]_vars => SocketsInv'
<1> SUFFICES ASSUME TypeOK, ChildInv, SocketsInv, [Next]_vars PROVE SocketsInv'
  OBVIOUS
<1> USE NoFdFacts DEF loopVars, sockVars, batchVars, clientVars, childVars, Dispatch
<1>1. CASE UNCHANGED vars \/ EpollWait \/ EpollWaitFails \/ BatchDone \/ AcceptFails \/ Tick
  BY <1>1, SocketsSame DEF vars, EpollWait, EpollWaitFails, BatchDone, AcceptFails, Tick
<1>2. ASSUME NEW o \in Sockets, DispatchDeleted(o) PROVE SocketsInv'
  BY <1>2, SocketsSame DEF DispatchDeleted
<1>3. ASSUME NEW g \in Cgis,
             CgiClosesOutput(g) \/ CgiExits(g) \/ CgiRead(g) \/ CgiEof(g) \/ ExpireCgi(g)
      PROVE SocketsInv'
  BY <1>3, SocketsSame DEF CgiClosesOutput, CgiExits, CgiRead, CgiEof, ExpireCgi
<1>4. ASSUME NEW c \in Clients, ClientStep(c) PROVE SocketsInv'
  <2>1. CASE AcceptConn(c)
    BY <2>1, SocketsAdd DEF AcceptConn, Fresh
  <2>2. CASE RecvClosed(c) \/ SendLast(c) \/ ExpireClient(c)
    BY <2>2, SocketsRemove DEF RecvClosed, SendLast, ExpireClient, NextExpired, CloseClient
  <2>3. CASE RecvMore(c) \/ SendSome(c)
    BY <2>3, SocketsSame DEF RecvMore, SendSome
  <2>4. CASE RecvError(c) \/ RunSync(c)
    <3>1. CASE CloseClient(c) /\ UNCHANGED loopVars
      BY <2>4, <3>1, SocketsRemove DEF RecvError, RunSync, CloseClient
    <3>2. ASSUME NEW kind, Answer(c, kind) PROVE SocketsInv'
      BY <3>2, SocketsSame DEF Answer
    <3> QED BY <2>4, <3>1, <3>2 DEF RecvError, RunSync
  <2>5. ASSUME NEW g \in Cgis, RunCgi(c, g) PROVE SocketsInv'
    <3>1. PICK f \in Fds : LowestFree(f) /\ fd' = [fd EXCEPT ![g] = f]
      BY <2>5 DEF RunCgi, Fork
    <3>2. ~ Live(g) /\ fd'[g] = f /\ sockets' = [sockets EXCEPT ![f] = g] /\ pc' = "dispatch"
      BY <2>5, <3>1 DEF RunCgi, Fork, Fresh, TypeOK
    <3> QED BY <2>5, <3>1, <3>2, SocketsAdd DEF RunCgi
  <2>6. ASSUME NEW g \in Cgis, RunCgiAddFails(c, g) PROVE SocketsInv'
    <3>1. PICK f \in Fds : LowestFree(f) /\ fd' = [fd EXCEPT ![g] = f]
      BY <2>6 DEF RunCgiAddFails, Fork
    <3>2. /\ fd[g] = NoFd /\ sockets' = sockets
          /\ pc = "dispatch" /\ pc' = "addfail" /\ waitee' = g
          /\ \A o \in Sockets \ {g} : fd'[o] = fd[o]
      BY <2>6, <3>1 DEF RunCgiAddFails, Fork, Fresh, Live, TypeOK
    <3>3. \A k \in Fds : sockets[k] # g /\ sockets[k] \in Sockets \cup {NULL}
      BY <3>2 DEF SocketsInv, SocketsExact, TypeOK
    <3> QED BY <3>2, <3>3 DEF SocketsInv, SocketsExact, Live
  <2> QED BY <1>4, <2>1, <2>2, <2>3, <2>4, <2>5, <2>6 DEF ClientStep
<1>5. ASSUME NEW g \in Cgis, CgiNotifies(g) \/ CgiEndsUnheard(g) \/ ExpireCgiReaped(g)
      PROVE SocketsInv'
  <2>1. /\ Erase(g)
        /\ fd' = [fd EXCEPT ![g] = NoFd] /\ proc[g] = "zombie"
        /\ pc # "addfail" /\ pc' # "addfail"
    BY <1>5 DEF CgiNotifies, CgiEndsUnheard, ExpireCgiReaped, Reap
  <2>2. Live(g)
    BY <2>1 DEF ChildInv, NoOrphanChild
  <2> QED BY <2>1, <2>2, SocketsRemove
<1>6. ASSUME NEW g \in Cgis, RunCgiAddFailsReaped(g) PROVE SocketsInv'
  <2>1. /\ fd'[g] = NoFd
        /\ \A o \in Sockets \ {g} : fd'[o] = fd[o]
        /\ pc = "addfail" /\ waitee = g /\ pc' = "dispatch" /\ sockets' = sockets
    BY <1>6 DEF RunCgiAddFailsReaped, Reap, TypeOK
  <2>2. \A f \in Fds : sockets[f] # g /\ sockets[f] \in Sockets \cup {NULL}
    BY <2>1 DEF SocketsInv, TypeOK
  <2> QED BY <2>1, <2>2 DEF SocketsInv, SocketsExact, Live
<1> QED
  BY <1>1, <1>2, <1>3, <1>4, <1>5, <1>6 DEF Next, Loop, Environment, CgiStep

\* sockets_ holds exactly the live sockets, each under its own descriptor, over
\* any reuse of descriptors.
THEOREM SocketsAlwaysExact == Spec => []SocketsExact
<1>1. Init => TypeOK /\ ChildInv /\ SocketsInv
  BY TypeInit, ChildInit, SocketsInit
<1>2. TypeOK /\ ChildInv /\ SocketsInv /\ [Next]_vars => (TypeOK /\ ChildInv /\ SocketsInv)'
  BY TypeNext, ChildNext, SocketsNext
<1>3. SocketsInv => SocketsExact
  BY DEF SocketsInv
<1> QED BY <1>1, <1>2, <1>3, PTL DEF Spec

-----------------------------------------------------------------------------
(***************************************************************************)
(* Stale events.  With one CGI script at a time no child can inherit       *)
(* another script's socket, and every event goes to a live object.         *)
(***************************************************************************)
OneScript == \A g, h \in Cgis : g = h

ScriptInv ==
    /\ pc # "crashed"
    /\ \A o \in Sockets : ev[o] # "none" => Live(o)
    /\ \A o \in Sockets : pc \in {"eof", "addfail"} /\ waitee = o => ev[o] = "none"

\* There are no events when the server starts.
LEMMA ScriptInit == Init => ScriptInv
  BY DEF Init, ScriptInv

\* With one script, a socket that is registered is alive.
LEMMA RegisteredIsLive ==
  ASSUME OneScript, TypeOK, ChildInv, EventsInv, NEW o \in Sockets, interest[o] # "none"
  PROVE  Live(o)
<1>1. CASE o \in Clients
  BY <1>1 DEF EventsInv, ClientEventsLive
<1>2. CASE o \in Cgis
  <2>1. ~ Held(o, NULL)
    BY <1>2 DEF Held, OneScript, ChildInv
  <2> QED BY <1>2, <2>1 DEF ChildInv, DanglingOnlyIfInherited
<1> QED BY <1>1, <1>2 DEF Sockets

\* Every step, with one script, leaves events only to live objects.
LEMMA ScriptNext ==
  ASSUME OneScript
  PROVE  TypeOK /\ ChildInv /\ EventsInv /\ ScriptInv /\ [Next]_vars => ScriptInv'
<1> SUFFICES ASSUME TypeOK, ChildInv, EventsInv, ScriptInv, [Next]_vars PROVE ScriptInv'
  OBVIOUS
<1> USE NoFdFacts DEF loopVars, sockVars, batchVars, clientVars, childVars, Dispatch
<1>1. CASE UNCHANGED vars \/ EpollWaitFails \/ BatchDone \/ AcceptFails \/ Tick
  BY <1>1 DEF vars, EpollWaitFails, BatchDone, AcceptFails, Tick, ScriptInv, Live
<1>2. CASE EpollWait
  <2>1. \A o \in Sockets : ev'[o] # "none" => interest[o] # "none"
    BY <1>2 DEF EpollWait
  <2>2. pc' = "dispatch" /\ fd' = fd
    BY <1>2 DEF EpollWait
  <2> QED BY <2>1, <2>2, RegisteredIsLive DEF ScriptInv, Live
<1>3. ASSUME NEW o \in Sockets, DispatchDeleted(o) PROVE FALSE
  BY <1>3 DEF DispatchDeleted, ScriptInv
<1>4. ASSUME NEW g \in Cgis, CgiClosesOutput(g) \/ CgiExits(g) PROVE ScriptInv'
  BY <1>4 DEF CgiClosesOutput, CgiExits, ScriptInv, Live
<1>5. ASSUME NEW c \in Clients, ClientStep(c) PROVE ScriptInv'
  <2>1. CASE AcceptConn(c)
    BY <2>1 DEF AcceptConn, ScriptInv, Live, TypeOK
  <2>2. ASSUME CloseClient(c), pc \in {"check", "dispatch"}, pc' = pc,
               \/ pc = "check" /\ ev' = ev
               \/ pc = "dispatch" /\ Handled(c)
        PROVE ScriptInv'
    <3>1. ev'[c] = "none" /\ \A o \in Sockets \ {c} : ev'[o] = ev[o]
      BY <2>2 DEF EventsInv, Handled, TypeOK
    <3>2. \A o \in Sockets \ {c} : fd'[o] = fd[o]
      BY <2>2 DEF CloseClient, TypeOK
    <3> QED BY <2>2, <3>1, <3>2 DEF ScriptInv, Live
  <2>3. CASE RecvClosed(c) \/ SendLast(c) \/ ExpireClient(c)
    BY <2>2, <2>3 DEF RecvClosed, SendLast, ExpireClient
  <2>4. ASSUME Handled(c), UNCHANGED <<pc, waitee, fd>> PROVE ScriptInv'
    BY <2>4 DEF Handled, ScriptInv, Live, TypeOK
  <2>5. CASE RecvMore(c) \/ SendSome(c)
    BY <2>4, <2>5 DEF RecvMore, SendSome
  <2>6. CASE RecvError(c) \/ RunSync(c)
    <3>1. CASE CloseClient(c) /\ UNCHANGED loopVars
      BY <2>2, <2>6, <3>1 DEF RecvError, RunSync
    <3> QED BY <2>4, <2>6, <3>1 DEF RecvError, RunSync, Answer
  <2>7. ASSUME NEW g \in Cgis, RunCgi(c, g) \/ RunCgiAddFails(c, g) PROVE ScriptInv'
    <3>1. PICK f \in Fds : fd' = [fd EXCEPT ![g] = f]
      BY <2>7 DEF RunCgi, RunCgiAddFails, Fork
    <3>2. /\ ~ Live(g) /\ fd'[g] # NoFd
          /\ \A o \in Sockets \ {g} : fd'[o] = fd[o]
      BY <2>7, <3>1 DEF RunCgi, RunCgiAddFails, Fork, Fresh, TypeOK
    <3>3. \A o \in Sockets : ev'[o] \in {ev[o], "none"}
      BY <2>7 DEF RunCgi, RunCgiAddFails, Handled, TypeOK
    <3>4. pc' = "dispatch" \/ (pc' = "addfail" /\ waitee' = g)
      BY <2>7 DEF RunCgi, RunCgiAddFails
    <3>5. ev[g] = "none"
      BY <3>2 DEF ScriptInv
    <3> QED BY <3>2, <3>3, <3>4, <3>5 DEF ScriptInv, Live
  <2> QED BY <1>5, <2>1, <2>3, <2>5, <2>6, <2>7 DEF ClientStep
<1>6. ASSUME NEW g \in Cgis, CgiRead(g) \/ CgiEof(g) \/ ExpireCgi(g) PROVE ScriptInv'
  BY <1>6 DEF CgiRead, CgiEof, ExpireCgi, Handled, ScriptInv, Live, TypeOK
<1>7. ASSUME NEW g \in Cgis,
             \/ CgiNotifies(g) \/ CgiEndsUnheard(g)
             \/ RunCgiAddFailsReaped(g) \/ ExpireCgiReaped(g)
      PROVE ScriptInv'
  <2>1. /\ \A o \in Sockets \ {g} : fd'[o] = fd[o]
        /\ ev' = ev
        /\ pc \in {"eof", "addfail", "expire"} /\ waitee = g
        /\ pc' \in {"check", "dispatch"}
    BY <1>7 DEF CgiNotifies, CgiEndsUnheard, RunCgiAddFailsReaped, ExpireCgiReaped, Reap, TypeOK
  <2>2. ev[g] = "none"
    BY <2>1 DEF ScriptInv, EventsInv
  <2> QED BY <2>1, <2>2 DEF ScriptInv, Live
<1> QED
  BY <1>1, <1>2, <1>3, <1>4, <1>5, <1>6, <1>7 DEF Next, Loop, Environment, CgiStep

\* With one CGI script at a time no event is ever dispatched to a deleted object,
\* over all timeouts, closes and failures: the crash needs a second script.
THEOREM OneScriptIsSafe == ASSUME OneScript PROVE Spec => []NoUseAfterFree
<1> DEFINE I == TypeOK /\ LinksInv /\ EventsInv /\ ChildInv /\ ScriptInv
<1>1. Init => I
  BY TypeInit, LinksInit, EventsInit, ChildInit, ScriptInit
<1>2. I /\ [Next]_vars => I'
  BY TypeNext, LinksNext, EventsNext, ChildNext, ScriptNext
<1>3. I => NoUseAfterFree
  BY DEF ScriptInv, NoUseAfterFree
<1> QED BY <1>1, <1>2, <1>3, PTL DEF Spec

-----------------------------------------------------------------------------
(***************************************************************************)
(* Answers.  A client whose request is not complete is not yet told to     *)
(* write when its data are dispatched, so the placeholder of a CGI answer  *)
(* is put only into the buffer of a client registered for EPOLLIN.         *)
(***************************************************************************)
AnswerInv ==
    /\ OutHasAnswer
    /\ \A c \in Clients : req[c] = "parsing" /\ ev[c] = "in" => interest[c] = "in"

\* No client is registered when the server starts.
LEMMA AnswerInit == Init => AnswerInv
  BY NoFdFacts DEF Init, AnswerInv, OutHasAnswer

\* What AnswerInv says of one client.
AnswerOf(c) ==
    /\ "out" \in {interest[c], ev[c]} => buf[c] \notin {"empty", "placeholder"} /\ left[c] > 0
    /\ req[c] = "parsing" /\ ev[c] = "in" => interest[c] = "in"

\* A client keeps AnswerOf while its own state does not change, or while it only
\* loses its pending event.
LEMMA AnswerKept ==
  ASSUME NEW c \in Clients, AnswerOf(c),
         interest'[c] = interest[c], ev'[c] \in {ev[c], "none"},
         req'[c] = req[c], buf'[c] = buf[c], left'[c] = left[c]
  PROVE  AnswerOf(c)'
  BY DEF AnswerOf

\* Only the client that is handled, or the owner of the CgiSocket that ends,
\* changes; and each has an answer whenever it waits for EPOLLOUT.
LEMMA AnswerNext ==
  TypeOK /\ LinksInv /\ EventsInv /\ AnswerInv /\ [Next]_vars => AnswerInv'
<1> SUFFICES ASSUME TypeOK, LinksInv, EventsInv, AnswerInv, [Next]_vars,
                    NEW c \in Clients
             PROVE  AnswerOf(c)'
  BY DEF AnswerInv, OutHasAnswer, AnswerOf
<1>0. AnswerOf(c) /\ c \in Sockets /\ c \notin Cgis
  BY SocketsAssumption, NoFdFacts DEF AnswerInv, OutHasAnswer, AnswerOf
<1> USE NoFdFacts DEF loopVars, sockVars, batchVars, clientVars, childVars, Dispatch
<1>1. CASE UNCHANGED vars \/ EpollWaitFails \/ BatchDone \/ AcceptFails \/ Tick
  BY <1>0, <1>1, AnswerKept
     DEF vars, EpollWaitFails, BatchDone, AcceptFails, Tick
<1>2. CASE EpollWait
  <2>1. ev'[c] \in {interest[c], "none"} /\ UNCHANGED <<interest, req, buf, left>>
    BY <1>0, <1>2 DEF EpollWait
  <2> QED BY <1>0, <2>1 DEF AnswerOf
<1>3. ASSUME NEW o \in Sockets, DispatchDeleted(o) PROVE AnswerOf(c)'
  BY <1>0, <1>3, AnswerKept DEF DispatchDeleted
<1>4. ASSUME NEW g \in Cgis, CgiClosesOutput(g) PROVE AnswerOf(c)'
  BY <1>0, <1>4, AnswerKept DEF CgiClosesOutput
<1>5. ASSUME NEW g \in Cgis, CgiExits(g) PROVE AnswerOf(c)'
  <2>1. UNCHANGED <<ev, req, buf, left>>
    BY <1>5 DEF CgiExits
  <2>2. \/ interest'[c] = interest[c]
        \/ interest'[c] = "none" /\ ~ Live(c)
    BY <1>0, <1>5 DEF CgiExits
  <2>3. ~ Live(c) => ev[c] = "none"
    BY DEF EventsInv, ClientEventsLive
  <2> QED BY <1>0, <2>1, <2>2, <2>3 DEF AnswerOf
<1>6. ASSUME NEW d \in Clients, ClientStep(d) PROVE AnswerOf(c)'
  <2> USE <1>0 DEF TypeOK, Handled
  <2>1. ASSUME c # d, CloseClient(d), ev' = ev \/ Handled(d) PROVE AnswerOf(c)'
    BY <2>1, AnswerKept DEF CloseClient, Unregister
  <2>2. ASSUME c = d, CloseClient(d), ev'[d] = "none" PROVE AnswerOf(c)'
    BY <2>2 DEF CloseClient, Unregister, AnswerOf
  <2>3. CASE RecvClosed(d) \/ SendLast(d) \/ ExpireClient(d)
    BY <2>1, <2>2, <2>3 DEF RecvClosed, SendLast, ExpireClient, EventsInv
  <2>4. ASSUME NEW kind \in {"page", "error"}, Answer(d, kind), Handled(d),
               req'[c] = req[c] \/ c = d
        PROVE AnswerOf(c)'
    <3>1. CASE c = d
      BY <2>4, <3>1 DEF Answer, Buffer, AnswerOf
    <3>2. CASE c # d
      BY <2>4, <3>2, AnswerKept DEF Answer, Buffer
    <3> QED BY <3>1, <3>2
  <2>5. CASE RecvError(d)
    <3>1. CASE Answer(d, "error") /\ UNCHANGED req
      BY <2>4, <2>5, <3>1 DEF RecvError
    <3>2. CASE CloseClient(d)
      BY <2>1, <2>2, <2>5, <3>2 DEF RecvError
    <3> QED BY <2>5, <3>1, <3>2 DEF RecvError
  <2>6. CASE RunSync(d)
    <3>1. ASSUME NEW kind \in {"page", "error"}, Answer(d, kind),
                 req' = [req EXCEPT ![d] = "done"]
          PROVE AnswerOf(c)'
      BY <2>4, <2>6, <3>1 DEF RunSync
    <3>2. CASE CloseClient(d)
      BY <2>1, <2>2, <2>6, <3>2 DEF RunSync
    <3> QED BY <2>6, <3>1, <3>2 DEF RunSync
  <2>7. CASE AcceptConn(d)
    <3>1. ev' = ev /\ UNCHANGED <<req, buf, left>>
      BY <2>7 DEF AcceptConn
    <3>2. CASE c = d
      <4>1. interest'[c] = "in" /\ ev[c] = "none"
        BY <2>7, <3>2 DEF AcceptConn, Fresh, EventsInv, ClientEventsLive
      <4> QED BY <3>1, <4>1 DEF AnswerOf
    <3>3. CASE c # d
      BY <2>7, <3>1, <3>3, AnswerKept DEF AcceptConn
    <3> QED BY <3>2, <3>3
  <2>8. CASE RecvMore(d)
    BY <2>8, AnswerKept DEF RecvMore
  <2>9. CASE SendSome(d)
    <3>1. PICK n \in 1..(left[d] - 1) : left' = [left EXCEPT ![d] = @ - n]
      BY <2>9 DEF SendSome
    <3>2. left'[c] > 0 \/ left'[c] = left[c]
      BY <3>1
    <3> QED BY <2>9, <3>2 DEF SendSome, AnswerOf
  <2>10. ASSUME NEW g \in Cgis, RunCgi(d, g) \/ RunCgiAddFails(d, g) PROVE AnswerOf(c)'
    <3>1. ev[d] = "in" /\ req[d] = "parsing" /\ interest'[c] = interest[c]
      BY <2>10 DEF RunCgi, RunCgiAddFails
    <3>2. CASE c = d
      <4>1. interest[c] = "in"
        BY <3>1, <3>2 DEF AnswerOf
      <4> QED BY <2>10, <3>1, <3>2, <4>1 DEF RunCgi, RunCgiAddFails, AnswerOf
    <3>3. CASE c # d
      BY <2>10, <3>1, <3>3, AnswerKept DEF RunCgi, RunCgiAddFails, Fork, Buffer
    <3> QED BY <3>2, <3>3
  <2> QED BY <1>6, <2>3, <2>5, <2>6, <2>7, <2>8, <2>9, <2>10 DEF ClientStep
<1>7. ASSUME NEW g \in Cgis,
             \/ CgiRead(g) \/ CgiEof(g) \/ ExpireCgi(g) \/ CgiEndsUnheard(g)
             \/ RunCgiAddFailsReaped(g) \/ ExpireCgiReaped(g)
      PROVE AnswerOf(c)'
  BY <1>0, <1>7, AnswerKept
     DEF CgiRead, CgiEof, ExpireCgi, CgiEndsUnheard, RunCgiAddFailsReaped, ExpireCgiReaped,
         Handled, Reap, TypeOK
<1>8. ASSUME NEW g \in Cgis, CgiNotifies(g) PROVE AnswerOf(c)'
  <2>1. /\ owner[g] \in Clients /\ pc = "eof" /\ ev' = ev /\ req' = req
        /\ buf' = [buf EXCEPT ![owner[g]] = "cgi"]
        /\ left' = [left EXCEPT ![owner[g]] = RespLen]
        /\ interest'[c] = interest[c] \/ (c = owner[g] /\ interest'[c] = "out")
    BY <1>0, <1>8 DEF CgiNotifies, Reap, Buffer, TypeOK
  <2>2. CASE c = owner[g]
    <3>1. req[c] = "done"
      BY <2>1, <2>2 DEF LinksInv, LinksAgree, Terminated
    <3>2. buf'[c] = "cgi" /\ left'[c] = RespLen /\ RespLen > 0 /\ req'[c] = "done"
      BY <2>1, <2>2, <3>1, BoundsAssumption DEF TypeOK
    <3> QED BY <3>2 DEF AnswerOf
  <2>3. CASE c # owner[g]
    BY <1>0, <2>1, <2>3, AnswerKept DEF TypeOK
  <2> QED BY <2>2, <2>3
<1> QED
  BY <1>1, <1>2, <1>3, <1>4, <1>5, <1>6, <1>7, <1>8 DEF Next, Loop, Environment, CgiStep

\* A client waits for EPOLLOUT only with an answer in write_buffer_: never with
\* the placeholder of a CGI answer, never with an empty buffer.
THEOREM OutAlwaysHasAnswer == Spec => []OutHasAnswer
<1> DEFINE I == TypeOK /\ LinksInv /\ EventsInv /\ AnswerInv
<1>1. Init => I
  BY TypeInit, LinksInit, EventsInit, AnswerInit
<1>2. I /\ [Next]_vars => I'
  BY TypeNext, LinksNext, EventsNext, AnswerNext
<1>3. I => OutHasAnswer
  BY DEF AnswerInv
<1> QED BY <1>1, <1>2, <1>3, PTL DEF Spec

-----------------------------------------------------------------------------
(***************************************************************************)
(* Partly sent answers.  A client is never turned back from EPOLLOUT to    *)
(* EPOLLIN, so no handler of EPOLLIN runs while an answer is partly sent;  *)
(* only a CgiSocket can still replace it, and only an error sent while     *)
(* that CgiSocket was running.                                             *)
(***************************************************************************)
PartialOf(c) ==
    /\ ev[c] = "out" => interest[c] = "out"
    /\ left[c] \in 1..(RespLen - 1) => interest[c] = "out" /\ ev[c] # "in"
    /\ cgi_socket[c] # NULL => buf[c] \in {"placeholder", "error"}

PartialInv == \A c \in Clients : PartialOf(c)

\* What PartialResponseKept asks of a step.
KeepsPart(c) ==
    /\ Live(c) /\ fd'[c] = fd[c]
    /\ left[c] \in 1..(RespLen - 1)
    /\ left'[c] > left[c] \/ buf'[c] # buf[c]
    => buf[c] = "error" /\ buf'[c] = "cgi"

\* Nothing is sent or expected when the server starts.
LEMMA PartialInit == Init => PartialInv
  BY NoFdFacts DEF Init, PartialInv, PartialOf

\* A client keeps PartialOf while its own state does not change, or while it only
\* loses its pending event or its CgiSocket.
LEMMA PartialSame ==
  ASSUME TypeOK, NEW c \in Clients, PartialOf(c),
         interest'[c] = interest[c], ev'[c] \in {ev[c], "none"}, buf'[c] = buf[c],
         left'[c] = left[c], cgi_socket'[c] \in {cgi_socket[c], NULL}
  PROVE  PartialOf(c)' /\ KeepsPart(c)
<1>1. left[c] \in Int
  BY DEF TypeOK
<1> QED BY <1>1 DEF PartialOf, KeepsPart

\* Every step keeps PartialOf, and replaces a partly sent answer only when a
\* CgiSocket answers over an error.
LEMMA PartialNext ==
  TypeOK /\ LinksInv /\ EventsInv /\ AnswerInv /\ PartialInv /\ [Next]_vars
  => \A c \in Clients : PartialOf(c)' /\ KeepsPart(c)
<1> SUFFICES ASSUME TypeOK, LinksInv, EventsInv, AnswerInv, PartialInv, [Next]_vars,
                    NEW c \in Clients
             PROVE  PartialOf(c)' /\ KeepsPart(c)
  OBVIOUS
<1> DEFINE Goal == PartialOf(c)' /\ KeepsPart(c)
<1>0. /\ PartialOf(c) /\ c \in Sockets /\ c \notin Cgis
      /\ left[c] \in Int /\ RespLen \in Int
  BY NoFdFacts DEF PartialInv, TypeOK
<1> HIDE DEF Goal
<1>s. ASSUME interest'[c] = interest[c], ev'[c] \in {ev[c], "none"}, buf'[c] = buf[c],
             left'[c] = left[c], cgi_socket'[c] \in {cgi_socket[c], NULL}
      PROVE Goal
  BY <1>0, <1>s, PartialSame DEF Goal
<1> USE NoFdFacts DEF loopVars, sockVars, batchVars, clientVars, childVars, Dispatch
<1>1. CASE UNCHANGED vars \/ EpollWaitFails \/ BatchDone \/ AcceptFails \/ Tick
  <2>1. /\ interest'[c] = interest[c] /\ ev'[c] = ev[c] /\ buf'[c] = buf[c]
        /\ left'[c] = left[c] /\ cgi_socket'[c] = cgi_socket[c]
    BY <1>1 DEF vars, EpollWaitFails, BatchDone, AcceptFails, Tick
  <2> QED BY <2>1, <1>s DEF Goal
<1>2. CASE EpollWait
  <2>1. /\ ev'[c] \in {interest[c], "none"}
        /\ UNCHANGED <<interest, buf, left, cgi_socket>>
    BY <1>0, <1>2 DEF EpollWait
  <2> QED BY <1>0, <2>1 DEF PartialOf, KeepsPart, Goal
<1>3. ASSUME NEW o \in Sockets, DispatchDeleted(o) PROVE Goal
  BY <1>3, <1>s DEF DispatchDeleted
<1>4. ASSUME NEW g \in Cgis, CgiClosesOutput(g) PROVE Goal
  BY <1>4, <1>s DEF CgiClosesOutput
<1>5. ASSUME NEW g \in Cgis, CgiExits(g) PROVE Goal
  <2>1. UNCHANGED <<ev, buf, left, cgi_socket>>
    BY <1>5 DEF CgiExits
  <2>2. interest'[c] = interest[c] \/ ~ Live(c)
    BY <1>0, <1>5 DEF CgiExits
  <2>3. ~ Live(c) => interest[c] = "none" /\ ev[c] = "none"
    BY DEF EventsInv, ClientEventsLive
  <2> QED BY <1>0, <2>1, <2>2, <2>3, <1>s DEF PartialOf, KeepsPart, Goal
<1>6. ASSUME NEW d \in Clients, ClientStep(d) PROVE Goal
  <2> USE <1>0 DEF TypeOK, Handled
  <2>1. ASSUME CloseClient(d), ev' = ev \/ Handled(d), c = d => ev'[c] = "none" /\ Live(c)
        PROVE Goal
    <3>1. CASE c = d
      BY <2>1, <3>1 DEF CloseClient, Live, PartialOf, KeepsPart, Goal
    <3>2. CASE c # d
      BY <2>1, <3>2, <1>s DEF CloseClient, Unregister
    <3> QED BY <3>1, <3>2
  <2>2. CASE RecvClosed(d) \/ SendLast(d) \/ ExpireClient(d)
    BY <2>1, <2>2 DEF RecvClosed, SendLast, ExpireClient, NextExpired, EventsInv
  <2>3. ASSUME NEW kind \in {"page", "error"}, Answer(d, kind), ev[d] = "in", Handled(d),
               kind = "error" \/ cgi_socket[d] = NULL
        PROVE Goal
    <3>1. CASE c = d
      <4>1. left[c] \notin 1..(RespLen - 1)
        BY <2>3, <3>1 DEF PartialOf
      <4>2. left'[c] = RespLen /\ buf'[c] = kind /\ ev'[c] = "none" /\ cgi_socket' = cgi_socket
        BY <2>3, <3>1 DEF Answer, Buffer
      <4> QED BY <2>3, <3>1, <4>1, <4>2 DEF PartialOf, KeepsPart, Goal
    <3>2. CASE c # d
      BY <2>3, <3>2, <1>s DEF Answer, Buffer
    <3> QED BY <3>1, <3>2
  <2>4. CASE RecvError(d)
    <3>1. CASE CloseClient(d)
      BY <2>1, <2>4, <3>1 DEF RecvError
    <3> QED BY <2>3, <2>4, <3>1 DEF RecvError
  <2>5. CASE RunSync(d)
    <3>1. CASE CloseClient(d)
      BY <2>1, <2>5, <3>1 DEF RunSync
    <3>2. cgi_socket[d] = NULL
      BY <2>5 DEF RunSync, LinksInv
    <3> QED BY <2>3, <2>5, <3>1, <3>2 DEF RunSync
  <2>6. CASE AcceptConn(d)
    <3>1. UNCHANGED <<ev, buf, left, cgi_socket>>
      BY <2>6 DEF AcceptConn
    <3>2. CASE c = d
      <4>1. interest[c] = "none" /\ ev[c] = "none"
        BY <2>6, <3>2 DEF AcceptConn, Fresh, EventsInv, ClientEventsLive
      <4> QED BY <3>1, <4>1 DEF PartialOf, KeepsPart, Goal
    <3>3. CASE c # d
      BY <2>6, <3>1, <3>3, <1>s DEF AcceptConn
    <3> QED BY <3>2, <3>3
  <2>7. CASE RecvMore(d)
    BY <2>7, <1>s DEF RecvMore
  <2>8. CASE SendSome(d)
    <3>1. PICK n \in 1..(left[d] - 1) : left' = [left EXCEPT ![d] = @ - n]
      BY <2>8 DEF SendSome
    <3>2. /\ interest' = interest /\ buf' = buf /\ cgi_socket' = cgi_socket
          /\ ev'[d] = "none" /\ interest[d] = "out"
      BY <2>8 DEF SendSome, PartialInv, PartialOf
    <3>3. CASE c = d
      <4>1. ~ (left'[c] > left[c])
        BY <3>1, <3>3
      <4> QED BY <3>2, <3>3, <4>1 DEF PartialOf, KeepsPart, Goal
    <3>4. CASE c # d
      BY <2>8, <3>1, <3>2, <3>4, <1>s DEF SendSome
    <3> QED BY <3>3, <3>4
  <2>9. ASSUME NEW g \in Cgis, RunCgi(d, g) \/ RunCgiAddFails(d, g) PROVE Goal
    <3>1. ev[d] = "in" /\ interest'[c] = interest[c] /\ ev'[d] = "none"
      BY <2>9 DEF RunCgi, RunCgiAddFails
    <3>2. CASE c = d
      <4>1. left[c] \notin 1..(RespLen - 1)
        BY <3>1, <3>2 DEF PartialOf
      <4>2. left'[c] = RespLen /\ buf'[c] = "placeholder"
        BY <2>9, <3>2 DEF RunCgi, RunCgiAddFails, Fork, Buffer
      <4> QED BY <3>1, <3>2, <4>1, <4>2 DEF PartialOf, KeepsPart, Goal
    <3>3. CASE c # d
      BY <2>9, <3>1, <3>3, <1>s DEF RunCgi, RunCgiAddFails, Fork, Buffer
    <3> QED BY <3>2, <3>3
  <2> QED BY <1>6, <2>2, <2>4, <2>5, <2>6, <2>7, <2>8, <2>9 DEF ClientStep
<1>7. ASSUME NEW g \in Cgis,
             \/ CgiRead(g) \/ CgiEof(g) \/ ExpireCgi(g) \/ CgiEndsUnheard(g)
             \/ RunCgiAddFailsReaped(g) \/ ExpireCgiReaped(g)
      PROVE Goal
  BY <1>0, <1>7, <1>s
     DEF CgiRead, CgiEof, ExpireCgi, CgiEndsUnheard, RunCgiAddFailsReaped, ExpireCgiReaped,
         RemoveCgiSocket, Handled, Reap, TypeOK
<1>8. ASSUME NEW g \in Cgis, CgiNotifies(g) PROVE Goal
  <2>1. /\ owner[g] \in Clients /\ pc = "eof" /\ ev' = ev
        /\ buf' = [buf EXCEPT ![owner[g]] = "cgi"]
        /\ left' = [left EXCEPT ![owner[g]] = RespLen]
        /\ interest'[c] = interest[c] \/ (c = owner[g] /\ interest'[c] = "out")
        /\ cgi_socket'[c] = IF c = owner[g] /\ cgi_socket[c] = g THEN NULL ELSE cgi_socket[c]
    BY <1>0, <1>8 DEF CgiNotifies, Reap, Buffer, RemoveCgiSocket, TypeOK
  <2>2. CASE c = owner[g]
    <3>1. cgi_socket[c] = g
      BY <2>1, <2>2 DEF LinksInv, LinksAgree, Terminated
    <3>2. buf'[c] = "cgi" /\ left'[c] = RespLen /\ cgi_socket'[c] = NULL
      BY <2>1, <2>2, <3>1 DEF TypeOK
    <3>3. left[c] \in 1..(RespLen - 1) => buf[c] = "error"
      BY <1>0, <3>1 DEF PartialOf, AnswerInv, OutHasAnswer
    <3> QED BY <1>0, <2>1, <2>2, <3>2, <3>3 DEF PartialOf, KeepsPart, Goal
  <2>3. CASE c # owner[g]
    BY <1>0, <2>1, <2>3, <1>s DEF TypeOK
  <2> QED BY <2>2, <2>3
<1> QED
  BY <1>1, <1>2, <1>3, <1>4, <1>5, <1>6, <1>7, <1>8
     DEF Next, Loop, Environment, CgiStep, Goal

\* A response of which a part was sent is not replaced by another one, except an
\* error by the answer of the CGI script that was still running.
THEOREM PartialResponseAlwaysKept == Spec => PartialResponseKept
<1> DEFINE I == TypeOK /\ LinksInv /\ EventsInv /\ AnswerInv /\ PartialInv
           Kept == \A c \in Clients : KeepsPart(c)
<1>1. Init => I
  BY TypeInit, LinksInit, EventsInit, AnswerInit, PartialInit
<1>2. I /\ [Next]_vars => I' /\ [Kept]_vars
  BY TypeNext, LinksNext, EventsNext, AnswerNext, PartialNext DEF PartialInv
<1>3. Spec => [][Kept]_vars
  BY <1>1, <1>2, PTL DEF Spec
<1> QED BY <1>3 DEF PartialResponseKept, KeepsPart

-----------------------------------------------------------------------------
(***************************************************************************)
(* CheckTimeout strands no client: one that waits for a CGI answer is      *)
(* never left without the CgiSocket that will answer it.                   *)
(***************************************************************************)
\* A CheckTimeout pass is over before events are waited for and dispatched.
TodoInv == pc \notin {"check", "expire"} => todo = {}

(***************************************************************************)
(* A client that waits for a CGI answer has a complete request, is never   *)
(* touched again before the answer, and so is at least as old as its       *)
(* CgiSocket: when a pass closes the CgiSocket, it closes the client too.  *)
(***************************************************************************)
StrandOf(c) ==
    buf[c] = "placeholder" =>
      /\ req[c] = "done" /\ Live(c)
      /\ cgi_socket[c] # NULL =>
           /\ age[cgi_socket[c]] <= age[c]
           /\ fd[cgi_socket[c]] \in todo => fd[c] \in todo
      /\ faults = 0 => cgi_socket[c] # NULL \/ fd[c] \in todo

StrandInv == TodoInv /\ \A c \in Clients : StrandOf(c)

\* No pass is under way and no client exists when the server starts.
LEMMA StrandInit == Init => StrandInv
  BY DEF Init, StrandInv, TodoInv, StrandOf

\* A pass starts when the batch is done, and goes on only at the points that
\* CheckTimeout reaches.
LEMMA TodoNext == TodoInv /\ [Next]_vars => TodoInv'
<1> SUFFICES ASSUME TodoInv, [Next]_vars PROVE TodoInv'
  OBVIOUS
<1> USE DEF TodoInv, loopVars, Dispatch
<1>1. CASE UNCHANGED vars \/ EpollWait \/ EpollWaitFails \/ BatchDone \/ AcceptFails \/ Tick
  BY <1>1 DEF vars, EpollWait, EpollWaitFails, BatchDone, AcceptFails, Tick
<1>2. ASSUME NEW o \in Sockets, DispatchDeleted(o) PROVE TodoInv'
  BY <1>2 DEF DispatchDeleted
<1>3. ASSUME NEW g \in Cgis, CgiClosesOutput(g) \/ CgiExits(g) PROVE TodoInv'
  BY <1>3 DEF CgiClosesOutput, CgiExits
<1>4. ASSUME NEW c \in Clients, ClientStep(c) PROVE TodoInv'
  BY <1>4 DEF ClientStep, AcceptConn, RecvClosed, RecvMore, RecvError, RunSync, Answer, RunCgi,
              RunCgiAddFails, SendSome, SendLast, ExpireClient
<1>5. ASSUME NEW g \in Cgis, CgiStep(g) PROVE TodoInv'
  BY <1>5 DEF CgiStep, CgiRead, CgiEof, CgiNotifies, CgiEndsUnheard, RunCgiAddFailsReaped,
              ExpireCgi, ExpireCgiReaped, Reap
<1> QED BY <1>1, <1>2, <1>3, <1>4, <1>5 DEF Next, Loop, Environment

\* sockets_ tells live sockets apart by their descriptors.
LEMMA FdsDistinct ==
  ASSUME SocketsInv, pc # "addfail",
         NEW o \in Sockets, NEW p \in Sockets, Live(o), Live(p), fd[o] = fd[p]
  PROVE  o = p
  BY DEF SocketsInv, SocketsExact

\* A pass closes descriptors of live sockets only.
LEMMA DeadNotInPass ==
  ASSUME TypeOK, NEW o \in Sockets, ~ Live(o)
  PROVE  fd[o] \notin todo
<1>1. todo \subseteq Fds
  BY DEF TypeOK
<1>2. fd[o] = NoFd /\ NoFd \notin Fds
  BY NoFdFacts DEF Live
<1> QED BY <1>1, <1>2

\* A step that leaves a client, its CgiSocket and its place in the pass alone.
LEMMA StrandKept ==
  ASSUME NEW c \in Clients, StrandOf(c),
         buf'[c] = buf[c], req'[c] = req[c], fd'[c] = fd[c], age'[c] = age[c],
         cgi_socket'[c] = cgi_socket[c],
         cgi_socket[c] # NULL => /\ fd'[cgi_socket[c]] = fd[cgi_socket[c]]
                                 /\ age'[cgi_socket[c]] = age[cgi_socket[c]],
         todo' \subseteq todo, fd[c] \in todo => fd[c] \in todo',
         faults' = 0 => faults = 0
  PROVE  StrandOf(c)'
  BY DEF StrandOf, Live

\* Another client is closed.
LEMMA StrandClose ==
  ASSUME TypeOK, LinksInv, NEW c \in Clients, NEW d \in Clients, StrandOf(c),
         CloseClient(d), faults' = 0 => faults = 0,
         c # d => todo' \subseteq todo /\ (fd[c] \in todo => fd[c] \in todo')
  PROVE  StrandOf(c)'
<1>1. c \in Sockets /\ d \in Sockets /\ d \notin Cgis
  BY NoFdFacts
<1>2. CASE c = d
  BY <1>1, <1>2 DEF CloseClient, StrandOf, TypeOK
<1>3. CASE c # d
  <2>1. /\ buf'[c] = buf[c] /\ req'[c] = req[c] /\ fd'[c] = fd[c] /\ age'[c] = age[c]
        /\ cgi_socket'[c] = cgi_socket[c]
    BY <1>1, <1>3 DEF CloseClient, TypeOK
  <2>2. \A g \in Cgis : fd'[g] = fd[g] /\ age'[g] = age[g]
    BY <1>1, NoFdFacts DEF CloseClient, TypeOK
  <2>3. cgi_socket[c] \in Cgis \cup {NULL}
    BY DEF TypeOK
  <2> QED BY <1>3, <2>1, <2>2, <2>3, StrandKept
<1> QED BY <1>2, <1>3

\* A pass that starts finds a client expired whenever it finds its CgiSocket so.
LEMMA StrandPass ==
  ASSUME TypeOK, LinksInv, SocketsInv, pc # "addfail", todo = {}, todo' = ExpiredFds,
         UNCHANGED <<buf, req, fd, age, cgi_socket>>, faults' = 0 => faults = 0,
         NEW c \in Clients, StrandOf(c)
  PROVE  StrandOf(c)'
<1>1. ASSUME buf[c] = "placeholder", cgi_socket[c] # NULL, fd[cgi_socket[c]] \in todo'
      PROVE  fd[c] \in todo'
  <2>1. PICK o \in Sockets : Live(o) /\ IsTimeout(o) /\ fd[o] = fd[cgi_socket[c]]
    BY <1>1 DEF ExpiredFds
  <2>2. cgi_socket[c] \in Sockets /\ Live(cgi_socket[c]) /\ Live(c) /\ c \in Sockets
    BY <1>1, NoFdFacts DEF LinksInv, LinksAgree, TypeOK
  <2>3. o = cgi_socket[c]
    BY <2>1, <2>2, FdsDistinct
  <2>4. age[o] <= age[c] /\ age[o] \in Int /\ age[c] \in Int
    BY <1>1, <2>2, <2>3 DEF StrandOf, TypeOK
  <2>5. IsTimeout(c)
    BY <2>1, <2>4 DEF IsTimeout
  <2> QED BY <2>2, <2>5 DEF ExpiredFds
<1> QED BY <1>1 DEF StrandOf, Live

\* Every step keeps every waiting client answered or about to be closed.
LEMMA StrandNext ==
  /\ TypeOK /\ LinksInv /\ EventsInv /\ ChildInv /\ SocketsInv /\ AnswerInv
  /\ StrandInv /\ [Next]_vars
  => StrandInv'
<1> SUFFICES ASSUME TypeOK, LinksInv, EventsInv, ChildInv, SocketsInv, AnswerInv,
                    StrandInv, [Next]_vars,
                    NEW c \in Clients
             PROVE  StrandOf(c)'
  BY TodoNext DEF StrandInv
<1>0. /\ StrandOf(c) /\ TodoInv
      /\ c \in Sockets /\ c \notin Cgis
      /\ \A g \in Cgis : g \in Sockets /\ g \notin Clients
      /\ cgi_socket[c] \in Cgis \cup {NULL}
      /\ faults \in Nat
  BY NoFdFacts DEF StrandInv, TypeOK
<1>00. cgi_socket[c] # NULL => /\ Live(c) /\ Live(cgi_socket[c])
                               /\ owner[cgi_socket[c]] = c
                               /\ ~ Terminated(cgi_socket[c])
  BY DEF LinksInv, LinksAgree
<1>000. Fault => faults' # 0
  BY <1>0 DEF Fault
<1> USE <1>0 DEF loopVars, sockVars, batchVars, clientVars, childVars, Dispatch
<1>1. CASE UNCHANGED vars \/ EpollWait \/ AcceptFails
  BY <1>1, <1>000, StrandKept DEF vars, EpollWait, AcceptFails
<1>2. CASE EpollWaitFails \/ BatchDone
  BY <1>2, <1>000, StrandPass DEF EpollWaitFails, BatchDone, TodoInv
<1>3. CASE Tick
  <2>1. /\ UNCHANGED <<buf, req, fd, cgi_socket, todo, faults>>
        /\ \A o \in Sockets : Live(o) => age'[o] = IF age[o] <= Timeout THEN age[o] + 1 ELSE age[o]
    BY <1>3 DEF Tick
  <2>2. ASSUME cgi_socket[c] # NULL, age[cgi_socket[c]] <= age[c]
        PROVE  age'[cgi_socket[c]] <= age'[c]
    <3>1. age[cgi_socket[c]] \in 0..(Timeout + 1) /\ age[c] \in 0..(Timeout + 1)
      BY <2>2 DEF TypeOK
    <3> QED BY <1>00, <2>1, <2>2, <3>1
  <2> QED BY <2>1, <2>2 DEF StrandOf, Live
<1>4. ASSUME NEW o \in Sockets, DispatchDeleted(o) PROVE StrandOf(c)'
  BY <1>4, StrandKept DEF DispatchDeleted
<1>5. ASSUME NEW g \in Cgis, CgiClosesOutput(g) \/ CgiExits(g) \/ CgiRead(g) \/ CgiEof(g)
      PROVE StrandOf(c)'
  BY <1>5, StrandKept DEF CgiClosesOutput, CgiExits, CgiRead, CgiEof
<1>6. ASSUME NEW d \in Clients, ClientStep(d) PROVE StrandOf(c)'
  <2>0. d \in Sockets /\ d \notin Cgis
    BY NoFdFacts
  <2>1. ASSUME CloseClient(d), UNCHANGED todo, Fault \/ UNCHANGED faults PROVE StrandOf(c)'
    BY <2>1, <1>000, StrandClose
  <2>2. CASE RecvClosed(d) \/ SendLast(d)
    BY <2>1, <2>2 DEF RecvClosed, SendLast
  <2>3. CASE ExpireClient(d)
    <3>1. c # d /\ Live(c) => fd[c] # fd[d]
      BY <2>0, <2>3, FdsDistinct DEF ExpireClient, NextExpired
    <3>2. todo' \subseteq todo /\ (c # d /\ Live(c) /\ fd[c] \in todo => fd[c] \in todo')
      BY <2>3, <3>1 DEF ExpireClient
    <3>3. ~ Live(c) => fd[c] \notin todo
      BY DeadNotInPass
    <3> QED BY <2>3, <3>2, <3>3, StrandClose DEF ExpireClient
  <2>4. ASSUME NEW kind \in {"page", "error"}, Answer(d, kind), c = d \/ req'[c] = req[c],
               Fault \/ UNCHANGED faults
        PROVE StrandOf(c)'
    <3>1. CASE c = d
      BY <2>4, <3>1 DEF Answer, Buffer, StrandOf, TypeOK
    <3>2. CASE c # d
      BY <1>000, <2>0, <2>4, <3>2, StrandKept DEF Answer, Buffer, TypeOK
    <3> QED BY <3>1, <3>2
  <2>5. CASE RecvError(d)
    BY <2>1, <2>4, <2>5 DEF RecvError
  <2>6. CASE RunSync(d)
    <3>1. ASSUME NEW kind \in {"page", "error"}, Answer(d, kind), Fault \/ UNCHANGED faults,
                 req' = [req EXCEPT ![d] = "done"]
          PROVE StrandOf(c)'
      BY <2>4, <3>1 DEF TypeOK
    <3> QED BY <2>1, <2>6, <3>1 DEF RunSync
  <2>7. ASSUME \A o \in Sockets \ {d} : fd'[o] = fd[o] /\ age'[o] = age[o],
               UNCHANGED <<todo, faults, cgi_socket, buf, req>>,
               buf[d] # "placeholder"
        PROVE StrandOf(c)'
    <3>1. CASE c = d
      BY <2>7, <3>1 DEF StrandOf
    <3>2. CASE c # d
      BY <2>0, <2>7, <3>2, StrandKept
    <3> QED BY <3>1, <3>2
  <2>8. CASE AcceptConn(d)
    <3>1. buf[d] # "placeholder"
      BY <2>8 DEF AcceptConn, Fresh, StrandInv, StrandOf
    <3> QED BY <2>7, <2>8, <3>1 DEF AcceptConn, TypeOK
  <2>9. CASE RecvMore(d)
    <3>1. buf[d] # "placeholder"
      BY <2>9 DEF RecvMore, StrandInv, StrandOf
    <3> QED BY <2>7, <2>9, <3>1 DEF RecvMore, TypeOK
  <2>10. CASE SendSome(d)
    <3>1. buf[d] # "placeholder"
      BY <2>10 DEF SendSome, AnswerInv, OutHasAnswer
    <3>2. CASE c = d
      BY <2>10, <3>1, <3>2 DEF SendSome, StrandOf
    <3>3. CASE c # d
      BY <2>0, <2>10, <3>3, StrandKept DEF SendSome, TypeOK
    <3> QED BY <3>2, <3>3
  <2>11. ASSUME NEW g \in Cgis, RunCgi(d, g) \/ RunCgiAddFails(d, g) PROVE StrandOf(c)'
    <3>1. /\ Fork(d, g) /\ todo' = todo /\ todo = {} /\ Live(d) /\ ~ Live(g)
          /\ Fault \/ faults' = faults
      BY <2>11 DEF RunCgi, RunCgiAddFails, Fork, Fresh, TodoInv
    <3>2. PICK f \in Fds, late \in {0, 1} :
             fd' = [fd EXCEPT ![g] = f] /\ age' = [age EXCEPT ![d] = late, ![g] = 0]
      BY <3>1 DEF Fork
    <3>3. CASE c # d
      <4>1. /\ buf'[c] = buf[c] /\ req'[c] = req[c] /\ fd'[c] = fd[c] /\ age'[c] = age[c]
            /\ cgi_socket'[c] = cgi_socket[c]
        BY <2>0, <2>11, <3>1, <3>2, <3>3 DEF Fork, Buffer, RunCgi, RunCgiAddFails, TypeOK
      <4>2. cgi_socket[c] # NULL => /\ cgi_socket[c] # g
                                    /\ fd'[cgi_socket[c]] = fd[cgi_socket[c]]
                                    /\ age'[cgi_socket[c]] = age[cgi_socket[c]]
        BY <1>00, <2>0, <3>1, <3>2 DEF TypeOK
      <4> QED BY <1>000, <3>1, <4>1, <4>2, StrandKept
    <3>4. CASE c = d
      <4>1. req'[c] = "done" /\ fd'[c] = fd[c] /\ Live(c)'
        BY <3>1, <3>2, <3>4 DEF Fork, Live, TypeOK
      <4>2. age'[g] = 0 /\ age'[c] \in {0, 1}
        BY <2>0, <3>2, <3>4 DEF TypeOK
      <4>3. cgi_socket'[c] = g \/ (cgi_socket'[c] = NULL /\ faults' # 0)
        BY <1>000, <2>11, <3>4 DEF RunCgi, RunCgiAddFails, TypeOK
      <4>4. g # NULL /\ todo' = {}
        BY <3>1
      <4> QED BY <4>1, <4>2, <4>3, <4>4 DEF StrandOf
    <3> QED BY <3>3, <3>4
  <2> QED BY <1>6, <2>2, <2>3, <2>5, <2>6, <2>8, <2>9, <2>10, <2>11 DEF ClientStep
<1>7. ASSUME NEW g \in Cgis, ExpireCgi(g) PROVE StrandOf(c)'
  <2>1. /\ UNCHANGED <<buf, req, fd, age, todo, faults>> /\ fd[g] \in todo
        /\ cgi_socket'[c] = IF c = owner[g] /\ cgi_socket[c] = g THEN NULL ELSE cgi_socket[c]
    BY <1>7 DEF ExpireCgi, NextExpired, RemoveCgiSocket
  <2>2. CASE c = owner[g] /\ cgi_socket[c] = g
    BY <2>1, <2>2 DEF StrandOf, Live
  <2>3. CASE ~ (c = owner[g] /\ cgi_socket[c] = g)
    BY <2>1, <2>3, StrandKept
  <2> QED BY <2>2, <2>3
<1>8. ASSUME NEW g \in Cgis, \/ CgiNotifies(g) \/ CgiEndsUnheard(g)
                             \/ RunCgiAddFailsReaped(g) \/ ExpireCgiReaped(g)
      PROVE StrandOf(c)'
  <2>1. /\ fd' = [fd EXCEPT ![g] = NoFd]
        /\ \A o \in Sockets : o # g /\ o # owner[g] => age'[o] = age[o]
        /\ pc \in {"eof", "expire", "addfail"} /\ waitee = g /\ proc[g] = "zombie"
        /\ req' = req /\ (Fault \/ faults' = faults)
    BY <1>8 DEF CgiNotifies, CgiEndsUnheard, RunCgiAddFailsReaped, ExpireCgiReaped, Reap, TypeOK
  <2>2. Live(g) /\ fd'[c] = fd[c]
    BY <2>1 DEF ChildInv, NoOrphanChild, TypeOK
  <2>3. todo' \subseteq todo /\ (Live(c) /\ fd[c] \in todo => fd[c] \in todo')
    <3>1. CASE ExpireCgiReaped(g)
      <4>1. Live(c) => fd[c] # fd[g]
        BY <2>2, <3>1, FdsDistinct DEF ExpireCgiReaped, Reap
      <4> QED BY <3>1, <4>1 DEF ExpireCgiReaped
    <3> QED BY <1>8, <3>1 DEF CgiNotifies, CgiEndsUnheard, RunCgiAddFailsReaped
  <2>4. ~ Live(c) => fd[c] \notin todo
    BY DeadNotInPass
  <2>5. CASE cgi_socket[c] = g
    <3>1. owner[g] = c /\ (CgiNotifies(g) \/ CgiEndsUnheard(g))
      BY <1>00, <1>8, <2>5 DEF Terminated, RunCgiAddFailsReaped, ExpireCgiReaped, Reap
    <3>2. CASE CgiNotifies(g)
      BY <3>1, <3>2 DEF CgiNotifies, Buffer, StrandOf, TypeOK
    <3>3. CASE CgiEndsUnheard(g)
      <4>1. cgi_socket'[c] = NULL /\ faults' # 0 /\ buf' = buf
        BY <1>000, <2>5, <3>1, <3>3 DEF CgiEndsUnheard, RemoveCgiSocket
      <4> QED BY <2>1, <2>2, <4>1 DEF StrandOf, Live
    <3> QED BY <3>1, <3>2, <3>3
  <2>6. CASE cgi_socket[c] # g
    <3>1. cgi_socket'[c] = cgi_socket[c]
      BY <1>8, <2>6 DEF CgiNotifies, CgiEndsUnheard, RunCgiAddFailsReaped, ExpireCgiReaped,
                        RemoveCgiSocket
    <3>2. cgi_socket[c] # NULL => /\ fd'[cgi_socket[c]] = fd[cgi_socket[c]]
                                  /\ age'[cgi_socket[c]] = age[cgi_socket[c]]
      BY <2>1, <2>6 DEF TypeOK
    <3>3. CASE CgiNotifies(g)
      <4>1. c # owner[g]
        BY <2>6, <3>3 DEF CgiNotifies, Reap, LinksInv, LinksAgree, Terminated
      <4>2. buf'[c] = buf[c] /\ age'[c] = age[c]
        BY <2>1, <3>3, <4>1 DEF CgiNotifies, Buffer, TypeOK
      <4> QED BY <1>000, <2>1, <2>2, <2>3, <2>4, <3>1, <3>2, <4>2, StrandKept
    <3>4. CASE ~ CgiNotifies(g)
      <4>1. buf'[c] = buf[c] /\ age'[c] = age[c]
        BY <1>8, <3>4 DEF CgiEndsUnheard, RunCgiAddFailsReaped, ExpireCgiReaped, TypeOK
      <4> QED BY <1>000, <2>1, <2>2, <2>3, <2>4, <3>1, <3>2, <4>1, StrandKept
    <3> QED BY <3>3, <3>4
  <2> QED BY <2>5, <2>6
<1> QED
  BY <1>1, <1>2, <1>3, <1>4, <1>5, <1>6, <1>7, <1>8 DEF Next, Loop, Environment, CgiStep

\* As long as epoll_ctl does not fail, a client that waits for a CGI answer has a
\* CgiSocket that will answer it, or is closed in the running CheckTimeout pass.
THEOREM NeverStrandedClient == Spec => []NoStrandedClient
<1> DEFINE I == /\ TypeOK /\ LinksInv /\ EventsInv /\ ChildInv /\ SocketsInv
                /\ AnswerInv /\ StrandInv
<1>1. Init => I
  BY TypeInit, LinksInit, EventsInit, ChildInit, SocketsInit, AnswerInit, StrandInit
<1>2. I /\ [Next]_vars => I'
  BY TypeNext, LinksNext, EventsNext, ChildNext, SocketsNext, AnswerNext, StrandNext
<1>3. I => NoStrandedClient
  BY DEF StrandInv, StrandOf, NoStrandedClient
<1> QED BY <1>1, <1>2, <1>3, PTL DEF Spec

-----------------------------------------------------------------------------
(***************************************************************************)
(* What was sent on a connection, against what write_buffer_ holds.        *)
(* Either nothing was sent; or a part of what it holds, as the only answer *)
(* or after the error that a script's answer replaced; or a part of that   *)
(* error, and nothing yet of the script's answer.                          *)
(***************************************************************************)
IsPart(n) == n \in 1..(RespLen - 1)

Unsent(c) == wire[c] = <<>> /\ ~ IsPart(left[c])

Partly(c) ==
    /\ IsPart(left[c])
    /\ wire[c] = <<buf[c]>> \/ (wire[c] = <<"error", "cgi">> /\ buf[c] = "cgi")

Replaced(c) ==
    /\ wire[c] = <<"error">> /\ buf[c] = "cgi" /\ left[c] = RespLen
    /\ interest[c] = "out" /\ ev[c] # "in"

WireOf(c) == Live(c) => Unsent(c) \/ Partly(c) \/ Replaced(c)

\* What may be sent.
Sent == Responses \cup {"timeout"}

WireInv ==
    /\ wire \in [Clients -> Seq(Sent)]
    /\ \A c \in Clients : WireOf(c)

LoopInv == TypeOK /\ LinksInv /\ EventsInv /\ AnswerInv /\ PartialInv

\* The history variable does not restrict the loop.
LEMMA WireNextIsNext == [WireNext]_wireVars => [Next]_vars
  BY DEF WireNext, wireVars, Next, Loop, ClientStep, SilentStep, SilentClientStep,
         WireAccept, WireSendSome, WireSendLast, WireExpireClient

\* The invariants of the loop hold with the history variable too.
LEMMA LoopInvNext == LoopInv /\ [WireNext]_wireVars => LoopInv'
  BY WireNextIsNext, TypeNext, LinksNext, EventsNext, AnswerNext, PartialNext
     DEF LoopInv, PartialInv

LEMMA LoopInvInit == Init => LoopInv
  BY TypeInit, LinksInit, EventsInit, AnswerInit, PartialInit DEF LoopInv

\* While data of a client is handled, nothing was sent to it.
LEMMA ReadingIsUnsent ==
  ASSUME LoopInv, WireInv, NEW c \in Clients, Live(c), ev[c] = "in"
  PROVE  Unsent(c)
  BY DEF LoopInv, PartialInv, PartialOf, WireInv, WireOf, Partly, Replaced, IsPart

\* A client whose own state a step leaves alone keeps WireOf.
LEMMA WireSame ==
  ASSUME NEW c \in Clients, WireOf(c), wire'[c] = wire[c], fd'[c] = fd[c],
         buf'[c] = buf[c], left'[c] = left[c],
         interest'[c] = interest[c] \/ interest'[c] = "out",
         ev'[c] \in {ev[c], "none"} \/ ev'[c] = interest[c]
  PROVE  WireOf(c)'
  BY DEF WireOf, Live, Unsent, Partly, Replaced, IsPart

\* Nothing happens on any connection.
LEMMA AbstractStutter ==
  ASSUME wire' = wire, \A c \in Clients : Live(c)' <=> Live(c)
  PROVE  [C!Next]_(C!vars)
  BY DEF C!vars

\* A connection is closed, with nothing more sent on it.
LEMMA AbstractClose ==
  ASSUME NEW d \in Clients, Live(d), ~ Live(d)', wire' = wire,
         \A c \in Clients \ {d} : Live(c)' <=> Live(c)
  PROVE  C!Next
  BY DEF C!Next, C!Close

\* What is shown of every step.
Goal == (\A c \in Clients : WireOf(c)') /\ [C!Next]_(C!vars)

\* A step that closes d and sends nothing.
LEMMA CloseStep ==
  ASSUME LoopInv, WireInv, NEW d \in Clients, Live(d), CloseClient(d), wire' = wire,
         ev' = ev \/ Handled(d)
  PROVE  Goal
<1>1. /\ ~ Live(d)'
      /\ \A c \in Clients \ {d} :
           /\ fd'[c] = fd[c] /\ buf'[c] = buf[c] /\ left'[c] = left[c]
           /\ interest'[c] = interest[c] /\ ev'[c] = ev[c]
  BY NoFdFacts DEF CloseClient, Unregister, Handled, Live, LoopInv, TypeOK
<1>2. \A c \in Clients \ {d} : WireOf(c)'
  BY <1>1, WireSame DEF WireInv
<1>3. WireOf(d)'
  BY <1>1 DEF WireOf
<1>4. C!Next
  BY <1>1, AbstractClose DEF Live
<1> QED BY <1>2, <1>3, <1>4 DEF Goal

\* A step that stores an answer to the data of d, or goes on reading.
LEMMA ReadStep ==
  ASSUME LoopInv, WireInv, NEW d \in Clients, Live(d), ev[d] = "in", wire' = wire,
         left'[d] \in {left[d], RespLen}, Handled(d), fd'[d] = fd[d],
         \A c \in Clients \ {d} :
           /\ fd'[c] = fd[c] /\ buf'[c] = buf[c] /\ left'[c] = left[c]
           /\ interest'[c] = interest[c]
  PROVE  Goal
<1>1. \A c \in Clients \ {d} : WireOf(c)'
  BY WireSame, NoFdFacts DEF WireInv, Handled, LoopInv, TypeOK
<1>2. Unsent(d)'
  BY ReadingIsUnsent DEF Unsent, IsPart, LoopInv, TypeOK
<1>3. [C!Next]_(C!vars)
  BY AbstractStutter DEF Live
<1> QED BY <1>1, <1>2, <1>3 DEF Goal, WireOf

\* A step of the loop or of its environment that leaves every client alone, but
\* for its pending event.
LEMMA IdleStep ==
  ASSUME WireInv, wire' = wire,
         \A c \in Clients :
           /\ fd'[c] = fd[c] /\ buf'[c] = buf[c] /\ left'[c] = left[c]
           /\ Live(c) => interest'[c] = interest[c]
           /\ ev'[c] \in {ev[c], "none"} \/ ev'[c] = interest[c]
  PROVE  Goal
<1>1. \A c \in Clients : WireOf(c)'
  BY WireSame DEF WireInv, WireOf, Live
<1>2. [C!Next]_(C!vars)
  BY AbstractStutter DEF Live
<1> QED BY <1>1, <1>2 DEF Goal

\* A script's answer sent after an error.
LEMMA ErrorThenCgi == Append(<<"error">>, "cgi") = <<"error", "cgi">>
<1> DEFINE S == {"error", "cgi"}
           s == Append(<<"error">>, "cgi")
           t == <<"error", "cgi">>
<1>1. <<"error">> \in Seq(S) /\ "cgi" \in S /\ t \in Seq(S) /\ Len(t) = 2
  OBVIOUS
<1>2. s \in Seq(S) /\ Len(s) = 2 /\ s[1] = "error" /\ s[2] = "cgi"
  BY <1>1
<1>3. t[1] = "error" /\ t[2] = "cgi"
  OBVIOUS
<1> HIDE DEF S, s, t
<1>4. \A i \in 1..Len(s) : s[i] = t[i]
  BY <1>2, <1>3
<1>5. s = t
  BY <1>1, <1>2, <1>4, SeqEqual
<1> QED BY <1>5 DEF s, t

\* EPOLLOUT is handled with an answer in write_buffer_.
LEMMA SendingIsAnswer ==
  ASSUME LoopInv, WireInv, NEW d \in Clients, Live(d), ev[d] = "out", left[d] = RespLen
  PROVE  /\ buf[d] \in C!Answers
         /\ wire[d] = <<>> \/ (wire[d] = <<"error">> /\ buf[d] = "cgi")
  BY DEF LoopInv, AnswerInv, OutHasAnswer, TypeOK, Responses, C!Answers,
         WireInv, WireOf, Unsent, Partly, Replaced, IsPart

\* send accepts a part of the answer.
LEMMA SendSomeStep ==
  ASSUME LoopInv, WireInv, NEW d \in Clients, WireSendSome(d)
  PROVE  Goal
<1>1. /\ ev[d] = "out" /\ Live(d) /\ Handled(d) /\ fd' = fd /\ buf' = buf
      /\ interest' = interest /\ wire' = [wire EXCEPT ![d] = Begun(d)]
  BY DEF WireSendSome, SendSome, Dispatch
<1>2. PICK n \in 1..(left[d] - 1) : left' = [left EXCEPT ![d] = @ - n]
  BY DEF WireSendSome, SendSome
<1>3. /\ left[d] \in 0..RespLen /\ left[d] > 1 /\ IsPart(left'[d])
      /\ \A c \in Clients \ {d} : left'[c] = left[c]
  <2>1. left[d] \in 0..RespLen /\ left'[d] = left[d] - n
    BY <1>2 DEF LoopInv, TypeOK
  <2>2. left[d] - n \in 1..(RespLen - 1) /\ left[d] > 1
    BY <1>2, <2>1
  <2> QED BY <1>2, <2>1, <2>2 DEF LoopInv, TypeOK, IsPart
<1>4. /\ wire'[d] = Begun(d)
      /\ \A c \in Clients \ {d} : wire'[c] = wire[c]
      /\ \A c \in Clients : ev'[c] \in {ev[c], "none"}
  BY <1>1, NoFdFacts DEF WireInv, Handled, LoopInv, TypeOK
<1>5. \A c \in Clients \ {d} : WireOf(c)'
  BY <1>1, <1>3, <1>4, WireSame DEF WireInv
<1>6. CASE left[d] = RespLen
  <2>1. /\ buf[d] \in C!Answers
        /\ wire[d] = <<>> \/ (wire[d] = <<"error">> /\ buf[d] = "cgi")
    BY <1>1, <1>6, SendingIsAnswer
  <2>2. wire'[d] = Append(wire[d], buf[d])
    BY <1>4, <1>6 DEF Begun
  <2>3. wire'[d] = <<buf[d]>> \/ (wire'[d] = <<"error", "cgi">> /\ buf[d] = "cgi")
    <3>1. CASE wire[d] = <<>>
      <4>1. buf[d] = "page" \/ buf[d] = "error" \/ buf[d] = "cgi"
        BY <2>1 DEF C!Answers
      <4>2. CASE buf[d] = "page"
        BY <2>2, <3>1, <4>2
      <4>3. CASE buf[d] = "error"
        BY <2>2, <3>1, <4>3
      <4>4. CASE buf[d] = "cgi"
        BY <2>2, <3>1, <4>4
      <4> QED BY <4>1, <4>2, <4>3, <4>4
    <3>2. CASE wire[d] = <<"error">> /\ buf[d] = "cgi"
      BY <2>2, <3>2, ErrorThenCgi
    <3> QED BY <2>1, <3>1, <3>2
  <2>4. Partly(d)'
    BY <1>1, <1>3, <2>3 DEF Partly
  <2>5. C!Begin(d, buf[d])
    BY <1>1, <1>6, <2>1 DEF C!Begin, C!MayBegin, Begun
  <2>6. C!Next
    BY <1>1, <2>1, <2>5 DEF C!Next, C!Respond, Live
  <2> QED BY <1>5, <2>4, <2>6 DEF Goal, WireOf
<1>7. CASE left[d] # RespLen
  <2>1. wire' = wire
    BY <1>1, <1>7 DEF Begun, WireInv
  <2>2. Partly(d)
    BY <1>1, <1>2, <1>3, <1>7 DEF WireInv, WireOf, Unsent, Replaced, IsPart
  <2>3. Partly(d)'
    BY <1>1, <1>3, <2>1, <2>2 DEF Partly
  <2>4. [C!Next]_(C!vars)
    BY <1>1, <2>1, AbstractStutter DEF Live
  <2> QED BY <1>5, <2>3, <2>4 DEF Goal, WireOf
<1> QED BY <1>6, <1>7

\* The effect of CloseClient(d) on the connections.
LEMMA Closed ==
  ASSUME LoopInv, NEW d \in Clients, CloseClient(d)
  PROVE  /\ ~ Live(d)'
         /\ \A c \in Clients \ {d} :
              /\ fd'[c] = fd[c] /\ buf'[c] = buf[c] /\ left'[c] = left[c]
              /\ interest'[c] = interest[c]
  BY NoFdFacts DEF CloseClient, Unregister, Live, LoopInv, TypeOK

\* d is closed and k was appended to what it received.
LEMMA CloseSending ==
  ASSUME LoopInv, WireInv, NEW d \in Clients, Live(d), CloseClient(d), NEW k,
         ev' = ev \/ Handled(d), wire' = [wire EXCEPT ![d] = Append(wire[d], k)],
         C!MayBegin(d, k) \/ k = "timeout"
  PROVE  Goal
<1>1. \A c \in Clients \ {d} : wire'[c] = wire[c] /\ ev'[c] \in {ev[c], "none"}
  BY NoFdFacts DEF WireInv, Handled, LoopInv, TypeOK
<1>2. \A c \in Clients \ {d} : WireOf(c)'
  BY <1>1, Closed, WireSame DEF WireInv
<1>3. WireOf(d)'
  BY Closed DEF WireOf
<1>4. {c \in Clients : Live(c)}' = {c \in Clients : Live(c)} \ {d}
  BY Closed DEF Live
<1>5. C!Close(d)
  <2>1. CASE k = "timeout"
    BY <1>4, <2>1 DEF C!Close
  <2>2. CASE C!MayBegin(d, k)
    BY <1>4, <2>2 DEF C!Close, C!Begin, C!MayBegin
  <2> QED BY <2>1, <2>2
<1> QED BY <1>2, <1>3, <1>5 DEF Goal, C!Next

\* send accepts all that is left, or fails.
LEMMA SendLastStep ==
  ASSUME LoopInv, WireInv, NEW d \in Clients, WireSendLast(d)
  PROVE  Goal
<1>1. ev[d] = "out" /\ Live(d) /\ Handled(d) /\ CloseClient(d)
  BY DEF WireSendLast, SendLast, Dispatch
<1>2. CASE wire' = wire
  BY <1>1, <1>2, CloseStep
<1>3. CASE wire' # wire
  <2>1. wire' = [wire EXCEPT ![d] = Begun(d)]
    BY <1>3 DEF WireSendLast
  <2>2. left[d] = RespLen
    BY <1>3, <2>1 DEF Begun, WireInv
  <2>3. C!MayBegin(d, buf[d])
    BY <1>1, <2>2, SendingIsAnswer DEF C!MayBegin
  <2> QED BY <1>1, <2>1, <2>2, <2>3, CloseSending DEF Begun
<1> QED BY <1>2, <1>3

\* A timeout closes d, with or without bytes of a 408.
LEMMA ExpireStep ==
  ASSUME LoopInv, WireInv, NEW d \in Clients, WireExpireClient(d)
  PROVE  Goal
<1>1. Live(d) /\ CloseClient(d) /\ ev' = ev
  BY DEF WireExpireClient, ExpireClient, NextExpired, batchVars
<1> QED
  BY <1>1, CloseStep, CloseSending DEF WireExpireClient

\* A connection is accepted.
LEMMA AcceptStep ==
  ASSUME LoopInv, WireInv, NEW d \in Clients, WireAccept(d)
  PROVE  Goal
<1>1. /\ ~ Live(d) /\ interest[d] = "none" /\ wire' = [wire EXCEPT ![d] = <<>>]
      /\ UNCHANGED <<ev, buf, left>>
  BY DEF WireAccept, AcceptConn, Fresh, clientVars
<1>2. /\ fd'[d] # NoFd
      /\ \A c \in Clients \ {d} : fd'[c] = fd[c] /\ interest'[c] = interest[c]
  BY NoFdFacts DEF WireAccept, AcceptConn, LoopInv, TypeOK
<1>3. wire'[d] = <<>> /\ \A c \in Clients \ {d} : wire'[c] = wire[c]
  BY <1>1 DEF WireInv
<1>4. \A c \in Clients \ {d} : WireOf(c)'
  BY <1>1, <1>2, <1>3, WireSame DEF WireInv
<1>5. Unsent(d)'
  BY <1>1, <1>3 DEF Unsent, IsPart, LoopInv, PartialInv, PartialOf
<1>6. C!Accept(d)
  BY <1>1, <1>2 DEF C!Accept, Live
<1> QED BY <1>4, <1>5, <1>6 DEF Goal, WireOf, C!Next

\* The answer of a script replaces what its owner has in write_buffer_.
LEMMA NotifyStep ==
  ASSUME LoopInv, WireInv, NEW g \in Cgis, CgiNotifies(g), wire' = wire
  PROVE  Goal
<1>0. PICK d \in Clients : d = owner[g]
  BY DEF CgiNotifies, LoopInv, TypeOK
<1>1. /\ pc = "eof" /\ ev' = ev
      /\ buf' = [buf EXCEPT ![d] = "cgi"]
      /\ left' = [left EXCEPT ![d] = RespLen]
      /\ fd' = [fd EXCEPT ![g] = NoFd]
      /\ interest'[d] = interest[d] \/ interest'[d] = "out"
      /\ \A c \in Clients \ {d} : interest'[c] = interest[c]
  BY <1>0, NoFdFacts DEF CgiNotifies, Reap, Buffer, LoopInv, TypeOK, batchVars
<1>2. \A c \in Clients : fd'[c] = fd[c]
  BY <1>0, <1>1, NoFdFacts, SocketsAssumption DEF LoopInv, TypeOK
<1>3. \A c \in Clients \ {d} : WireOf(c)'
  BY <1>0, <1>1, <1>2, WireSame DEF WireInv, LoopInv, TypeOK
<1>4. buf'[d] = "cgi" /\ left'[d] = RespLen /\ ~ IsPart(RespLen)
  BY <1>0, <1>1 DEF LoopInv, TypeOK, IsPart
<1>5. Live(d) /\ cgi_socket[d] = g
  BY <1>0, <1>1, NoFdFacts DEF LoopInv, LinksInv, LinksAgree, Terminated
<1>6. buf[d] \in {"placeholder", "error"}
  BY <1>0, <1>1, <1>5, SocketsAssumption, NoFdFacts DEF LoopInv, PartialInv, PartialOf
<1>7. ASSUME Unsent(d) PROVE Unsent(d)'
  BY <1>4, <1>7 DEF Unsent
<1>8. ASSUME Partly(d) PROVE Replaced(d)'
  <2>1. interest[d] = "out" /\ ev[d] # "in"
    BY <1>0, <1>1, <1>8 DEF Partly, IsPart, LoopInv, PartialInv, PartialOf
  <2>2. buf[d] = "error"
    BY <1>0, <1>1, <1>6, <2>1 DEF LoopInv, AnswerInv, OutHasAnswer
  <2>3. wire[d] = <<"error">>
    BY <1>8, <2>2 DEF Partly
  <2> QED BY <1>0, <1>1, <1>4, <2>1, <2>3 DEF Replaced
<1>9. WireOf(d)'
  BY <1>0, <1>1, <1>5, <1>6, <1>7, <1>8 DEF WireInv, WireOf, Replaced
<1>10. [C!Next]_(C!vars)
  BY <1>0, <1>2, AbstractStutter DEF Live
<1> QED BY <1>3, <1>9, <1>10 DEF Goal

\* Steps that leave all clients alone.
LEMMA LoopStep ==
  ASSUME LoopInv, WireInv, wire' = wire,
         \/ UNCHANGED vars \/ EpollWait \/ EpollWaitFails \/ BatchDone \/ AcceptFails \/ Tick
         \/ \E o \in Sockets : DispatchDeleted(o)
         \/ \E g \in Cgis : CgiClosesOutput(g) \/ CgiExits(g) \/ CgiRead(g) \/ CgiEof(g)
                            \/ ExpireCgi(g)
  PROVE  Goal
<1>1. UNCHANGED <<fd, buf, left>>
  BY DEF vars, EpollWait, EpollWaitFails, BatchDone, AcceptFails, Tick, DispatchDeleted,
         CgiClosesOutput, CgiExits, CgiRead, CgiEof, ExpireCgi, sockVars, clientVars
<1>2. \A c \in Clients : Live(c) => interest'[c] = interest[c]
  BY NoFdFacts DEF vars, EpollWait, EpollWaitFails, BatchDone, AcceptFails, Tick,
         DispatchDeleted, CgiClosesOutput, CgiExits, CgiRead, CgiEof, ExpireCgi, sockVars
<1>3. \A c \in Clients : ev'[c] \in {ev[c], "none"} \/ ev'[c] = interest[c]
  BY NoFdFacts DEF vars, EpollWait, EpollWaitFails, BatchDone, AcceptFails, Tick,
         DispatchDeleted, CgiClosesOutput, CgiExits, CgiRead, CgiEof, ExpireCgi, batchVars,
         Dispatch, Handled, LoopInv, TypeOK
<1> QED BY <1>1, <1>2, <1>3, IdleStep

\* A CgiSocket goes without telling a client.
LEMMA ReapStep ==
  ASSUME LoopInv, WireInv, wire' = wire, NEW g \in Cgis,
         CgiEndsUnheard(g) \/ RunCgiAddFailsReaped(g) \/ ExpireCgiReaped(g)
  PROVE  Goal
<1>1. /\ fd' = [fd EXCEPT ![g] = NoFd] /\ UNCHANGED <<buf, left, ev>>
      /\ interest' = [interest EXCEPT ![g] = interest'[g]]
  BY NoFdFacts DEF CgiEndsUnheard, RunCgiAddFailsReaped, ExpireCgiReaped, Reap, batchVars,
     LoopInv, TypeOK
<1>2. \A c \in Clients : fd'[c] = fd[c] /\ interest'[c] = interest[c]
  BY <1>1, NoFdFacts DEF LoopInv, TypeOK
<1> QED BY <1>1, <1>2, IdleStep

\* A client's data is handled.
LEMMA SilentClientGoal ==
  ASSUME LoopInv, WireInv, wire' = wire, NEW d \in Clients, SilentClientStep(d)
  PROVE  Goal
<1> USE NoFdFacts DEF LoopInv, TypeOK
<1>1. Live(d) /\ ev[d] = "in" /\ Handled(d)
  BY DEF SilentClientStep, RecvClosed, RecvMore, RecvError, RunSync, RunCgi, RunCgiAddFails,
         Dispatch
<1>2. CASE CloseClient(d)
  BY <1>1, <1>2, CloseStep
<1>3. CASE RecvMore(d)
  BY <1>1, <1>3, ReadStep DEF RecvMore, clientVars
<1>4. ASSUME NEW kind, Answer(d, kind) PROVE Goal
  <2>1. /\ left' = [left EXCEPT ![d] = RespLen] /\ fd' = fd
        /\ buf' = [buf EXCEPT ![d] = kind] /\ interest' = [interest EXCEPT ![d] = "out"]
    BY <1>4 DEF Answer, Buffer
  <2> QED BY <1>1, <2>1, ReadStep
<1>5. ASSUME NEW g \in Cgis, RunCgi(d, g) \/ RunCgiAddFails(d, g) PROVE Goal
  <2>1. /\ left' = [left EXCEPT ![d] = RespLen] /\ buf' = [buf EXCEPT ![d] = "placeholder"]
        /\ \A c \in Clients : fd'[c] = fd[c] /\ interest'[c] = interest[c]
    BY <1>5 DEF RunCgi, RunCgiAddFails, Fork, Buffer
  <2> QED BY <1>1, <2>1, ReadStep
<1> QED
  BY <1>2, <1>3, <1>4, <1>5 DEF SilentClientStep, RecvClosed, RecvError, RunSync

\* Every step keeps the invariant and is a step of Connection, or none.
LEMMA WireStep == LoopInv /\ WireInv /\ [WireNext]_wireVars => WireInv' /\ [C!Next]_(C!vars)
<1> SUFFICES ASSUME LoopInv, WireInv, [WireNext]_wireVars
             PROVE  WireInv' /\ [C!Next]_(C!vars)
  OBVIOUS
<1>1. wire' \in [Clients -> Seq(Sent)]
  <2>1. \A c \in Clients : wire[c] \in Seq(Sent) /\ buf[c] \in Sent
    BY DEF WireInv, LoopInv, TypeOK, Sent
  <2>0. "timeout" \in Sent
    BY DEF Sent
  <2>2. \A c \in Clients : Begun(c) \in Seq(Sent) /\ Append(wire[c], "timeout") \in Seq(Sent)
    BY <2>0, <2>1 DEF Begun
  <2>3. <<>> \in Seq(Sent)
    OBVIOUS
  <2> QED
    BY <2>2, <2>3 DEF WireInv, WireNext, wireVars, WireAccept, WireSendSome, WireSendLast,
                      WireExpireClient
<1>2. Goal
  <2>1. CASE \E c \in Clients : WireAccept(c) \/ WireSendSome(c) \/ WireSendLast(c)
                                \/ WireExpireClient(c)
    BY <2>1, AcceptStep, SendSomeStep, SendLastStep, ExpireStep
  <2>2. CASE UNCHANGED wireVars
    BY <2>2, LoopStep DEF wireVars
  <2>3. CASE SilentStep /\ wire' = wire
    <3>1. ASSUME NEW g \in Cgis, CgiStep(g) PROVE Goal
      BY <2>3, <3>1, LoopStep, ReapStep, NotifyStep DEF CgiStep
    <3> QED BY <2>3, <3>1, LoopStep, SilentClientGoal DEF SilentStep, Environment
  <2> QED BY <2>1, <2>2, <2>3 DEF WireNext
<1> QED BY <1>1, <1>2 DEF Goal, WireInv

\* Init maps to Init.
LEMMA WireInitially == WireInit => WireInv /\ C!Init
  BY NoFdFacts DEF WireInit, Init, WireInv, WireOf, C!Init, Live

\* The event loop implements Connection: on every connection,
\* for any number of clients and scripts and whatever calls fail, at most one
\* answer begins, but a script's after an error, and only a 408 may follow.
THEOREM WireImplementsConnection == WireSpec => ImplementsConnection
<1> DEFINE I == LoopInv /\ WireInv
<1>1. WireInit => I /\ C!Init
  BY LoopInvInit, WireInitially DEF WireInit
<1>2. I /\ [WireNext]_wireVars => I' /\ [C!Next]_(C!vars)
  BY LoopInvNext, WireStep
<1> QED BY <1>1, <1>2, PTL DEF WireSpec, ImplementsConnection, C!Spec
=============================================================================
