------------------------------ MODULE Webserv ------------------------------
(***************************************************************************)
(* The event loop of the server (Webserv::Run, Webserv::CheckTimeout), the *)
(* sockets it owns (ServerSocket, ClientSocket, CgiSocket) and the CGI     *)
(* child processes (CgiExecutor::Run).                                     *)
(*                                                                         *)
(* The loop is one thread.  What interleaves with it are the kernel (which *)
(* sockets are ready, which calls fail), the clock, and the CGI children.  *)
(* A handler runs to its end in one step, except where it calls waitpid:   *)
(* there the loop blocks, and the rest of the handler is a second step.    *)
(*                                                                         *)
(* What a peer sends and whether a socket buffer has room is not state: it *)
(* is the kernel's choice at epoll_wait (which sockets are ready) and at   *)
(* recv, send and read (what the call returns).                            *)
(***************************************************************************)
EXTENDS Integers, FiniteSets

CONSTANTS
    Clients,    \* the ClientSocket objects that can exist at a time
    Cgis,       \* the CgiSocket objects that can exist at a time
    NULL,       \* the null pointer, and an absent entry of sockets_
    Fds,        \* descriptors left to the process (RLIMIT_NOFILE)
    MaxEvents,  \* kMaxEvents
    Timeout,    \* kRequestTimeout, in ticks of the clock
    RespLen,    \* length of a response, in the units send may accept
    MaxFaults,  \* bound on the handlers in which an epoll call fails
    Stubborn    \* CGI children that may outlive their output and SIGTERM

Sockets == Clients \cup Cgis

ASSUME SocketsAssumption ==
    /\ Clients \cap Cgis = {}
    /\ NULL \notin Sockets
    /\ IsFiniteSet(Sockets)
    /\ Stubborn \subseteq Cgis

ASSUME BoundsAssumption ==
    /\ Fds \subseteq Nat
    /\ MaxEvents \in Nat \ {0}
    /\ Timeout \in Nat \ {0}
    /\ RespLen \in Nat \ {0}
    /\ MaxFaults \in Nat

NoFd == -1

VARIABLES
    pc,         \* where the loop is, see Points
    todo,       \* descriptors the running CheckTimeout pass has yet to close
    waitee,     \* the CgiSocket whose child the loop is waiting for
    sockets,    \* sockets_ of Webserv: descriptor -> object
    fd,         \* fd_ of each object; NoFd: the object does not exist
    age,        \* seconds since last_activity_time_, up to Timeout + 1
    interest,   \* epoll registration of the object's open file description
    ev,         \* the batch of epoll_wait: flags still to be dispatched
    lev,        \* the same for the listening sockets
    req,        \* has the request parser reached kDone
    buf,        \* which response write_buffer_ holds
    left,       \* how much of it is still to be sent
    cgi_socket, \* cgi_socket_ of a ClientSocket
    owner,      \* owner_ of a CgiSocket
    proc,       \* the child process of a CgiSocket
    pair,       \* the child's end of the socket pair
    hold,       \* descriptions the child inherited at fork
    faults      \* handlers in which an epoll call failed so far

loopVars   == <<pc, todo, waitee>>
sockVars   == <<sockets, fd, age, interest>>
batchVars  == <<ev, lev>>
clientVars == <<req, buf, left, cgi_socket>>
childVars  == <<proc, pair, hold>>
vars == <<loopVars, sockVars, batchVars, clientVars, owner, childVars, faults>>

(***************************************************************************)
(* "check": in CheckTimeout, or in epoll_wait once todo is empty.          *)
(* "dispatch": in the for loop over the events of Run.                     *)
(* "eof", "expire", "addfail": blocked in waitpid, called by               *)
(* CgiSocket::HandleEvent, by ~CgiSocket under CheckTimeout, by ~CgiSocket *)
(* under Run when EPOLL_CTL_ADD failed.                                    *)
(* "crashed": an event was dispatched to a deleted object.                 *)
(***************************************************************************)
Points == {"check", "dispatch", "eof", "expire", "addfail", "crashed"}

Flags == {"none", "in", "out"}

(***************************************************************************)
(* "placeholder" is the 200 of an asynchronous ExecResult, put into        *)
(* write_buffer_ while the CGI runs; "page" the handler's answer; "error"  *)
(* the answer to a ResponseStatusException; "cgi" the answer built by      *)
(* OnCgiExecutionFinished or OnCgiExecutionError.                          *)
(***************************************************************************)
Responses == {"empty", "placeholder", "page", "error", "cgi"}

TypeOK ==
    /\ pc \in Points
    /\ todo \subseteq Fds
    /\ waitee \in Cgis \cup {NULL}
    /\ sockets \in [Fds -> Sockets \cup {NULL}]
    /\ fd \in [Sockets -> Fds \cup {NoFd}]
    /\ age \in [Sockets -> 0..(Timeout + 1)]
    /\ interest \in [Sockets -> Flags]
    /\ ev \in [Sockets -> Flags]
    /\ lev \in {"none", "in"}
    /\ req \in [Clients -> {"parsing", "done"}]
    /\ buf \in [Clients -> Responses]
    /\ left \in [Clients -> 0..RespLen]
    /\ cgi_socket \in [Clients -> Cgis \cup {NULL}]
    /\ owner \in [Cgis -> Clients \cup {NULL}]
    /\ proc \in [Cgis -> {"none", "running", "zombie"}]
    /\ pair \in [Cgis -> {"open", "closed"}]
    /\ hold \in [Cgis -> SUBSET Sockets]
    /\ faults \in 0..MaxFaults

Init ==
    /\ pc = "check"
    /\ todo = {}
    /\ waitee = NULL
    /\ sockets = [f \in Fds |-> NULL]
    /\ fd = [o \in Sockets |-> NoFd]
    /\ age = [o \in Sockets |-> 0]
    /\ interest = [o \in Sockets |-> "none"]
    /\ ev = [o \in Sockets |-> "none"]
    /\ lev = "none"
    /\ req = [c \in Clients |-> "parsing"]
    /\ buf = [c \in Clients |-> "empty"]
    /\ left = [c \in Clients |-> 0]
    /\ cgi_socket = [c \in Clients |-> NULL]
    /\ owner = [g \in Cgis |-> NULL]
    /\ proc = [g \in Cgis |-> "none"]
    /\ pair = [g \in Cgis |-> "closed"]
    /\ hold = [g \in Cgis |-> {}]
    /\ faults = 0

-----------------------------------------------------------------------------
(***************************************************************************)
(* Objects, descriptors and open file descriptions.                        *)
(***************************************************************************)
Live(o) == fd[o] # NoFd

FreeFds == {f \in Fds : \A o \in Sockets : fd[o] # f}

\* The kernel hands out the lowest free descriptor.
LowestFree(f) == f \in FreeFds /\ \A h \in FreeFds : f <= h

\* A child of CgiSocket h other than `but` still has o's description open.
Held(o, but) == \E h \in Cgis \ {but} : proc[h] = "running" /\ o \in hold[h]

\* An object address not in use: not allocated, not registered, no child, and
\* its former description gone from every process.
Fresh(o) ==
    /\ ~ Live(o)
    /\ interest[o] = "none"
    /\ ~ Held(o, NULL)

\* ASocket::IsTimeout against the threshold computed when the pass begins.
IsTimeout(o) == age[o] > Timeout

\* Mutant: a client that does not read its response is not timed out.
ExpiredReadersOnly ==
    {fd[o] : o \in {p \in Sockets : Live(p) /\ IsTimeout(p) /\ interest[p] = "in"}}

ExpiredFds == {fd[o] : o \in {p \in Sockets : Live(p) /\ IsTimeout(p)}}

\* The socket CheckTimeout closes next: sockets_ is iterated by descriptor.
NextExpired(o) ==
    /\ Live(o)
    /\ fd[o] \in todo
    /\ \A f \in todo : fd[o] <= f

Batch == {o \in Sockets : ev[o] # "none"}

-----------------------------------------------------------------------------
(***************************************************************************)
(* The kernel, the clock and the children.                                 *)
(***************************************************************************)

\* A second passes.
Tick ==
    /\ pc # "crashed"
    /\ age' = [o \in Sockets |->
                 IF Live(o) /\ age[o] <= Timeout THEN age[o] + 1 ELSE age[o]]
    /\ UNCHANGED <<loopVars, sockets, fd, interest, batchVars, clientVars,
                   owner, childVars, faults>>

\* The script closes its standard input and output and goes on.
CgiClosesOutput(g) ==
    /\ pc # "crashed"
    /\ proc[g] = "running"
    /\ pair[g] = "open"
    /\ pair' = [pair EXCEPT ![g] = "closed"]
    /\ UNCHANGED <<loopVars, sockVars, batchVars, clientVars, owner, proc,
                   hold, faults>>

\* The script ends (exec may also have failed).  All its descriptors are
\* closed; a description only it held open leaves the epoll set.
CgiExits(g) ==
    /\ pc # "crashed"
    /\ proc[g] = "running"
    /\ proc' = [proc EXCEPT ![g] = "zombie"]
    /\ pair' = [pair EXCEPT ![g] = "closed"]
    /\ hold' = [hold EXCEPT ![g] = {}]
    /\ interest' = [o \in Sockets |->
                      IF o \in hold[g] /\ ~ Live(o) /\ ~ Held(o, g)
                      THEN "none" ELSE interest[o]]
    /\ UNCHANGED <<loopVars, sockets, fd, age, batchVars, clientVars, owner,
                   faults>>

\* Mutant: ~CgiSocket waits without having sent SIGTERM.
NotTerminated(g) == FALSE

\* ~CgiSocket has sent SIGTERM to the child and is waiting for it.
Terminated(g) == pc \in {"expire", "addfail"} /\ waitee = g

\* The exits scripts owe us: after closing the output, and on SIGTERM.
CgiObeys(g) == (pair[g] = "closed" \/ Terminated(g)) /\ CgiExits(g)

-----------------------------------------------------------------------------
(***************************************************************************)
(* Effects shared by the handlers.                                         *)
(***************************************************************************)

\* HttpResponse stored in write_buffer_.
Buffer(c, kind) ==
    /\ buf' = [buf EXCEPT ![c] = kind]
    /\ left' = [left EXCEPT ![c] = RespLen]

\* Mutant: ~ClientSocket leaves the CgiSocket its owner.
KeepOwner(c) == UNCHANGED owner

\* ~ClientSocket: the CgiSocket it waits for forgets its owner.
ForgetOwner(c) ==
    owner' = [g \in Cgis |-> IF g = cgi_socket[c] THEN NULL ELSE owner[g]]

\* ~CgiSocket: owner_->RemoveCgiSocket(this).
RemoveCgiSocket(g) ==
    cgi_socket' = [c \in Clients |->
                     IF c = owner[g] /\ cgi_socket[c] = g
                     THEN NULL ELSE cgi_socket[c]]

\* Mutant: the entry of sockets_ is not erased.
NoErase(o) == UNCHANGED sockets

\* sockets_.erase(fd).
Erase(o) == sockets' = [sockets EXCEPT ![fd[o]] = NULL]

\* Mutant: no EPOLL_CTL_DEL; close alone unregisters a socket only if no child
\* holds its description.
OnlyClose(c) ==
    interest' = [interest EXCEPT ![c] = IF Held(c, NULL) THEN @ ELSE "none"]

\* EPOLL_CTL_DEL.
Unregister(c) == interest' = [interest EXCEPT ![c] = "none"]

\* EPOLL_CTL_DEL, then the object is erased and deleted.
CloseClient(c) ==
    /\ Unregister(c)
    /\ Erase(c)
    /\ ForgetOwner(c)
    /\ fd' = [fd EXCEPT ![c] = NoFd]
    /\ age' = [age EXCEPT ![c] = 0]
    /\ cgi_socket' = [cgi_socket EXCEPT ![c] = NULL]
    /\ req' = [req EXCEPT ![c] = "parsing"]
    /\ buf' = [buf EXCEPT ![c] = "empty"]
    /\ left' = [left EXCEPT ![c] = 0]

\* The event of o is handled.
Handled(o) == ev' = [ev EXCEPT ![o] = "none"] /\ UNCHANGED lev

\* The loop runs the handler of o, whose event has the given flag.
Dispatch(o, flag) ==
    /\ pc = "dispatch"
    /\ ev[o] = flag
    /\ Live(o)
    /\ Handled(o)

\* One more handler in which an epoll call fails; a second call of the same
\* handler may then fail too, or succeed.
Fault == faults < MaxFaults /\ faults' = faults + 1

-----------------------------------------------------------------------------
(***************************************************************************)
(* Webserv::Run: epoll_wait.                                               *)
(***************************************************************************)

\* Registered sockets the kernel may report: a peer's data, end of stream,
\* room in the send buffer or output of a running script are its choice.
MayBeReady == {o \in Sockets : interest[o] # "none"}

\* The end of a script's output is always reported.
MustBeReady == {g \in Cgis : interest[g] = "in" /\ pair[g] = "closed"}

EpollWait ==
    /\ pc = "check"
    /\ todo = {}
    /\ \E R \in SUBSET MayBeReady, l \in {"none", "in"} :
         /\ MustBeReady \subseteq R
         /\ \E S \in SUBSET R :
              /\ lev' = l
              /\ LET room == IF l = "in" THEN MaxEvents - 1 ELSE MaxEvents
                 IN  \/ S = R /\ Cardinality(S) <= room
                     \/ Cardinality(R) > room /\ Cardinality(S) = room
              /\ ev' = [o \in Sockets |->
                          IF o \in S THEN interest[o] ELSE "none"]
    /\ pc' = "dispatch"
    /\ UNCHANGED <<todo, waitee, sockVars, clientVars, owner, childVars,
                   faults>>

\* epoll_wait fails: the iteration starts again, with CheckTimeout.
EpollWaitFails ==
    /\ pc = "check"
    /\ todo = {}
    /\ Fault
    /\ todo' = ExpiredFds
    /\ UNCHANGED <<pc, waitee, sockVars, batchVars, clientVars, owner, childVars>>

\* The batch is done: a new iteration, which starts with CheckTimeout.
BatchDone ==
    /\ pc = "dispatch"
    /\ Batch = {} /\ lev = "none"
    /\ pc' = "check"
    /\ todo' = ExpiredFds
    /\ UNCHANGED <<waitee, sockVars, batchVars, clientVars, owner, childVars,
                   faults>>

\* The loop takes an event whose object was deleted: undefined behaviour,
\* of which nothing is modelled but that it happened.
DispatchDeleted(o) ==
    /\ pc = "dispatch"
    /\ ev[o] # "none"
    /\ ~ Live(o)
    /\ pc' = "crashed"
    /\ UNCHANGED <<todo, waitee, sockVars, batchVars, clientVars, owner,
                   childVars, faults>>

-----------------------------------------------------------------------------
(***************************************************************************)
(* ServerSocket::HandleEvent, and Run's registration of the new socket.    *)
(***************************************************************************)
AcceptConn(c) ==
    /\ pc = "dispatch"
    /\ lev = "in" /\ lev' = "none"
    /\ Fresh(c)
    /\ \E f \in Fds :
         /\ LowestFree(f)
         /\ fd' = [fd EXCEPT ![c] = f]
         /\ sockets' = [sockets EXCEPT ![f] = c]
    /\ age' = [age EXCEPT ![c] = 0]
    /\ interest' = [interest EXCEPT ![c] = "in"]
    /\ UNCHANGED <<loopVars, ev, clientVars, owner, childVars, faults>>

\* accept fails (no descriptor left, connection aborted), or EPOLL_CTL_ADD does
\* and the ClientSocket is erased and deleted again.
AcceptFails ==
    /\ pc = "dispatch"
    /\ lev = "in" /\ lev' = "none"
    /\ \/ UNCHANGED faults
       \/ FreeFds # {} /\ Fault
    /\ UNCHANGED <<loopVars, sockVars, ev, clientVars, owner, childVars>>

-----------------------------------------------------------------------------
(***************************************************************************)
(* ClientSocket::HandleEvent.                                              *)
(***************************************************************************)

\* recv returns 0 or -1: ConnectionClosed.  An exception that carries no status
\* ends in the same way.
RecvClosed(c) ==
    /\ Dispatch(c, "in")
    /\ CloseClient(c)
    /\ UNCHANGED <<loopVars, childVars, faults>>

\* The request is not complete yet.
RecvMore(c) ==
    /\ Dispatch(c, "in")
    /\ req[c] = "parsing"
    /\ age' = [age EXCEPT ![c] = 0]
    /\ UNCHANGED <<loopVars, sockets, fd, interest, clientVars, owner,
                   childVars, faults>>

\* A response replaces write_buffer_ and EPOLL_CTL_MOD waits for EPOLLOUT.
Answer(c, kind) ==
    /\ Buffer(c, kind)
    /\ interest' = [interest EXCEPT ![c] = "out"]
    /\ age' = [age EXCEPT ![c] = 0]
    /\ UNCHANGED <<loopVars, sockets, fd, cgi_socket, owner, childVars>>

\* Parse throws: a malformed request, or data after a complete one.  If
\* EPOLL_CTL_MOD fails, the client is closed.
RecvError(c) ==
    /\ Dispatch(c, "in")
    /\ \/ Answer(c, "error") /\ UNCHANGED <<req, faults>>
       \/ Fault /\ CloseClient(c) /\ UNCHANGED <<loopVars, childVars>>

\* The request is complete and answered at once.  If EPOLL_CTL_MOD fails, that
\* is a ResponseStatusException, whose handler tries EPOLL_CTL_MOD again and
\* closes the client if that fails too.
RunSync(c) ==
    /\ Dispatch(c, "in")
    /\ req[c] = "parsing"
    /\ \/ /\ req' = [req EXCEPT ![c] = "done"]
          /\ \/ Answer(c, "page") /\ UNCHANGED faults
             \/ Fault /\ Answer(c, "error")
       \/ Fault /\ CloseClient(c) /\ UNCHANGED <<loopVars, childVars>>

(***************************************************************************)
(* CgiExecutor::Run: socketpair needs two descriptors; the child gets a    *)
(* copy of every descriptor the server has open (no FD_CLOEXEC) and closes *)
(* its copy of sv[0].  The client was touched before the fork and may be a *)
(* second older than the CgiSocket.                                        *)
(***************************************************************************)
Fork(c, g) ==
    /\ Fresh(g) /\ proc[g] = "none"
    /\ \E f \in Fds :
         /\ LowestFree(f) /\ FreeFds # {f}
         /\ fd' = [fd EXCEPT ![g] = f]
    /\ proc' = [proc EXCEPT ![g] = "running"]
    /\ pair' = [pair EXCEPT ![g] = "open"]
    /\ hold' = [hold EXCEPT ![g] = {o \in Sockets : Live(o)}]
    /\ owner' = [owner EXCEPT ![g] = c]
    /\ \E late \in {0, 1} : age' = [age EXCEPT ![c] = late, ![g] = 0]
    /\ req' = [req EXCEPT ![c] = "done"]
    /\ Buffer(c, "placeholder")

\* Mutant: no return after an asynchronous result; the client waits for EPOLLOUT.
RunCgiFallsThrough(c, g) ==
    /\ Dispatch(c, "in")
    /\ req[c] = "parsing"
    /\ Fork(c, g)
    /\ cgi_socket' = [cgi_socket EXCEPT ![c] = g]
    /\ sockets' = [sockets EXCEPT ![fd'[g]] = g]
    /\ interest' = [interest EXCEPT ![g] = "in", ![c] = "out"]
    /\ UNCHANGED <<loopVars, faults>>

\* The request is complete and a CGI script answers it: the client keeps
\* EPOLLIN, and Run registers the CgiSocket.
RunCgi(c, g) ==
    /\ Dispatch(c, "in")
    /\ req[c] = "parsing"
    /\ Fork(c, g)
    /\ cgi_socket' = [cgi_socket EXCEPT ![c] = g]
    /\ sockets' = [sockets EXCEPT ![fd'[g]] = g]
    /\ interest' = [interest EXCEPT ![g] = "in"]
    /\ UNCHANGED <<loopVars, faults>>

\* The same, but EPOLL_CTL_ADD fails: Run erases and deletes the CgiSocket,
\* whose destructor signals the child and waits for it.
RunCgiAddFails(c, g) ==
    /\ Dispatch(c, "in")
    /\ req[c] = "parsing"
    /\ Fault
    /\ Fork(c, g)
    /\ cgi_socket' = [cgi_socket EXCEPT ![c] = NULL]
    /\ pc' = "addfail"
    /\ waitee' = g
    /\ UNCHANGED <<todo, sockets, interest>>

\* Mutant: what is left is not compared with what send accepted.
SendUnchecked(c) ==
    /\ Dispatch(c, "out")
    /\ \E n \in 1..RespLen : left' = [left EXCEPT ![c] = @ - n]
    /\ age' = [age EXCEPT ![c] = 0]
    /\ UNCHANGED <<loopVars, sockets, fd, interest, req, buf, cgi_socket,
                   owner, childVars, faults>>

\* HandleEpollOut: send accepts n units, not all.
SendSome(c) ==
    /\ Dispatch(c, "out")
    /\ \E n \in 1..(left[c] - 1) : left' = [left EXCEPT ![c] = @ - n]
    /\ age' = [age EXCEPT ![c] = 0]
    /\ UNCHANGED <<loopVars, sockets, fd, interest, req, buf, cgi_socket,
                   owner, childVars, faults>>

\* HandleEpollOut: send accepts all that is left, or fails: ConnectionClosed.
SendLast(c) ==
    /\ Dispatch(c, "out")
    /\ left[c] > 0
    /\ CloseClient(c)
    /\ UNCHANGED <<loopVars, childVars, faults>>

-----------------------------------------------------------------------------
(***************************************************************************)
(* CgiSocket::HandleEvent, and the end of ~CgiSocket.                      *)
(***************************************************************************)

\* Mutant: output of the script counts as activity of the client only.
CgiReadTouchesOwner(g) ==
    /\ Dispatch(g, "in")
    /\ age' = [o \in Sockets |-> IF o = owner[g] THEN 0 ELSE age[o]]
    /\ UNCHANGED <<loopVars, sockets, fd, interest, clientVars, owner, childVars,
                   faults>>

\* read returns output of the script, kept in read_buffer_.  The timer is
\* not touched.
CgiRead(g) ==
    /\ Dispatch(g, "in")
    /\ UNCHANGED <<loopVars, sockVars, clientVars, owner, childVars, faults>>

\* read returns 0: waitpid.
CgiEof(g) ==
    /\ Dispatch(g, "in")
    /\ pair[g] = "closed"
    /\ pc' = "eof"
    /\ waitee' = g
    /\ UNCHANGED <<todo, sockVars, clientVars, owner, childVars, faults>>

\* Mutant: waitpid with WNOHANG.
ReapNoHang(g, point, next) ==
    /\ pc = point /\ waitee = g
    /\ proc' = [proc EXCEPT ![g] = IF @ = "zombie" THEN "none" ELSE @]
    /\ fd' = [fd EXCEPT ![g] = NoFd]
    /\ owner' = [owner EXCEPT ![g] = NULL]
    /\ pc' = next
    /\ waitee' = NULL
    /\ UNCHANGED <<batchVars, req, pair, hold>>

\* waitpid, called at the given point, returns; the CgiSocket is then deleted
\* and the loop goes on at the point next.
Reap(g, point, next) ==
    /\ pc = point /\ waitee = g
    /\ proc[g] = "zombie"
    /\ proc' = [proc EXCEPT ![g] = "none"]
    /\ fd' = [fd EXCEPT ![g] = NoFd]
    /\ owner' = [owner EXCEPT ![g] = NULL]
    /\ pc' = next
    /\ waitee' = NULL
    /\ UNCHANGED <<batchVars, req, pair, hold>>

\* OnCgiExecutionFinished or OnCgiExecutionError on the owner.  If EPOLL_CTL_MOD
\* of the owner fails, that is only logged.
CgiNotifies(g) ==
    /\ owner[g] # NULL
    /\ Reap(g, "eof", "dispatch")
    /\ Erase(g) /\ RemoveCgiSocket(g)
    /\ Buffer(owner[g], "cgi")
    /\ age' = [age EXCEPT ![g] = 0, ![owner[g]] = 0]
    /\ \/ /\ interest' = [interest EXCEPT ![g] = "none", ![owner[g]] = "out"]
          /\ UNCHANGED faults
       \/ interest' = [interest EXCEPT ![g] = "none"] /\ Fault
    /\ UNCHANGED todo

\* The client is gone; or EPOLL_CTL_DEL fails, the handler's catch tries it
\* again, and the owner is not told.
CgiEndsUnheard(g) ==
    /\ Reap(g, "eof", "dispatch")
    /\ Erase(g) /\ RemoveCgiSocket(g)
    /\ \/ owner[g] = NULL /\ UNCHANGED faults
       \/ Fault
    /\ age' = [age EXCEPT ![g] = 0]
    /\ interest' = [interest EXCEPT ![g] = "none"]
    /\ UNCHANGED <<todo, buf, left>>

\* The CgiSocket that could not be registered is gone.
RunCgiAddFailsReaped(g) ==
    /\ Reap(g, "addfail", "dispatch")
    /\ age' = [age EXCEPT ![g] = 0]
    /\ UNCHANGED <<todo, sockets, interest, cgi_socket, buf, left, faults>>

-----------------------------------------------------------------------------
(***************************************************************************)
(* Webserv::CheckTimeout.                                                  *)
(***************************************************************************)

\* ClientSocket::HandleTimeout sends what it can of a 408 and leaves the epoll
\* set; then the socket is deleted.
ExpireClient(c) ==
    /\ pc = "check"
    /\ NextExpired(c)
    /\ CloseClient(c)
    /\ todo' = todo \ {fd[c]}
    /\ UNCHANGED <<pc, waitee, batchVars, childVars, faults>>

\* ASocket::HandleTimeout does nothing for a CgiSocket; its destructor signals
\* the child and waits for it.
ExpireCgi(g) ==
    /\ pc = "check"
    /\ NextExpired(g)
    /\ RemoveCgiSocket(g)
    /\ pc' = "expire"
    /\ waitee' = g
    /\ UNCHANGED <<todo, sockVars, batchVars, req, buf, left, owner, childVars,
                   faults>>

\* Mutant: the descriptor is not closed with the object.
ExpireCgiLeaks(g) ==
    /\ Reap(g, "expire", "check")
    /\ Erase(g)
    /\ age' = [age EXCEPT ![g] = 0]
    /\ todo' = todo \ {fd[g]}
    /\ UNCHANGED <<interest, cgi_socket, buf, left, faults>>

\* The descriptor is closed without EPOLL_CTL_DEL: the registration goes only
\* if no child has the description open too.
ExpireCgiReaped(g) ==
    /\ Reap(g, "expire", "check")
    /\ Erase(g)
    /\ age' = [age EXCEPT ![g] = 0]
    /\ interest' = [interest EXCEPT ![g] = IF Held(g, NULL) THEN @ ELSE "none"]
    /\ todo' = todo \ {fd[g]}
    /\ UNCHANGED <<cgi_socket, buf, left, faults>>

-----------------------------------------------------------------------------
ClientStep(c) ==
    \/ AcceptConn(c)
    \/ RecvClosed(c) \/ RecvMore(c) \/ RecvError(c) \/ RunSync(c)
    \/ \E g \in Cgis : RunCgi(c, g) \/ RunCgiAddFails(c, g)
    \/ SendSome(c) \/ SendLast(c)
    \/ ExpireClient(c)

CgiStep(g) ==
    \/ CgiRead(g) \/ CgiEof(g)
    \/ CgiNotifies(g) \/ CgiEndsUnheard(g) \/ RunCgiAddFailsReaped(g)
    \/ ExpireCgi(g) \/ ExpireCgiReaped(g)

\* What the thread of the server does.
Loop ==
    \/ EpollWait \/ EpollWaitFails \/ BatchDone
    \/ \E o \in Sockets : DispatchDeleted(o)
    \/ AcceptFails
    \/ \E c \in Clients : ClientStep(c)
    \/ \E g \in Cgis : CgiStep(g)

\* What happens around it.
Environment ==
    \/ Tick
    \/ \E g \in Cgis : CgiClosesOutput(g) \/ CgiExits(g)

Next == Loop \/ Environment

(***************************************************************************)
(* The server's thread runs, time passes, and a script that is not         *)
(* stubborn ends once it has closed its output or got SIGTERM.  Nothing is *)
(* assumed of clients.                                                     *)
(***************************************************************************)
Fairness ==
    /\ WF_vars(Loop)
    /\ WF_vars(Tick)
    /\ \A g \in Cgis \ Stubborn : WF_vars(CgiObeys(g))

Spec == Init /\ [][Next]_vars /\ Fairness

-----------------------------------------------------------------------------
(***************************************************************************)
(* Properties.                                                             *)
(***************************************************************************)

\* cgi_socket_ and owner_ never dangle and agree with each other: a client that
\* waits for a CgiSocket is the owner of that live object, and an owner is a
\* live client that waits for it, but while ~CgiSocket has already detached it.
LinksAgree ==
    /\ \A c \in Clients : cgi_socket[c] # NULL =>
         Live(c) /\ Live(cgi_socket[c]) /\ owner[cgi_socket[c]] = c
    /\ \A g \in Cgis : owner[g] # NULL =>
         /\ Live(g) /\ Live(owner[g])
         /\ cgi_socket[owner[g]] = g \/ Terminated(g)

\* sockets_ holds exactly the live objects, each under its own descriptor, over
\* any reuse of descriptors by the kernel; only a CgiSocket whose registration
\* failed leaves the map before it is deleted.
SocketsExact ==
    /\ \A f \in Fds : sockets[f] # NULL => fd[sockets[f]] = f
    /\ \A o \in Sockets : Live(o) =>
         sockets[fd[o]] = o \/ (pc = "addfail" /\ waitee = o)

\* The epoll set and the batch being dispatched never refer to a deleted
\* ClientSocket, whoever deleted it.
ClientEventsLive ==
    \A c \in Clients : interest[c] # "none" \/ ev[c] # "none" => Live(c)

\* A registration outlives its CgiSocket only in one way: it was closed by
\* CheckTimeout while another child, forked later, had inherited it.
DanglingOnlyIfInherited ==
    \A g \in Cgis : interest[g] # "none" /\ ~ Live(g) => Held(g, NULL)

\* No event is dispatched to a deleted object.
NoUseAfterFree == pc # "crashed"

\* Every child has a CgiSocket that will wait for it: no zombie is left behind.
NoOrphanChild == \A g \in Cgis : proc[g] # "none" => Live(g)

\* A client is told to write only when write_buffer_ holds its answer: never the
\* 200 that stands in for a CGI answer, and never an empty buffer, on which
\* EPOLLOUT would fire for ever.
OutHasAnswer ==
    \A c \in Clients : "out" \in {interest[c], ev[c]} =>
        buf[c] \notin {"empty", "placeholder"} /\ left[c] > 0

\* As long as epoll_ctl does not fail, a client that waits for a CGI answer has
\* a CgiSocket that will answer it, or is closed with it in the same
\* CheckTimeout pass, whatever the order of their descriptors.
NoStrandedClient ==
    faults = 0 => \A c \in Clients : Live(c) /\ buf[c] = "placeholder" =>
        cgi_socket[c] # NULL \/ fd[c] \in todo

\* A response of which a part was sent is not replaced by another one, except
\* the answer to data after the request, by the answer of the CGI script.
PartialResponseKept ==
    [][\A c \in Clients :
         /\ Live(c) /\ fd'[c] = fd[c]
         /\ left[c] \in 1..(RespLen - 1)
         /\ left'[c] > left[c] \/ buf'[c] # buf[c]
         => buf[c] = "error" /\ buf'[c] = "cgi"]_vars

\* The loop never hangs: it always comes back to epoll_wait.
LoopReturns == []<>(pc = "check" /\ todo = {})

\* A connection on which no more data arrives is closed in the end, and the peer
\* sees it: no child keeps the description open for ever.
QuietClientIsClosed ==
    \A c \in Clients :
        <>[][~ RecvMore(c)]_vars => (Live(c) ~> ~ Live(c) /\ ~ Held(c, NULL))
=============================================================================
