# A TLA+ model of the web server

The server is one process with one thread: an `epoll` loop that owns every
socket, parses requests as their bytes arrive, answers them from files or hands
them to CGI scripts, which run as child processes. This directory holds TLA+
modules that model it, TLC configurations that check them on small instances,
and proofs that TLAPS checks for every size.

## The system

| part | state it keeps | operations | talks to |
|---|---|---|---|
| event loop (`Webserv`) | `sockets_` (descriptor to object), the batch of `epoll_wait` | `Run`, `CheckTimeout` | calls every socket; owns and deletes them |
| `ServerSocket` | listening descriptor | `HandleEvent` (accept) | hands a `ClientSocket` to the loop |
| `ClientSocket` | `req_`, `write_buffer_`, timer, `cgi_socket_` | `HandleEvent`, `HandleTimeout`, `OnCgiExecutionFinished`/`Error`, `RemoveCgiSocket`, destructor | parser, handler, epoll; back pointer to a `CgiSocket` |
| `CgiSocket` | `pid_`, `owner_`, output so far, timer | `HandleEvent`, destructor | the child; calls back its owner |
| `CgiExecutor`, `Fd` | the meta-variables, `script_path_`; which object owns which descriptor | `InitializeMetaVars`, `Run` (extension check, socketpair, fork, exec, the write of the body) | hands a `CgiSocket` to the loop through `ExecResult` |
| `StreamParser`, `HttpRequest` | `buffer_`, `buffer_read_pos_`, `state_`, `content_length_`, `next_chunk_size_`, `body_` | `Parse`, `AdvanceHeader`, `AdvanceBody` | called by `ClientSocket` with what `recv` returned |
| `RequestHandler`, `FileValidator`, location lookup | the matched location, the path | `Run`, `HandleGet`/`Post`/`Delete` | file system, `CgiExecutor` |
| `ConfigParser`, `ServerConfig`, `Location`, `host_validation` | server blocks, locations and the flags of what was given | `Parse` and one function a directive, at start-up | `InitServersFromConfigs` keeps one block a port; read by everyone afterwards |
| `CgiResponseParser`, `HttpResponse` | the output of a script, the response made of it | `AdvanceHeader`, `AdvanceBody`, `StoreHeader`, `ToHttpString` | called by `ClientSocket` when the output has ended |

There are no threads and no locks. What makes the server hard is what happens
around its one thread:

* **the kernel** chooses which sockets are ready, in which order they are
  reported, where the stream is cut into `recv` results, how much `send`
  accepts, which descriptor number comes next, and which calls fail;
* **the clock** expires a client and its script by two separate timers;
* **the children** end when they like, and hold copies of every descriptor the
  server had open when they were forked;
* **raw pointers** connect `epoll` registrations, `sockets_`, `cgi_socket_` and
  `owner_`, and any of four handlers may delete either end;
* **`waitpid`** blocks the only thread.

What makes each part correct: the loop never follows a pointer to a deleted
object and always comes back to `epoll_wait`; every child is waited for; a
client gets its own answer, once, and never the placeholder; a silent client is
closed; the parser accepts the same requests however the stream is cut, bounds
what it keeps, and returns; the handler picks the longest matching location and
never leaves its root; a script is the file the path names, is connected to the
server by one end each, and gets its body; its output becomes one delimited
response with the status and the body it gave; start-up ends on every file, with
the values the file gives and one socket a port, or with nothing left open. `PROJECT.json` lists the hazards with their lines, and
the properties that would show them going wrong.

## Modules

| module | models |
|---|---|
| `Webserv` | event loop, the three kinds of sockets, CGI children, epoll set, descriptors, clock |
| `WebservWire` | `Webserv` with what each peer receives, as a history variable |
| `Connection` | the abstract specification of what a peer may receive |
| `MCWebserv` | symmetry for TLC |
| `WebservProofs` | proofs about `Webserv`: types, pointers, epoll set, children; `sockets_`, stale events and answers; `CheckTimeout`; and that `WebservWire` implements `Connection` |
| `HttpRequest` | the incremental request parser |
| `ChunkedDecoder` | a reference decoder of the chunked encoding, and the properties that compare the parser with it |
| `MCHttpRequest` | clients for TLC |
| `HttpRequestProofs` | proofs about the parser: its buffer, its limits, bodies with a Content-Length, and that a chunked body is the reference decoder's |
| `Induction` | induction over the naturals, which the proofs about sequences rest on |
| `Paths` | operators on paths shared by the next modules: trimming, segments, normalisation; what a location leaves of a path, the checks of `FileValidator`, the index file |
| `CgiPath` | where a path ends its script and begins its PATH_INFO |
| `PathsProofs` | lemmas about both, for paths of any length |
| `RequestHandler` | location lookup, path validation, GET, POST, DELETE, what a CGI request executes |
| `MCRequestHandler` | paths and locations for TLC |
| `RequestHandlerProofs` | proofs about the choice of a location, the path checks and the files reached |
| `CgiExecutor` | the path of a script in its location, its meta-variables, the pair of sockets, `fork`, the child, the body |
| `MCCgiExecutor` | requests for TLC |
| `CgiExecutorProofs` | proofs about the owners of the pair's ends, and about the split of a path |
| `CgiResponse` | the output of a script: collecting it, its header, the response |
| `MCCgiResponse` | scripts for TLC |
| `CgiResponseProofs` | proofs about the header loop, the body, the status and the framing |
| `HostValidation` | `IsValidHost` |
| `HostGrammar` | a reference for it |
| `Config` | start-up: every directive, the blocks that serve, the listening sockets |
| `MCConfig` | files and hosts for TLC |
| `ConfigProofs` | proofs about the flags, the locations, the ports and the hosts |

`Webserv` is where the components meet. What the parser and the handler decide
is a choice there (`RecvMore`, `RecvError`, `RunSync`, `RunCgi`), and so is what
a script's output becomes (`CgiNotifies`); `HttpRequest`, `RequestHandler`,
`CgiExecutor` and `CgiResponse` say what those decisions are, and `Config` what
state the server starts in.

### Webserv

Objects of `Clients` and `Cgis` stand for addresses: `fd[o] = NoFd` means that
no object lives there, and a later connection may reuse the address. `sockets`,
`age`, `cgi_socket`, `owner` are the members of the same names (`age` counts up
where the code stores `last_activity_time_`). `interest` is the registration in
the epoll set. It belongs to the open file description, not to the descriptor:
it ends with `EPOLL_CTL_DEL` or with the last copy of the description, and
`hold[g]` is what child `g` inherited. `ev` and `lev` are the part of the
current batch not yet dispatched; `buf` says which response `write_buffer_`
holds and `left` how much of it is unsent; `proc` and `pair` are the child and
its end of the socket pair.

A handler is one step, with the tail of `Run` that registers or deletes sockets
in it. Where a handler calls `waitpid` it is two steps, because children,
clock and kernel go on in between:

| action | code |
|---|---|
| `EpollWait`, `EpollWaitFails`, `BatchDone` | `Webserv::Run`, the loop itself |
| `DispatchDeleted` | an event whose object is gone; the model stops at `"crashed"` |
| `AcceptConn`, `AcceptFails` | `ServerSocket::HandleEvent`, registration |
| `RecvClosed`, `RecvMore`, `RecvError`, `RunSync` | `ClientSocket::HandleEvent` on `EPOLLIN` |
| `RunCgi`, `RunCgiAddFails`, `RunCgiAddFailsReaped` | the same for a CGI request, `CgiExecutor::Run` |
| `SendSome`, `SendLast` | `ClientSocket::HandleEpollOut` |
| `CgiRead`, `CgiEof`, `CgiNotifies`, `CgiEndsUnheard` | `CgiSocket::HandleEvent`, callbacks on the owner, deletion |
| `ExpireClient`, `ExpireCgi`, `ExpireCgiReaped` | `Webserv::CheckTimeout` |
| `Tick`, `CgiClosesOutput`, `CgiExits` | clock and children |

`CheckTimeout` takes the time once, so the set of expired sockets (`todo`) is
fixed when the pass begins, and it walks `sockets_` in the order of descriptors.

Abstractions: all listening sockets are one flag (`accept` on any of them does
the same); an epoll event is `EPOLLIN` or `EPOLLOUT`, as only one of them is
ever registered; contents of requests and responses are left out; when
`EPOLL_CTL_DEL` fails, the second attempt in the same handler succeeds. An
address whose old description is still held by a child is not reused, so that a
stale event is seen as such.

### WebservWire and Connection

`wire[c]` is the sequence of responses of which the peer of `c` was sent bytes.
It grows when `HandleEpollOut` sends the first bytes of a buffer, and when
`HandleTimeout` sends its 408; both calls may also send nothing. No action of
`Webserv` depends on it.

`Connection` knows neither epoll nor scripts nor timers. It says which sequences
a peer may see: nothing; one answer; after an error, the answer of a script that
was still running (the 400 for surplus data, see `PartialResponseKept`); at the
end, and only there, a 408 the code sends into whatever came before. A closed
connection is not heard of again. The mapping is `open <- {c : Live(c)}`, `wire`
to itself. The two exceptions are what the code does; the abstraction makes them
visible, and shows that there are no others.

### HttpRequest

One step is one `recv` (`Recv`) or one turn of the loop in `Parse` (the
`Advance` actions). The body is a sequence of bytes, as where a segment ends in
a chunk is what matters. The header block is parsed in one go once its blank
line has arrived, so it is a record with one field for each thing the checks
look at, and each `Consume...`/`Parse...`/`Validate...` operator lists its
function's checks in the order of the code with the status thrown. In
`ParseChunkSize` the digits are `0`, `1`, `2` and `SizeBits` is small, so that
overflow of `size_t` is reached with three digits. A kind of client is given by
the header blocks it may send, the bytes of its body and how many it sends.

`ChunkedDecoder` decodes the same encoding one byte at a time without a buffer.
It is the reference, not code of the repository.

### RequestHandler

Paths are sequences over `/`, `.` and `a`: the code compares characters, and
its mistakes would be about segment boundaries. The file system is asked anew
for every call and may answer anything. The properties compare with definitions
over segments. For a CGI request, what is executed is the path up to
its script, so a name in the root itself may end it; `TargetUnderRoot` says so.
The loops of `SplitPathSegments` and `NormalizePathBySegments` are functions from
the number of elements taken to the state of the loop (`Scan`, `Stacked`,
`Join`), which TLC evaluates and TLAPS can reason about.

### CgiExecutor

A request comes with its location: name, root, index file, extensions, and
whether the path is a directory (`IsDirectory`, or a slash at the end). `Init` is
where `RequestHandler` makes a `CgiExecutor`: the path is the root and what the
location's name leaves of the request path, with the index file if that is a
directory, normalised (`ScriptPath`), and both path checks are passed
(`IsHandled`). The constructor splits it (`InitializeMetaVars`); `Run` is one
step for each call that can fail or that the child can run beside: `Socketpair`,
`Fork`, `NewCgiSocket`, `Send`, `Return`, with `SocketpairFails`, `ForkFails`
and `Forbidden` as ways out. The child's steps are `Exec`, `Read` and `Leave`
(`execve` fails, or the script ends). `fds` says what each `Fd` object owns: a copy takes the descriptor from
its source, as `Fd`'s copy constructor does, and destruction closes what is
left. `queued` and `taken` count the bytes of the body on their way; `Capacity`
is what a non-blocking write can hand over at most while nobody reads.

`SplitsAtSegment` is about extensions without a slash: `ParseCgiAllowedExtensions`
takes any word, and one such as `p/a` is found across a segment boundary, which
the run includes.

SCRIPT_NAME is cut from the URI by the length of a PATH_INFO that comes from
another path: the URI has the location's name where that path has a root, and
nothing where it has an index file. `MetaVarsSplitUri` says that the cut is right
nevertheless: both parts together are the URI, and a request for SCRIPT_NAME in
the same location runs the same file. It is about request paths that are their own
normal form, and it needs that no script is found in the normalised root, or, for
an index file, in its directory. Without these the cut is wrong: for the index
`a` in a directory `/d.p` with the extension `.p`, the script is the directory,
PATH_INFO is `/a`, and SCRIPT_NAME loses two characters of `/d.p`.

### CgiResponse

The output is a sequence of symbols: CR, LF, text, and header fields of which
one symbol stands for name, colon and value. That keeps what the code depends
on: which line end comes where, and which field precedes which. `ReadHeaderLine`
is one turn of the loop in `AdvanceHeader`; the ways to refuse are actions of
their own, and all of them end in the 500 of `OnCgiExecutionFinished`. A kind of
script is given by what it may write at a time.

### Config

The file is chosen as it is read: `left` words are still to come, each any word
of the file's vocabulary. `Spelling` gives the characters of a word, and the
conversions (`Atoi`, `IsListen`, `ResolveRootPath`, ...) work on them, so a word
is accepted for a directive exactly when the code's conversion accepts it. A
directive with its value and semicolon is one action; lists are one action a
word, as they end in three different ways. Every refusal throws, which ends the
process and with it all that was built. After the file, one action a port opens
the listening sockets, and any of them may fail.

`Atoi` computes in two halves of 16 bits, as TLC's integers have 32 bits:
numbers that wrap an `int` wrap here.

## Runs

| run | shows |
|---|---|
| `webserv_safety` | consistency of pointers, map, epoll set, children and responses |
| `webserv_live` | the loop returns, silent clients are closed, an answer that has begun ends, no stale event, and `Connection` is implemented; one script at a time |
| `webserv_uaf` | **violation**: a stale event when a second script inherits the first one's socket |
| `webserv_hang` | **violation**: the loop blocks on a script that does not end |
| `request_body` | header blocks, chunked and fixed-length bodies over every segmentation |
| `request_malformed` | **violation**: a chunk-size line without digits is not refused |
| `request_handler` | routing and path containment |
| `cgi_executor` | the script by segments, SCRIPT_NAME and PATH_INFO, owners of the pair, the body that fits |
| `cgi_body` | **violation**: a body that does not fit is cut off |
| `cgi_response` | header and body of a script's output, status and framing of the response |
| `cgi_framing` | **violation**: both framing headers of a script are passed on |
| `config` | directives, blocks, ports, failures of start-up, hosts |

The violations are disagreements between the code and what the repository says
of it; `findings` in `PROJECT.json` quotes both sides. Modelling showed further
ones that no run is kept for:

* a `Content-Length` above `kMaxPayloadSize` is answered 400
  (`HttpRequest_consumeHeader.cpp:75`), while `README.md:139` asks for 413 above
  the limit; a port in `Host` that is no number is answered 500
  (`HttpRequest_consumeHeader.cpp:35`), while `AdvanceHeader`'s contract says
  `BAD_REQUEST`;
* `client_max_body_size 4294967296` is accepted as 0
  (`ConfigParser_parseMaxBody.cpp:8`, `std::atoi` wraps), while the test
  `ParseMaxBody_OverUpperBound_Throws` says that too large a size is refused;
* a server block without `client_max_body_size` has the limit 0, which
  `ClientSocket.cpp:35` puts in place of the `kMaxPayloadSize` that the comment
  in `HttpRequest.hpp:30` calls the default;
* a location without `root` keeps `"./"` (`location.cpp:6`), which
  `RequestHandler.cpp:79` assumes to be absolute: its requests end in a 400;
* an IPv4 address with a dot at its end is accepted (`host_validation.cpp:51`:
  `getline` sees no fifth piece), while the comment `host_validation.cpp:5-11`
  lets in only valid addresses and wants malformed hosts rejected. The reference,
  `HostGrammar`, refuses it; `HostAgrees` names it as the one host that
  `IsValidHost` accepts and the grammar does not;
* the server never shuts down its side of the pair, so a script that reads its
  input to the end waits until it is timed out.

### Bounds

* `webserv_safety`: two clients and two scripts are the smallest instance in
  which one script's child holds another's socket and a new connection gets the
  address of a closed one whose `CgiSocket` is still in `sockets_`. (While a child
  holds the old connection's description, `Fresh` gives out another address, as
  the model keeps registrations and descriptions by object.) Four descriptors are fewer
  than four sockets and a socket pair need, so `accept` and `socketpair` also
  fail; batches of two make ready sockets wait. `Timeout` is one tick: what
  matters is which of two timers is older, and a script may be one tick younger
  than its client. `RespLen` 2 allows one partial send. One handler may see a
  failing epoll call.
* `webserv_live`: one script, as `webserv_uaf` shows that two can crash; two
  clients, so that one of them may be held open by the other's script; batches
  that take all that is ready. No faults: they are in `webserv_safety`, and the
  refinement is proved with them.
* `request_body`: three kinds of clients. One varies the header block: all
  fields at their limit, past it, and malformed. One sends eleven bytes of a
  body, which hold a chunk, a second one that exceeds the limit, and the last
  chunk, malformed anywhere. One sends sixteen bytes without a last chunk, which
  hold chunks of which only the sum of sizes exceeds the limit of 2. At most
  five bytes wait unconsumed, which is a chunk of the largest size with its CRLF
  and a byte. Segments of one and two bytes cut everywhere.
* `request_handler`: six characters hold two names and every arrangement of
  dots and slashes between them.
* `cgi_executor`: six characters hold two names with an extension, or the name of
  a location and a script in it; directories have up to five, with and without a
  slash at their end. Of the four names of locations one is `/`, one ends in a
  slash and one is named like a script, and so is one of the three roots. The
  index file is a script, no script, `.` or `..`, which `IsSafeIndexFilename`
  lets pass. Two extensions are apart, one ends the other, or one has a slash.
  Bodies are empty, fit, fill the buffer and exceed it twice over.
* `cgi_response`: eight parts hold a header line, a blank line and a second
  blank line of the other kind in the body; five field lines hold every order of
  two `Status`, two `Location` and a framing line. Eight symbols are the largest
  header, so three lines with CR LF are too large.
* `config`: three vocabularies, as their directives do not meet: up to 15 words
  hold three blocks or a block with two locations and a list; up to 12 hold a
  block with three server directives; up to 14 a location with three directives.
  The hosts have up to six pieces of addresses and names, or up to four with a
  character no host has, and labels are limited to three characters instead of
  63.

`CHECK_DEADLOCK FALSE` is said where the model may stop: after a crash, at the
bound of the stream, after the answer.

### Fairness

`Webserv`: the loop's thread runs (`WF(Loop)`), time passes (`WF(Tick)`), and a
script that is not in `Stubborn` exits once it has closed its output or got
`SIGTERM`. This last one is the assumption the code makes when it calls
`waitpid`; `webserv_hang` drops it. Nothing is assumed of clients: no fairness
makes a peer send, read or close. `QuietClientIsClosed` is about clients that
stop sending, because the code resets the timer on every event.

`HttpRequest`: `Parse` is a call, so its loop goes on while it can
(`WF(Advance)`).

`CgiExecutor`: `Run` is a call, the forked child is scheduled (`WF(Exec)`), and
a script that has not ended reads its input (`WF(Read)`): `SmallBodyArrives` is
about scripts that do. `Config` and `CgiResponse` are sequential programs that
go on while they can (`WF(Next)`). `WebservWire` adds no fairness to `Webserv`'s.

## Proofs

TLAPS checks them for every value of the constants that satisfies the ASSUMEs:

* `Webserv`: objects of the two classes differ and are finitely many, and
  descriptors and bounds are natural numbers;
* `HttpRequest`: limits are natural numbers and `client_max_body_size` is below
  half of what a `size_t` holds; a `size_t` is a whole number of hex digits
  (`2^SizeBits` is a multiple of 16), which is what makes the test against
  `SIZE_MAX / 16` in `ParseChunkSize` exact; the bytes of a body are not the two
  symbols that stand for the header block;
* `CgiResponse`: scripts write symbols of the alphabet, and a line of one field
  with its line end fits into `kMaxHeaderSize`;
* `RequestHandler`: names of locations and paths of requests begin with `/`
  (`IsValidLocationName`, `ConsumeUri`), extensions are not empty, and no two
  names of a block are equal up to trailing slashes (`UniqueLocations` of
  `Config`). Roots, index files and extensions are any characters;
* `CgiExecutor`: the path of a request begins with `/`, the location fits it, and
  one that ends in `/` is a directory, as `RequestHandler` takes it; only GET gets
  to a script through a directory, whose index file is not empty and has no slash
  (`IsSafeIndexFilename`); extensions are not empty;
* `Config`: a file's words are words with a spelling, and none is empty; hosts
  are sequences of characters. The conversions stay opaque in the proofs about
  blocks, so those theorems hold however a word is converted.

Every invariant and every action property of the runs is a theorem, and so is the
refinement:

| theorem | property | inductive invariant |
|---|---|---|
| `TypeCorrect` | `TypeOK` | itself |
| `LinksAlwaysAgree` | `LinksAgree` | `LinksInv` |
| `ClientEventsAlwaysLive` | `ClientEventsLive` | `EventsInv` |
| `NeverOrphanChild` | `NoOrphanChild` | `ChildInv` |
| `OnlyInheritedDangle` | `DanglingOnlyIfInherited` | `ChildInv` |
| `SocketsAlwaysExact` | `SocketsExact` | `SocketsInv`, `ChildInv` |
| `OneScriptIsSafe` | `NoUseAfterFree`, if `Cgis` has at most one element | `ScriptInv`, `ChildInv`, `EventsInv` |
| `OutAlwaysHasAnswer` | `OutHasAnswer` | `AnswerInv`, `LinksInv`, `EventsInv` |
| `PartialResponseAlwaysKept` | `PartialResponseKept` | `PartialInv`, `AnswerInv`, ... |
| `NeverStrandedClient` | `NoStrandedClient` | `StrandInv` and all but the two above |
| `WireImplementsConnection` | `ImplementsConnection` | `WireInv` and those of `PartialResponseAlwaysKept` |
| `AlwaysOwnedOnce` | `OwnedOnce` of `CgiExecutor` | `PipeInv` |
| `EndsAlwaysApart` | `EndsAreApart` of `CgiExecutor` | `PipeInv` |
| `TypeCorrect` | `TypeOK` of `HttpRequest` | `ParserInv` |
| `AlwaysInBuffer` | `ReadPosInBuffer` | `ParserInv` |
| `BodyAlwaysWithinLimit` | `BodyWithinLimit` | `ParserInv` |
| `BodyHeadersAlwaysEnsured` | `BodyHeadersEnsured` | `ParserInv` |
| `AlwaysContentLengthExact` | `ContentLengthExact` | `LengthInv`, `ParserInv` |
| `AlwaysChunkedAgrees` | `ChunkedAgrees` | `ChunkInv`, `ParserInv` |
| `AlwaysMalformedNoticed` | `MalformedNoticed` | `ChunkInv`, `ParserInv` |
| `LoopAlwaysInHeader` | `LoopStaysInHeader` of `CgiResponse` | `CgiInv` |
| `BodyAlwaysRest` | `BodyIsRest` | `CgiInv` |
| `StatusAlwaysFromScript` | `StatusFromScript` | `CgiInv` |
| `AlwaysDelimited` | `IsDelimited` | `CgiInv` |
| `NeverSilentOverride` | `NoSilentOverride` of `Config` | `StateType`, `FlagsInv` |
| `AlwaysUniqueLocations` | `UniqueLocations` | itself, `StateType` |
| `FirstBlockAlwaysServes` | `FirstBlockServes` | `SocketsInv`, `StateType` |
| `HostsAlwaysAgree` | `HostAgrees` | none: it is about the operators |
| `AlwaysTypeOK` | `TypeOK` of `RequestHandler` | `Inv` |
| `AlwaysLongestMatch` | `LongestMatch` | `Inv` |
| `AlwaysTargetUnderRoot` | `TargetUnderRoot` | `Inv` |
| `AlwaysPlainPathIsServed` | `PlainPathIsServed` | `Inv` |
| `AlwaysSplitsAtSegment` | `SplitsAtSegment` of `CgiExecutor` | `PathInv` |
| `AlwaysMetaVarsSplitUri` | `MetaVarsSplitUri` | `PathInv` |

What each invariant adds to its property, and why the proof needs it:

* `LinksInv`: a client with a `cgi_socket_` has a complete request (so no second
  script can be started for it), and that `CgiSocket` is not already in its
  destructor.
* `EventsInv`: nothing is left of the batch while `CheckTimeout` runs. A client
  closed there has no event pending; one closed in a handler was unregistered,
  and its only event is the one being handled.
* `ChildInv`: a `CgiSocket` whose registration failed is not in the epoll set,
  and no child holds its own `CgiSocket`'s end of the pair (the child closes
  `sv[0]`). So a registration that `close` does not end is some other child's.
* `SocketsInv`: a `CgiSocket` whose registration failed has no entry. Hence two
  live sockets never share a descriptor, which makes every `erase` the right
  one.
* `ScriptInv`: a pending event is a live object's, and the `CgiSocket` the loop
  waits for has none pending. With one script, `ChildInv` leaves nothing a
  registration could dangle on.
* `AnswerInv`: when a client's `EPOLLIN` is dispatched and its request is not
  complete, it is still registered for `EPOLLIN`. So the placeholder never gets
  into the buffer of a client that waits for `EPOLLOUT`; the other writer of
  the buffer is a script's answer, whose client has a complete request
  (`LinksInv`).
* `PartialInv`: a client whose answer is partly sent is registered for
  `EPOLLOUT` and has no `EPOLLIN` pending, since nothing turns it back; and a
  client that still has a `CgiSocket` holds the placeholder or an error.
* `StrandInv`: a client that holds the placeholder has a complete request and is
  not touched before the answer, so it is at least as old as its `CgiSocket`.
  When a pass of `CheckTimeout` finds the `CgiSocket` expired it finds the
  client expired too, and descriptors are distinct (`SocketsInv`), so the pass
  reaches it.

* `WireInv`: what a peer has seen, by the state of the client's buffer. If none of
  the buffer is sent, the peer has seen nothing (`Unsent`), or an error that a
  script's answer has replaced (`Replaced`); if some of it is sent, the buffer's
  response is the last one seen (`Partly`). Each sending step then
  extends `wire` in one of the ways `Connection` allows, and every other step
  leaves it alone: the action-by-action proof of the refinement rests on it.
* `PipeInv`: for each point of `Run`, which ends are open in the server and which
  object owns each; and for each state of the child, which ends it holds. That
  the two hold one end each follows only from both at once, as either process
  may be ahead of the other.
* `ParserInv`: where the bytes are. Until its header block is complete the buffer
  is all that was received; from then on it is what was received of the body
  (`BodyFed`), since erasing the header leaves exactly that, and only
  `buffer_read_pos_` moves. A header block that passes its checks leaves a
  `content_length_` that is -1 or within the limit, which is the bound the body
  needs later; a chunk size that is kept is within the limit too, so the sum the
  parser computes does not wrap.
* `LengthInv`: between two calls fewer bytes of a body with a Content-Length have
  come than were announced, so the call that sees the last byte takes all of them;
  once done, the body is the first `content_length_` bytes, and what is refused is
  a surplus.
* `ChunkInv`: the parser, which looks at whole lines and whole chunks, and the
  decoder, which looks at bytes, are abreast: the decoder fed with the bytes up to
  `buffer_read_pos_` has the same body, and its phase is the one
  `next_chunk_size_` stands for (`Abreast`). When `Parse` returns to wait, the
  bytes after that position do not complete, exceed or visibly break anything
  (`Unsettled`), which is where a parser that waits too long, or gives up too
  early, would fail. The lemmas on the decoder say what it does on a run of
  digits, on a run of data and at a line end, by induction on the length; with
  them every `Advance` action is one leap of the decoder.
* `CgiInv`: the header loop stands at the start of a line, no line behind it is
  blank, and the status of the response is that of the lines behind it
  (`StatusBefore`). So the loop stops at the first blank line of the output,
  wherever it is. The end that `FindEndOfHeader` finds is then that line's, or a
  later CR LF CR LF, and the line read next never reaches past it, because both
  kinds of ends begin with a line end.
* `StateType` and `FlagsInv`: a value of a block that differs from the default has
  its `has_` flag, a list that is being read excepted, and outside of a block
  `server` and `location` are new ones. A setter that is reached without its flag
  therefore replaces nothing.
* `SocketsInv` of `ConfigProofs`: no socket is open before start-up opens them,
  each serves the first block of its port, and start-up is over only when every
  port has one.

* `Inv` of `RequestHandlerProofs`: the location is the one `FindLocationForUri`
  finds (`Chosen`); a path that reaches a handler has no dot segments and lies
  under the root by segments; and an answer without a path is a redirect or the
  status of the path checks (`Resolved`). What is left is about operators. For
  `TargetUnderRoot`: what normalisation returns is its segments joined, splitting
  undoes joining, and a prefix by characters that ends before a slash or at the
  end is a prefix by segments. For `LongestMatch`: a key is a path prefix exactly
  if its segments are leading ones of the request's, and of two keys that are,
  the longer one has more segments. For `PlainPathIsServed`: a path without dots
  only pushes on the stack, so the root stays in front of it.
* `PathInv`: from the constructor on, `script_path_` and the meta-variables are
  the split of the normalised path. The place `CreatePathInfo` finds by searching
  characters is the end of the segment that the reference finds: a place where an
  extension ends a name lies in one segment and ends it, the last place of an
  extension is in the last segment it names, and places compare as their segments
  do. For `MetaVarsSplitUri`, a normal request path is its location's name and
  further segments, joined (`BehindKey`), and its file is the root's segments and
  the same further ones (`RemainderAfter`, `NormalizeUnder`). As no extension is
  found before the root ends (`BeyondRoot`), PATH_INFO is made of the last of
  these, and what is left of them names the script in both paths. An index file is
  one more segment, or leads back by `.` or `..`; as no script is found in the
  directory, none is found in the path but at its end (`IndexAtEnd`), and
  PATH_INFO is empty. So it is for a request of the location's own name
  (`KeyAtEnd`).
* `HostsAlwaysAgree`: the pieces of a host are what lies between its cuts, the
  dots and the two ends (`Cuts`, by induction on the characters read), and
  `getline` drops the empty piece behind a last dot and no other. A label is then
  good exactly if the places in it are, which is how the grammar says it; four
  pieces are three dots; and a value computed digit by digit is at most 255
  exactly for the numerals the grammar lists. A host that ends in a dot has the
  pieces of the host before it, which is the exception.

All invariants were checked with TLC on the instances of the runs before they
were proved. The violations are not in conflict with the theorems:
`webserv_uaf` has two scripts, and `webserv_hang` is about liveness.

Facts about all sequences are proved by induction over their positions. The
library's induction theorems take an operator as a parameter, which no installed
prover can instantiate; `Induction` states the two that are needed, the least
element of a set of naturals and induction, with sets, and proves them from the
library's theorem on well-founded relations. Hence the decoder, the value of a
chunk size and the loops over paths and hosts are recursive functions over
positions (what they compute is proved from their equations, once it is proved
that a function satisfying them exists), and the search for a pattern is a
`CHOOSE` of the first position. `PathsProofs` keeps concatenation and its parts
closed (`Cat`, `Put`, `Left`, `Right`) and proves the laws it uses of them once;
the lemmas on paths are stated with those.

Only model-checked: liveness (`LoopReturns`, `QuietClientIsClosed`,
`BegunAnswerEnds`, `ParseReturns`, `SmallBodyArrives`, `StartupEnds`), which needs
fairness and `ENABLED`. The properties of the runs that expect a violation are
refuted by them.

## Not modelled

* Meta-variables other than SCRIPT_NAME and PATH_INFO: copies of fields of the
  request or of the configuration.
* Error pages when answering: `error_page` is parsed and stored (`Config`), and
  no code reads it when it makes a response.
* The growth of the buffer while a header block has no blank line:
  `kMaxHeaderSize` is applied only once the block is complete, and `HttpRequest`
  bounds what waits by `MaxPending`.
* The text of pages, directory listings and logs.
* Tables and conversions in `lib/` (methods, reason phrases, media types): they
  have no state, and what they decide is in the modules that call them.

## Plan

1. Done: `Webserv`, `HttpRequest`, `RequestHandler`, and the safety properties of
   `Webserv` as theorems.
2. Done: `CgiResponse`, `CgiExecutor`, `Config`, `HostValidation`; `Connection` and the
   refinement, checked and proved; the owners of a script's sockets, proved.
3. Done: proofs of all safety properties of `HttpRequest` (the chunked decoder
   included), `CgiResponse` and `Config`.
4. Done: `Paths`, `CgiPath` and `HostValidation` with recursive functions over
   positions in place of folds; proofs of all invariants of `RequestHandler`, of
   the split of a path in `CgiExecutor`, and of `HostAgrees`.
5. Next, beyond the reach of the present tools: liveness of the event loop as a
   theorem.
