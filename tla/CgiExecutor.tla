---------------------------- MODULE CgiExecutor ----------------------------
(***************************************************************************)
(* One CGI request: the meta-variables that name the script, the pair of   *)
(* sockets between the server and the script, and the request's body on    *)
(* its way to the script's standard input.                                 *)
(*                                                                         *)
(* It begins where RequestHandler has resolved the path of the request in  *)
(* a location and taken it for a directory, whose index file then stands   *)
(* for it, or for a file.  fds are the Fd objects of Run and of the        *)
(* CgiSocket it returns; a child process is "absent", a copy of the server *)
(* ("forked"), the "script", or "gone".                                    *)
(***************************************************************************)
EXTENDS Paths, CgiPath

CONSTANTS
    Characters, \* of paths and extensions
    Requests,   \* a path, a method and the length of a body; a location's name, root,
                \* index and list of extensions; whether the path is a directory
    Capacity    \* bytes that fit in the buffer of a socket

ASSUME LimitsAssumption ==
    /\ \A r \in Requests : r.body \in Nat
    /\ Capacity \in Nat \ {0}

UriKey(u) == TrimTrailingSlashExceptRoot(u)
LocKey(r) == TrimTrailingSlashExceptRoot(r.name)

\* The path of a request and the name of its location are absolute, and the one
\* fits the other.  A path that ends in "/" is a directory, of which only GET
\* takes the index file, a name without a slash (IsSafeIndexFilename).  An
\* extension is a word of the configuration.
ASSUME RequestsAssumption ==
    /\ "/" \in Characters
    /\ \A r \in Requests :
         /\ {r.uri, r.name, r.root} \subseteq Seq(Characters)
         /\ r.uri # <<>> /\ r.uri[1] = "/"
         /\ r.name # <<>> /\ r.name[1] = "/"
         /\ IsPathPrefix(UriKey(r.uri), LocKey(r))
         /\ r.index \in Seq(Characters \ {"/"})
         /\ r.extensions \in Seq(Seq(Characters) \ {<<>>})
         /\ Last(r.uri) = "/" => r.directory
         /\ r.directory => r.method = "GET" /\ r.index # <<>>

VARIABLES
    req,    \* what the request and its location give
    meta,   \* SCRIPT_NAME and PATH_INFO, which is empty if it is not set
    script, \* script_path_
    point,  \* where Run is
    fds,    \* what each Fd object owns
    open,   \* ends of the socket pair open in the server
    child,  \* the child process, and the ends open in it
    queued, \* bytes of the body in the buffer of the script's end
    taken   \* bytes of the body that the script has read

vars == <<req, meta, script, point, fds, open, child, queued, taken>>
pipe == <<fds, open, child, queued, taken>>

Ends == {"end0", "end1"}
Objects == {"sv0", "sv1", "fd_"}

Points == {"construct", "run", "pair", "forked", "send", "return", "answered", "running"}

(***************************************************************************)
(* The path that RequestHandler passes on.                                 *)
(***************************************************************************)
\* ResolveFilesystemPath, for a request path u, before it is normalised.
FullPath(r, u) == r.root \o RemainderOf(UriKey(u), LocKey(r))

Resolve(r, u) == NormalizePathBySegments(FullPath(r, u))

\* The file; a path that is resolved already stays as it is.
ScriptPath(r, u) ==
    IF r.directory THEN NormalizePathBySegments(WithIndex(Resolve(r, u), r.index))
    ELSE Resolve(r, u)

\* Both paths are validated: RequestHandler answers for the others.
IsHandled(r) ==
    /\ PathStatus(FullPath(r, r.uri), r.root) = 0
    /\ r.directory => PathStatus(WithIndex(Resolve(r, r.uri), r.index), r.root) = 0

Init ==
    /\ req \in Requests /\ IsHandled(req)
    /\ meta = [scriptName |-> <<>>, pathInfo |-> <<>>]
    /\ script = ScriptPath(req, req.uri)
    /\ point = "construct"
    /\ fds = [o \in Objects |-> "none"] /\ open = {}
    /\ child = [state |-> "absent", open |-> {}]
    /\ queued = 0 /\ taken = 0

(***************************************************************************)
(* Fd: a copy takes the descriptor from its source; Reset and the          *)
(* destructor close what is left.                                          *)
(***************************************************************************)
\* Mutant: the copy that the compiler would write.
Copied(f, from, to) == [f EXCEPT ![to] = f[from]]

Moved(f, from, to) == [f EXCEPT ![to] = f[from], ![from] = "none"]

Released(f, objects) == [o \in Objects |-> IF o \in objects THEN "none" ELSE f[o]]

Closed(objects) == open \ {fds[o] : o \in objects}

Destroy(objects) == fds' = Released(fds, objects) /\ open' = Closed(objects)

(***************************************************************************)
(* The constructor.                                                        *)
(***************************************************************************)
\* Mutant: SCRIPT_NAME is the whole path of the request.
ScriptNameOfUri(pathInfo) == req.uri

\* uri.substr(0, uri.length() - path_info.length()): a length below zero wraps
\* and takes the whole string.
ScriptName(pathInfo) ==
    LET n == Len(req.uri) - Len(pathInfo)
    IN  IF n < 0 THEN req.uri ELSE SubSeq(req.uri, 1, n)

InitializeMetaVars ==
    /\ point = "construct"
    /\ LET n == ScriptEnd(script, req.extensions)
           pathInfo == SubSeq(script, n + 1, Len(script))
       IN  meta' = IF n = 0 THEN [scriptName |-> req.uri, pathInfo |-> <<>>]
                   ELSE [scriptName |-> ScriptName(pathInfo), pathInfo |-> pathInfo]
    /\ script' = ExecutablePath(script, req.extensions)
    /\ point' = "run"
    /\ UNCHANGED <<req, pipe>>

(***************************************************************************)
(* Run, in the server.                                                     *)
(***************************************************************************)
Forbidden ==
    /\ point = "run" /\ ~ IsScriptExtensionAllowed(script, req.extensions)
    /\ point' = "answered"
    /\ UNCHANGED <<req, meta, script, pipe>>

SocketpairFails ==
    /\ point = "run" /\ IsScriptExtensionAllowed(script, req.extensions)
    /\ point' = "answered"
    /\ UNCHANGED <<req, meta, script, pipe>>

Socketpair ==
    /\ point = "run" /\ IsScriptExtensionAllowed(script, req.extensions)
    /\ fds' = [fds EXCEPT !["sv0"] = "end0", !["sv1"] = "end1"]
    /\ open' = Ends
    /\ point' = "pair"
    /\ UNCHANGED <<req, meta, script, child, queued, taken>>

ForkFails ==
    /\ point = "pair"
    /\ Destroy({"sv0", "sv1"})
    /\ point' = "answered"
    /\ UNCHANGED <<req, meta, script, child, queued, taken>>

Fork ==
    /\ point = "pair"
    /\ child' = [state |-> "forked", open |-> open]
    /\ point' = "forked"
    /\ UNCHANGED <<req, meta, script, fds, open, queued, taken>>

\* sv1.Reset(), and new CgiSocket(sv0, pid), which takes sv0 by value.
NewCgiSocket ==
    /\ point = "forked"
    /\ fds' = Moved(Released(fds, {"sv1"}), "sv0", "fd_")
    /\ open' = Closed({"sv1"})
    /\ point' = "send"
    /\ UNCHANGED <<req, meta, script, child, queued, taken>>

\* CgiSocket::Send: one write of n bytes, t of which a running script reads
\* meanwhile.  It stops when the buffer is full; no one may hold the other end.
Write ==
    \/ "end1" \notin child.open /\ UNCHANGED <<queued, taken>>
    \/ /\ "end1" \in child.open
       /\ \E n \in 0..req.body, t \in 0..req.body :
            /\ t > 0 => child.state = "script"
            /\ n - t = Capacity \/ (n = req.body /\ n - t \in 0..Capacity)
            /\ queued' = n - t /\ taken' = t

\* Mutant: the body goes with the other method.
SendUnlessPost ==
    /\ point = "send"
    /\ IF req.method # "POST" THEN Write ELSE UNCHANGED <<queued, taken>>
    /\ point' = "return"
    /\ UNCHANGED <<req, meta, script, fds, open, child>>

\* The result of the write is not looked at.
Send ==
    /\ point = "send"
    /\ IF req.method = "POST" THEN Write ELSE UNCHANGED <<queued, taken>>
    /\ point' = "return"
    /\ UNCHANGED <<req, meta, script, fds, open, child>>

\* sv0 and sv1 go out of scope.
Return ==
    /\ point = "return"
    /\ Destroy({"sv0", "sv1"})
    /\ point' = "running"
    /\ UNCHANGED <<req, meta, script, child, queued, taken>>

(***************************************************************************)
(* The child: it makes its end of the pair its standard input and output,  *)
(* and becomes the script, or ends because execve fails.                   *)
(***************************************************************************)
\* Mutant: sv0.Reset() is missing.
ExecKeepingEnd ==
    /\ child.state = "forked"
    /\ child' = [child EXCEPT !.state = "script"]
    /\ UNCHANGED <<req, meta, script, point, fds, open, queued, taken>>

Exec ==
    /\ child.state = "forked"
    /\ child' = [state |-> "script", open |-> child.open \ {"end0"}]
    /\ UNCHANGED <<req, meta, script, point, fds, open, queued, taken>>

Leave ==
    /\ child.state \in {"forked", "script"}
    /\ child' = [state |-> "gone", open |-> {}]
    /\ UNCHANGED <<req, meta, script, point, fds, open, queued, taken>>

Read ==
    /\ child.state = "script" /\ queued > 0
    /\ queued' = queued - 1 /\ taken' = taken + 1
    /\ UNCHANGED <<req, meta, script, point, fds, open, child>>

-----------------------------------------------------------------------------
Run ==
    \/ InitializeMetaVars \/ Forbidden \/ SocketpairFails \/ Socketpair
    \/ ForkFails \/ Fork \/ NewCgiSocket \/ Send \/ Return

Child == Exec \/ Leave \/ Read

Next == Run \/ Child

\* The server's thread runs on; the child becomes the script, and a script that
\* is not gone reads its input.
Spec == Init /\ [][Next]_vars /\ WF_vars(Run) /\ WF_vars(Exec) /\ WF_vars(Read)

-----------------------------------------------------------------------------
(***************************************************************************)
(* Properties.                                                             *)
(***************************************************************************)
\* The segments of a path that name a file with this extension: ".py" alone is
\* not the name of one.
Named(segments, ext) ==
    {i \in DOMAIN segments : IsSuffix(ext, segments[i]) /\ segments[i] # ext}

\* The segment that ends the script: of every extension the last one it names,
\* and of these the first.
ScriptSegment(segments, extensions) ==
    LET last(ext) == CHOOSE i \in Named(segments, ext) :
                        \A j \in Named(segments, ext) : j <= i
        lasts == {last(extensions[k]) :
                    k \in {k \in DOMAIN extensions : Named(segments, extensions[k]) # {}}}
    IN  IF lasts = {} THEN 0 ELSE CHOOSE i \in lasts : \A j \in lasts : i <= j

\* ParseCgiAllowedExtensions takes any word, one with a slash too.
SlashFree(extensions) ==
    \A i \in DOMAIN extensions : \A k \in DOMAIN extensions[i] : extensions[i][k] # "/"

\* CreatePathInfo searches characters; what it finds is a script by segments:
\* the file executed is the path up to a whole segment, PATH_INFO is made of the
\* segments after it, and the order in which the configuration lists the
\* extensions does not matter, if none of them reaches over a slash.
SplitsAtSegment ==
    point # "construct" /\ SlashFree(req.extensions) =>
        LET path == ScriptPath(req, req.uri)
            segments == SplitPathSegments(path)
            n == ScriptSegment(segments, req.extensions)
        IN  /\ script \o meta.pathInfo = path
            /\ n # 0 => SplitPathSegments(script) = SubSeq(segments, 1, n)
            /\ n = 0 => script = path
            /\ meta.pathInfo # <<>> => meta.pathInfo[1] = "/"

\* SCRIPT_NAME and PATH_INFO together are the path of the request, and a request
\* for SCRIPT_NAME alone, in the same location, runs the same file: the root of
\* the location stands for its name, and an index file for its directory (RFC
\* 3875 4.1.13, which InitializeMetaVars follows by counting characters of the
\* path from its end).  Not so for a request path that normalisation changes, nor
\* if a script is found in the root, or for an index file in its directory: then
\* PATH_INFO has characters that the request path has not.
MetaVarsSplitUri ==
    LET above == IF req.directory THEN Resolve(req, req.uri)
                 ELSE NormalizePathBySegments(req.root)
    IN  /\ point # "construct"
        /\ req.uri = NormalizePathBySegments(req.uri)
        /\ ScriptEnd(above, req.extensions) = 0
        => /\ meta.scriptName \o meta.pathInfo = req.uri
           /\ ScriptPath(req, meta.scriptName) = script

\* A descriptor of the server is owned by exactly one Fd object, on every way
\* out of Run: none is closed twice, none leaks, and the CgiSocket that Run
\* returns holds an open one.
OwnedOnce ==
    /\ open = {fds[o] : o \in Objects} \ {"none"}
    /\ \A o, p \in Objects : fds[o] = fds[p] => o = p \/ fds[o] = "none"
    /\ fds["fd_"] # "none" <=> point \in {"send", "return", "running"}

\* While the script runs the server has one end and the script the other, and
\* neither has both: each would keep the other from seeing the end of a stream.
EndsAreApart ==
    point = "running" =>
        /\ open = {"end0"}
        /\ child.state = "script" => child.open = {"end1"}
        /\ child.state = "gone" => child.open = {}

\* A body that fits the buffer of a socket reaches a script that reads it.
SmallBodyArrives ==
    point = "running" /\ req.method = "POST" /\ req.body <= Capacity
        ~> taken = req.body \/ child.state = "gone"

\* The comment on Run: "POST method requires the body to be passed to STDIN of
\* the CGI script."  Once Run has returned to the event loop, the body is with a
\* script that is still there.
BodyIsPassed ==
    point = "running" /\ req.method = "POST" /\ child.state = "script"
        => queued + taken = req.body
=============================================================================
