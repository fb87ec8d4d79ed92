--------------------------- MODULE RequestHandler --------------------------
(***************************************************************************)
(* From a complete request to the file it names: the choice of a location  *)
(* (ServerConfig::FindLocationForUri), the path it maps to (FileValidator) *)
(* and the handlers of RequestHandler::Run.                                *)
(*                                                                         *)
(* Paths are sequences of characters over a small alphabet: the prefix and *)
(* boundary tests of the code are about characters, not about segments.    *)
(* What the file system answers is chosen at every call: other processes   *)
(* may change it between two of them.                                      *)
(***************************************************************************)
EXTENDS Paths, CgiPath

CONSTANTS
    Characters, \* of paths and names
    Uris,       \* request paths, as ConsumeUri lets them through
    Methods,    \* request methods
    Confs       \* location lists of a server block

Key(loc) == TrimTrailingSlashExceptRoot(loc.name)

\* ServerConfig::AddLocation refuses two names that are equal up to trailing
\* slashes.
ASSUME ConfsAssumption ==
    \A conf \in Confs : \A i, j \in DOMAIN conf :
        i # j => Key(conf[i]) # Key(conf[j])

\* ConsumeUri takes paths, and IsValidLocationName names, that begin with "/";
\* an extension is a word of the configuration and is not empty.
IsAbsolute(p) == p \in Seq(Characters) /\ p # <<>> /\ p[1] = "/"

ASSUME PathsAssumption ==
    /\ "/" \in Characters
    /\ \A u \in Uris : IsAbsolute(u)
    /\ \A conf \in Confs :
         /\ DOMAIN conf = 1..Len(conf) /\ Len(conf) \in Nat
         /\ \A i \in DOMAIN conf :
              /\ IsAbsolute(conf[i].name)
              /\ {conf[i].root, conf[i].index} \subseteq Seq(Characters)
              /\ conf[i].extensions \in Seq(Seq(Characters) \ {<<>>})

VARIABLES
    uri, method, conf, \* the request and the server block
    point,             \* "route", "handle" or "done"
    loc,               \* location_match_.loc, as an index; 0 for NULL
    path,              \* filesystem_path_
    status,            \* of the response; 0: none yet, or the CGI answers
    op, target         \* what was done to which file

vars == <<uri, method, conf, point, loc, path, status, op, target>>

-----------------------------------------------------------------------------
(***************************************************************************)
(* ServerConfig::FindLocationForUri.                                       *)
(***************************************************************************)
UriKey == TrimTrailingSlashExceptRoot(uri)

Matching == {i \in DOMAIN conf : IsPathPrefix(UriKey, Key(conf[i]))}

\* Mutant: the first location that matches.
FindFirstLocation(i) == i \in Matching /\ \A j \in Matching : i <= j

\* The loop keeps the first of the longest keys.
FindLocationForUri(i) ==
    /\ i \in Matching
    /\ \A j \in Matching :
         \/ Len(Key(conf[j])) < Len(Key(conf[i]))
         \/ Len(Key(conf[j])) = Len(Key(conf[i])) /\ i <= j

Remainder(i) == RemainderOf(UriKey, Key(conf[i]))

-----------------------------------------------------------------------------
Points == {"route", "handle", "done"}
Operations == {"none", "read", "write", "remove", "execute"}

\* What stat, access, open and remove may end in (MapErrnoToHttpStatus).
FileErrors == {403, 404, 500}

TypeOK ==
    /\ uri \in Uris /\ method \in Methods /\ conf \in Confs
    /\ point \in Points
    /\ loc \in 0..Len(conf)
    /\ status \in {0, 200, 201, 302, 400, 405, 501} \cup FileErrors
    /\ op \in Operations
    /\ op = "none" <=> target = <<>>

Init ==
    /\ uri \in Uris /\ method \in Methods /\ conf \in Confs
    /\ point = "route"
    /\ loc = 0
    /\ path = <<>>
    /\ status = 0
    /\ op = "none" /\ target = <<>>

\* The handler answers without touching a file.
Respond(code) ==
    /\ point' = "done" /\ status' = code
    /\ UNCHANGED <<uri, method, conf, op, target>>

\* The handler answers after an operation on a file.
Finish(code, operation, file) ==
    /\ point' = "done" /\ status' = code
    /\ op' = operation /\ target' = file
    /\ UNCHANGED <<uri, method, conf, loc, path>>

\* Mutant: the end of the location list stands for "not found".
NoLocationAtEnd ==
    /\ point = "route" /\ Matching = {}
    /\ loc' = Len(conf) + 1
    /\ Respond(404)
    /\ UNCHANGED path

\* PrepareRoutingContext: the location, and the path unless it redirects.
NoLocation ==
    /\ point = "route" /\ Matching = {}
    /\ Respond(404)
    /\ UNCHANGED <<loc, path>>

Redirect ==
    /\ point = "route"
    /\ \E i \in Matching : FindLocationForUri(i) /\ conf[i].redirect /\ loc' = i
    /\ Respond(302)
    /\ UNCHANGED path

ResolveFilesystemPath ==
    /\ point = "route"
    /\ \E i \in Matching :
         /\ FindLocationForUri(i) /\ ~ conf[i].redirect
         /\ loc' = i
         /\ LET full == conf[i].root \o Remainder(i)
                code == PathStatus(full, conf[i].root)
            IN  \/ code # 0 /\ Respond(code) /\ UNCHANGED path
                \/ /\ code = 0
                   /\ path' = NormalizePathBySegments(full)
                   /\ point' = "handle"
                   /\ UNCHANGED <<uri, method, conf, status, op, target>>

-----------------------------------------------------------------------------
Handling == point = "handle" /\ UNCHANGED <<loc, path>>
Location == conf[loc]
Allowed == method \in Location.methods
UriIsDirectory == Last(uri) = "/"

MethodNotAllowed == Handling /\ ~ Allowed /\ Respond(405)

NotImplemented ==
    /\ Handling /\ Allowed
    /\ method \notin {"GET", "POST", "DELETE"}
    /\ Respond(501)

\* CgiExecutor: what follows the script in the path is PATH_INFO; the extension
\* of the script must be listed; socketpair or fork may fail.
RunCgi(file) ==
    LET program == ExecutablePath(file, Location.extensions)
        allowed == IsScriptExtensionAllowed(program, Location.extensions)
    IN  \/ ~ allowed /\ Respond(403)
        \/ allowed /\ Finish(0, "execute", program)
        \/ allowed /\ Respond(500)

\* ReadFileToStringOrThrow, or the CGI script, on a path validated again.
GetFile(file) ==
    LET code == PathStatus(file, Location.root)
        good == NormalizePathBySegments(file)
    IN  \/ code # 0 /\ Respond(code)
        \/ code = 0 /\ Location.cgi /\ RunCgi(good)
        \/ /\ code = 0 /\ ~ Location.cgi
           /\ \/ \E error \in FileErrors : Respond(error)
              \/ Finish(200, "read", good)

HandleGet ==
    /\ Handling /\ Allowed /\ method = "GET"
    /\ \/ Location.index = <<>> /\ Respond(403)
       \/ Location.index # <<>> /\ GetFile(WithIndex(path, Location.index))
       \/ ~ UriIsDirectory /\ GetFile(path)

\* The target is written in place: the file is truncated when it is opened.
HandlePost ==
    /\ Handling /\ Allowed /\ method = "POST"
    /\ \/ Respond(405)
       \/ ~ UriIsDirectory /\ Location.cgi /\ RunCgi(path)
       \/ /\ ~ UriIsDirectory /\ ~ Location.cgi
          /\ Respond(403) \/ \E code \in {201, 500} : Finish(code, "write", path)

HandleDelete ==
    /\ Handling /\ Allowed /\ method = "DELETE"
    /\ \/ \E error \in FileErrors : Respond(error)
       \/ Finish(200, "remove", path)

Next ==
    \/ NoLocation \/ Redirect \/ ResolveFilesystemPath
    \/ MethodNotAllowed \/ NotImplemented
    \/ HandleGet \/ HandlePost \/ HandleDelete

Spec == Init /\ [][Next]_vars

-----------------------------------------------------------------------------
(***************************************************************************)
(* Properties, with reference definitions over segments.                   *)
(***************************************************************************)

\* Segments of a path as RFC 3986 counts them: empty ones too.
WithChar(acc, ch) ==
    IF ch = "/" THEN Append(acc, <<>>)
    ELSE Append(Front(acc), Append(Last(acc), ch))

Segmented(p) ==
    LET run[n \in 0..Len(p)] ==
          IF n = 0 THEN <<>> ELSE WithChar(run[n - 1], p[n])
    IN  run

AllSegments(p) == Segmented(p)[Len(p)]

NameSegments(l) == IF Key(l) = <<"/">> THEN <<>> ELSE AllSegments(Key(l))

\* The location chosen is the one whose name is the longest list of leading
\* segments of the request path, whatever the order of the server block and
\* the trailing slashes of its names; no location is missed.
LongestMatch ==
    LET segments == AllSegments(UriKey)
        fits == {i \in DOMAIN conf : IsPrefix(NameSegments(conf[i]), segments)}
    IN  point # "route" =>
          /\ loc = 0 <=> fits = {}
          /\ loc # 0 => /\ loc \in fits
                        /\ \A i \in fits \ {loc} : Len(NameSegments(conf[i]))
                                                   < Len(NameSegments(conf[loc]))

\* Every file that is read, written, removed or executed lies under the root of
\* its location, segment by segment, with no "." or ".." left in its path.  If a
\* directory above the root has the extension of a script, CgiExecutor takes it
\* for one; execve refuses a directory.
TargetUnderRoot ==
    op # "none" =>
        /\ \/ IsPrefix(SplitPathSegments(Location.root), SplitPathSegments(target))
           \/ op = "execute" /\ IsPrefix(target, Location.root)
        /\ \A i \in DOMAIN SplitPathSegments(target) :
             SplitPathSegments(target)[i] \notin {Dot, DotDot}

\* A root that is absolute and in the form NormalizePathBySegments produces.  An
\* absolute root directive is kept as it is written; without one it is "./".
NormalRoot(root) ==
    /\ root[1] = "/"
    /\ root = <<"/">> \/ Last(root) # "/"
    /\ root = NormalizePathBySegments(root)

\* Under a normal root, a path without dots is never refused by the path checks:
\* it reaches its handler, whatever slashes it has doubled or ends in.
PlainPathIsServed ==
    /\ point = "done" /\ loc # 0 /\ status \in {400, 404} /\ path = <<>>
    /\ NormalRoot(Location.root)
    => \E i \in DOMAIN uri : uri[i] = "."
=============================================================================
