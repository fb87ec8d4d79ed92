------------------------------- MODULE Config ------------------------------
(***************************************************************************)
(* Start-up: ConfigParser reads the file, Webserv::InitServersFromConfigs  *)
(* keeps one server block for each port, and the constructor opens the     *)
(* listening sockets.                                                      *)
(*                                                                         *)
(* The file is any sequence of words, chosen as it is read: left is the    *)
(* number of words still to come, and Tokenize returns "" after the last   *)
(* one.  An exception ends the parse, and with it everything that was      *)
(* built.                                                                  *)
(***************************************************************************)
EXTENDS Paths, HostGrammar

CONSTANTS
    Spelling, \* Spelling[w]: the characters of word w, as Tokenize cuts it
    Files,    \* kinds of files: the words of one, and a bound on its length
    Cwd,      \* the working directory
    Hosts     \* sequences of characters to try as the host of a listen directive

ASSUME WordsAssumption ==
    /\ "" \notin DOMAIN Spelling
    /\ \A f \in Files : f.words \subseteq DOMAIN Spelling /\ f.max \in Nat

ASSUME HostsAssumption == \A host \in Hosts : host \in Seq(STRING)

Words == DOMAIN Spelling

VARIABLES
    point,    \* which loop or phase is running
    words,    \* the words the file is made of
    left,     \* how many of them are left
    server,   \* the ServerConfig of the block being parsed
    location, \* the Location of the block being parsed
    configs,  \* server_configs_
    listening \* port of each open listening socket, to the block it serves

vars == <<point, words, left, server, location, configs, listening>>

-----------------------------------------------------------------------------
(***************************************************************************)
(* Conversions of values.                                                  *)
(***************************************************************************)
Find(s, pattern) == \E i \in DOMAIN s : IsPrefix(pattern, SubSeq(s, i, Len(s)))

\* std::atoi: the digits at the front, through a 64-bit long cut to 32 bits.
\* The value is kept as two halves of 16 bits.
Atoi(s) ==
    LET negative == s[1] = "-"
        Shift(acc, ch) ==
          LET low == acc.low * 10 + Digit(ch)
          IN  [high |-> (acc.high * 10 + (low \div 65536)) % 65536, low |-> low % 65536]
        Step(acc, ch) == IF acc.stop \/ ch \notin Digits THEN [acc EXCEPT !.stop = TRUE]
                         ELSE [acc EXCEPT !.value = Shift(@, ch)]
        value == FoldLeft(Step, [stop |-> FALSE, value |-> [high |-> 0, low |-> 0]],
                          IF negative THEN Tail(s) ELSE s).value
        signed == (IF value.high >= 32768 THEN value.high - 65536 ELSE value.high) * 65536
                  + value.low
    IN  IF negative THEN - signed ELSE signed

IsAllDigits(s) == All(s, Digits)

IsValidPortNumber(s) ==
    Len(s) \in 1..5 /\ IsAllDigits(s) /\ Atoi(s) \in 1..65535

IsValidLocationName(s) ==
    s # <<>> /\ s[1] = "/" /\ ~ Find(s, DotDot) /\ ~ Find(s, <<"/", "/">>)

\* Words hold no blanks; "^" stands for a control character.
AbsoluteSafePath(s) == s # <<>> /\ s[1] = "/" /\ ~ Find(s, <<"^">>)

IsSafeIndexFilename(s) == s # <<>> /\ All(s, Letters \cup Digits \cup {".", "-", "_"})

\* ResolveRootPath.  An absolute path is kept as it is written.
IsResolvable(s) == s[1] = "/" \/ ~ Find(s, DotDot)

ResolveRootPath(s) ==
    IF s[1] = "/" THEN s ELSE NormalizePathBySegments(Cwd \o <<"/">> \o s)

HasScheme(s) ==
    \/ IsPrefix(<<"h", "t", "t", "p", ":", "/", "/">>, s)
    \/ IsPrefix(<<"h", "t", "t", "p", "s", ":", "/", "/">>, s)

ErrorPagePath(s) == IF HasScheme(s) \/ s[1] = "/" THEN s ELSE <<"/">> \o s

\* "host:port", "port" or "host".
Colons(s) == {i \in DOMAIN s : s[i] = ":"}
Before(s) == SubSeq(s, 1, (CHOOSE i \in Colons(s) : \A j \in Colons(s) : i <= j) - 1)
After(s) == SubSeq(s, Len(Before(s)) + 2, Len(s))

IsListen(s) ==
    IF Colons(s) # {} THEN IsValidHost(Before(s)) /\ IsValidPortNumber(After(s))
    ELSE IF IsAllDigits(s) THEN IsValidPortNumber(s)
    ELSE IsValidHost(s)

AnyHost == <<"0", ".", "0", ".", "0", ".", "0">>

ListenAt(s) ==
    IF Colons(s) # {} THEN [host |-> Before(s), port |-> Atoi(After(s))]
    ELSE IF IsAllDigits(s) THEN [host |-> AnyHost, port |-> Atoi(s)]
    ELSE [host |-> s, port |-> 80]

MaxBodyLimit == 100000000

Spelled(P(_)) == {w \in Words : P(Spelling[w])}

\* The values each directive takes.  Where any word will do, ";" and "}" will.
Accepted ==
    [listen               |-> Spelled(IsListen),
     server_name          |-> Words,
     client_max_body_size |-> Spelled(LAMBDA s : Atoi(s) \in 0..MaxBodyLimit),
     root                 |-> Spelled(LAMBDA s : IsResolvable(s)
                                                 /\ AbsoluteSafePath(ResolveRootPath(s))),
     autoindex            |-> {"on", "off"},
     index                |-> Spelled(IsSafeIndexFilename),
     upload_path          |-> Spelled(AbsoluteSafePath),
     redirect             |-> Words,
     cgi                  |-> {"on", "off"}]

LocationNames == Spelled(IsValidLocationName)
ErrorCodes == Spelled(LAMBDA s : Atoi(s) \in 400..599)
ErrorPages == Spelled(LAMBDA s : s[1] # ".")

ServerValues == {"listen", "server_name", "client_max_body_size"}
LocationValues == {"root", "autoindex", "index", "upload_path", "redirect", "cgi"}
LocationLists == {"allowed_methods", "cgi_allowed_extensions"}

MethodNames == {"GET", "POST", "DELETE"}

-----------------------------------------------------------------------------
(***************************************************************************)
(* State.  has stands for the has_ flags; the other fields are named after *)
(* the directives that set them.                                           *)
(***************************************************************************)
NewServer ==
    [listen |-> [host |-> AnyHost, port |-> 80], server_name |-> "",
     client_max_body_size |-> 0, errors |-> <<>>, locations |-> <<>>, has |-> {}]

NewLocation(name) ==
    [name |-> name, root |-> <<".", "/">>, autoindex |-> FALSE, index |-> "",
     upload_path |-> "", redirect |-> "", cgi |-> FALSE,
     allowed_methods |-> {}, cgi_allowed_extensions |-> {}, has |-> {}]

NoLocation == NewLocation(<<"/">>)

InLocation == {"location", "methods", "extensions"}
Points == {"load", "parse", "server", "open", "running", "stopped"} \cup InLocation

Init ==
    /\ point = "load"
    /\ words = {} /\ left = 0
    /\ server = NewServer /\ location = NoLocation
    /\ configs = <<>>
    /\ listening = <<>>

\* What the i-th call of Tokenize from now may return: "" from the end on.
Token(i) == IF i <= left THEN words ELSE {""}

\* The file goes on with the words of ws, and they are consumed.
Reads(ws) ==
    /\ \A i \in DOMAIN ws : ws[i] \in Token(i)
    /\ left' = left - Len(ws)
    /\ UNCHANGED words

\* An exception: main ends, and every object is destroyed on the way out.
Throw ==
    /\ point' = "stopped" /\ words' = {} /\ left' = 0
    /\ server' = NewServer /\ location' = NoLocation
    /\ configs' = <<>> /\ listening' = <<>>

-----------------------------------------------------------------------------
(***************************************************************************)
(* LoadFileOrThrowRuntime, Parse and ParseServer.                          *)
(***************************************************************************)
LoadFile ==
    /\ point = "load"
    /\ \E f \in Files : words' = f.words /\ left' \in 0..f.max
    /\ point' = "parse"
    /\ UNCHANGED <<server, location, configs, listening>>

\* No such file, a directory, or a file that cannot be opened.
LoadFails == point = "load" /\ Throw

ParseServer ==
    /\ point = "parse" /\ Reads(<<"server", "{">>)
    /\ point' = "server" /\ server' = NewServer
    /\ UNCHANGED <<location, configs, listening>>

ParseEnds ==
    /\ point = "parse" /\ left = 0
    /\ point' = "open"
    /\ UNCHANGED <<words, left, server, location, configs, listening>>

BadBlock ==
    /\ point = "parse"
    /\ ~ \A w \in Token(1), brace \in Token(2) : w = "" \/ (w = "server" /\ brace = "{")
    /\ Throw

ServerEnds ==
    /\ point = "server" /\ Reads(<<"}">>)
    /\ configs' = Append(configs, server)
    /\ point' = "parse" /\ server' = NewServer
    /\ UNCHANGED <<location, listening>>

\* Directive d with a value and its semicolon, the first one of its block.
ServerValue(d, w) ==
    /\ point = "server" /\ d \notin server.has
    /\ w \in Accepted[d] /\ Reads(<<d, w, ";">>)
    /\ UNCHANGED <<point, location, configs, listening>>

\* Mutant: SetHost and SetPort without has_listen_.
ParseListenUnflagged ==
    \E w \in words :
        /\ ServerValue("listen", w)
        /\ server' = [server EXCEPT !.listen = ListenAt(Spelling[w])]

ParseListen ==
    \E w \in words :
        /\ ServerValue("listen", w)
        /\ server' = [server EXCEPT !.listen = ListenAt(Spelling[w]),
                                    !.has = @ \cup {"listen"}]

ParseServerName ==
    \E w \in words :
        /\ ServerValue("server_name", w)
        /\ server' = [server EXCEPT !.server_name = w, !.has = @ \cup {"server_name"}]

ParseMaxBody ==
    \E w \in words :
        /\ ServerValue("client_max_body_size", w)
        /\ server' = [server EXCEPT !.client_max_body_size = Atoi(Spelling[w]),
                                    !.has = @ \cup {"client_max_body_size"}]

\* SetErrorPage replaces an earlier page of the same code.
ParseErrorPage ==
    /\ point = "server"
    /\ \E code \in ErrorCodes, page \in ErrorPages :
         /\ Reads(<<"error_page", code, page, ";">>)
         /\ LET status == Atoi(Spelling[code])
            IN  server' = [server EXCEPT !.errors =
                  [c \in DOMAIN @ \cup {status} |->
                     IF c = status THEN ErrorPagePath(Spelling[page]) ELSE @[c]]]
    /\ UNCHANGED <<point, location, configs, listening>>

ParseLocation ==
    /\ point = "server"
    /\ \E w \in LocationNames :
         Reads(<<"location", w, "{">>) /\ location' = NewLocation(Spelling[w])
    /\ point' = "location"
    /\ UNCHANGED <<server, configs, listening>>

\* A word that is no directive of a server block, "" included, or a directive
\* that is repeated, has a bad value, or lacks its ";" or "{".
BadServerDirective ==
    /\ point = "server"
    /\ ~ \A d \in Token(1) \ {"}"}, w \in Token(2), end \in Token(3), more \in Token(4) :
           \/ d \in ServerValues \ server.has /\ w \in Accepted[d] /\ end = ";"
           \/ d = "error_page" /\ w \in ErrorCodes /\ end \in ErrorPages /\ more = ";"
           \/ d = "location" /\ w \in LocationNames /\ end = "{"
    /\ Throw

-----------------------------------------------------------------------------
(***************************************************************************)
(* ParseLocation.                                                          *)
(***************************************************************************)
Key(loc) == TrimTrailingSlashExceptRoot(loc.name)

\* Mutant: the names are compared as they are written.
IsSameName == \E i \in DOMAIN server.locations : server.locations[i].name = location.name

IsDuplicate == \E i \in DOMAIN server.locations : Key(server.locations[i]) = Key(location)

\* Server::AddLocation.
LocationEnds ==
    /\ point = "location" /\ ~ IsDuplicate /\ Reads(<<"}">>)
    /\ server' = [server EXCEPT !.locations = Append(@, location)]
    /\ point' = "server" /\ location' = NoLocation
    /\ UNCHANGED <<configs, listening>>

LocationValue(d, w) ==
    /\ point = "location" /\ d \notin location.has
    /\ w \in Accepted[d] /\ Reads(<<d, w, ";">>)
    /\ UNCHANGED <<point, server, configs, listening>>

ParseRoot ==
    \E w \in words :
        /\ LocationValue("root", w)
        /\ location' = [location EXCEPT !.root = ResolveRootPath(Spelling[w]),
                                        !.has = @ \cup {"root"}]

ParseAutoIndex ==
    \E w \in words :
        /\ LocationValue("autoindex", w)
        /\ location' = [location EXCEPT !.autoindex = (w = "on"), !.has = @ \cup {"autoindex"}]

ParseCgi ==
    \E w \in words :
        /\ LocationValue("cgi", w)
        /\ location' = [location EXCEPT !.cgi = (w = "on"), !.has = @ \cup {"cgi"}]

\* ParseIndex, ParseUploadPath and ParseRedirect keep the word as it is.
ParseWord(d) ==
    \E w \in words :
        /\ LocationValue(d, w)
        /\ location' = [location EXCEPT ![d] = w, !.has = @ \cup {d}]

\* ParseMethods, one turn of its loop at a time.
ListBegins(d, next) ==
    /\ point = "location" /\ d \notin location.has
    /\ point' = next
    /\ UNCHANGED <<server, configs, listening>>

ListEnds(d) ==
    /\ location' = [location EXCEPT !.has = @ \cup {d}]
    /\ point' = "location"
    /\ UNCHANGED <<server, configs, listening>>

ParseMethods ==
    ListBegins("allowed_methods", "methods") /\ Reads(<<"allowed_methods">>)
    /\ UNCHANGED location

AddAllowedMethod ==
    /\ point = "methods"
    /\ \E m \in MethodNames \cap words :
         Reads(<<m>>) /\ location' = [location EXCEPT !.allowed_methods = @ \cup {m}]
    /\ UNCHANGED <<point, server, configs, listening>>

MethodsEnd ==
    /\ point = "methods" /\ location.allowed_methods # {}
    /\ Reads(<<";">>) /\ ListEnds("allowed_methods")

\* Mutant: the end of the file is not noticed in the list.
BadMethodWord ==
    /\ point = "methods" /\ left > 0
    /\ ~ \A w \in words : w \in MethodNames \/ (w = ";" /\ location.allowed_methods # {})
    /\ Throw

BadMethod ==
    /\ point = "methods"
    /\ ~ \A w \in Token(1) : w \in MethodNames \/ (w = ";" /\ location.allowed_methods # {})
    /\ Throw

\* ParseCgiAllowedExtensions: every word up to ";" or the end of the file.
ParseCgiAllowedExtensions ==
    /\ ListBegins("cgi_allowed_extensions", "extensions")
    /\ \E w \in words \ {";"} :
         /\ Reads(<<"cgi_allowed_extensions", w>>)
         /\ location' = [location EXCEPT !.cgi_allowed_extensions = {w}]

AddCgiAllowedExtension ==
    /\ point = "extensions"
    /\ \E w \in words \ {";"} :
         /\ Reads(<<w>>)
         /\ location' = [location EXCEPT !.cgi_allowed_extensions = @ \cup {w}]
    /\ UNCHANGED <<point, server, configs, listening>>

ExtensionsEnd ==
    /\ point = "extensions"
    /\ Reads(<<";">>) \/ (left = 0 /\ UNCHANGED <<words, left>>)
    /\ ListEnds("cgi_allowed_extensions")

RepeatedLocation == point = "location" /\ IsDuplicate /\ "}" \in Token(1) /\ Throw

BadLocationDirective ==
    /\ point = "location"
    /\ ~ \A d \in Token(1) \ {"}"}, w \in Token(2), end \in Token(3) :
           \/ d \in LocationValues \ location.has /\ w \in Accepted[d] /\ end = ";"
           \/ d = "allowed_methods" /\ d \notin location.has
           \/ d = "cgi_allowed_extensions" /\ d \notin location.has /\ w \notin {"", ";"}
    /\ Throw

-----------------------------------------------------------------------------
(***************************************************************************)
(* InitServersFromConfigs and the constructor of Webserv: one socket for   *)
(* each port, in the order of the ports, on every interface.               *)
(***************************************************************************)
Ports == {configs[i].listen.port : i \in DOMAIN configs}

\* Mutant: a later block takes the port over.
LastBlock(port, i) ==
    /\ i \in DOMAIN configs /\ configs[i].listen.port = port
    /\ \A j \in DOMAIN configs : configs[j].listen.port = port => j <= i

FirstBlock(port, i) ==
    /\ i \in DOMAIN configs /\ configs[i].listen.port = port
    /\ \A j \in DOMAIN configs : configs[j].listen.port = port => i <= j

NextPort(port) ==
    /\ port \in Ports \ DOMAIN listening
    /\ \A p \in Ports \ DOMAIN listening : port <= p

OpenServerSocket ==
    /\ point = "open"
    /\ \E port \in Ports, i \in DOMAIN configs :
         /\ NextPort(port) /\ FirstBlock(port, i)
         /\ listening' = [p \in DOMAIN listening \cup {port} |->
                            IF p = port THEN i ELSE listening[p]]
    /\ UNCHANGED <<point, words, left, server, location, configs>>

Started ==
    /\ point = "open" /\ DOMAIN listening = Ports
    /\ point' = "running"
    /\ UNCHANGED <<words, left, server, location, configs, listening>>

\* epoll_create, socket, setsockopt, bind, listen or epoll_ctl fails:
\* ClearResources closes what is open.
OpenFails == point = "open" /\ Throw

-----------------------------------------------------------------------------
ServerStep ==
    \/ ServerEnds \/ ParseListen \/ ParseServerName \/ ParseMaxBody
    \/ ParseErrorPage \/ ParseLocation \/ BadServerDirective

LocationStep ==
    \/ LocationEnds \/ ParseRoot \/ ParseAutoIndex \/ ParseCgi
    \/ \E d \in {"index", "upload_path", "redirect"} : ParseWord(d)
    \/ ParseMethods \/ AddAllowedMethod \/ MethodsEnd \/ BadMethod
    \/ ParseCgiAllowedExtensions \/ AddCgiAllowedExtension \/ ExtensionsEnd
    \/ RepeatedLocation \/ BadLocationDirective

Next ==
    \/ LoadFile \/ LoadFails \/ ParseServer \/ ParseEnds \/ BadBlock
    \/ ServerStep \/ LocationStep
    \/ OpenServerSocket \/ Started \/ OpenFails

Spec == Init /\ [][Next]_vars /\ WF_vars(Next)

-----------------------------------------------------------------------------
(***************************************************************************)
(* Properties.                                                             *)
(***************************************************************************)
HasUniqueKeys(s) ==
    \A i, j \in DOMAIN s.locations :
        i # j => Key(s.locations[i]) # Key(s.locations[j])

\* No server block ever holds two locations whose names are equal up to trailing
\* slashes (ServerConfig::AddLocation).  FindLocationForUri relies on it: the
\* longest match is one location.
UniqueLocations ==
    HasUniqueKeys(server) /\ \A i \in DOMAIN configs : HasUniqueKeys(configs[i])

\* A value a block has once been given is what the server runs with: no later
\* directive of the block replaces it, it is refused (the Set... functions and
\* their has_ flags).  Error pages are not among them: there the last one counts.
NoSilentOverride ==
    [][/\ point' \in InLocation =>
            \A d \in LocationValues :
                location[d] # NoLocation[d] => location'[d] = location[d]
       /\ point = "location" /\ point' \in InLocation =>
            \A d \in LocationLists :
                location[d] # NoLocation[d] => location'[d] = location[d]
       /\ point' \in {"server"} \cup InLocation =>
            \A d \in ServerValues :
                server[d] # NewServer[d] => server'[d] = server[d]]_vars

\* Ports and sockets agree at both ends of start-up.  When the server runs, every
\* port of the file has one listening socket, and it serves the first block that
\* names the port (InitServersFromConfigs); when start-up has failed, while
\* parsing or after any number of sockets, none is left open (the catch around
\* the loop, ClearResources).
FirstBlockServes ==
    /\ point = "running" =>
        /\ DOMAIN listening = {configs[i].listen.port : i \in DOMAIN configs}
        /\ \A i \in DOMAIN configs : listening[configs[i].listen.port] <= i
    /\ point = "stopped" => listening = <<>>

\* IsValidHost refuses no host of the grammars that its comment names, and accepts
\* nothing else, with one exception: an IPv4 address and one more dot.  The comment
\* wants malformed hosts rejected, but getline takes a last dot for the end of the
\* fourth number and not for the beginning of a fifth.  Nothing else malformed gets
\* through, as an address or as a domain name.
HostAgrees ==
    point = "load" =>
        \A host \in Hosts : IsValidHost(host) <=> IsHost(host) \/ IsAddressAndDot(host)

\* Start-up ends on every file, also one that stops in the middle of a block or
\* of a list: the server runs or the process stops.
StartupEnds == <>(point \in {"running", "stopped"})
=============================================================================
