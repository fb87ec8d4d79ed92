---------------------------- MODULE ConfigProofs ---------------------------
(***************************************************************************)
(* Start-up, for every configuration file: locations of a block stay       *)
(* distinct, no directive is silently replaced, and every port is served   *)
(* by the first block that names it; and hosts of any length are accepted  *)
(* as the grammars say.                                                    *)
(***************************************************************************)
EXTENDS Config, Induction

(***************************************************************************)
(* Types.  The conversions stay opaque: a value is what some word is       *)
(* converted to, or the default.                                           *)
(***************************************************************************)
LocationType ==
    [name : {Spelling[w] : w \in Words} \cup {<<"/">>},
     root : {ResolveRootPath(Spelling[w]) : w \in Words} \cup {<<".", "/">>},
     autoindex : BOOLEAN, index : Words \cup {""}, upload_path : Words \cup {""},
     redirect : Words \cup {""}, cgi : BOOLEAN,
     allowed_methods : SUBSET Words, cgi_allowed_extensions : SUBSET Words,
     has : SUBSET (LocationValues \cup LocationLists)]

ErrorTables ==
    UNION {[codes -> {ErrorPagePath(Spelling[w]) : w \in Words}] :
             codes \in SUBSET {Atoi(Spelling[w]) : w \in Words}}

ServerType ==
    [listen : {ListenAt(Spelling[w]) : w \in Words} \cup {[host |-> AnyHost, port |-> 80]},
     server_name : Words \cup {""},
     client_max_body_size : {Atoi(Spelling[w]) : w \in Words} \cup {0},
     errors : ErrorTables, locations : Seq(LocationType), has : SUBSET ServerValues]

StateType ==
    /\ point \in Points
    /\ words \subseteq Words
    /\ server \in ServerType
    /\ location \in LocationType
    /\ configs \in Seq(ServerType)

LEMMA NewServerType == NewServer \in ServerType
<1>1. <<>> \in ErrorTables
  <2>1. <<>> \in [{} -> {ErrorPagePath(Spelling[w]) : w \in Words}]
    OBVIOUS
  <2> QED BY <2>1 DEF ErrorTables
<1>2. <<>> \in Seq(LocationType)
  OBVIOUS
<1> QED BY <1>1, <1>2 DEF NewServer, ServerType

LEMMA NewLocationType ==
    ASSUME NEW name \in {Spelling[w] : w \in Words} \cup {<<"/">>}
    PROVE  NewLocation(name) \in LocationType
  BY DEF NewLocation, LocationType

-----------------------------------------------------------------------------
(***************************************************************************)
(* What the directives change.  Each one sets exactly one value d, which   *)
(* was not given before.                                                   *)
(***************************************************************************)
SetsServer(d) ==
    /\ point = "server" /\ d \notin server.has
    /\ server'.has = server.has \cup {d}
    /\ server'.locations = server.locations
    /\ \A e \in ServerValues \ {d} : server'[e] = server[e]
    /\ UNCHANGED <<point, words, location, configs, listening>>

SetsLocation(d) ==
    /\ point = "location" /\ d \notin location.has
    /\ location'.has = location.has \cup {d}
    /\ \A e \in (LocationValues \cup LocationLists) \ {d} : location'[e] = location[e]
    /\ UNCHANGED <<point, words, server, configs, listening>>

ServerSet == ParseListen \/ ParseServerName \/ ParseMaxBody

LocationSet ==
    \/ ParseRoot \/ ParseAutoIndex \/ ParseCgi
    \/ \E d \in {"index", "upload_path", "redirect"} : ParseWord(d)

LEMMA ReadsKeep == \A ws : Reads(ws) => UNCHANGED words
  BY DEF Reads

LEMMA ServerValueKeeps ==
    ASSUME NEW d, NEW w, ServerValue(d, w)
    PROVE  /\ point = "server" /\ d \notin server.has
           /\ UNCHANGED <<point, words, location, configs, listening>>
  BY DEF ServerValue, Reads

LEMMA ServerSets ==
    ASSUME StateType, ServerSet
    PROVE  server' \in ServerType /\ \E d \in ServerValues : SetsServer(d)
<1>0. server \in ServerType /\ words \subseteq Words
  BY DEF StateType
<1> USE DEF ServerValues
<1>1. CASE ParseListen
  <2>1. PICK w \in words :
          /\ ServerValue("listen", w)
          /\ server' = [server EXCEPT !.listen = ListenAt(Spelling[w]),
                                      !.has = @ \cup {"listen"}]
    BY <1>1 DEF ParseListen
  <2>2. ListenAt(Spelling[w]) \in {ListenAt(Spelling[v]) : v \in Words}
    BY <1>0
  <2>3. server' \in ServerType
    BY <1>0, <2>1, <2>2 DEF ServerType
  <2>4. SetsServer("listen")
    BY <1>0, <2>1, ServerValueKeeps DEF SetsServer, ServerType
  <2> QED BY <2>3, <2>4
<1>2. CASE ParseServerName
  <2>1. PICK w \in words :
          /\ ServerValue("server_name", w)
          /\ server' = [server EXCEPT !.server_name = w, !.has = @ \cup {"server_name"}]
    BY <1>2 DEF ParseServerName
  <2>2. server' \in ServerType
    BY <1>0, <2>1 DEF ServerType
  <2>3. SetsServer("server_name")
    BY <1>0, <2>1, ServerValueKeeps DEF SetsServer, ServerType
  <2> QED BY <2>2, <2>3
<1>3. CASE ParseMaxBody
  <2>1. PICK w \in words :
          /\ ServerValue("client_max_body_size", w)
          /\ server' = [server EXCEPT !.client_max_body_size = Atoi(Spelling[w]),
                                      !.has = @ \cup {"client_max_body_size"}]
    BY <1>3 DEF ParseMaxBody
  <2>2. Atoi(Spelling[w]) \in {Atoi(Spelling[v]) : v \in Words}
    BY <1>0
  <2>3. server' \in ServerType
    BY <1>0, <2>1, <2>2 DEF ServerType
  <2>4. SetsServer("client_max_body_size")
    BY <1>0, <2>1, ServerValueKeeps DEF SetsServer, ServerType
  <2> QED BY <2>3, <2>4
<1> QED BY <1>1, <1>2, <1>3 DEF ServerSet

\* An error page replaces one in its table and nothing else.
LEMMA ErrorPageSets ==
    ASSUME StateType, ParseErrorPage
    PROVE  /\ server' \in ServerType
           /\ point = "server" /\ server'.has = server.has
           /\ server'.locations = server.locations
           /\ \A e \in ServerValues : server'[e] = server[e]
           /\ UNCHANGED <<point, words, location, configs, listening>>
<1> DEFINE codes == {Atoi(Spelling[w]) : w \in Words}
           pages == {ErrorPagePath(Spelling[w]) : w \in Words}
<1>0. server \in ServerType
  BY DEF StateType
<1>1. PICK code \in ErrorCodes, page \in ErrorPages :
        server' = [server EXCEPT !.errors =
          [c \in DOMAIN server.errors \cup {Atoi(Spelling[code])} |->
             IF c = Atoi(Spelling[code]) THEN ErrorPagePath(Spelling[page])
             ELSE server.errors[c]]]
  BY DEF ParseErrorPage
<1>2. Atoi(Spelling[code]) \in codes /\ ErrorPagePath(Spelling[page]) \in pages
  BY DEF ErrorCodes, ErrorPages, Spelled
<1>3. PICK known \in SUBSET codes : server.errors \in [known -> pages]
  BY <1>0 DEF ServerType, ErrorTables
<1>4. server'.errors \in [known \cup {Atoi(Spelling[code])} -> pages]
  <2> HIDE DEF pages, codes
  <2> QED BY <1>0, <1>1, <1>2, <1>3 DEF ServerType
<1>5. server'.errors \in ErrorTables
  BY <1>2, <1>4 DEF ErrorTables
<1>6. server' \in ServerType
  BY <1>0, <1>1, <1>5 DEF ServerType
<1>7. /\ server'.has = server.has /\ server'.locations = server.locations
      /\ \A e \in ServerValues : server'[e] = server[e]
  BY <1>0, <1>1 DEF ServerType, ServerValues
<1>8. point = "server" /\ UNCHANGED <<point, words, location, configs, listening>>
  BY DEF ParseErrorPage, Reads
<1> QED BY <1>6, <1>7, <1>8

LEMMA LocationValueKeeps ==
    ASSUME NEW d, NEW w, LocationValue(d, w)
    PROVE  /\ point = "location" /\ d \notin location.has
           /\ UNCHANGED <<point, words, server, configs, listening>>
  BY DEF LocationValue, Reads

LEMMA LocationSets ==
    ASSUME StateType, LocationSet
    PROVE  location' \in LocationType /\ \E d \in LocationValues : SetsLocation(d)
<1>0. location \in LocationType /\ words \subseteq Words
  BY DEF StateType
<1> USE DEF LocationValues, LocationLists
<1>1. CASE ParseRoot
  <2>1. PICK w \in words :
          /\ LocationValue("root", w)
          /\ location' = [location EXCEPT !.root = ResolveRootPath(Spelling[w]),
                                          !.has = @ \cup {"root"}]
    BY <1>1 DEF ParseRoot
  <2>2. ResolveRootPath(Spelling[w]) \in {ResolveRootPath(Spelling[v]) : v \in Words}
    BY <1>0
  <2>3. location' \in LocationType
    BY <1>0, <2>1, <2>2 DEF LocationType
  <2>4. SetsLocation("root")
    BY <1>0, <2>1, LocationValueKeeps DEF SetsLocation, LocationType
  <2> QED BY <2>3, <2>4
<1>2. CASE ParseAutoIndex
  <2>1. PICK w \in words :
          /\ LocationValue("autoindex", w)
          /\ location' = [location EXCEPT !.autoindex = (w = "on"),
                                          !.has = @ \cup {"autoindex"}]
    BY <1>2 DEF ParseAutoIndex
  <2>2. location' \in LocationType
    BY <1>0, <2>1 DEF LocationType
  <2>3. SetsLocation("autoindex")
    BY <1>0, <2>1, LocationValueKeeps DEF SetsLocation, LocationType
  <2> QED BY <2>2, <2>3
<1>3. CASE ParseCgi
  <2>1. PICK w \in words :
          /\ LocationValue("cgi", w)
          /\ location' = [location EXCEPT !.cgi = (w = "on"), !.has = @ \cup {"cgi"}]
    BY <1>3 DEF ParseCgi
  <2>2. location' \in LocationType
    BY <1>0, <2>1 DEF LocationType
  <2>3. SetsLocation("cgi")
    BY <1>0, <2>1, LocationValueKeeps DEF SetsLocation, LocationType
  <2> QED BY <2>2, <2>3
<1>4. ASSUME NEW d \in {"index", "upload_path", "redirect"}, ParseWord(d)
      PROVE  location' \in LocationType /\ SetsLocation(d)
  <2>1. PICK w \in words :
          /\ LocationValue(d, w)
          /\ location' = [location EXCEPT ![d] = w, !.has = @ \cup {d}]
    BY <1>4 DEF ParseWord
  <2>2. location' \in LocationType
    BY <1>0, <2>1 DEF LocationType
  <2>3. SetsLocation(d)
    BY <1>0, <2>1, LocationValueKeeps DEF SetsLocation, LocationType
  <2> QED BY <2>2, <2>3
<1>5. ASSUME NEW d \in {"index", "upload_path", "redirect"}, ParseWord(d)
      PROVE  location' \in LocationType /\ \E e \in LocationValues : SetsLocation(e)
  BY <1>4, <1>5
<1> QED BY <1>1, <1>2, <1>3, <1>5 DEF LocationSet

(***************************************************************************)
(* The two lists are read word by word.  A list that is being read is not  *)
(* flagged yet.                                                            *)
(***************************************************************************)
Reading(d) ==
    \/ d = "allowed_methods" /\ point = "methods"
    \/ d = "cgi_allowed_extensions" /\ point = "extensions"

ListStep ==
    \/ ParseMethods \/ AddAllowedMethod \/ MethodsEnd
    \/ ParseCgiAllowedExtensions \/ AddCgiAllowedExtension \/ ExtensionsEnd

\* A step of list d: it begins, goes on or ends.
SetsList(d) ==
    /\ \/ point = "location" /\ d \notin location.has
       \/ Reading(d)
    /\ \/ point' = "location" /\ location'.has = location.has \cup {d}
       \/ Reading(d)' /\ location'.has = location.has
    /\ \A e \in (LocationValues \cup LocationLists) \ {d} : location'[e] = location[e]
    /\ UNCHANGED <<words, server, configs, listening>>

LEMMA ListSets ==
    ASSUME StateType, ListStep
    PROVE  location' \in LocationType /\ \E d \in LocationLists : SetsList(d)
<1>0. location \in LocationType /\ words \subseteq Words
  BY DEF StateType
<1> USE DEF LocationValues, LocationLists, Reading
<1>1. CASE ParseMethods
  <2>1. SetsList("allowed_methods") /\ location' = location
    BY <1>1 DEF ParseMethods, ListBegins, Reads, SetsList
  <2> QED BY <1>0, <2>1
<1>2. CASE AddAllowedMethod
  <2>1. PICK m \in words :
          /\ location' = [location EXCEPT !.allowed_methods = @ \cup {m}]
          /\ UNCHANGED words
    BY <1>2, ReadsKeep DEF AddAllowedMethod
  <2>2. location' \in LocationType
    BY <1>0, <2>1 DEF LocationType
  <2>3. point = "methods" /\ UNCHANGED <<point, server, configs, listening>>
    BY <1>2 DEF AddAllowedMethod
  <2>4. SetsList("allowed_methods")
    BY <1>0, <2>1, <2>3 DEF SetsList, LocationType
  <2> QED BY <2>2, <2>4
<1>3. CASE MethodsEnd
  <2>1. /\ location' = [location EXCEPT !.has = @ \cup {"allowed_methods"}]
        /\ point = "methods" /\ point' = "location"
        /\ UNCHANGED <<words, server, configs, listening>>
    BY <1>3 DEF MethodsEnd, ListEnds, Reads
  <2>2. location' \in LocationType
    BY <1>0, <2>1 DEF LocationType
  <2>3. SetsList("allowed_methods")
    BY <1>0, <2>1 DEF SetsList, LocationType
  <2> QED BY <2>2, <2>3
<1>4. CASE ParseCgiAllowedExtensions
  <2>1. PICK w \in words :
          /\ location' = [location EXCEPT !.cgi_allowed_extensions = {w}]
          /\ UNCHANGED words
    BY <1>4 DEF ParseCgiAllowedExtensions, Reads
  <2>2. location' \in LocationType
    BY <1>0, <2>1 DEF LocationType
  <2>3. /\ point = "location" /\ "cgi_allowed_extensions" \notin location.has
        /\ point' = "extensions" /\ UNCHANGED <<server, configs, listening>>
    BY <1>4 DEF ParseCgiAllowedExtensions, ListBegins
  <2>4. SetsList("cgi_allowed_extensions")
    BY <1>0, <2>1, <2>3 DEF SetsList, LocationType
  <2> QED BY <2>2, <2>4
<1>5. CASE AddCgiAllowedExtension
  <2>1. PICK w \in words :
          /\ location' = [location EXCEPT !.cgi_allowed_extensions = @ \cup {w}]
          /\ UNCHANGED words
    BY <1>5 DEF AddCgiAllowedExtension, Reads
  <2>2. location' \in LocationType
    BY <1>0, <2>1 DEF LocationType
  <2>3. point = "extensions" /\ UNCHANGED <<point, server, configs, listening>>
    BY <1>5 DEF AddCgiAllowedExtension
  <2>4. SetsList("cgi_allowed_extensions")
    BY <1>0, <2>1, <2>3 DEF SetsList, LocationType
  <2> QED BY <2>2, <2>4
<1>6. CASE ExtensionsEnd
  <2>1. /\ location' = [location EXCEPT !.has = @ \cup {"cgi_allowed_extensions"}]
        /\ point = "extensions" /\ point' = "location"
        /\ UNCHANGED <<words, server, configs, listening>>
    BY <1>6, ReadsKeep DEF ExtensionsEnd, ListEnds
  <2>2. location' \in LocationType
    BY <1>0, <2>1 DEF LocationType
  <2>3. SetsList("cgi_allowed_extensions")
    BY <1>0, <2>1 DEF SetsList, LocationType
  <2> QED BY <2>2, <2>3
<1> QED BY <1>1, <1>2, <1>3, <1>4, <1>5, <1>6 DEF ListStep

-----------------------------------------------------------------------------
(***************************************************************************)
(* A step of start-up is an exception, one of the directives above, or the *)
(* begin or end of a block or of a phase.                                  *)
(***************************************************************************)
Phase == LoadFile \/ ParseEnds \/ OpenServerSocket \/ Started

Block == ParseServer \/ ServerEnds \/ ParseLocation \/ LocationEnds

LEMMA StepKinds ==
    ASSUME Next
    PROVE  Throw \/ ServerSet \/ ParseErrorPage \/ LocationSet \/ ListStep \/ Phase \/ Block
<1>1. \/ LoadFails \/ BadBlock \/ BadServerDirective \/ BadMethod
      \/ RepeatedLocation \/ BadLocationDirective \/ OpenFails
      => Throw
  BY DEF LoadFails, BadBlock, BadServerDirective, BadMethod, RepeatedLocation,
         BadLocationDirective, OpenFails
<1> QED
  BY <1>1 DEF Next, ServerStep, LocationStep, ServerSet, LocationSet, ListStep,
              Phase, Block

LEMMA PhaseKeeps ==
    ASSUME StateType, Phase
    PROVE  /\ words' \subseteq Words /\ UNCHANGED <<server, location, configs>>
           /\ <<point, point'>> \in {<<"load", "parse">>, <<"parse", "open">>,
                                     <<"open", "open">>, <<"open", "running">>}
           /\ point # "open" => listening' = listening
<1>1. CASE LoadFile
  BY <1>1, WordsAssumption DEF LoadFile, Words
<1>2. CASE ParseEnds
  BY <1>2 DEF ParseEnds, StateType
<1>3. CASE OpenServerSocket
  BY <1>3 DEF OpenServerSocket, StateType
<1>4. CASE Started
  BY <1>4 DEF Started, StateType
<1> QED BY <1>1, <1>2, <1>3, <1>4 DEF Phase

\* A block begins or ends.
Begins(from, to) == point = from /\ point' = to /\ UNCHANGED <<words, listening>>

LEMMA BlockEffects ==
    /\ ParseServer => /\ Begins("parse", "server") /\ server' = NewServer
                      /\ UNCHANGED <<location, configs>>
    /\ ServerEnds => /\ Begins("server", "parse") /\ server' = NewServer
                     /\ configs' = Append(configs, server) /\ UNCHANGED location
    /\ ParseLocation => /\ Begins("server", "location") /\ UNCHANGED <<server, configs>>
                        /\ \E w \in Words : location' = NewLocation(Spelling[w])
    /\ LocationEnds => /\ Begins("location", "server") /\ location' = NoLocation
                       /\ ~ IsDuplicate
                       /\ server' = [server EXCEPT !.locations = Append(@, location)]
                       /\ UNCHANGED configs
<1>1. ParseServer => /\ Begins("parse", "server") /\ server' = NewServer
                     /\ UNCHANGED <<location, configs>>
  BY ReadsKeep DEF ParseServer, Begins
<1>2. ServerEnds => /\ Begins("server", "parse") /\ server' = NewServer
                    /\ configs' = Append(configs, server) /\ UNCHANGED location
  BY ReadsKeep DEF ServerEnds, Begins
<1>3. ParseLocation => /\ Begins("server", "location") /\ UNCHANGED <<server, configs>>
                       /\ \E w \in Words : location' = NewLocation(Spelling[w])
  BY ReadsKeep DEF ParseLocation, LocationNames, Spelled, Begins
<1>4. LocationEnds => /\ Begins("location", "server") /\ location' = NoLocation
                      /\ ~ IsDuplicate
                      /\ server' = [server EXCEPT !.locations = Append(@, location)]
                      /\ UNCHANGED configs
  BY ReadsKeep DEF LocationEnds, Begins
<1> QED BY <1>1, <1>2, <1>3, <1>4

LEMMA NoLocationType == NoLocation \in LocationType
  BY NewLocationType DEF NoLocation

LEMMA TypeInit == Init => StateType
  BY NewServerType, NoLocationType DEF Init, StateType, Points

LEMMA BlockType == ASSUME StateType, Block PROVE StateType'
<1>1. CASE ParseServer
  BY <1>1, BlockEffects, NewServerType DEF Begins, StateType, Points
<1>2. CASE ServerEnds
  <2>1. configs' = Append(configs, server)
    BY <1>2, BlockEffects
  <2>2. configs' \in Seq(ServerType)
    BY <2>1 DEF StateType
  <2> QED BY <1>2, <2>2, BlockEffects, NewServerType DEF Begins, StateType, Points
<1>3. CASE ParseLocation
  <2>1. location' \in LocationType
    BY <1>3, BlockEffects, NewLocationType
  <2> QED BY <1>3, <2>1, BlockEffects DEF Begins, StateType, Points, InLocation
<1>4. CASE LocationEnds
  <2>1. server' = [server EXCEPT !.locations = Append(@, location)]
    BY <1>4, BlockEffects
  <2>2. server \in ServerType /\ location \in LocationType
    BY DEF StateType
  <2>3. Append(server.locations, location) \in Seq(LocationType)
    <3>1. server.locations \in Seq(LocationType)
      BY <2>2 DEF ServerType
    <3> QED BY <2>2, <3>1
  <2>4. server' \in ServerType
    BY <2>1, <2>2, <2>3 DEF ServerType
  <2> QED BY <1>4, <2>4, BlockEffects, NoLocationType DEF Begins, StateType, Points
<1> QED BY <1>1, <1>2, <1>3, <1>4 DEF Block

LEMMA TypeStep == StateType /\ [Next]_vars => StateType'
<1> SUFFICES ASSUME StateType, [Next]_vars PROVE StateType'
  OBVIOUS
<1>1. CASE Throw
  BY <1>1, NewServerType, NoLocationType DEF Throw, StateType, Points
<1>2. CASE ServerSet
  BY <1>2, ServerSets DEF SetsServer, StateType
<1>3. CASE ParseErrorPage
  BY <1>3, ErrorPageSets DEF StateType
<1>4. CASE LocationSet
  BY <1>4, LocationSets DEF SetsLocation, StateType
<1>5. CASE ListStep
  <2>1. PICK d \in LocationLists : SetsList(d)
    BY <1>5, ListSets
  <2>2. point' \in {"location", "methods", "extensions"}
    BY <2>1 DEF SetsList, Reading
  <2>3. location' \in LocationType
    BY <1>5, ListSets
  <2> QED BY <2>1, <2>2, <2>3 DEF SetsList, StateType, Points, InLocation
<1>6. CASE Phase
  BY <1>6, PhaseKeeps DEF StateType, Points
<1>7. CASE Block
  BY <1>7, BlockType
<1>8. CASE UNCHANGED vars
  BY <1>8 DEF vars, StateType
<1> QED BY <1>1, <1>2, <1>3, <1>4, <1>5, <1>6, <1>7, <1>8, StepKinds

-----------------------------------------------------------------------------
(***************************************************************************)
(* A block that is parsed holds no value that is not flagged as given, and *)
(* outside of a block there is a new one.                                  *)
(***************************************************************************)
FlagsInv ==
    /\ point \notin {"server"} \cup InLocation => server = NewServer
    /\ point \notin InLocation => location = NoLocation
    /\ \A d \in ServerValues : server[d] # NewServer[d] => d \in server.has
    /\ \A d \in LocationValues : location[d] # NoLocation[d] => d \in location.has
    /\ \A d \in LocationLists :
         location[d] # NoLocation[d] => d \in location.has \/ Reading(d)

LEMMA FlagsInit == Init => FlagsInv
  BY DEF Init, FlagsInv, InLocation

\* A new location has the defaults under any name.
LEMMA NewLocationDefaults ==
    ASSUME NEW name, NEW d \in LocationValues \cup LocationLists
    PROVE  NewLocation(name)[d] = NoLocation[d]
<1>1. /\ NewLocation(name).root = NoLocation.root
      /\ NewLocation(name).autoindex = NoLocation.autoindex
      /\ NewLocation(name).index = NoLocation.index
      /\ NewLocation(name).upload_path = NoLocation.upload_path
      /\ NewLocation(name).redirect = NoLocation.redirect
      /\ NewLocation(name).cgi = NoLocation.cgi
      /\ NewLocation(name).allowed_methods = NoLocation.allowed_methods
      /\ NewLocation(name).cgi_allowed_extensions = NoLocation.cgi_allowed_extensions
  BY DEF NewLocation, NoLocation
<1> QED BY <1>1 DEF LocationValues, LocationLists

LEMMA FlagsStep == StateType /\ FlagsInv /\ [Next]_vars => FlagsInv'
<1> SUFFICES ASSUME StateType, FlagsInv, [Next]_vars PROVE FlagsInv'
  OBVIOUS
<1>1. CASE Throw
  BY <1>1 DEF Throw, FlagsInv, InLocation
<1>2. CASE ServerSet
  <2>1. PICK d \in ServerValues : SetsServer(d)
    BY <1>2, ServerSets
  <2> QED BY <2>1 DEF SetsServer, FlagsInv, Reading, InLocation
<1>3. CASE ParseErrorPage
  <2>1. point = "server" /\ UNCHANGED <<point, location>>
    BY <1>3, ErrorPageSets
  <2>2. server'.has = server.has /\ \A e \in ServerValues : server'[e] = server[e]
    BY <1>3, ErrorPageSets
  <2> QED BY <2>1, <2>2 DEF FlagsInv, Reading, InLocation
<1>4. CASE LocationSet
  <2>1. PICK d \in LocationValues : SetsLocation(d)
    BY <1>4, LocationSets
  <2> QED BY <2>1 DEF SetsLocation, FlagsInv, Reading, InLocation
<1>5. CASE ListStep
  <2>1. PICK d \in LocationLists : SetsList(d)
    BY <1>5, ListSets
  <2>2. point' \in InLocation /\ point \in InLocation
    BY <2>1 DEF SetsList, Reading, InLocation
  <2>3. \A e \in LocationValues : e # d
    BY DEF LocationValues, LocationLists
  <2>4. \A e \in LocationLists :
          location'[e] # NoLocation[e] => e \in location'.has \/ Reading(e)'
    <3>1. d \in location'.has \/ Reading(d)'
      BY <2>1 DEF SetsList
    <3>2. ASSUME NEW e \in LocationLists \ {d}, location'[e] # NoLocation[e]
          PROVE  e \in location'.has
      BY <2>1, <3>2 DEF SetsList, FlagsInv, Reading, LocationLists
    <3> QED BY <3>1, <3>2
  <2>5. \A e \in LocationValues : location'[e] # NoLocation[e] => e \in location'.has
    BY <2>1, <2>3 DEF SetsList, FlagsInv
  <2>6. server' = server
    BY <2>1 DEF SetsList
  <2> QED BY <2>2, <2>4, <2>5, <2>6 DEF FlagsInv
<1>6. CASE Phase
  BY <1>6, PhaseKeeps DEF FlagsInv, Reading, InLocation
<1>7. CASE ParseServer \/ ServerEnds
  BY <1>7, BlockEffects DEF Begins, FlagsInv, Reading, InLocation
<1>8. CASE ParseLocation
  <2>1. \A d \in LocationValues \cup LocationLists : location'[d] = NoLocation[d]
    BY <1>8, BlockEffects, NewLocationDefaults
  <2> QED BY <1>8, <2>1, BlockEffects DEF Begins, FlagsInv, InLocation
<1>9. CASE LocationEnds
  <2>1. server' = [server EXCEPT !.locations = Append(@, location)]
    BY <1>9, BlockEffects
  <2>2. server'.has = server.has /\ \A d \in ServerValues : server'[d] = server[d]
    BY <2>1 DEF StateType, ServerType, ServerValues
  <2> QED BY <1>9, <2>2, BlockEffects DEF Begins, FlagsInv, InLocation
<1>10. CASE UNCHANGED vars
  BY <1>10 DEF vars, FlagsInv, Reading
<1> QED BY <1>1, <1>2, <1>3, <1>4, <1>5, <1>6, <1>7, <1>8, <1>9, <1>10, StepKinds DEF Block

(***************************************************************************)
(* The theorems.                                                           *)
(***************************************************************************)
ConfigInv == StateType /\ FlagsInv

LEMMA ConfigInvAlways == Spec => []ConfigInv
  BY TypeInit, TypeStep, FlagsInit, FlagsStep, PTL DEF Spec, ConfigInv

\* No directive of a block replaces a value that an earlier one has given: the
\* Set... functions refuse it by their has_ flags, for every file and however
\* its words are converted.
THEOREM NeverSilentOverride == Spec => NoSilentOverride
<1> DEFINE Keeps ==
      /\ point' \in InLocation =>
           \A d \in LocationValues :
               location[d] # NoLocation[d] => location'[d] = location[d]
      /\ point = "location" /\ point' \in InLocation =>
           \A d \in LocationLists :
               location[d] # NoLocation[d] => location'[d] = location[d]
      /\ point' \in {"server"} \cup InLocation =>
           \A d \in ServerValues :
               server[d] # NewServer[d] => server'[d] = server[d]
<1>1. ConfigInv /\ [Next]_vars => [Keeps]_vars
  <2> SUFFICES ASSUME ConfigInv, Next PROVE Keeps
    OBVIOUS
  <2> USE DEF ConfigInv
  <2>1. CASE Throw
    BY <2>1 DEF Throw, InLocation
  <2>2. CASE ServerSet
    <3>1. PICK d \in ServerValues : SetsServer(d)
      BY <2>2, ServerSets
    <3> QED BY <3>1 DEF SetsServer, FlagsInv, InLocation
  <2>3. CASE ParseErrorPage
    <3>1. location' = location /\ \A d \in ServerValues : server'[d] = server[d]
      BY <2>3, ErrorPageSets
    <3> QED BY <3>1
  <2>4. CASE LocationSet
    <3>1. PICK d \in LocationValues : SetsLocation(d)
      BY <2>4, LocationSets
    <3> QED BY <3>1 DEF SetsLocation, FlagsInv
  <2>5. CASE ListStep
    <3>1. PICK d \in LocationLists : SetsList(d)
      BY <2>5, ListSets
    <3>2. \A e \in LocationValues : location'[e] = location[e]
      BY <3>1 DEF SetsList, LocationValues, LocationLists
    <3>3. server' = server
      BY <3>1 DEF SetsList
    <3>4. point = "location" =>
            \A e \in LocationLists :
                location[e] # NoLocation[e] => location'[e] = location[e]
      BY <3>1 DEF SetsList, FlagsInv, Reading
    <3> QED BY <3>2, <3>3, <3>4
  <2>6. CASE Phase
    BY <2>6, PhaseKeeps
  <2>7. CASE ParseServer \/ ServerEnds
    BY <2>7, BlockEffects DEF Begins, FlagsInv, InLocation
  <2>8. CASE ParseLocation
    <3>1. location = NoLocation /\ server' = server
      BY <2>8, BlockEffects DEF Begins, FlagsInv, InLocation
    <3> QED BY <3>1
  <2>9. CASE LocationEnds
    <3>1. server' = [server EXCEPT !.locations = Append(@, location)]
      BY <2>9, BlockEffects
    <3>2. \A d \in ServerValues : server'[d] = server[d]
      BY <3>1 DEF StateType, ServerType, ServerValues
    <3>3. point' = "server"
      BY <2>9, BlockEffects DEF Begins
    <3> QED BY <3>2, <3>3 DEF InLocation
  <2> QED BY <2>1, <2>2, <2>3, <2>4, <2>5, <2>6, <2>7, <2>8, <2>9, StepKinds DEF Block
<1> QED BY <1>1, ConfigInvAlways, PTL DEF Spec, NoSilentOverride

\* No server block holds two locations whose names are equal up to trailing
\* slashes: AddLocation compares every new one with all before it.
THEOREM AlwaysUniqueLocations == Spec => []UniqueLocations
<1>1. HasUniqueKeys(NewServer)
  <2>1. NewServer.locations = <<>>
    BY DEF NewServer
  <2> QED BY <2>1 DEF HasUniqueKeys
<1>2. Init => UniqueLocations
  BY <1>1 DEF Init, UniqueLocations
<1>3. StateType /\ UniqueLocations /\ [Next]_vars => UniqueLocations'
  <2> SUFFICES ASSUME StateType, UniqueLocations, [Next]_vars PROVE UniqueLocations'
    OBVIOUS
  <2>1. CASE Throw
    BY <1>1, <2>1 DEF Throw, UniqueLocations
  <2>2. CASE ServerSet \/ ParseErrorPage
    <3>1. server'.locations = server.locations /\ configs' = configs
      BY <2>2, ServerSets, ErrorPageSets DEF SetsServer
    <3> QED BY <3>1 DEF UniqueLocations, HasUniqueKeys
  <2>3. CASE LocationSet \/ ListStep \/ Phase
    <3>1. server' = server /\ configs' = configs
      BY <2>3, LocationSets, ListSets, PhaseKeeps DEF SetsLocation, SetsList
    <3> QED BY <3>1 DEF UniqueLocations
  <2>4. CASE ParseServer
    BY <1>1, <2>4, BlockEffects DEF UniqueLocations
  <2>5. CASE ServerEnds
    <3>1. server' = NewServer /\ configs' = Append(configs, server)
      BY <2>5, BlockEffects
    <3>2. configs \in Seq(ServerType) /\ server \in ServerType
      BY DEF StateType
    <3>3. \A i \in DOMAIN configs' : \/ i \in DOMAIN configs /\ configs'[i] = configs[i]
                                     \/ configs'[i] = server
      BY <3>1, <3>2
    <3> QED BY <1>1, <3>1, <3>3 DEF UniqueLocations
  <2>6. CASE ParseLocation
    BY <2>6, BlockEffects DEF UniqueLocations
  <2>7. CASE LocationEnds
    <3>1. /\ server' = [server EXCEPT !.locations = Append(@, location)]
          /\ ~ IsDuplicate /\ configs' = configs
      BY <2>7, BlockEffects
    <3>2. server \in ServerType /\ location \in LocationType
      BY DEF StateType
    <3>3. server'.locations = Append(server.locations, location)
      BY <3>1, <3>2 DEF ServerType
    <3>4. server.locations \in Seq(LocationType)
      BY <3>2 DEF ServerType
    <3>5. \A i \in DOMAIN server'.locations :
            \/ i \in DOMAIN server.locations /\ server'.locations[i] = server.locations[i]
            \/ i = Len(server.locations) + 1 /\ server'.locations[i] = location
      BY <3>2, <3>3, <3>4
    <3>6. HasUniqueKeys(server')
      BY <3>1, <3>5 DEF UniqueLocations, HasUniqueKeys, IsDuplicate
    <3> QED BY <3>1, <3>6 DEF UniqueLocations
  <2>8. CASE UNCHANGED vars
    BY <2>8 DEF vars, UniqueLocations
  <2> QED BY <2>1, <2>2, <2>3, <2>4, <2>5, <2>6, <2>7, <2>8, StepKinds DEF Block
<1> QED BY <1>2, <1>3, ConfigInvAlways, PTL DEF Spec, ConfigInv

(***************************************************************************)
(* The sockets that are open serve the first block of their port, and only *)
(* in the phase that opens them, and later, is one open.                   *)
(***************************************************************************)
SocketsInv ==
    /\ point \notin {"open", "running"} => listening = <<>>
    /\ DOMAIN listening \subseteq Ports
    /\ \A port \in DOMAIN listening : FirstBlock(port, listening[port])
    /\ point = "running" => DOMAIN listening = Ports

LEMMA SocketsInit == Init => SocketsInv
  BY DEF Init, SocketsInv

LEMMA SocketsStep == StateType /\ SocketsInv /\ [Next]_vars => SocketsInv'
<1> SUFFICES ASSUME StateType, SocketsInv, [Next]_vars PROVE SocketsInv'
  OBVIOUS
<1>0. ASSUME listening' = <<>>, point' # "running" PROVE SocketsInv'
  BY <1>0 DEF SocketsInv
<1>1. CASE Throw
  BY <1>0, <1>1 DEF Throw
<1>2. CASE ServerSet \/ ParseErrorPage \/ LocationSet
  <2>1. point \in {"server", "location"} /\ UNCHANGED <<point, listening>>
    BY <1>2, ServerSets, ErrorPageSets, LocationSets DEF SetsServer, SetsLocation
  <2> QED BY <1>0, <2>1 DEF SocketsInv
<1>3. CASE ListStep
  <2>1. /\ point \in {"location", "methods", "extensions"}
        /\ point' \in {"location", "methods", "extensions"}
        /\ listening' = listening
    BY <1>3, ListSets DEF SetsList, Reading
  <2> QED BY <1>0, <2>1 DEF SocketsInv
<1>4. CASE LoadFile \/ ParseEnds
  BY <1>0, <1>4 DEF LoadFile, ParseEnds, SocketsInv
<1>5. CASE OpenServerSocket
  <2>1. PICK port \in Ports, i \in DOMAIN configs :
          /\ FirstBlock(port, i)
          /\ listening' = [p \in DOMAIN listening \cup {port} |->
                             IF p = port THEN i ELSE listening[p]]
    BY <1>5 DEF OpenServerSocket
  <2>2. point = "open" /\ UNCHANGED <<point, configs>>
    BY <1>5 DEF OpenServerSocket
  <2>3. Ports' = Ports /\ \A p, b : FirstBlock(p, b)' <=> FirstBlock(p, b)
    BY <2>2 DEF Ports, FirstBlock
  <2>4. DOMAIN listening' = DOMAIN listening \cup {port}
    BY <2>1
  <2>5. \A p \in DOMAIN listening' : FirstBlock(p, listening'[p])
    BY <2>1, <2>4 DEF SocketsInv
  <2>6. \A p \in DOMAIN listening' : FirstBlock(p, listening[p])'
    BY <2>2, <2>5 DEF FirstBlock
  <2> QED BY <2>2, <2>3, <2>4, <2>6 DEF SocketsInv
<1>6. CASE Started
  <2>1. /\ DOMAIN listening = Ports /\ point' = "running"
        /\ UNCHANGED <<configs, listening>>
    BY <1>6 DEF Started
  <2> QED BY <2>1 DEF SocketsInv, Ports, FirstBlock
<1>7. CASE Block
  <2>1. /\ point \in {"parse", "server", "location"}
        /\ point' \in {"parse", "server", "location"} /\ listening' = listening
    BY <1>7, BlockEffects DEF Block, Begins
  <2> QED BY <1>0, <2>1 DEF SocketsInv
<1>8. CASE UNCHANGED vars
  BY <1>8 DEF vars, SocketsInv, Ports, FirstBlock
<1> QED BY <1>1, <1>2, <1>3, <1>4, <1>5, <1>6, <1>7, <1>8, StepKinds DEF Phase

\* When the server runs, each port of the file has one listening socket, which
\* serves the first block that names it; when start-up has failed none is left.
THEOREM FirstBlockAlwaysServes == Spec => []FirstBlockServes
<1>1. SocketsInv => FirstBlockServes
  <2> SUFFICES ASSUME SocketsInv PROVE FirstBlockServes
    OBVIOUS
  <2>1. ASSUME point = "running", NEW i \in DOMAIN configs
        PROVE  listening[configs[i].listen.port] <= i
    <3>1. configs[i].listen.port \in DOMAIN listening
      BY <2>1 DEF SocketsInv, Ports
    <3> QED BY <3>1 DEF SocketsInv, FirstBlock
  <2> QED BY <2>1 DEF SocketsInv, FirstBlockServes, Ports
<1> QED BY <1>1, SocketsInit, SocketsStep, ConfigInvAlways, PTL DEF Spec, ConfigInv

-----------------------------------------------------------------------------
(***************************************************************************)
(* Hosts.  A host is any sequence of characters; no bound on its length or *)
(* on the number of its pieces is assumed.                                 *)
(***************************************************************************)

\* The loops over a host are the functions that their definitions describe.
LEMMA SplitAtDotsIs ==
    ASSUME NEW S, NEW s \in Seq(S)
    PROVE  /\ SplitAtDots(s)[0] = << <<>> >>
           /\ \A n \in 1..Len(s) : SplitAtDots(s)[n] = AddChar(SplitAtDots(s)[n - 1], s[n])
<1> DEFINE First == << <<>> >>
           Step(a, x) == AddChar(a, x)
           Run(f, m) == f = [n \in 0..m |-> IF n = 0 THEN First ELSE Step(f[n - 1], s[n])]
           N == {m \in Nat : \E f : Run(f, m)}
<1>1. SplitAtDots(s) = CHOOSE f : Run(f, Len(s))
  BY DEF SplitAtDots
<1> HIDE DEF First, Step
<1>2. 0 \in N
  <2>1. Run([n \in 0..0 |-> First], 0)
    OBVIOUS
  <2> QED BY <2>1
<1>3. \A m \in Nat : m \in N => m + 1 \in N
  <2> SUFFICES ASSUME NEW m \in Nat, m \in N PROVE \E g : Run(g, m + 1)
    <3> HIDE DEF Run
    <3> QED OBVIOUS
  <2>0. PICK f : Run(f, m)
    <3> HIDE DEF Run
    <3> QED OBVIOUS
  <2> DEFINE g == [n \in 0..(m + 1) |-> IF n = m + 1 THEN Step(f[m], s[m + 1]) ELSE f[n]]
  <2>1. Run(g, m + 1)
    BY <2>0
  <2> QED BY <2>1
<1>4. Len(s) \in Nat
  OBVIOUS
<1>5. \E f : Run(f, Len(s))
  <2> HIDE DEF Run
  <2> QED BY <1>2, <1>3, <1>4, NaturalInduction
<1>6. Run(SplitAtDots(s), Len(s))
  <2> HIDE DEF Run
  <2> QED BY <1>1, <1>5
<1>7. /\ SplitAtDots(s)[0] = First
      /\ \A n \in 1..Len(s) : SplitAtDots(s)[n] = Step(SplitAtDots(s)[n - 1], s[n])
  BY <1>4, <1>6
<1> QED BY <1>7 DEF First, Step

LEMMA ValueOfIs ==
    ASSUME NEW S, NEW s \in Seq(S)
    PROVE  /\ ValueOf(s)[0] = 0
           /\ \A n \in 1..Len(s) : ValueOf(s)[n] = ValueOf(s)[n - 1] * 10 + Digit(s[n])
<1> DEFINE First == 0
           Step(a, x) == a * 10 + Digit(x)
           Run(f, m) == f = [n \in 0..m |-> IF n = 0 THEN First ELSE Step(f[n - 1], s[n])]
           N == {m \in Nat : \E f : Run(f, m)}
<1>1. ValueOf(s) = CHOOSE f : Run(f, Len(s))
  BY DEF ValueOf
<1> HIDE DEF First, Step
<1>2. 0 \in N
  <2>1. Run([n \in 0..0 |-> First], 0)
    OBVIOUS
  <2> QED BY <2>1
<1>3. \A m \in Nat : m \in N => m + 1 \in N
  <2> SUFFICES ASSUME NEW m \in Nat, m \in N PROVE \E g : Run(g, m + 1)
    <3> HIDE DEF Run
    <3> QED OBVIOUS
  <2>0. PICK f : Run(f, m)
    <3> HIDE DEF Run
    <3> QED OBVIOUS
  <2> DEFINE g == [n \in 0..(m + 1) |-> IF n = m + 1 THEN Step(f[m], s[m + 1]) ELSE f[n]]
  <2>1. Run(g, m + 1)
    BY <2>0
  <2> QED BY <2>1
<1>4. Len(s) \in Nat
  OBVIOUS
<1>5. \E f : Run(f, Len(s))
  <2> HIDE DEF Run
  <2> QED BY <1>2, <1>3, <1>4, NaturalInduction
<1>6. Run(ValueOf(s), Len(s))
  <2> HIDE DEF Run
  <2> QED BY <1>1, <1>5
<1>7. /\ ValueOf(s)[0] = First
      /\ \A n \in 1..Len(s) : ValueOf(s)[n] = Step(ValueOf(s)[n - 1], s[n])
  BY <1>4, <1>6
<1> QED BY <1>7 DEF First, Step

(***************************************************************************)
(* Segments of an address: the value that is computed digit by digit is at *)
(* most 255 exactly for the numerals of the grammar.                       *)
(***************************************************************************)
LEMMA DigitIs ==
    /\ Digit("0") = 0 /\ Digit("1") = 1 /\ Digit("2") = 2 /\ Digit("3") = 3
    /\ Digit("4") = 4 /\ Digit("5") = 5 /\ Digit("6") = 6 /\ Digit("7") = 7
    /\ Digit("8") = 8 /\ Digit("9") = 9
<1> DEFINE Numerals == <<"0", "1", "2", "3", "4", "5", "6", "7", "8", "9">>
<1>1. ASSUME NEW d \in 0..9, NEW e \in 0..9, Numerals[d + 1] = Numerals[e + 1] PROVE d = e
  BY <1>1
<1>2. ASSUME NEW d \in 0..9 PROVE Digit(Numerals[d + 1]) = d
  <2> HIDE DEF Numerals
  <2>1. Digit(Numerals[d + 1]) = CHOOSE e \in 0..9 : Numerals[d + 1] = Numerals[e + 1]
    BY DEF Digit, Numerals
  <2> QED BY <1>1, <2>1
<1>3. /\ Numerals[0 + 1] = "0" /\ Numerals[1 + 1] = "1" /\ Numerals[2 + 1] = "2"
      /\ Numerals[3 + 1] = "3" /\ Numerals[4 + 1] = "4" /\ Numerals[5 + 1] = "5"
      /\ Numerals[6 + 1] = "6" /\ Numerals[7 + 1] = "7" /\ Numerals[8 + 1] = "8"
      /\ Numerals[9 + 1] = "9"
  OBVIOUS
<1> HIDE DEF Numerals
<1> QED BY <1>2, <1>3

\* What the comparisons of Octets say of the values of digits.
LEMMA DigitRange ==
    ASSUME NEW a \in Digits
    PROVE  /\ Digit(a) \in 0..9
           /\ a = "0" <=> Digit(a) = 0
           /\ a = "1" <=> Digit(a) = 1
           /\ a = "2" <=> Digit(a) = 2
           /\ a = "5" <=> Digit(a) = 5
           /\ a \in {"0", "1", "2", "3", "4"} <=> Digit(a) <= 4
  BY DigitIs DEF Digits

LEMMA ValueOfThree ==
    ASSUME NEW S, NEW s \in Seq(S), Len(s) \in 1..3, \A i \in 1..Len(s) : s[i] \in Digits
    PROVE  /\ Len(s) = 1 => ValueOf(s)[1] = Digit(s[1])
           /\ Len(s) = 2 => ValueOf(s)[2] = Digit(s[1]) * 10 + Digit(s[2])
           /\ Len(s) = 3 => ValueOf(s)[3] = (Digit(s[1]) * 10 + Digit(s[2])) * 10 + Digit(s[3])
<1>1. ValueOf(s)[1] = Digit(s[1])
  <2>1. ValueOf(s)[1] = ValueOf(s)[1 - 1] * 10 + Digit(s[1]) /\ s[1] \in Digits
    BY ValueOfIs
  <2> QED BY <2>1, ValueOfIs, DigitRange
<1>2. ASSUME Len(s) >= 2 PROVE ValueOf(s)[2] = Digit(s[1]) * 10 + Digit(s[2])
  <2>1. ValueOf(s)[2] = ValueOf(s)[2 - 1] * 10 + Digit(s[2])
    BY <1>2, ValueOfIs
  <2> QED BY <1>1, <2>1
<1>3. ASSUME Len(s) = 3
      PROVE  ValueOf(s)[3] = (Digit(s[1]) * 10 + Digit(s[2])) * 10 + Digit(s[3])
  <2>1. ValueOf(s)[3] = ValueOf(s)[3 - 1] * 10 + Digit(s[3])
    BY <1>3, ValueOfIs
  <2> QED BY <1>2, <1>3, <2>1
<1> QED BY <1>1, <1>2, <1>3

\* A numeral of one, two or three digits.
LEMMA OctetsByLength ==
    ASSUME NEW S, NEW s \in Seq(S)
    PROVE  s \in Octets <=>
             \/ Len(s) = 1 /\ s[1] \in Digits
             \/ Len(s) = 2 /\ s[1] \in Digits \ {"0"} /\ s[2] \in Digits
             \/ /\ Len(s) = 3 /\ s[2] \in Digits /\ s[3] \in Digits
                /\ \/ s[1] = "1"
                   \/ s[1] = "2" /\ s[2] \in {"0", "1", "2", "3", "4"}
                   \/ s[1] = "2" /\ s[2] = "5" /\ s[3] \in {"0", "1", "2", "3", "4", "5"}
<1>1. Len(s) = 1 => s = <<s[1]>>
  OBVIOUS
<1>2. Len(s) = 2 => s = <<s[1], s[2]>>
  OBVIOUS
<1>3. Len(s) = 3 => s = <<s[1], s[2], s[3]>>
  OBVIOUS
<1>4. ASSUME s \in Octets
      PROVE  \/ Len(s) = 1 /\ s[1] \in Digits
             \/ Len(s) = 2 /\ s[1] \in Digits \ {"0"} /\ s[2] \in Digits
             \/ /\ Len(s) = 3 /\ s[2] \in Digits /\ s[3] \in Digits
                /\ \/ s[1] = "1"
                   \/ s[1] = "2" /\ s[2] \in {"0", "1", "2", "3", "4"}
                   \/ s[1] = "2" /\ s[2] = "5" /\ s[3] \in {"0", "1", "2", "3", "4", "5"}
  <2>1. "5" \in Digits /\ {"0", "1", "2", "3", "4", "5"} \subseteq Digits
    BY DEF Digits
  <2>2. \/ \E a \in Digits : s = <<a>>
        \/ \E a \in Digits \ {"0"}, b \in Digits : s = <<a, b>>
        \/ \E a, b \in Digits : s = <<"1", a, b>>
        \/ \E a \in {"0", "1", "2", "3", "4"}, b \in Digits : s = <<"2", a, b>>
        \/ \E a \in {"0", "1", "2", "3", "4"} \cup {"5"} : s = <<"2", "5", a>>
    <3> HIDE DEF Digits
    <3> QED BY <1>4 DEF Octets
  <2> HIDE DEF Digits
  <2> QED BY <2>1, <2>2
<1>5. ASSUME Len(s) = 1, s[1] \in Digits PROVE s \in Octets
  BY <1>1, <1>5 DEF Octets
<1>6. ASSUME Len(s) = 2, s[1] \in Digits \ {"0"}, s[2] \in Digits PROVE s \in Octets
  BY <1>2, <1>6 DEF Octets
<1>7. ASSUME Len(s) = 3, s[2] \in Digits, s[3] \in Digits, s[1] = "1" PROVE s \in Octets
  BY <1>3, <1>7 DEF Octets
<1>8. ASSUME Len(s) = 3, s[3] \in Digits, s[1] = "2", s[2] \in {"0", "1", "2", "3", "4"}
      PROVE  s \in Octets
  BY <1>3, <1>8 DEF Octets
<1>9. ASSUME Len(s) = 3, s[1] = "2", s[2] = "5", s[3] \in {"0", "1", "2", "3", "4", "5"}
      PROVE  s \in Octets
  BY <1>3, <1>9 DEF Octets
<1> QED BY <1>4, <1>5, <1>6, <1>7, <1>8, <1>9

LEMMA SegmentIsOctet ==
    ASSUME NEW S, NEW s \in Seq(S)
    PROVE  IsValidIPv4Segment(s) <=> s \in Octets
<1> DEFINE v == ValueOf(s)[Len(s)]
<1>0. Len(s) \in Nat /\ "1" \in Digits /\ "2" \in Digits
  BY DEF Digits
<1>1. IsValidIPv4Segment(s) <=> /\ Len(s) \in 1..3 /\ \A i \in 1..Len(s) : s[i] \in Digits
                                /\ Len(s) > 1 => s[1] # "0"
                                /\ v <= 255
  BY DEF IsValidIPv4Segment, All
<1>2. CASE Len(s) \in 1..3 /\ \A i \in 1..Len(s) : s[i] \in Digits
  <2>1. CASE Len(s) = 1
    <3>1. s[1] \in Digits /\ v = Digit(s[1]) /\ Digit(s[1]) \in 0..9
      BY <1>2, <2>1, ValueOfThree, DigitRange
    <3>2. v <= 255
      BY <3>1
    <3> HIDE DEF v
    <3> QED BY <1>1, <1>2, <2>1, <3>1, <3>2, OctetsByLength
  <2>2. CASE Len(s) = 2
    <3>1. s[1] \in Digits /\ s[2] \in Digits
      BY <1>2, <2>2
    <3>2. v = Digit(s[1]) * 10 + Digit(s[2])
      BY <1>2, <2>2, ValueOfThree
    <3>3. v <= 255
      BY <3>1, <3>2, DigitRange
    <3> HIDE DEF v
    <3> QED BY <1>1, <1>2, <2>2, <3>1, <3>3, OctetsByLength
  <2>3. CASE Len(s) = 3
    <3>1. s[1] \in Digits /\ s[2] \in Digits /\ s[3] \in Digits
      BY <1>2, <2>3
    <3>2. v = (Digit(s[1]) * 10 + Digit(s[2])) * 10 + Digit(s[3])
      BY <1>2, <2>3, ValueOfThree
    <3> DEFINE a == Digit(s[1])
               b == Digit(s[2])
               c == Digit(s[3])
    <3>3. /\ a \in 0..9 /\ b \in 0..9 /\ c \in 0..9
          /\ s[1] = "0" <=> a = 0
          /\ s[1] = "1" <=> a = 1
          /\ s[1] = "2" <=> a = 2
          /\ s[2] \in {"0", "1", "2", "3", "4"} <=> b <= 4
          /\ s[2] = "5" <=> b = 5
          /\ s[3] \in {"0", "1", "2", "3", "4", "5"} <=> c <= 5
      BY <3>1, DigitRange
    <3>4. v = (a * 10 + b) * 10 + c
      BY <3>2
    <3> HIDE DEF a, b, c, v
    <3> DEFINE good == a = 1 \/ (a = 2 /\ b <= 4) \/ (a = 2 /\ b = 5 /\ c <= 5)
    <3>5. (a # 0 /\ v <= 255) <=> good
      BY <3>3, <3>4
    <3>a. s \in Octets <=>
             \/ s[1] = "1"
             \/ s[1] = "2" /\ s[2] \in {"0", "1", "2", "3", "4"}
             \/ s[1] = "2" /\ s[2] = "5" /\ s[3] \in {"0", "1", "2", "3", "4", "5"}
      BY <2>3, <3>1, OctetsByLength
    <3>6. s \in Octets <=> good
      BY <3>a, <3>3, Zenon
    <3>7. IsValidIPv4Segment(s) <=> a # 0 /\ v <= 255
      BY <1>1, <1>2, <2>3, <3>3
    <3> QED BY <3>5, <3>6, <3>7
  <2> QED BY <1>0, <1>2, <2>1, <2>2, <2>3
<1>3. CASE ~ (Len(s) \in 1..3 /\ \A i \in 1..Len(s) : s[i] \in Digits)
  <2>1. ASSUME s \in Octets PROVE FALSE
    <3> HIDE DEF v
    <3>1. /\ Len(s) \in 1..3 /\ s[1] \in Digits
          /\ Len(s) >= 2 => s[2] \in Digits
          /\ Len(s) = 3 => s[3] \in Digits
      BY <1>0, <2>1, OctetsByLength
    <3> QED BY <1>0, <1>3, <3>1
  <2> QED BY <1>1, <1>3, <2>1
<1> QED BY <1>2, <1>3

(***************************************************************************)
(* Pieces.  The loop cuts the first n characters at the dots: c[j - 1] and *)
(* c[j] are the places before and after piece j, which are dots or the     *)
(* ends, and every place lies in a piece or after one.                     *)
(***************************************************************************)
IsPiece(s, piece, lo, hi) ==
    /\ Len(piece) = hi - lo - 1
    /\ \A i \in 1..Len(piece) : piece[i] = s[lo + i] /\ piece[i] # "."

CutAt(s, n, m, c) ==
    /\ c \in [0..m -> 0..(n + 1)]
    /\ c[0] = 0 /\ c[m] = n + 1
    /\ \A j \in 1..m : c[j - 1] < c[j]
    /\ \A j \in 1..(m - 1) : s[c[j]] = "."
    /\ \A i \in 1..n : \E j \in 1..m : c[j - 1] < i /\ i <= c[j]

Cuts(S, s, n, pieces, c) ==
    /\ pieces \in Seq(Seq(S)) /\ Len(pieces) >= 1
    /\ CutAt(s, n, Len(pieces), c)
    /\ \A j \in 1..Len(pieces) : IsPiece(s, pieces[j], c[j - 1], c[j])

\* A dot begins a piece.
LEMMA CutsAfterDot ==
    ASSUME NEW S, NEW s \in Seq(S), NEW n \in 0..(Len(s) - 1), NEW pieces, NEW c,
           Cuts(S, s, n, pieces, c), s[n + 1] = "."
    PROVE  \E d : Cuts(S, s, n + 1, AddChar(pieces, s[n + 1]), d)
<1> DEFINE m == Len(pieces)
           q == AddChar(pieces, s[n + 1])
           e == <<>>
           d == [j \in 0..(m + 1) |-> IF j = m + 1 THEN n + 2 ELSE c[j]]
<1>0. n \in Nat /\ m \in Nat /\ m >= 1 /\ pieces \in Seq(Seq(S))
  BY DEF Cuts
<1>a. q = Append(pieces, e) /\ e \in Seq(S) /\ Len(e) = 0
  BY DEF AddChar
<1> HIDE DEF e, q
<1>1. /\ q \in Seq(Seq(S)) /\ Len(q) = m + 1 /\ q[m + 1] = e
      /\ \A j \in 1..m : q[j] = pieces[j]
  BY <1>0, <1>a
<1>2. CutAt(s, n, m, c) /\ \A j \in 1..m : IsPiece(s, pieces[j], c[j - 1], c[j])
  BY DEF Cuts
<1> HIDE DEF m, q
<1>3. c \in [0..m -> 0..(n + 1)] /\ c[0] = 0 /\ c[m] = n + 1
  BY <1>2 DEF CutAt
<1>4. d[m + 1] = n + 2 /\ \A j \in 0..m : d[j] = c[j]
  BY <1>0
<1>5. CutAt(s, n + 1, m + 1, d)
  <2>1. d \in [0..(m + 1) -> 0..(n + 1 + 1)]
    BY <1>0, <1>3
  <2> HIDE DEF d
  <2>2. d[0] = 0 /\ d[m + 1] = n + 1 + 1
    BY <1>0, <1>3, <1>4
  <2>3. ASSUME NEW j \in 1..(m + 1) PROVE d[j - 1] < d[j]
    <3>1. CASE j = m + 1
      <4>1. m \in 0..m /\ j - 1 = m
        BY <1>0, <3>1
      <4> QED BY <1>0, <1>3, <1>4, <3>1, <4>1
    <3>2. CASE j \in 1..m
      <4>1. j \in 0..m /\ j - 1 \in 0..m
        BY <1>0, <3>2
      <4>2. c[j - 1] < c[j]
        BY <1>2, <3>2 DEF CutAt
      <4> QED BY <1>4, <4>1, <4>2
    <3> QED BY <1>0, <3>1, <3>2
  <2>4. \A j \in 1..m : s[d[j]] = "."
    <3> SUFFICES ASSUME NEW j \in 1..m PROVE s[d[j]] = "."
      OBVIOUS
    <3>1. CASE j = m
      BY <1>0, <1>3, <1>4, <3>1
    <3>2. CASE j \in 1..(m - 1)
      <4>1. s[c[j]] = "."
        BY <1>2, <3>2 DEF CutAt
      <4>2. j \in 0..m
        BY <1>0
      <4> QED BY <1>4, <4>1, <4>2
    <3> QED BY <1>0, <3>1, <3>2
  <2>5. ASSUME NEW i \in 1..(n + 1) PROVE \E j \in 1..(m + 1) : d[j - 1] < i /\ i <= d[j]
    <3>1. \E j \in 1..m : c[j - 1] < i /\ i <= c[j]
      <4>1. CASE i = n + 1
        <5>1. m \in 1..m /\ m - 1 \in 0..m /\ c[m - 1] < c[m]
          BY <1>0, <1>2 DEF CutAt
        <5>2. c[m - 1] < i /\ i <= c[m]
          BY <1>0, <1>3, <4>1, <5>1
        <5> QED BY <5>1, <5>2
      <4>2. CASE i \in 1..n
        BY <1>2, <4>2 DEF CutAt
      <4> QED BY <1>0, <4>1, <4>2
    <3>2. PICK j \in 1..m : c[j - 1] < i /\ i <= c[j]
      BY <3>1
    <3>3. j \in 1..(m + 1) /\ j \in 0..m /\ j - 1 \in 0..m
      BY <1>0
    <3>4. d[j - 1] < i /\ i <= d[j]
      BY <1>4, <3>2, <3>3
    <3> QED BY <3>3, <3>4
  <2>6. \A j \in 1..((m + 1) - 1) : s[d[j]] = "."
    <3>1. (m + 1) - 1 = m
      BY <1>0
    <3> QED BY <2>4, <3>1
  <2>7. \A j \in 1..(m + 1) : d[j - 1] < d[j]
    BY <2>3
  <2>8. \A i \in 1..(n + 1) : \E j \in 1..(m + 1) : d[j - 1] < i /\ i <= d[j]
    BY <2>5
  <2> QED BY <2>1, <2>2, <2>6, <2>7, <2>8 DEF CutAt
<1> HIDE DEF d
<1>6. ASSUME NEW j \in 1..(m + 1) PROVE IsPiece(s, q[j], d[j - 1], d[j])
  <2>1. CASE j = m + 1
    <3>1. d[j - 1] = n + 1 /\ d[j] = n + 2 /\ Len(q[j]) = 0
      <4>1. m \in 0..m /\ j - 1 = m
        BY <1>0, <2>1
      <4> QED BY <1>1, <1>a, <1>3, <1>4, <2>1, <4>1
    <3> QED BY <1>0, <3>1 DEF IsPiece
  <2>2. CASE j \in 1..m
    <3>1. j \in 0..m /\ j - 1 \in 0..m
      BY <1>0, <2>2
    <3> QED BY <1>1, <1>2, <1>4, <2>2, <3>1
  <2> QED BY <1>0, <2>1, <2>2
<1>7. m + 1 >= 1
  BY <1>0
<1>8. Cuts(S, s, n + 1, q, d)
  BY <1>1, <1>5, <1>6, <1>7 DEF Cuts
<1> QED BY <1>8 DEF q

\* Another character goes to the end of the last piece.
LEMMA CutsAfterChar ==
    ASSUME NEW S, NEW s \in Seq(S), NEW n \in 0..(Len(s) - 1), NEW pieces, NEW c,
           Cuts(S, s, n, pieces, c), s[n + 1] # "."
    PROVE  \E d : Cuts(S, s, n + 1, AddChar(pieces, s[n + 1]), d)
<1> DEFINE m == Len(pieces)
           q == AddChar(pieces, s[n + 1])
           d == [j \in 0..m |-> IF j = m THEN n + 2 ELSE c[j]]
<1>0. n \in Nat /\ m \in Nat /\ m >= 1 /\ pieces \in Seq(Seq(S)) /\ s[n + 1] \in S
  BY DEF Cuts
<1>a. q = [pieces EXCEPT ![m] = Append(pieces[m], s[n + 1])] /\ m \in 1..m
  BY <1>0 DEF AddChar
<1>b. pieces[m] \in Seq(S) /\ Append(pieces[m], s[n + 1]) \in Seq(S)
  BY <1>0
<1>1. /\ q \in Seq(Seq(S)) /\ Len(q) = m /\ q[m] = Append(pieces[m], s[n + 1])
      /\ \A j \in 1..(m - 1) : q[j] = pieces[j]
  BY <1>0, <1>a, <1>b
<1>2. CutAt(s, n, m, c) /\ \A j \in 1..m : IsPiece(s, pieces[j], c[j - 1], c[j])
  BY DEF Cuts
<1> HIDE DEF m, q
<1>3. c \in [0..m -> 0..(n + 1)] /\ c[0] = 0 /\ c[m] = n + 1
  BY <1>2 DEF CutAt
<1>4. d[m] = n + 2 /\ \A j \in 0..(m - 1) : d[j] = c[j]
  BY <1>0
<1>5. CutAt(s, n + 1, m, d)
  <2>1. d \in [0..m -> 0..(n + 1 + 1)]
    BY <1>0, <1>3
  <2> HIDE DEF d
  <2>2. d[0] = 0 /\ d[m] = n + 1 + 1
    BY <1>0, <1>3, <1>4
  <2>3. ASSUME NEW j \in 1..m PROVE d[j - 1] < d[j]
    <3>1. j - 1 \in 0..(m - 1) /\ j - 1 \in 0..m /\ c[j - 1] < c[j]
      BY <1>0, <1>2 DEF CutAt
    <3>2. CASE j = m
      BY <1>0, <1>3, <1>4, <3>1, <3>2
    <3>3. CASE j \in 0..(m - 1)
      BY <1>4, <3>1, <3>3
    <3> QED BY <1>0, <3>2, <3>3
  <2>4. ASSUME NEW j \in 1..(m - 1) PROVE s[d[j]] = "."
    <3>1. j \in 0..(m - 1)
      BY <1>0
    <3>2. s[c[j]] = "."
      BY <1>2 DEF CutAt
    <3> QED BY <1>4, <3>1, <3>2
  <2>5. ASSUME NEW i \in 1..(n + 1) PROVE \E j \in 1..m : d[j - 1] < i /\ i <= d[j]
    <3>1. \E j \in 1..m : c[j - 1] < i /\ i <= c[j]
      <4>1. CASE i = n + 1
        <5>1. m \in 1..m /\ m - 1 \in 0..m /\ c[m - 1] < c[m]
          BY <1>0, <1>2 DEF CutAt
        <5>2. c[m - 1] < i /\ i <= c[m]
          BY <1>0, <1>3, <4>1, <5>1
        <5> QED BY <5>1, <5>2
      <4>2. CASE i \in 1..n
        BY <1>2, <4>2 DEF CutAt
      <4> QED BY <1>0, <4>1, <4>2
    <3>2. PICK j \in 1..m : c[j - 1] < i /\ i <= c[j]
      BY <3>1
    <3>3. j - 1 \in 0..(m - 1)
      BY <1>0
    <3>4. i <= d[j]
      <4>1. CASE j = m
        BY <1>0, <1>4, <4>1
      <4>2. CASE j \in 0..(m - 1)
        BY <1>4, <3>2, <4>2
      <4> QED BY <1>0, <4>1, <4>2
    <3>5. d[j - 1] < i
      BY <1>4, <3>2, <3>3
    <3> QED BY <3>4, <3>5
  <2> QED BY <2>1, <2>2, <2>3, <2>4, <2>5 DEF CutAt
<1> HIDE DEF d
<1>6. ASSUME NEW j \in 1..m PROVE IsPiece(s, q[j], d[j - 1], d[j])
  <2>1. CASE j = m
    <3> DEFINE last == pieces[m]
               lo == c[m - 1]
    <3>1. m \in 1..m /\ m - 1 \in 0..(m - 1) /\ m - 1 \in 0..m /\ lo \in 0..(n + 1)
      BY <1>0, <1>3
    <3>2. IsPiece(s, last, lo, n + 1)
      BY <1>2, <1>3, <3>1
    <3>3. last \in Seq(S) /\ q[m] = Append(last, s[n + 1])
      BY <1>1, <1>b
    <3>4. d[m - 1] = lo /\ d[m] = n + 2
      BY <1>4, <3>1
    <3> HIDE DEF last, lo
    <3>5. Len(last) = n - lo
      BY <1>0, <3>1, <3>2 DEF IsPiece
    <3>a. Len(q[m]) = Len(last) + 1
      BY <1>0, <3>3
    <3>6. Len(q[m]) = (n + 2) - lo - 1
      BY <1>0, <3>1, <3>a, <3>5
    <3>7. ASSUME NEW i \in 1..Len(q[m]) PROVE q[m][i] = s[lo + i] /\ q[m][i] # "."
      <4>1. CASE i = Len(last) + 1
        <5>1. q[m][i] = s[n + 1]
          BY <1>0, <3>3, <4>1
        <5>2. lo + i = n + 1
          BY <1>0, <3>1, <3>5, <4>1
        <5> QED BY <5>1, <5>2
      <4>2. CASE i \in 1..Len(last)
        <5>1. q[m][i] = last[i]
          BY <1>0, <3>3, <4>2
        <5> QED BY <3>2, <4>2, <5>1 DEF IsPiece
      <4>3. Len(last) \in Nat
        BY <3>3
      <4> QED BY <3>a, <4>1, <4>2, <4>3
    <3>b. \A i \in 1..Len(q[m]) : q[m][i] = s[lo + i] /\ q[m][i] # "."
      BY <3>7
    <3>8. IsPiece(s, q[m], lo, n + 2)
      BY <3>6, <3>b DEF IsPiece
    <3> QED BY <2>1, <3>4, <3>8
  <2>2. CASE j \in 1..(m - 1)
    <3>1. j \in 0..(m - 1) /\ j - 1 \in 0..(m - 1)
      BY <1>0, <2>2
    <3> QED BY <1>1, <1>2, <1>4, <2>2, <3>1
  <2> QED BY <1>0, <2>1, <2>2
<1>8. Cuts(S, s, n + 1, q, d)
  BY <1>0, <1>1, <1>5, <1>6 DEF Cuts
<1> QED BY <1>8 DEF q

LEMMA PiecesCut ==
    ASSUME NEW S, NEW s \in Seq(S)
    PROVE  \E c : Cuts(S, s, Len(s), Pieces(s), c)
<1> DEFINE run == SplitAtDots(s)
           N == {n \in Nat : \E c : Cuts(S, s, n, run[n], c)}
<1>0. Len(s) \in Nat /\ 0 \in Nat
  OBVIOUS
<1>1. run[0] = << <<>> >> /\ \A n \in 1..Len(s) : run[n] = AddChar(run[n - 1], s[n])
  BY SplitAtDotsIs
<1> HIDE DEF run
<1>2. 0 \in N
  <2> DEFINE c == [j \in 0..1 |-> j]
             q == << <<>> >>
  <2>1. /\ q \in Seq(Seq(S)) /\ Len(q) = 1 /\ q[1] = <<>>
    OBVIOUS
  <2>2. c \in [0..1 -> 0..(0 + 1)] /\ c[0] = 0 /\ c[1] = 1
    OBVIOUS
  <2> HIDE DEF c, q
  <2>3. CutAt(s, 0, 1, c)
    BY <2>2 DEF CutAt
  <2>4. ASSUME NEW j \in 1..1 PROVE IsPiece(s, q[j], c[j - 1], c[j])
    <3>1. j = 1 /\ j - 1 = 0
      OBVIOUS
    <3>2. IsPiece(s, <<>>, 0, 1)
      BY DEF IsPiece
    <3> QED BY <2>1, <2>2, <3>1, <3>2
  <2>5. Cuts(S, s, 0, q, c)
    BY <2>1, <2>3, <2>4 DEF Cuts
  <2>6. run[0] = q
    BY <1>1 DEF q
  <2>7. \E e : Cuts(S, s, 0, run[0], e)
    BY <2>5, <2>6
  <2> QED BY <2>7
<1>3. ASSUME NEW n \in 0..(Len(s) - 1), n \in N PROVE n + 1 \in N
  <2>1. PICK c : Cuts(S, s, n, run[n], c)
    BY <1>3
  <2>2. run[n + 1] = AddChar(run[n], s[n + 1])
    <3>1. n + 1 \in 1..Len(s) /\ n + 1 - 1 = n
      BY <1>0
    <3> QED BY <1>1, <3>1
  <2>3. \E d : Cuts(S, s, n + 1, run[n + 1], d)
    BY <2>1, <2>2, CutsAfterDot, CutsAfterChar
  <2> QED BY <1>0, <2>3
<1>4. 0..Len(s) \subseteq N
  <2> HIDE DEF N
  <2> QED BY <1>0, <1>2, <1>3, IntervalInduction
<1>5. Len(s) \in N
  <2> HIDE DEF N
  <2> QED BY <1>0, <1>4
<1> QED BY <1>5 DEF Pieces, run

\* The places of the dots are the inner cuts.
LEMMA DotsAreCuts ==
    ASSUME NEW S, NEW s \in Seq(S), NEW q, NEW c, Cuts(S, s, Len(s), q, c)
    PROVE  /\ \A j \in 1..(Len(q) - 1) : c[j] \in 1..Len(s) /\ s[c[j]] = "."
           /\ \A i \in 1..Len(s) : s[i] = "." => \E j \in 1..(Len(q) - 1) : c[j] = i
<1> DEFINE m == Len(q)
           n == Len(s)
<1>0. n \in Nat /\ m \in Nat /\ m >= 1
  BY DEF Cuts
<1>1. CutAt(s, n, m, c) /\ \A j \in 1..m : IsPiece(s, q[j], c[j - 1], c[j])
  BY DEF Cuts
<1> HIDE DEF m, n
<1>2. c \in [0..m -> 0..(n + 1)] /\ c[0] = 0 /\ c[m] = n + 1
  BY <1>1 DEF CutAt
<1>3. ASSUME NEW j \in 1..(m - 1) PROVE c[j] \in 1..n /\ s[c[j]] = "."
  <2>1. j \in 1..m /\ j + 1 \in 1..m /\ j + 1 - 1 = j /\ j - 1 \in 0..m /\ j \in 0..m /\ j + 1 \in 0..m
    BY <1>0
  <2>2. c[j - 1] < c[j] /\ c[j + 1 - 1] < c[j + 1]
    BY <1>1, <2>1 DEF CutAt
  <2>3. c[j - 1] \in 0..(n + 1) /\ c[j] \in 0..(n + 1) /\ c[j + 1] \in 0..(n + 1)
    BY <1>2, <2>1
  <2>4. c[j] < c[j + 1]
    BY <2>1, <2>2
  <2>5. c[j] \in 1..n
    BY <1>0, <2>2, <2>3, <2>4
  <2>6. s[c[j]] = "."
    BY <1>1 DEF CutAt
  <2> QED BY <2>5, <2>6
<1>4. ASSUME NEW i \in 1..n, s[i] = "." PROVE \E j \in 1..(m - 1) : c[j] = i
  <2>1. PICK j \in 1..m : c[j - 1] < i /\ i <= c[j]
    BY <1>1 DEF CutAt
  <2> DEFINE lo == c[j - 1]
             hi == c[j]
             k == i - lo
  <2>2. lo \in 0..(n + 1) /\ hi \in 0..(n + 1) /\ lo < i /\ i <= hi
    <3>1. j - 1 \in 0..m /\ j \in 0..m
      BY <1>0
    <3> QED BY <1>2, <2>1, <3>1
  <2>3. IsPiece(s, q[j], lo, hi)
    BY <1>1
  <2> HIDE DEF lo, hi
  <2>4. hi = i
    <3> SUFFICES ASSUME i < hi PROVE FALSE
      BY <1>0, <2>2
    <3>1. k \in 1..(hi - lo - 1) /\ lo + k = i
      BY <1>0, <2>2
    <3> QED BY <1>4, <2>3, <3>1 DEF IsPiece
  <2>5. j # m
    BY <1>0, <1>2, <2>4 DEF hi
  <2>6. j \in 1..(m - 1)
    BY <1>0, <2>5
  <2> QED BY <2>4, <2>6 DEF hi
<1> QED BY <1>3, <1>4 DEF m, n

LEMMA PieceIsSubSeq ==
    ASSUME NEW S, NEW s \in Seq(S), NEW q, NEW c, Cuts(S, s, Len(s), q, c), NEW j \in 1..Len(q)
    PROVE  q[j] \in Seq(S) /\ q[j] = SubSeq(s, c[j - 1] + 1, c[j] - 1)
<1> DEFINE n == Len(s)
           lo == c[j - 1]
           hi == c[j]
           piece == q[j]
           part == SubSeq(s, lo + 1, hi - 1)
<1>0. n \in Nat /\ Len(q) \in Nat /\ piece \in Seq(S)
  BY DEF Cuts
<1>1. CutAt(s, n, Len(q), c) /\ IsPiece(s, piece, lo, hi)
  BY DEF Cuts
<1>2. lo \in 0..(n + 1) /\ hi \in 0..(n + 1) /\ lo < hi
  <2>1. c \in [0..Len(q) -> 0..(n + 1)]
    BY <1>1 DEF CutAt
  <2>2. j - 1 \in 0..Len(q) /\ j \in 0..Len(q)
    BY <1>0
  <2>3. c[j - 1] < c[j]
    BY <1>1 DEF CutAt
  <2> QED BY <2>1, <2>2, <2>3
<1> HIDE DEF lo, hi, piece
<1>3. part \in Seq(S) /\ Len(part) = hi - lo - 1
  BY <1>0, <1>2
<1>4. ASSUME NEW i \in 1..(hi - lo - 1) PROVE part[i] = s[lo + i]
  BY <1>0, <1>2
<1> HIDE DEF n, part
<1>5. Len(piece) = hi - lo - 1 /\ \A i \in 1..(hi - lo - 1) : piece[i] = s[lo + i]
  BY <1>1 DEF IsPiece
<1>6. piece = part
  <2>1. \A i \in 1..Len(piece) : piece[i] = part[i]
    BY <1>4, <1>5
  <2>2. Len(piece) = Len(part)
    BY <1>3, <1>5
  <2> QED BY <1>0, <1>3, <2>1, <2>2
<1> QED BY <1>0, <1>6 DEF lo, hi, piece, part

(***************************************************************************)
(* Addresses.                                                              *)
(***************************************************************************)
FourParts(s, i, j, k) ==
    {SubSeq(s, 1, i - 1), SubSeq(s, i + 1, j - 1),
     SubSeq(s, j + 1, k - 1), SubSeq(s, k + 1, Len(s))}

FourCut(s, q, c) ==
    /\ c[1] < c[2] /\ c[2] < c[3]
    /\ c[1] \in 1..Len(s) /\ c[2] \in 1..Len(s) /\ c[3] \in 1..Len(s)
    /\ {i \in DOMAIN s : s[i] = "."} = {c[1], c[2], c[3]}
    /\ {q[j] : j \in 1..Len(q)} = FourParts(s, c[1], c[2], c[3])

LEMMA FourPieces ==
    ASSUME NEW S, NEW s \in Seq(S), NEW q, NEW c, Cuts(S, s, Len(s), q, c)
    PROVE  Len(q) = 4 => FourCut(s, q, c)
<1>a. /\ \A j \in 1..(Len(q) - 1) : c[j] \in 1..Len(s) /\ s[c[j]] = "."
      /\ \A i \in 1..Len(s) : s[i] = "." => \E j \in 1..(Len(q) - 1) : c[j] = i
  BY DotsAreCuts
<1>c. \A j \in 1..Len(q) : q[j] = SubSeq(s, c[j - 1] + 1, c[j] - 1)
  BY PieceIsSubSeq
<1>d. CutAt(s, Len(s), Len(q), c)
  BY DEF Cuts
<1> SUFFICES ASSUME Len(q) = 4 PROVE FourCut(s, q, c)
  OBVIOUS
<1>1. c[0] = 0 /\ c[4] = Len(s) + 1 /\ c[1] < c[2] /\ c[2] < c[3]
  <2>1. CutAt(s, Len(s), 4, c)
    BY <1>d
  <2>2. \A j \in 1..4 : c[j - 1] < c[j]
    BY <2>1 DEF CutAt
  <2>3. c[2 - 1] < c[2] /\ c[3 - 1] < c[3]
    BY <2>2
  <2>4. c[0] = 0 /\ c[4] = Len(s) + 1
    BY <2>1 DEF CutAt
  <2> QED BY <2>3, <2>4
<1>b. Len(q) - 1 = 3
  OBVIOUS
<1>2. \A j \in 1..3 : c[j] \in 1..Len(s) /\ s[c[j]] = "."
  BY <1>a, <1>b
<1>3. \A i \in 1..Len(s) : s[i] = "." => \E j \in 1..3 : c[j] = i
  BY <1>a, <1>b
<1>4. {i \in DOMAIN s : s[i] = "."} = {c[1], c[2], c[3]}
  <2>1. \A i \in 1..Len(s) : s[i] = "." => i \in {c[1], c[2], c[3]}
    BY <1>3
  <2>2. \A x \in {c[1], c[2], c[3]} : x \in 1..Len(s) /\ s[x] = "."
    BY <1>2
  <2>3. DOMAIN s = 1..Len(s)
    OBVIOUS
  <2> QED BY <2>1, <2>2, <2>3
<1>5. \A j \in 1..4 : q[j] = SubSeq(s, c[j - 1] + 1, c[j] - 1)
  BY <1>c
<1>6. q[1] = SubSeq(s, 1, c[1] - 1)
  <2>1. q[1] = SubSeq(s, c[1 - 1] + 1, c[1] - 1) /\ c[1 - 1] + 1 = 1
    BY <1>1, <1>5
  <2> QED BY <2>1
<1>7. q[2] = SubSeq(s, c[1] + 1, c[2] - 1) /\ q[3] = SubSeq(s, c[2] + 1, c[3] - 1)
  <2>1. q[2] = SubSeq(s, c[2 - 1] + 1, c[2] - 1) /\ q[3] = SubSeq(s, c[3 - 1] + 1, c[3] - 1)
    BY <1>5
  <2>2. 2 - 1 = 1 /\ 3 - 1 = 2
    OBVIOUS
  <2> QED BY <2>1, <2>2
<1>8. q[4] = SubSeq(s, c[3] + 1, Len(s))
  <2>1. q[4] = SubSeq(s, c[4 - 1] + 1, c[4] - 1)
    BY <1>5
  <2>2. 4 - 1 = 3 /\ c[4] - 1 = Len(s)
    BY <1>1
  <2> QED BY <2>1, <2>2
<1>9. {q[j] : j \in 1..Len(q)} = {q[1], q[2], q[3], q[4]}
  <2>1. 1..Len(q) = {1, 2, 3, 4}
    OBVIOUS
  <2> QED BY <2>1
<1>10. {q[j] : j \in 1..Len(q)} = FourParts(s, c[1], c[2], c[3])
  BY <1>6, <1>7, <1>8, <1>9, Zenon DEF FourParts
<1>11. c[1] \in 1..Len(s) /\ c[2] \in 1..Len(s) /\ c[3] \in 1..Len(s)
  BY <1>2
<1> QED BY <1>1, <1>4, <1>10, <1>11 DEF FourCut

\* Three dots make four pieces.
LEMMA ThreeDots ==
    ASSUME NEW S, NEW s \in Seq(S), NEW q, NEW c, Cuts(S, s, Len(s), q, c),
           NEW i \in 1..Len(s), NEW j \in 1..Len(s), NEW k \in 1..Len(s), i < j, j < k,
           {x \in DOMAIN s : s[x] = "."} = {i, j, k}
    PROVE  Len(q) = 4
<1> DEFINE m == Len(q)
<1>0. m \in Nat /\ m >= 1 /\ DOMAIN s = 1..Len(s)
  BY DEF Cuts
<1>1. \A x \in 1..Len(s) : s[x] = "." => \E y \in 1..(m - 1) : c[y] = x
  BY DotsAreCuts
<1>2. ASSUME NEW y \in 1..(m - 1) PROVE c[y] \in {i, j, k}
  <2>1. c[y] \in 1..Len(s) /\ s[c[y]] = "."
    BY DotsAreCuts
  <2> QED BY <1>0, <2>1
<1>3. \A y \in 1..m : c[y - 1] < c[y]
  BY DEF Cuts, CutAt
<1> HIDE DEF m
<1>4. /\ \E y \in 1..(m - 1) : c[y] = i
      /\ \E y \in 1..(m - 1) : c[y] = j
      /\ \E y \in 1..(m - 1) : c[y] = k
  BY <1>0, <1>1
<1>5. m >= 4
  <2> SUFFICES ASSUME m \in 1..3 PROVE FALSE
    BY <1>0
  <2>1. \A y \in 1..(m - 1) : y = 1 \/ y = 2
    OBVIOUS
  <2>2. {i, j, k} \subseteq {c[1], c[2]}
    BY <1>4, <2>1
  <2> QED BY <2>2
<1>6. m <= 4
  <2> SUFFICES ASSUME m >= 5 PROVE FALSE
    BY <1>0
  <2>1. 1 \in 1..(m - 1) /\ 2 \in 1..(m - 1) /\ 3 \in 1..(m - 1) /\ 4 \in 1..(m - 1)
    BY <1>0
  <2>2. c[1] \in {i, j, k} /\ c[2] \in {i, j, k} /\ c[3] \in {i, j, k} /\ c[4] \in {i, j, k}
    BY <1>2, <2>1
  <2>3. c[2 - 1] < c[2] /\ c[3 - 1] < c[3] /\ c[4 - 1] < c[4]
    BY <1>0, <1>3, <2>1
  <2>4. c[1] < c[2] /\ c[2] < c[3] /\ c[3] < c[4]
    BY <2>3
  <2> QED BY <2>2, <2>4
<1>7. m = 4
  BY <1>0, <1>5, <1>6
<1> QED BY <1>7 DEF m

LEMMA AddressIsFourSegments ==
    ASSUME NEW S, NEW s \in Seq(S)
    PROVE  IsIPv4Address(s) <=>
             /\ All(s, Digits \cup {"."})
             /\ Len(Pieces(s)) = 4
             /\ \A j \in DOMAIN Pieces(s) : IsValidIPv4Segment(Pieces(s)[j])
<1> DEFINE q == Pieces(s)
           dots == {x \in DOMAIN s : s[x] = "."}
           Parted == \E i, j, k \in dots : /\ i < j /\ j < k /\ dots = {i, j, k}
                                           /\ FourParts(s, i, j, k) \subseteq Octets
<1>0. DOMAIN s = 1..Len(s)
  OBVIOUS
<1>1. IsIPv4Address(s) <=> All(s, Digits \cup {"."}) /\ Parted
  BY DEF IsIPv4Address, FourParts, All
<1>2. PICK c : Cuts(S, s, Len(s), q, c)
  BY PiecesCut
<1> HIDE DEF q
<1>3. q \in Seq(Seq(S)) /\ DOMAIN q = 1..Len(q)
  BY <1>2 DEF Cuts
<1>a. Len(q) = 4 =>
        /\ c[1] < c[2] /\ c[2] < c[3]
        /\ c[1] \in 1..Len(s) /\ c[2] \in 1..Len(s) /\ c[3] \in 1..Len(s)
        /\ dots = {c[1], c[2], c[3]}
        /\ {q[j] : j \in 1..Len(q)} = FourParts(s, c[1], c[2], c[3])
  <2>1. Len(q) = 4 => FourCut(s, q, c)
    BY <1>2, FourPieces
  <2> QED BY <2>1 DEF FourCut
<1>4. (\A j \in DOMAIN q : IsValidIPv4Segment(q[j])) <=> {q[j] : j \in 1..Len(q)} \subseteq Octets
  <2>1. ASSUME NEW j \in 1..Len(q) PROVE IsValidIPv4Segment(q[j]) <=> q[j] \in Octets
    BY <1>3, SegmentIsOctet
  <2> QED BY <1>3, <2>1
<1>5. ASSUME Parted PROVE Len(q) = 4 /\ {q[j] : j \in 1..Len(q)} \subseteq Octets
  <2>1. PICK i, j, k \in dots : /\ i < j /\ j < k /\ dots = {i, j, k}
                                /\ FourParts(s, i, j, k) \subseteq Octets
    BY <1>5
  <2>2. i \in 1..Len(s) /\ j \in 1..Len(s) /\ k \in 1..Len(s)
    BY <1>0
  <2>3. Len(q) = 4
    BY <1>2, <2>1, <2>2, ThreeDots
  <2>4. /\ c[1] < c[2] /\ c[2] < c[3]
        /\ c[1] \in 1..Len(s) /\ c[2] \in 1..Len(s) /\ c[3] \in 1..Len(s)
        /\ {c[1], c[2], c[3]} = {i, j, k}
        /\ {q[x] : x \in 1..Len(q)} = FourParts(s, c[1], c[2], c[3])
    BY <1>a, <2>1, <2>3
  <2>5. c[1] = i /\ c[2] = j /\ c[3] = k
    <3>1. i < j /\ j < k
      BY <2>1
    <3>2. /\ c[1] \in {i, j, k} /\ c[2] \in {i, j, k} /\ c[3] \in {i, j, k}
          /\ c[1] < c[2] /\ c[2] < c[3]
      BY <2>4, Zenon
    <3> HIDE DEF dots
    <3> QED BY <2>2, <3>1, <3>2
  <2> QED BY <2>1, <2>3, <2>4, <2>5
<1>6. ASSUME Len(q) = 4, {q[j] : j \in 1..Len(q)} \subseteq Octets PROVE Parted
  <2>1. /\ c[1] < c[2] /\ c[2] < c[3]
        /\ c[1] \in dots /\ c[2] \in dots /\ c[3] \in dots
        /\ dots = {c[1], c[2], c[3]}
        /\ FourParts(s, c[1], c[2], c[3]) \subseteq Octets
    <3> HIDE DEF dots
    <3>1. c[1] \in {c[1], c[2], c[3]} /\ c[2] \in {c[1], c[2], c[3]} /\ c[3] \in {c[1], c[2], c[3]}
      OBVIOUS
    <3> QED BY <1>a, <1>6, <3>1, Zenon
  <2> HIDE DEF dots
  <2> QED BY <2>1
<1> HIDE DEF Parted
<1> QED BY <1>1, <1>4, <1>5, <1>6 DEF q

\* The pieces of what comes before the last character.
LEMMA PiecesOfFront ==
    ASSUME NEW S, NEW s \in Seq(S), s # <<>>
    PROVE  Pieces(Front(s)) = SplitAtDots(s)[Len(s) - 1]
<1> DEFINE t == Front(s)
           n == Len(s) - 1
           f == SplitAtDots(s)
           g == SplitAtDots(t)
           N == {x \in Nat : g[x] = f[x]}
<1>a. n \in Nat /\ n \in 0..Len(s) /\ t = SubSeq(s, 1, n) /\ \A x \in 1..n : x \in 1..Len(s)
  BY DEF Front
<1>b. t \in Seq(S) /\ Len(t) = n
  <2> HIDE DEF n, t
  <2> QED BY <1>a
<1>c. ASSUME NEW x \in 1..n PROVE t[x] = s[x]
  <2> HIDE DEF n, t
  <2> QED BY <1>a
<1>1. n \in Nat /\ t \in Seq(S) /\ Len(t) = n /\ \A x \in 1..n : t[x] = s[x] /\ x \in 1..Len(s)
  BY <1>a, <1>b, <1>c
<1>2. f[0] = << <<>> >> /\ \A x \in 1..Len(s) : f[x] = AddChar(f[x - 1], s[x])
  BY SplitAtDotsIs
<1> HIDE DEF t, f
<1>3. g[0] = << <<>> >> /\ \A x \in 1..n : g[x] = AddChar(g[x - 1], t[x])
  BY <1>1, SplitAtDotsIs
<1> HIDE DEF g, n
<1>4. 0 \in N
  BY <1>2, <1>3
<1>5. ASSUME NEW x \in 0..(n - 1), x \in N PROVE x + 1 \in N
  <2>1. x + 1 \in 1..n /\ (x + 1) - 1 = x /\ x + 1 \in Nat
    BY <1>1
  <2>2. g[x] = f[x]
    BY <1>5
  <2>3. g[x + 1] = AddChar(g[x], t[x + 1]) /\ f[x + 1] = AddChar(f[x], s[x + 1])
    BY <1>1, <1>2, <1>3, <2>1
  <2> QED BY <1>1, <2>1, <2>2, <2>3
<1>6. 0..n \subseteq N
  <2>1. 0 \in Nat
    OBVIOUS
  <2> HIDE DEF N
  <2> QED BY <1>1, <1>4, <1>5, <2>1, IntervalInduction
<1>7. g[n] = f[n]
  BY <1>1, <1>6
<1> QED BY <1>1, <1>7 DEF Pieces, t, f, g, n

\* getline drops the empty piece behind a last dot, and no other piece.
LEMMA GetlineIs ==
    ASSUME NEW S, NEW s \in Seq(S), s # <<>>
    PROVE  Getline(s) = Pieces(IF Last(s) = "." THEN Front(s) ELSE s)
<1> DEFINE q == Pieces(s)
           n == Len(s)
           m == Len(q)
<1>0. n \in Nat /\ n >= 1 /\ n \in 1..n
  OBVIOUS
<1>1. PICK c : Cuts(S, s, n, q, c)
  BY PiecesCut
<1>2. CASE Last(s) = "."
  <2> DEFINE r == SplitAtDots(s)[n - 1]
             e == <<>>
  <2>1. q = AddChar(r, ".")
    <3>1. s[n] = "."
      BY <1>2 DEF Last
    <3>2. SplitAtDots(s)[n] = AddChar(SplitAtDots(s)[n - 1], s[n])
      BY <1>0, SplitAtDotsIs
    <3> QED BY <3>1, <3>2 DEF Pieces
  <2>2. q = Append(r, e)
    BY <2>1 DEF AddChar
  <2>3. r = Pieces(Front(s))
    BY PiecesOfFront
  <2>4. r \in Seq(Seq(S))
    <3>1. Front(s) \in Seq(S)
      BY DEF Front
    <3>2. PICK d : Cuts(S, Front(s), Len(Front(s)), Pieces(Front(s)), d)
      BY <3>1, PiecesCut
    <3> QED BY <2>3, <3>2 DEF Cuts
  <2>5. e \in Seq(S)
    OBVIOUS
  <2> HIDE DEF r, q
  <2>6. Last(q) = e /\ Front(q) = r
    <3> HIDE DEF e
    <3>1. Len(q) = Len(r) + 1 /\ q[Len(r) + 1] = e
      BY <2>2, <2>4, <2>5
    <3>2. SubSeq(q, 1, Len(r)) = r
      BY <2>2, <2>4, <2>5
    <3>3. Len(q) - 1 = Len(r)
      BY <2>4, <3>1
    <3> QED BY <3>1, <3>2, <3>3 DEF Last, Front
  <2>7. Getline(s) = IF Last(q) = e THEN Front(q) ELSE q
    BY DEF Getline, q
  <2> HIDE DEF e
  <2> QED BY <1>2, <2>3, <2>6, <2>7
<1>3. CASE Last(s) # "."
  <2>0. s[n] # "."
    BY <1>3 DEF Last
  <2>1. q \in Seq(Seq(S)) /\ m \in Nat /\ m >= 1 /\ m \in 1..m
    BY <1>1 DEF Cuts
  <2>2. CutAt(s, n, m, c) /\ IsPiece(s, q[m], c[m - 1], c[m])
    BY <1>1, <2>1 DEF Cuts
  <2> HIDE DEF q, m
  <2>3. c[0] = 0 /\ c[m] = n + 1 /\ c[m - 1] \in 0..(n + 1)
    <3>1. m - 1 \in 0..m
      BY <2>1
    <3> QED BY <2>2, <3>1 DEF CutAt
  <2>4. c[m - 1] # n
    <3>1. CASE m = 1
      BY <1>0, <2>3, <3>1
    <3>2. CASE m # 1
      <4>1. m - 1 \in 1..(m - 1)
        BY <2>1, <3>2
      <4>2. s[c[m - 1]] = "."
        BY <2>2, <4>1 DEF CutAt
      <4> QED BY <2>0, <4>2
    <3> QED BY <3>1, <3>2
  <2>5. Len(q[m]) # 0
    <3>1. Len(q[m]) = (n + 1) - c[m - 1] - 1
      BY <2>2, <2>3 DEF IsPiece
    <3> QED BY <1>0, <2>3, <2>4, <3>1
  <2>6. Last(q) # <<>>
    <3>1. Last(q) = q[m]
      BY DEF Last, m
    <3> QED BY <2>5, <3>1
  <2>7. Getline(s) = q
    BY <2>6 DEF Getline, q
  <2> QED BY <1>3, <2>7 DEF q
<1> QED BY <1>2, <1>3

(***************************************************************************)
(* Domain names.  A label is good by its length and its two ends; a place  *)
(* is good by the dot it has near and by its two neighbours.               *)
(***************************************************************************)
HostChars == Letters \cup Digits \cup {"-", "."}

Edge(s, i) == i \notin DOMAIN s \/ s[i] = "."

GoodLabel(s, lo, hi) ==
    hi - lo - 1 \in 1..MaxLabel /\ s[lo + 1] # "-" /\ s[hi - 1] # "-"

GoodPlace(s, i) ==
    /\ s[i] = "." => ~ Edge(s, i - 1) /\ ~ Edge(s, i + 1)
    /\ s[i] = "-" => ~ Edge(s, i - 1) /\ ~ Edge(s, i + 1)
    /\ i + MaxLabel \in DOMAIN s => \E j \in i..(i + MaxLabel) : s[j] = "."

LEMMA DomainByPlaces ==
    ASSUME NEW S, NEW s \in Seq(S)
    PROVE  IsDomain(s) <=> /\ All(s, HostChars)
                           /\ \E i \in DOMAIN s : s[i] = "."
                           /\ \A i \in DOMAIN s : GoodPlace(s, i)
  BY DEF IsDomain, GoodPlace, Edge, HostChars

LEMMA CutBounds ==
    ASSUME NEW S, NEW s \in Seq(S), NEW q, NEW c, Cuts(S, s, Len(s), q, c), NEW j \in 1..Len(q)
    PROVE  /\ c[j - 1] \in 0..Len(s) /\ c[j] \in 1..(Len(s) + 1) /\ c[j - 1] < c[j]
           /\ Len(q) \in Nat /\ Len(s) \in Nat
<1>0. Len(s) \in Nat /\ Len(q) \in Nat /\ CutAt(s, Len(s), Len(q), c)
  BY DEF Cuts
<1>1. c \in [0..Len(q) -> 0..(Len(s) + 1)] /\ c[j - 1] < c[j]
  BY <1>0 DEF CutAt
<1>2. j - 1 \in 0..Len(q) /\ j \in 0..Len(q)
  BY <1>0
<1>3. c[j - 1] \in 0..(Len(s) + 1) /\ c[j] \in 0..(Len(s) + 1)
  BY <1>1, <1>2
<1> QED BY <1>0, <1>1, <1>3

\* A cut is an edge, and nothing between two cuts is.
LEMMA CutIsEdge ==
    ASSUME NEW S, NEW s \in Seq(S), NEW q, NEW c, Cuts(S, s, Len(s), q, c), NEW j \in 0..Len(q)
    PROVE  Edge(s, c[j])
<1>0. Len(s) \in Nat /\ Len(q) \in Nat /\ CutAt(s, Len(s), Len(q), c) /\ DOMAIN s = 1..Len(s)
  BY DEF Cuts
<1>1. c[0] = 0 /\ c[Len(q)] = Len(s) + 1
  BY <1>0 DEF CutAt
<1>2. CASE j = 0
  BY <1>0, <1>1, <1>2 DEF Edge
<1>3. CASE j = Len(q)
  BY <1>0, <1>1, <1>3 DEF Edge
<1>4. CASE j \in 1..(Len(q) - 1)
  <2>1. s[c[j]] = "."
    BY <1>0, <1>4 DEF CutAt
  <2> QED BY <2>1 DEF Edge
<1> QED BY <1>0, <1>2, <1>3, <1>4

LEMMA InsideIsNoEdge ==
    ASSUME NEW S, NEW s \in Seq(S), NEW q, NEW c, Cuts(S, s, Len(s), q, c), NEW j \in 1..Len(q),
           NEW i \in Nat, c[j - 1] < i, i < c[j]
    PROVE  ~ Edge(s, i) /\ i \in 1..Len(s)
<1> DEFINE lo == c[j - 1]
           hi == c[j]
           k == i - lo
<1>0. lo \in 0..Len(s) /\ hi \in 1..(Len(s) + 1) /\ Len(s) \in Nat
  BY CutBounds
<1>1. IsPiece(s, q[j], lo, hi)
  BY DEF Cuts
<1>a. lo < i /\ i < hi
  OBVIOUS
<1> HIDE DEF lo, hi
<1>2. k \in 1..(hi - lo - 1) /\ lo + k = i /\ i \in 1..Len(s)
  BY <1>0, <1>a
<1>3. s[i] # "."
  BY <1>1, <1>2 DEF IsPiece
<1>4. DOMAIN s = 1..Len(s)
  OBVIOUS
<1> QED BY <1>2, <1>3, <1>4 DEF Edge

LEMMA LabelIsGood ==
    ASSUME NEW S, NEW s \in Seq(S), NEW q, NEW c, Cuts(S, s, Len(s), q, c), NEW j \in 1..Len(q),
           All(s, HostChars)
    PROVE  IsValidDomainLabel(q[j]) <=> GoodLabel(s, c[j - 1], c[j])
<1> DEFINE lo == c[j - 1]
           hi == c[j]
           label == q[j]
           l == hi - lo - 1
<1>0. lo \in 0..Len(s) /\ hi \in 1..(Len(s) + 1) /\ lo < hi /\ Len(s) \in Nat
  BY CutBounds
<1>1. IsPiece(s, label, lo, hi) /\ label \in Seq(S)
  BY DEF Cuts
<1> HIDE DEF lo, hi, label
<1>2. Len(label) = l /\ l \in Nat
  BY <1>0, <1>1 DEF IsPiece
<1>3. ASSUME NEW i \in 1..l PROVE label[i] = s[lo + i] /\ label[i] \in Letters \cup Digits \cup {"-"}
  <2>1. label[i] = s[lo + i] /\ label[i] # "."
    BY <1>1, <1>2, <1>3 DEF IsPiece
  <2>2. lo + i \in DOMAIN s
    BY <1>0, <1>3
  <2>3. s[lo + i] \in HostChars
    BY <2>2 DEF All
  <2> QED BY <2>1, <2>3 DEF HostChars
<1>4. All(label, Letters \cup Digits \cup {"-"})
  <2>1. DOMAIN label = 1..l
    BY <1>1, <1>2
  <2> HIDE DEF l
  <2> QED BY <1>3, <2>1 DEF All
<1>5. IsValidDomainLabel(label) <=> l \in 1..MaxLabel /\ label[1] # "-" /\ label[l] # "-"
  <2> HIDE DEF l
  <2> QED BY <1>2, <1>4 DEF IsValidDomainLabel, Last
<1>6. CASE l >= 1
  <2>1. 1 \in 1..l /\ l \in 1..l /\ lo + l = hi - 1
    BY <1>0, <1>2, <1>6
  <2>2. label[1] = s[lo + 1] /\ label[l] = s[hi - 1]
    BY <1>3, <2>1
  <2>3. IsValidDomainLabel(label) <=> l \in 1..MaxLabel /\ s[lo + 1] # "-" /\ s[hi - 1] # "-"
    BY <1>5, <2>2
  <2> QED BY <2>3 DEF GoodLabel, lo, hi, label
<1>7. CASE l < 1
  <2>1. l \notin 1..MaxLabel
    BY <1>2, <1>7, MaxLabelAssumption
  <2>2. ~ IsValidDomainLabel(label) /\ ~ GoodLabel(s, lo, hi)
    BY <1>5, <2>1 DEF GoodLabel
  <2> QED BY <2>2 DEF lo, hi, label
<1> QED BY <1>2, <1>6, <1>7

\* Good labels make good places.
LEMMA PlacesOfLabels ==
    ASSUME NEW S, NEW s \in Seq(S), NEW q, NEW c, Cuts(S, s, Len(s), q, c),
           \A j \in 1..Len(q) : GoodLabel(s, c[j - 1], c[j]),
           NEW i \in 1..Len(s)
    PROVE  GoodPlace(s, i)
<1> DEFINE n == Len(s)
           m == Len(q)
<1>0. n \in Nat /\ m \in Nat /\ m >= 1 /\ CutAt(s, n, m, c) /\ DOMAIN s = 1..n /\ c[m] = n + 1
  BY DEF Cuts, CutAt
<1>1. PICK j \in 1..m : c[j - 1] < i /\ i <= c[j]
  BY <1>0 DEF CutAt
<1> DEFINE lo == c[j - 1]
           hi == c[j]
<1>2. lo \in 0..n /\ hi \in 1..(n + 1) /\ lo < i /\ i <= hi
  BY <1>1, CutBounds
<1>3. GoodLabel(s, lo, hi)
  OBVIOUS
<1>4. ASSUME NEW x \in Nat, lo < x, x < hi PROVE ~ Edge(s, x)
  BY <1>4, InsideIsNoEdge
<1>5. ASSUME hi \in 1..n PROVE s[hi] = "." /\ j \in 1..(m - 1)
  <2>1. j \in 1..(m - 1)
    <3>1. j # m
      BY <1>0, <1>5
    <3> QED BY <1>0, <3>1
  <2>2. s[c[j]] = "."
    BY <1>0, <2>1 DEF CutAt
  <2> QED BY <2>1, <2>2
<1>6. ASSUME hi \in 1..n PROVE ~ Edge(s, hi + 1)
  <2>1. j + 1 \in 1..m /\ (j + 1) - 1 = j
    BY <1>0, <1>5, <1>6
  <2> DEFINE up == c[j + 1]
  <2>2. GoodLabel(s, hi, up)
    BY <2>1
  <2>3. up \in 1..(n + 1) /\ hi < up
    BY <2>1, CutBounds
  <2>4. ASSUME NEW x \in Nat, hi < x, x < up PROVE ~ Edge(s, x)
    BY <2>1, <2>4, InsideIsNoEdge
  <2> HIDE DEF up, hi
  <2>5. hi + 1 \in Nat /\ hi < hi + 1 /\ hi + 1 < up
    BY <1>0, <1>2, <2>2, <2>3, MaxLabelAssumption DEF GoodLabel
  <2> QED BY <2>4, <2>5
<1> HIDE DEF lo, hi, n, m
<1>7. hi - lo - 1 >= 1 /\ hi - lo - 1 <= MaxLabel /\ s[lo + 1] # "-" /\ s[hi - 1] # "-"
  BY <1>2, <1>3, MaxLabelAssumption DEF GoodLabel
<1>8. i \in 1..n /\ i \in Nat
  BY DEF n
<1>9. CASE i = hi
  <2>1. s[i] = "." /\ ~ Edge(s, i + 1)
    BY <1>5, <1>6, <1>8, <1>9
  <2>2. i - 1 \in Nat /\ lo < i - 1 /\ i - 1 < hi
    BY <1>2, <1>7, <1>8, <1>9
  <2>3. ~ Edge(s, i - 1)
    BY <1>4, <2>2
  <2>4. i \in i..(i + MaxLabel)
    BY <1>8, MaxLabelAssumption
  <2> QED BY <2>1, <2>3, <2>4 DEF GoodPlace
<1>10. CASE i < hi
  <2>1. s[i] # "."
    BY <1>2, <1>4, <1>8, <1>10 DEF Edge
  <2>2. ASSUME s[i] = "-" PROVE ~ Edge(s, i - 1) /\ ~ Edge(s, i + 1)
    <3>1. i # lo + 1 /\ i # hi - 1
      BY <1>7, <2>2
    <3>2. i - 1 \in Nat /\ lo < i - 1 /\ i - 1 < hi /\ i + 1 \in Nat /\ lo < i + 1 /\ i + 1 < hi
      BY <1>2, <1>8, <1>10, <3>1
    <3> QED BY <1>4, <3>2
  <2>3. ASSUME i + MaxLabel \in 1..n PROVE \E x \in i..(i + MaxLabel) : s[x] = "."
    <3>1. hi \in i..(i + MaxLabel) /\ hi \in 1..n
      BY <1>0, <1>2, <1>7, <1>8, <1>10, <2>3, MaxLabelAssumption
    <3>2. s[hi] = "."
      BY <1>5, <3>1
    <3> QED BY <3>1, <3>2
  <2>4. i + MaxLabel \in DOMAIN s => \E x \in i..(i + MaxLabel) : s[x] = "."
    BY <1>0, <2>3
  <2> QED BY <2>1, <2>2, <2>4 DEF GoodPlace
<1> QED BY <1>2, <1>8, <1>9, <1>10

\* Good places, one of them a dot, make good labels.
LEMMA LabelsOfPlaces ==
    ASSUME NEW S, NEW s \in Seq(S), NEW q, NEW c, Cuts(S, s, Len(s), q, c), Len(q) >= 2,
           \A i \in 1..Len(s) : GoodPlace(s, i),
           NEW j \in 1..Len(q)
    PROVE  GoodLabel(s, c[j - 1], c[j])
<1> DEFINE n == Len(s)
           m == Len(q)
           lo == c[j - 1]
           hi == c[j]
<1>0. n \in Nat /\ m \in Nat /\ m >= 2 /\ CutAt(s, n, m, c) /\ DOMAIN s = 1..n
  BY DEF Cuts
<1>1. lo \in 0..n /\ hi \in 1..(n + 1) /\ lo < hi
  BY CutBounds
<1>2. Edge(s, lo) /\ Edge(s, hi)
  <2>1. j - 1 \in 0..Len(q) /\ j \in 0..Len(q)
    BY <1>0
  <2> QED BY <2>1, CutIsEdge
<1>3. ASSUME NEW x \in Nat, lo < x, x < hi PROVE ~ Edge(s, x) /\ x \in 1..n
  BY <1>3, InsideIsNoEdge
<1>4. ASSUME NEW i \in 1..n PROVE GoodPlace(s, i)
  OBVIOUS
<1>5. lo = 0 \/ s[lo] = "."
  <2>1. CASE j = 1
    <3>1. c[0] = 0 /\ j - 1 = 0
      BY <1>0, <2>1 DEF CutAt
    <3> QED BY <3>1
  <2>2. CASE j # 1
    <3>1. j - 1 \in 1..(m - 1)
      BY <1>0, <2>2
    <3>2. s[c[j - 1]] = "."
      BY <1>0, <3>1 DEF CutAt
    <3> QED BY <3>2
  <2> QED BY <2>1, <2>2
<1>6. hi # lo + 1
  <2> SUFFICES ASSUME hi = lo + 1 PROVE FALSE
    OBVIOUS
  <2>1. CASE j # 1
    <3>1. j - 1 \in 1..(m - 1)
      BY <1>0, <2>1
    <3>2. lo \in 1..n /\ s[lo] = "."
      <4>1. \A x \in 1..(m - 1) : c[x] \in 1..n /\ s[c[x]] = "."
        BY DotsAreCuts
      <4> QED BY <3>1, <4>1
    <3>3. ~ Edge(s, lo + 1)
      BY <1>4, <3>2 DEF GoodPlace
    <3> QED BY <1>2, <3>3
  <2>2. CASE j = 1
    <3>1. lo = 0
      <4>1. c[0] = 0 /\ j - 1 = 0
        BY <1>0, <2>2 DEF CutAt
      <4> QED BY <4>1
    <3>2. hi = 1
      BY <3>1
    <3>3. j \in 1..(m - 1)
      BY <1>0, <2>2
    <3>4. hi \in 1..n /\ s[hi] = "."
      <4>1. \A x \in 1..(m - 1) : c[x] \in 1..n /\ s[c[x]] = "."
        BY DotsAreCuts
      <4> QED BY <3>3, <4>1
    <3>5. ~ Edge(s, hi - 1)
      BY <1>4, <3>4 DEF GoodPlace
    <3>6. Edge(s, hi - 1)
      <4>1. hi - 1 = lo
        BY <3>1, <3>2
      <4> QED BY <1>2, <4>1
    <3> QED BY <3>5, <3>6
  <2> QED BY <2>1, <2>2
<1> HIDE DEF lo, hi, n, m
<1>7. /\ lo + 1 \in Nat /\ lo < lo + 1 /\ lo + 1 < hi /\ lo + 1 - 1 = lo
      /\ hi - 1 \in Nat /\ lo < hi - 1 /\ hi - 1 < hi /\ hi - 1 + 1 = hi /\ (lo + 1) - 1 = lo
  BY <1>0, <1>1, <1>6
<1>8. s[lo + 1] # "-"
  <2>1. lo + 1 \in 1..n
    BY <1>3, <1>7
  <2>2. GoodPlace(s, lo + 1)
    BY <1>4, <2>1
  <2>3. ASSUME s[lo + 1] = "-" PROVE ~ Edge(s, (lo + 1) - 1)
    BY <2>2, <2>3 DEF GoodPlace
  <2> QED BY <1>2, <1>7, <2>3
<1>9. s[hi - 1] # "-"
  <2>1. hi - 1 \in 1..n
    BY <1>3, <1>7
  <2>2. GoodPlace(s, hi - 1)
    BY <1>4, <2>1
  <2>3. ASSUME s[hi - 1] = "-" PROVE ~ Edge(s, (hi - 1) + 1)
    BY <2>2, <2>3 DEF GoodPlace
  <2>4. (hi - 1) + 1 = hi
    BY <1>1
  <2> QED BY <1>2, <2>3, <2>4
<1>10. hi - lo - 1 <= MaxLabel
  <2> SUFFICES ASSUME hi - lo - 1 > MaxLabel PROVE FALSE
    BY <1>0, <1>1, MaxLabelAssumption
  <2>1. lo + 1 \in 1..n /\ (lo + 1) + MaxLabel \in 1..n /\ (lo + 1) + MaxLabel < hi
    BY <1>0, <1>1, MaxLabelAssumption
  <2>2. GoodPlace(s, lo + 1)
    BY <1>4, <2>1
  <2>3. PICK x \in (lo + 1)..((lo + 1) + MaxLabel) : s[x] = "."
    BY <1>0, <2>1, <2>2 DEF GoodPlace
  <2>4. x \in Nat /\ lo < x /\ x < hi
    BY <1>0, <1>1, <2>1, <2>3, MaxLabelAssumption
  <2>5. ~ Edge(s, x)
    BY <1>3, <2>4
  <2> QED BY <2>3, <2>5 DEF Edge
<1>11. hi - lo - 1 \in 1..MaxLabel
  BY <1>0, <1>1, <1>6, <1>10, MaxLabelAssumption
<1>12. GoodLabel(s, lo, hi)
  BY <1>8, <1>9, <1>11 DEF GoodLabel
<1> QED BY <1>12 DEF lo, hi

LEMMA DomainIsLabels ==
    ASSUME NEW S, NEW s \in Seq(S), All(s, HostChars)
    PROVE  IsValidDomainName(s) <=> IsDomain(s)
<1> DEFINE n == Len(s)
           q == Pieces(s)
           m == Len(q)
<1>0. n \in Nat /\ DOMAIN s = 1..n
  OBVIOUS
<1>1. PICK c : Cuts(S, s, n, q, c)
  BY PiecesCut
<1>2. m \in Nat /\ DOMAIN q = 1..m
  BY <1>1 DEF Cuts
<1>3. ASSUME NEW j \in 1..m PROVE IsValidDomainLabel(q[j]) <=> GoodLabel(s, c[j - 1], c[j])
  BY <1>1, LabelIsGood
<1>4. ASSUME s # <<>>, Last(s) # "." PROVE Getline(s) = q
  BY <1>4, GetlineIs
<1>5. /\ \A j \in 1..(m - 1) : c[j] \in 1..n /\ s[c[j]] = "."
      /\ \A i \in 1..n : s[i] = "." => \E j \in 1..(m - 1) : c[j] = i
  BY <1>1, DotsAreCuts
<1>6. ASSUME IsValidDomainName(s) PROVE IsDomain(s)
  <2>1. s # <<>> /\ Last(s) # "." /\ Len(Getline(s)) >= 2
    BY <1>6 DEF IsValidDomainName
  <2>2. Getline(s) = q
    BY <1>4, <2>1
  <2>3. m >= 2 /\ \A j \in 1..m : IsValidDomainLabel(q[j])
    <3> HIDE DEF q
    <3> QED BY <1>2, <1>6, <2>1, <2>2 DEF IsValidDomainName
  <2>4. \A j \in 1..m : GoodLabel(s, c[j - 1], c[j])
    BY <1>3, <2>3
  <2>5. \A i \in 1..n : GoodPlace(s, i)
    BY <1>1, <2>4, PlacesOfLabels
  <2>6. 1 \in 1..(m - 1)
    BY <1>2, <2>3
  <2>7. \E i \in DOMAIN s : s[i] = "."
    BY <1>0, <1>5, <2>6
  <2> QED BY <1>0, <2>5, <2>7, DomainByPlaces
<1>7. ASSUME IsDomain(s) PROVE IsValidDomainName(s)
  <2>1. (\E i \in 1..n : s[i] = ".") /\ \A i \in 1..n : GoodPlace(s, i)
    BY <1>0, <1>7, DomainByPlaces
  <2>2. s # <<>> /\ n >= 1 /\ 1 \in 1..n /\ n \in 1..n
    BY <1>0, <2>1
  <2>3. m >= 2
    <3>1. PICK j \in 1..(m - 1) : TRUE
      BY <1>5, <2>1
    <3> QED BY <1>2, <3>1
  <2>4. \A j \in 1..m : GoodLabel(s, c[j - 1], c[j])
    BY <1>1, <2>1, <2>3, LabelsOfPlaces
  <2>5. \A j \in 1..m : IsValidDomainLabel(q[j])
    BY <1>3, <2>4
  <2>6. s[1] # "."
    <3>1. GoodPlace(s, 1)
      BY <2>1, <2>2
    <3>2. Edge(s, 1 - 1)
      BY <1>0 DEF Edge
    <3> QED BY <3>1, <3>2 DEF GoodPlace
  <2>7. Last(s) # "."
    <3>1. GoodPlace(s, n)
      BY <2>1, <2>2
    <3>2. Edge(s, n + 1)
      BY <1>0 DEF Edge
    <3>3. s[n] # "."
      BY <3>1, <3>2 DEF GoodPlace
    <3> QED BY <3>3 DEF Last
  <2>8. Getline(s) = q
    BY <1>4, <2>2, <2>7
  <2> HIDE DEF q
  <2> QED BY <1>2, <2>2, <2>3, <2>5, <2>6, <2>7, <2>8 DEF IsValidDomainName
<1> QED BY <1>6, <1>7

LEMMA AddressByPieces ==
    ASSUME NEW S, NEW s \in Seq(S), s # <<>>
    PROVE  IsValidIPv4(s) <=> IsIPv4Address(IF Last(s) = "." THEN Front(s) ELSE s)
<1> DEFINE t == IF Last(s) = "." THEN Front(s) ELSE s
           q == Pieces(t)
<1>1. t \in Seq(S)
  BY DEF Front
<1>2. Getline(s) = q
  BY GetlineIs
<1>3. All(s, Digits \cup {"."}) <=> All(t, Digits \cup {"."})
  <2>1. CASE Last(s) = "."
    <3> DEFINE D == Digits \cup {"."}
    <3>0. t = Front(s) /\ "." \in D
      BY <2>1
    <3>1. Len(s) \in Nat /\ Len(s) >= 1 /\ s[Len(s)] = "." /\ DOMAIN s = 1..Len(s)
      BY <2>1 DEF Last
    <3>2. t = SubSeq(s, 1, Len(s) - 1)
      BY <3>0 DEF Front
    <3> HIDE DEF t, D
    <3>3. DOMAIN t = 1..(Len(s) - 1)
      BY <3>1, <3>2
    <3>4. ASSUME NEW i \in 1..(Len(s) - 1) PROVE t[i] = s[i] /\ i \in 1..Len(s)
      BY <3>1, <3>2
    <3>5. \A i \in 1..Len(s) : i = Len(s) \/ i \in 1..(Len(s) - 1)
      <4> DEFINE n == Len(s)
      <4>1. n \in Nat
        BY <3>1
      <4> HIDE DEF n
      <4>2. \A i \in 1..n : i = n \/ i \in 1..(n - 1)
        BY <4>1
      <4> QED BY <4>2 DEF n
    <3>6. All(s, D) <=> All(t, D)
      BY <3>0, <3>1, <3>3, <3>4, <3>5 DEF All
    <3> QED BY <3>6 DEF D
  <2>2. CASE Last(s) # "."
    BY <2>2
  <2> QED BY <2>1, <2>2
<1> HIDE DEF t
<1>4. IsIPv4Address(t) <=> /\ All(t, Digits \cup {"."})
                           /\ Len(q) = 4
                           /\ \A j \in DOMAIN q : IsValidIPv4Segment(q[j])
  BY <1>1, AddressIsFourSegments
<1> HIDE DEF q
<1>5. IsValidIPv4(s) <=> IsIPv4Address(t)
  BY <1>2, <1>3, <1>4 DEF IsValidIPv4
<1> QED BY <1>5 DEF t

\* IsValidHost accepts exactly the hosts of the grammars, whatever their length.
\* An address does not end in a dot: no numeral of Octets is empty.
LEMMA AddressEnds ==
    ASSUME NEW S, NEW s \in Seq(S), s # <<>>, IsIPv4Address(s)
    PROVE  Last(s) # "."
<1> DEFINE dots == {i \in DOMAIN s : s[i] = "."}
           n == Len(s)
<1>1. PICK i \in dots, j \in dots, k \in dots :
        /\ i < j /\ j < k /\ dots = {i, j, k} /\ SubSeq(s, k + 1, n) \in Octets
  BY DEF IsIPv4Address
<1>2. DOMAIN s = 1..n /\ n \in Nat /\ n \in 1..n
  OBVIOUS
<1>3. i \in 1..n /\ j \in 1..n /\ k \in 1..n
  BY <1>1, <1>2
<1> SUFFICES ASSUME s[n] = "." PROVE FALSE
  BY DEF Last
<1>4. n \in {i, j, k}
  BY <1>1, <1>2
<1> HIDE DEF n, dots
<1>5. k = n
  BY <1>1, <1>2, <1>3, <1>4
<1>6. SubSeq(s, n + 1, n) = <<>>
  BY <1>2 DEF n
<1>7. <<>> \notin Octets
  BY DEF Octets
<1> QED BY <1>1, <1>5, <1>6, <1>7

\* An address and one more dot has only digits and dots.
LEMMA AddressAndDotChars ==
    ASSUME NEW S, NEW s \in Seq(S), IsAddressAndDot(s)
    PROVE  All(s, Digits \cup {".", "-"})
<1> DEFINE t == Front(s)
<1>1. s # <<>> /\ Last(s) = "." /\ \A i \in DOMAIN t : t[i] \in Digits \cup {"."}
  BY DEF IsAddressAndDot, IsIPv4Address
<1>2. DOMAIN s = 1..Len(s) /\ Len(s) \in Nat
  OBVIOUS
<1>3. t = SubSeq(s, 1, Len(s) - 1)
  BY DEF Front
<1>4. ASSUME NEW i \in 1..(Len(s) - 1) PROVE i \in DOMAIN t /\ t[i] = s[i]
  BY <1>2, <1>3
<1> HIDE DEF t
<1>5. ASSUME NEW i \in DOMAIN s PROVE s[i] \in Digits \cup {".", "-"}
  <2>1. CASE i = Len(s)
    BY <1>1, <2>1 DEF Last
  <2>2. CASE i # Len(s)
    <3>1. i \in 1..(Len(s) - 1)
      BY <1>2, <2>2
    <3> QED BY <1>1, <1>4, <3>1
  <2> QED BY <2>1, <2>2
<1> QED BY <1>5 DEF All

LEMMA HostIsValid ==
    ASSUME NEW S, NEW s \in Seq(S)
    PROVE  IsValidHost(s) <=> IsHost(s) \/ IsAddressAndDot(s)
<1> DEFINE Numeric == All(s, Digits \cup {".", "-"})
<1>1. Localhost # <<>> /\ "l" \notin Digits \cup {".", "-"}
  BY DEF Localhost, Digits
<1>2. s = Localhost => ~ Numeric
  <2>1. 1 \in DOMAIN Localhost /\ Localhost[1] = "l"
    BY DEF Localhost
  <2> QED BY <1>1, <2>1 DEF All
<1>3. CASE s = <<>>
  <2>1. Numeric /\ ~ IsValidHost(s)
    BY <1>3 DEF All, IsValidHost
  <2>2. ~ IsIPv4Address(s)
    BY <1>3 DEF IsIPv4Address
  <2> QED BY <1>3, <2>1, <2>2 DEF IsHost, IsAddressAndDot
<1>4. CASE s # <<>> /\ Numeric
  <2>1. IsValidHost(s) <=> IsValidIPv4(s)
    BY <1>2, <1>4 DEF IsValidHost, LooksLikeIPv4
  <2>2. IsHost(s) <=> IsIPv4Address(s)
    BY <1>4 DEF IsHost
  <2>3. IsValidIPv4(s) <=> IsIPv4Address(IF Last(s) = "." THEN Front(s) ELSE s)
    BY <1>4, AddressByPieces
  <2>4. IsIPv4Address(s) => Last(s) # "."
    BY <1>4, AddressEnds
  <2>5. IsAddressAndDot(s) <=> Last(s) = "." /\ IsIPv4Address(Front(s))
    BY <1>4 DEF IsAddressAndDot
  <2> QED BY <2>1, <2>2, <2>3, <2>4, <2>5
<1>5. CASE s # <<>> /\ ~ Numeric
  <2>1. IsValidHost(s) <=> s = Localhost \/ (All(s, HostChars) /\ IsValidDomainName(s))
    BY <1>5 DEF IsValidHost, LooksLikeIPv4, ContainsInvalidChars, HostChars
  <2>2. IsHost(s) <=> s = Localhost \/ IsDomain(s)
    BY <1>5 DEF IsHost
  <2>3. (All(s, HostChars) /\ IsValidDomainName(s)) <=> IsDomain(s)
    <3>1. IsDomain(s) => All(s, HostChars)
      BY DomainByPlaces
    <3>2. All(s, HostChars) => (IsValidDomainName(s) <=> IsDomain(s))
      BY DomainIsLabels
    <3> QED BY <3>1, <3>2
  <2>4. ~ IsAddressAndDot(s)
    BY <1>5, AddressAndDotChars
  <2> QED BY <2>1, <2>2, <2>3, <2>4
<1> QED BY <1>3, <1>4, <1>5

\* IsValidHost accepts the hosts of the grammars and an address with one more dot,
\* and nothing else, however many hosts there are and however long: HostAgrees for
\* every set of hosts and every limit of a label.
THEOREM HostsAlwaysAgree == Spec => []HostAgrees
<1>1. HostAgrees
  <2> SUFFICES ASSUME NEW host \in Hosts
               PROVE  IsValidHost(host) <=> IsHost(host) \/ IsAddressAndDot(host)
    BY DEF HostAgrees
  <2>1. host \in Seq(STRING)
    BY HostsAssumption
  <2> QED BY <2>1, HostIsValid
<1> QED BY <1>1, PTL
=============================================================================
