----------------------- MODULE RequestHandlerProofs ------------------------
(***************************************************************************)
(* From a request to a file, for every server block, path and file system. *)
(***************************************************************************)
EXTENDS RequestHandler, PathsProofs

NameChars == Characters \ {"/"}

LEMMA AnyChars == Chars(NameChars) = Characters /\ "/" \notin NameChars
<1>1. "/" \in Characters
  BY PathsAssumption
<1> QED BY <1>1 DEF Chars, NameChars

(***************************************************************************)
(* The invariant.                                                          *)
(***************************************************************************)
\* What ValidateAndNormalizePath lets through.
IsGood(p, root) ==
    /\ p \in Seq(Characters) /\ p # <<>>
    /\ SplitPathSegments(p) \in Seq(Names(NameChars) \ Dots)
    /\ root = <<"/">> \/ Below(root, p)

\* The location is the one that FindLocationForUri finds.
Chosen ==
    point # "route" => /\ loc = 0 => Matching = {}
                       /\ loc # 0 => FindLocationForUri(loc)

\* The path that the location resolved to, or why there is none.
Resolved ==
    /\ point = "route" => loc = 0 /\ op = "none" /\ path = <<>>
    /\ point = "handle" => loc # 0 /\ op = "none" /\ IsGood(path, Location.root)
    /\ op # "none" => loc # 0
    /\ point = "done" /\ loc # 0 /\ path = <<>> =>
         status \in {302, PathStatus(Location.root \o Remainder(loc), Location.root)}

Inv == TypeOK /\ Chosen /\ Resolved /\ TargetUnderRoot

(***************************************************************************)
(* What the path checks let through.                                       *)
(***************************************************************************)
LEMMA PathStatusIs ==
    ASSUME NEW p, NEW root
    PROVE  /\ PathStatus(p, root) \in {0, 400, 404}
           /\ PathStatus(p, root) = 0 => IsPathUnderDocumentRoot(NormalizePathBySegments(p), root)
  BY DEF PathStatus

LEMMA GoodIs ==
    ASSUME NEW p \in Seq(Characters), NEW root, PathStatus(p, root) = 0
    PROVE  IsGood(NormalizePathBySegments(p), root)
<1> DEFINE q == NormalizePathBySegments(p)
<1>1. IsPathUnderDocumentRoot(q, root)
  BY PathStatusIs
<1>2. root = <<"/">> \/ Below(root, q)
  BY <1>1 DEF IsPathUnderDocumentRoot, Below
<1>3. p \in Seq(Chars(NameChars)) /\ "/" \notin NameChars
  BY AnyChars
<1>4. /\ q \in Seq(Chars(NameChars)) /\ q # <<>>
      /\ SplitPathSegments(q) = SegmentStack(p).stack
      /\ SegmentStack(p).stack \in Seq(Names(NameChars) \ Dots)
  BY <1>3, NormalizeType
<1> QED BY <1>2, <1>4, AnyChars DEF IsGood

\* What TargetUnderRoot says of one operation on one file.
IsUnder(file, operation, root) ==
    /\ \/ IsPrefix(SplitPathSegments(root), SplitPathSegments(file))
       \/ operation = "execute" /\ IsPrefix(file, root)
    /\ \A i \in DOMAIN SplitPathSegments(file) :
         SplitPathSegments(file)[i] \notin {Dot, DotDot}

\* A path whose segments begin with those of the root, without dots.
LEMMA Undotted ==
    ASSUME NEW segs \in Seq(Names(NameChars) \ Dots)
    PROVE  \A i \in DOMAIN segs : segs[i] \notin {Dot, DotDot}
<1>1. DOMAIN segs = 1..Len(segs)
  OBVIOUS
<1>2. ASSUME NEW i \in 1..Len(segs) PROVE segs[i] \notin {Dot, DotDot}
  <2>1. segs[i] \in Names(NameChars) \ Dots
    OBVIOUS
  <2> QED BY <2>1 DEF Dots
<1> QED BY <1>1, <1>2

LEMMA UnderRoot ==
    ASSUME NEW p \in Seq(Characters), NEW root \in Seq(Characters), root = <<"/">> \/ Below(root, p)
    PROVE  IsPrefix(SplitPathSegments(root), SplitPathSegments(p))
<1>1. p \in Seq(Chars(NameChars)) /\ root \in Seq(Chars(NameChars)) /\ "/" \notin NameChars
  BY AnyChars
<1>2. CASE root = <<"/">>
  <2> DEFINE none == <<>>
             segs == SplitPathSegments(p)
  <2>1. SplitPathSegments(root) = none
    BY <1>1, <1>2, SplitTrailing
  <2>2. segs \in Seq(Names(NameChars)) /\ none \in Seq(Names(NameChars)) /\ Len(none) = 0
    BY <1>1, SplitType
  <2> HIDE DEF none, segs
  <2>3. Len(none) <= Len(segs) /\ \A i \in 1..Len(none) : segs[i] = none[i]
    BY <2>2
  <2>4. IsPrefix(none, segs)
    BY <2>2, <2>3, PrefixIf
  <2> QED BY <2>1, <2>4 DEF segs
<1>3. CASE Below(root, p)
  BY <1>1, <1>3, SplitBelow
<1> QED BY <1>2, <1>3

LEMMA GoodTarget ==
    ASSUME NEW p, NEW root \in Seq(Characters), IsGood(p, root), NEW operation
    PROVE  IsUnder(p, operation, root) /\ p # <<>>
<1> DEFINE segs == SplitPathSegments(p)
<1>1. /\ p \in Seq(Characters) /\ p # <<>> /\ segs \in Seq(Names(NameChars) \ Dots)
      /\ root = <<"/">> \/ Below(root, p)
  BY DEF IsGood
<1>2. IsPrefix(SplitPathSegments(root), segs)
  BY <1>1, UnderRoot
<1> HIDE DEF segs
<1>3. \A i \in DOMAIN segs : segs[i] \notin {Dot, DotDot}
  BY <1>1, Undotted
<1> QED BY <1>1, <1>2, <1>3 DEF IsUnder, segs

\* Two paths that a third lies below: one lies below the other.
LEMMA BelowBoth ==
    ASSUME NEW S, NEW a \in Seq(S), NEW b \in Seq(S), NEW p \in Seq(S),
           Below(a, p), Below(b, p), Len(a) <= Len(b)
    PROVE  Below(a, b)
<1>1. /\ IsPrefix(a, p) /\ (Len(p) = Len(a) \/ p[Len(a) + 1] = "/")
      /\ IsPrefix(b, p) /\ Len(a) \in Nat /\ Len(b) \in Nat /\ Len(p) \in Nat
  BY LenIs DEF Below
<1>2. ASSUME NEW i \in 1..Len(a) PROVE b[i] = a[i]
  <2>1. i \in 1..Len(b)
    BY <1>1
  <2>2. p[i] = a[i]
    BY <1>1, PrefixAt
  <2>3. p[i] = b[i]
    BY <1>1, <2>1, PrefixAt
  <2> QED BY <2>2, <2>3
<1>3. IsPrefix(a, b)
  BY <1>2, PrefixIf
<1>4. CASE Len(a) = Len(b)
  BY <1>3, <1>4 DEF Below
<1>5. CASE Len(a) # Len(b)
  <2>1. Len(a) + 1 \in 1..Len(b)
    BY <1>1, <1>5
  <2>2. p[Len(a) + 1] = b[Len(a) + 1] /\ Len(b) <= Len(p)
    BY <1>1, <2>1, PrefixAt
  <2>3. Len(p) # Len(a)
    BY <1>1, <2>1, <2>2
  <2> QED BY <1>1, <1>3, <2>2, <2>3 DEF Below
<1> QED BY <1>4, <1>5

LEMMA ExecutedTarget ==
    ASSUME NEW p, NEW root \in Seq(Characters), IsGood(p, root),
           NEW exts \in Seq(Seq(Characters) \ {<<>>})
    PROVE  IsUnder(ExecutablePath(p, exts), "execute", root) /\ ExecutablePath(p, exts) # <<>>
<1> DEFINE t == ExecutablePath(p, exts)
           segs == SplitPathSegments(t)
           all == SplitPathSegments(p)
<1>1. /\ p \in Seq(Characters) /\ p # <<>> /\ all \in Seq(Names(NameChars) \ Dots)
      /\ root = <<"/">> \/ Below(root, p)
  BY DEF IsGood
<1>2. t \in Seq(Characters) /\ t # <<>> /\ Below(t, p)
  BY <1>1, ExecutableIs
<1> HIDE DEF t
<1>3. IsPrefix(segs, all) /\ segs \in Seq(Names(NameChars)) /\ all \in Seq(Names(NameChars))
  BY <1>1, <1>2, AnyChars, SplitBelow
<1>4. segs \in Seq(Names(NameChars) \ Dots)
  BY <1>1, <1>3, PrefixOver
<1>5. \A i \in DOMAIN segs : segs[i] \notin {Dot, DotDot}
  <2> HIDE DEF segs
  <2> QED BY <1>4, Undotted
<1>6. IsPrefix(SplitPathSegments(root), segs) \/ IsPrefix(t, root)
  <2>1. CASE root = <<"/">>
    BY <1>2, <2>1, UnderRoot
  <2>2. CASE Below(root, p) /\ Len(root) <= Len(t)
    <3>1. Below(root, t)
      BY <1>1, <1>2, <2>2, BelowBoth
    <3> QED BY <1>2, <3>1, UnderRoot
  <2>3. CASE Below(root, p) /\ ~ (Len(root) <= Len(t))
    <3>1. Len(t) <= Len(root)
      BY <1>2, <2>3, LenIs
    <3>2. Below(t, root)
      BY <1>1, <1>2, <2>3, <3>1, BelowBoth
    <3> QED BY <3>2 DEF Below
  <2> QED BY <1>1, <2>1, <2>2, <2>3
<1> QED BY <1>2, <1>5, <1>6 DEF IsUnder, t

(***************************************************************************)
(* The keys of names and paths, and what is left of a path.                *)
(***************************************************************************)
LEMMA TrimAbsolute ==
    ASSUME NEW s, IsAbsolute(s)
    PROVE  IsAbsolute(TrimTrailingSlashExceptRoot(s))
<1> DEFINE t == TrimTrailingSlashExceptRoot(s)
<1>1. s \in Seq(Characters) /\ s # <<>> /\ s[1] = "/"
  BY DEF IsAbsolute
<1>2. PICK n \in 1..Len(s) : t = Left(s, n)
  BY <1>1, TrimIs
<1>3. n \in 0..Len(s) /\ 1 \in 1..n /\ Len(s) \in Nat
  BY <1>1
<1>4. Left(s, n) \in Seq(Characters) /\ Len(Left(s, n)) = n
  BY <1>1, <1>3, LeftIs
<1>5. Left(s, n)[1] = "/"
  BY <1>1, <1>3, LeftAt
<1> HIDE DEF t
<1>6. t # <<>>
  BY <1>2, <1>3, <1>4
<1> QED BY <1>2, <1>4, <1>5, <1>6 DEF IsAbsolute, t

\* What the assumptions say of the request and its location.
LEMMA RequestIs ==
    ASSUME TypeOK
    PROVE  /\ IsAbsolute(uri) /\ IsAbsolute(UriKey)
           /\ DOMAIN conf = 1..Len(conf) /\ Len(conf) \in Nat
<1>1. uri \in Uris /\ conf \in Confs
  BY DEF TypeOK
<1>2. IsAbsolute(uri) /\ DOMAIN conf = 1..Len(conf) /\ Len(conf) \in Nat
  BY <1>1, PathsAssumption
<1> QED BY <1>2, TrimAbsolute DEF UriKey

LEMMA LocationIs ==
    ASSUME TypeOK, NEW i \in DOMAIN conf
    PROVE  /\ IsAbsolute(Key(conf[i]))
           /\ conf[i].root \in Seq(Characters) /\ conf[i].index \in Seq(Characters)
           /\ conf[i].extensions \in Seq(Seq(Characters) \ {<<>>})
           /\ i \in 1..Len(conf) /\ i # 0
<1>1. conf \in Confs
  BY DEF TypeOK
<1>2. /\ IsAbsolute(conf[i].name)
      /\ conf[i].root \in Seq(Characters) /\ conf[i].index \in Seq(Characters)
      /\ conf[i].extensions \in Seq(Seq(Characters) \ {<<>>})
  BY <1>1, PathsAssumption
<1>3. i \in 1..Len(conf) /\ Len(conf) \in Nat
  BY RequestIs
<1> QED BY <1>2, <1>3, TrimAbsolute DEF Key

LEMMA MatchingIs ==
    ASSUME TypeOK, NEW i \in Matching
    PROVE  i \in DOMAIN conf /\ Len(Key(conf[i])) \in 0..Len(UriKey)
<1> DEFINE k == Key(conf[i])
<1>1. i \in DOMAIN conf /\ IsPathPrefix(UriKey, k)
  BY DEF Matching
<1>2. IsAbsolute(k) /\ IsAbsolute(UriKey)
  BY <1>1, LocationIs, RequestIs
<1>3. k \in Seq(Characters) /\ UriKey \in Seq(Characters) /\ UriKey # <<>>
  BY <1>2 DEF IsAbsolute
<1>4. CASE k = <<"/">>
  <2>1. Len(k) = 1 /\ Len(UriKey) \in Nat \ {0}
    BY <1>3, <1>4
  <2> QED BY <1>1, <2>1
<1>5. CASE IsPrefix(k, UriKey)
  <2> HIDE DEF k
  <2>1. Len(k) \in 0..Len(UriKey)
    BY <1>3, <1>5, CatOfPrefix
  <2> QED BY <1>1, <2>1 DEF k
<1> QED BY <1>1, <1>4, <1>5 DEF IsPathPrefix

\* The remainder begins with "/" and has no characters but those of the path.
LEMMA RemainderIs ==
    ASSUME TypeOK, NEW i \in Matching, NEW W, uri \in Seq(Chars(W))
    PROVE  /\ Remainder(i) \in Seq(Chars(W))
           /\ Remainder(i) # <<>> /\ Remainder(i)[1] = "/" /\ Continues(Remainder(i))
<1> DEFINE n == Len(Key(conf[i]))
           rest == Right(UriKey, n)
           r == Remainder(i)
<1>1. n \in 0..Len(UriKey)
  BY MatchingIs
<1>2. uri # <<>>
  BY RequestIs DEF IsAbsolute
<1>3. UriKey \in Seq(Chars(W))
  BY <1>2, TrimOver DEF UriKey
<1>4. rest \in Seq(Chars(W))
  BY <1>1, <1>3, RightIs
<1>5. r = IF rest = <<>> \/ rest[1] # "/" THEN Slash(rest) ELSE rest
  BY DEF Remainder, RemainderOf, Right, Slash, Cat
<1> HIDE DEF rest, r
<1>6. CASE rest = <<>> \/ rest[1] # "/"
  <2>1. Chars(Chars(W)) = Chars(W)
    BY DEF Chars
  <2>2. Slash(rest) \in Seq(Chars(W)) /\ Slash(rest) # <<>> /\ Slash(rest)[1] = "/"
    BY <1>4, <2>1, SlashIs
  <2> QED BY <1>5, <1>6, <2>2 DEF r, Continues
<1>7. CASE ~ (rest = <<>> \/ rest[1] # "/")
  BY <1>4, <1>5, <1>7 DEF r, Continues
<1> QED BY <1>6, <1>7

(***************************************************************************)
(* Every step keeps the invariant.                                         *)
(***************************************************************************)
LEMMA InitInv == Init => Inv
  BY DEF Init, Inv, TypeOK, Chosen, Resolved, TargetUnderRoot, Points, Operations

LEMMA TargetIs == TargetUnderRoot <=> (op # "none" => IsUnder(target, op, Location.root))
  BY DEF TargetUnderRoot, IsUnder

LEMMA TargetIsNext ==
    TargetUnderRoot' <=> (op' # "none" => IsUnder(target', op', Location'.root))
  BY DEF TargetUnderRoot, IsUnder

\* The choice of a location depends on the request and the server block.
LEMMA SameChoice ==
    ASSUME uri' = uri, conf' = conf
    PROVE  /\ Matching' = Matching
           /\ \A i : FindLocationForUri(i)' <=> FindLocationForUri(i)
           /\ \A i : Remainder(i)' = Remainder(i)
<1>1. UriKey' = UriKey
  BY DEF UriKey
<1>2. Matching' = Matching
  BY <1>1 DEF Matching
<1>3. \A i : FindLocationForUri(i)' <=> FindLocationForUri(i)
  BY <1>2 DEF FindLocationForUri
<1> QED BY <1>1, <1>2, <1>3 DEF Remainder

LEMMA NoLocationKeeps == Inv /\ NoLocation => Inv'
<1> SUFFICES ASSUME Inv, NoLocation PROVE Inv'
  OBVIOUS
<1>1. /\ point = "route" /\ Matching = {} /\ point' = "done" /\ status' = 404
      /\ uri' = uri /\ method' = method /\ conf' = conf /\ op' = op /\ target' = target
      /\ loc' = loc /\ path' = path
  BY DEF NoLocation, Respond
<1>2. loc = 0 /\ op = "none"
  BY <1>1 DEF Inv, Resolved
<1>3. TypeOK'
  BY <1>1 DEF Inv, TypeOK, Points, FileErrors
<1>4. Matching' = {}
  BY <1>1, SameChoice
<1>5. Chosen' /\ Resolved' /\ TargetUnderRoot'
  BY <1>1, <1>2, <1>4 DEF Chosen, Resolved, TargetUnderRoot
<1> QED BY <1>3, <1>5 DEF Inv

LEMMA RedirectKeeps == Inv /\ Redirect => Inv'
<1> SUFFICES ASSUME Inv, Redirect PROVE Inv'
  OBVIOUS
<1>1. /\ point = "route" /\ point' = "done" /\ status' = 302
      /\ uri' = uri /\ method' = method /\ conf' = conf /\ op' = op /\ target' = target
      /\ path' = path
  BY DEF Redirect, Respond
<1>2. PICK i \in Matching : FindLocationForUri(i) /\ loc' = i
  BY DEF Redirect
<1>3. i \in 1..Len(conf) /\ Len(conf) \in Nat /\ i # 0
  BY MatchingIs, LocationIs, RequestIs DEF Inv
<1>4. op = "none"
  BY <1>1 DEF Inv, Resolved
<1>5. TypeOK'
  BY <1>1, <1>2, <1>3 DEF Inv, TypeOK, Points, FileErrors
<1>6. FindLocationForUri(loc)'
  BY <1>1, <1>2, SameChoice
<1>7. Chosen'
  BY <1>2, <1>3, <1>6 DEF Chosen
<1>8. Resolved' /\ TargetUnderRoot'
  BY <1>1, <1>2, <1>3, <1>4 DEF Resolved, TargetUnderRoot
<1> QED BY <1>5, <1>7, <1>8 DEF Inv

LEMMA ResolveKeeps == Inv /\ ResolveFilesystemPath => Inv'
<1> SUFFICES ASSUME Inv, ResolveFilesystemPath PROVE Inv'
  OBVIOUS
<1>1. PICK i \in Matching :
        /\ FindLocationForUri(i) /\ loc' = i
        /\ LET full == conf[i].root \o Remainder(i)
               code == PathStatus(full, conf[i].root)
           IN  \/ code # 0 /\ Respond(code) /\ UNCHANGED path
               \/ /\ code = 0
                  /\ path' = NormalizePathBySegments(full)
                  /\ point' = "handle"
                  /\ UNCHANGED <<uri, method, conf, status, op, target>>
  BY DEF ResolveFilesystemPath
<1> DEFINE root == conf[i].root
           full == root \o Remainder(i)
           code == PathStatus(full, root)
<1>2. point = "route" /\ op = "none" /\ path = <<>>
  BY DEF Inv, Resolved, ResolveFilesystemPath
<1>3. uri' = uri /\ method' = method /\ conf' = conf /\ op' = op /\ target' = target
  BY <1>1 DEF Respond
<1>4. i \in DOMAIN conf /\ i \in 1..Len(conf) /\ Len(conf) \in Nat /\ i # 0 /\ root \in Seq(Characters)
  BY MatchingIs, LocationIs, RequestIs DEF Inv
<1>5. full \in Seq(Characters)
  <2>1. uri \in Seq(Chars(NameChars))
    BY AnyChars, RequestIs DEF Inv, IsAbsolute
  <2>2. Remainder(i) \in Seq(Characters)
    BY <2>1, AnyChars, RemainderIs DEF Inv
  <2>3. Cat(root, Remainder(i)) \in Seq(Characters)
    BY <1>4, <2>2, CatIs
  <2> QED BY <2>3 DEF Cat
<1>6. code \in {0, 400, 404}
  BY PathStatusIs
<1>7. Location'.root = root
  BY <1>1, <1>3 DEF Location
<1>8. FindLocationForUri(loc)' /\ Remainder(loc)' = Remainder(i)
  BY <1>1, <1>3, SameChoice
<1>9. Chosen'
  BY <1>1, <1>4, <1>8 DEF Chosen
<1>10. TargetUnderRoot'
  BY <1>2, <1>3 DEF TargetUnderRoot
<1> HIDE DEF full, code, root
<1>11. CASE code # 0
  <2>1. point' = "done" /\ status' = code /\ path' = path
    BY <1>1, <1>11 DEF Respond, full, code, root
  <2>2. TypeOK'
    BY <1>1, <1>3, <1>4, <1>6, <2>1 DEF Inv, TypeOK, Points, FileErrors
  <2>3. code = PathStatus(Location'.root \o Remainder(loc)', Location'.root)
    BY <1>7, <1>8 DEF code, full
  <2>4. Resolved'
    BY <1>2, <1>3, <2>1, <2>3 DEF Resolved
  <2> QED BY <1>9, <1>10, <2>2, <2>4 DEF Inv
<1>12. CASE code = 0
  <2>1. point' = "handle" /\ status' = status /\ path' = NormalizePathBySegments(full)
    BY <1>1, <1>12 DEF full, code, root
  <2>2. TypeOK'
    BY <1>1, <1>3, <1>4, <2>1 DEF Inv, TypeOK, Points
  <2>3. IsGood(path', root)
    BY <1>5, <1>12, <2>1, GoodIs DEF code
  <2>4. Resolved'
    BY <1>1, <1>2, <1>3, <1>4, <1>7, <2>1, <2>3 DEF Resolved
  <2> QED BY <1>9, <1>10, <2>2, <2>4 DEF Inv
<1> QED BY <1>11, <1>12

Codes == {0, 200, 201, 302, 400, 405, 501} \cup FileErrors

\* A handler answers: it has done nothing to a file, or something to a file under
\* the root.
Answers ==
    /\ point = "handle" /\ point' = "done" /\ status' \in Codes
    /\ UNCHANGED <<uri, method, conf, loc, path>>
    /\ \/ UNCHANGED <<op, target>>
       \/ /\ op' \in Operations \ {"none"} /\ target' # <<>>
          /\ IsUnder(target', op', Location.root)

LEMMA AnswersKeeps == Inv /\ Answers => Inv'
<1> SUFFICES ASSUME Inv, Answers PROVE Inv'
  OBVIOUS
<1>1. /\ point = "handle" /\ point' = "done" /\ status' \in Codes
      /\ uri' = uri /\ method' = method /\ conf' = conf /\ loc' = loc /\ path' = path
  BY DEF Answers
<1>2. loc # 0 /\ op = "none" /\ path # <<>>
  BY <1>1 DEF Inv, Resolved, IsGood
<1>3. \/ op' = op /\ target' = target
      \/ op' \in Operations \ {"none"} /\ target' # <<>> /\ IsUnder(target', op', Location.root)
  BY DEF Answers
<1>4. TypeOK'
  BY <1>1, <1>3 DEF Inv, TypeOK, Points, Codes
<1>5. FindLocationForUri(loc)'
  BY <1>1, <1>2, SameChoice DEF Inv, Chosen
<1>6. Chosen'
  BY <1>1, <1>2, <1>5 DEF Chosen
<1>7. Resolved'
  BY <1>1, <1>2 DEF Resolved
<1>8. TargetUnderRoot'
  <2>1. Location'.root = Location.root
    BY <1>1 DEF Location
  <2> QED BY <1>2, <1>3, <2>1, TargetIsNext
<1> QED BY <1>4, <1>6, <1>7, <1>8 DEF Inv

LEMMA RespondAnswers ==
    ASSUME Handling, NEW code \in Codes, Respond(code)
    PROVE  Answers
  BY DEF Handling, Respond, Answers

LEMMA FinishAnswers ==
    ASSUME Handling, NEW code \in Codes, NEW operation \in Operations \ {"none"}, NEW file,
           Finish(code, operation, file), file # <<>>, IsUnder(file, operation, Location.root)
    PROVE  Answers
  BY DEF Handling, Finish, Answers

LEMMA InLocation ==
    ASSUME Inv, Handling
    PROVE  /\ Location.root \in Seq(Characters) /\ Location.index \in Seq(Characters)
           /\ Location.extensions \in Seq(Seq(Characters) \ {<<>>})
           /\ IsGood(path, Location.root)
<1>1. point = "handle" /\ loc # 0 /\ IsGood(path, Location.root)
  BY DEF Inv, Resolved, Handling
<1>2. loc \in 0..Len(conf) /\ DOMAIN conf = 1..Len(conf) /\ Len(conf) \in Nat
  BY RequestIs DEF Inv, TypeOK
<1>3. loc \in DOMAIN conf
  BY <1>1, <1>2
<1> QED BY <1>1, <1>3, LocationIs DEF Inv, Location

LEMMA RunCgiAnswers ==
    ASSUME Inv, Handling, NEW file, IsGood(file, Location.root), RunCgi(file)
    PROVE  Answers
<1> DEFINE program == ExecutablePath(file, Location.extensions)
<1>0. /\ Location.root \in Seq(Characters)
      /\ Location.extensions \in Seq(Seq(Characters) \ {<<>>})
  BY InLocation
<1>1. Respond(403) \/ Respond(500) \/ Finish(0, "execute", program)
  BY DEF RunCgi
<1>2. program # <<>> /\ IsUnder(program, "execute", Location.root)
  BY <1>0, ExecutedTarget
<1> HIDE DEF program
<1>3. 403 \in Codes /\ 500 \in Codes /\ 0 \in Codes
  BY DEF Codes, FileErrors
<1>4. CASE Respond(403) \/ Respond(500)
  BY <1>3, <1>4, RespondAnswers
<1>5. CASE Finish(0, "execute", program)
  <2>1. "execute" \in Operations \ {"none"}
    BY DEF Operations
  <2> QED BY <1>2, <1>3, <1>5, <2>1, FinishAnswers
<1> QED BY <1>1, <1>4, <1>5

LEMMA GetFileAnswers ==
    ASSUME Inv, Handling, NEW file \in Seq(Characters), GetFile(file)
    PROVE  Answers
<1> DEFINE code == PathStatus(file, Location.root)
           good == NormalizePathBySegments(file)
<1>0. Location.root \in Seq(Characters)
  BY InLocation
<1>1. \/ code # 0 /\ Respond(code)
      \/ code = 0 /\ RunCgi(good)
      \/ \E error \in FileErrors : Respond(error)
      \/ code = 0 /\ Finish(200, "read", good)
  BY DEF GetFile
<1>2. code \in {0, 400, 404}
  BY PathStatusIs
<1>3. code = 0 => IsGood(good, Location.root)
  BY GoodIs
<1>4. code \in Codes /\ 200 \in Codes /\ FileErrors \subseteq Codes
  BY <1>2 DEF Codes, FileErrors
<1> HIDE DEF code, good
<1>5. CASE Respond(code)
  BY <1>4, <1>5, RespondAnswers
<1>6. CASE code = 0 /\ RunCgi(good)
  BY <1>3, <1>6, RunCgiAnswers
<1>7. CASE \E error \in FileErrors : Respond(error)
  BY <1>4, <1>7, RespondAnswers
<1>8. CASE code = 0 /\ Finish(200, "read", good)
  <2>1. good # <<>> /\ IsUnder(good, "read", Location.root)
    BY <1>0, <1>3, <1>8, GoodTarget
  <2>2. "read" \in Operations \ {"none"}
    BY DEF Operations
  <2> QED BY <1>4, <1>8, <2>1, <2>2, FinishAnswers
<1> QED BY <1>1, <1>5, <1>6, <1>7, <1>8

LEMMA WithIndexIs ==
    ASSUME Inv, Handling
    PROVE  path \in Seq(Characters) /\ WithIndex(path, Location.index) \in Seq(Characters)
<1> DEFINE dir == IF Last(path) = "/" THEN path ELSE Put(path, "/")
           index == Location.index
<1>1. path \in Seq(Characters) /\ index \in Seq(Characters) /\ "/" \in Characters
  BY InLocation, PathsAssumption DEF IsGood
<1>2. WithIndex(path, index) = Cat(dir, index)
  BY DEF WithIndex, Put, Cat
<1>3. dir \in Seq(Characters)
  BY <1>1, PutIs
<1> HIDE DEF dir, index
<1>4. Cat(dir, index) \in Seq(Characters)
  BY <1>1, <1>3, CatIs
<1> QED BY <1>1, <1>2, <1>4 DEF index

LEMMA HandleGetAnswers == Inv /\ HandleGet => Answers
<1> SUFFICES ASSUME Inv, HandleGet PROVE Answers
  OBVIOUS
<1>1. Handling
  BY DEF HandleGet
<1>2. Respond(403) \/ GetFile(WithIndex(path, Location.index)) \/ GetFile(path)
  BY DEF HandleGet
<1>3. path \in Seq(Characters) /\ WithIndex(path, Location.index) \in Seq(Characters)
  BY <1>1, WithIndexIs
<1>4. 403 \in Codes
  BY DEF Codes, FileErrors
<1>5. CASE Respond(403)
  BY <1>1, <1>4, <1>5, RespondAnswers
<1>6. CASE GetFile(WithIndex(path, Location.index))
  BY <1>1, <1>3, <1>6, GetFileAnswers
<1>7. CASE GetFile(path)
  BY <1>1, <1>3, <1>7, GetFileAnswers
<1> QED BY <1>2, <1>5, <1>6, <1>7

LEMMA HandlePostAnswers == Inv /\ HandlePost => Answers
<1> SUFFICES ASSUME Inv, HandlePost PROVE Answers
  OBVIOUS
<1>1. Handling
  BY DEF HandlePost
<1>2. Respond(405) \/ RunCgi(path) \/ Respond(403) \/ \E code \in {201, 500} : Finish(code, "write", path)
  BY DEF HandlePost
<1>3. IsGood(path, Location.root) /\ Location.root \in Seq(Characters)
  BY <1>1, InLocation
<1>4. 403 \in Codes /\ 405 \in Codes /\ {201, 500} \subseteq Codes
  BY DEF Codes, FileErrors
<1>5. CASE Respond(405) \/ Respond(403)
  BY <1>1, <1>4, <1>5, RespondAnswers
<1>6. CASE RunCgi(path)
  BY <1>1, <1>3, <1>6, RunCgiAnswers
<1>7. CASE \E code \in {201, 500} : Finish(code, "write", path)
  <2>1. path # <<>> /\ IsUnder(path, "write", Location.root)
    BY <1>3, GoodTarget
  <2>2. "write" \in Operations \ {"none"}
    BY DEF Operations
  <2>3. PICK code \in Codes : Finish(code, "write", path)
    BY <1>4, <1>7
  <2> QED BY <1>1, <2>1, <2>2, <2>3, FinishAnswers
<1> QED BY <1>2, <1>5, <1>6, <1>7

LEMMA HandleDeleteAnswers == Inv /\ HandleDelete => Answers
<1> SUFFICES ASSUME Inv, HandleDelete PROVE Answers
  OBVIOUS
<1>1. Handling
  BY DEF HandleDelete
<1>2. (\E error \in FileErrors : Respond(error)) \/ Finish(200, "remove", path)
  BY DEF HandleDelete
<1>3. IsGood(path, Location.root) /\ Location.root \in Seq(Characters)
  BY <1>1, InLocation
<1>4. 200 \in Codes /\ FileErrors \subseteq Codes
  BY DEF Codes
<1>5. CASE \E error \in FileErrors : Respond(error)
  BY <1>1, <1>4, <1>5, RespondAnswers
<1>6. CASE Finish(200, "remove", path)
  <2>1. path # <<>> /\ IsUnder(path, "remove", Location.root)
    BY <1>3, GoodTarget
  <2>2. "remove" \in Operations \ {"none"}
    BY DEF Operations
  <2> QED BY <1>1, <1>4, <1>6, <2>1, <2>2, FinishAnswers
<1> QED BY <1>2, <1>5, <1>6

LEMMA StepInv == Inv /\ [Next]_vars => Inv'
<1> SUFFICES ASSUME Inv, [Next]_vars PROVE Inv'
  OBVIOUS
<1>1. CASE NoLocation \/ Redirect \/ ResolveFilesystemPath
  BY <1>1, NoLocationKeeps, RedirectKeeps, ResolveKeeps
<1>2. CASE MethodNotAllowed \/ NotImplemented
  <2>1. Handling /\ (Respond(405) \/ Respond(501))
    BY <1>2 DEF MethodNotAllowed, NotImplemented
  <2>2. 405 \in Codes /\ 501 \in Codes
    BY DEF Codes
  <2> QED BY <2>1, <2>2, RespondAnswers, AnswersKeeps
<1>3. CASE HandleGet \/ HandlePost \/ HandleDelete
  BY <1>3, HandleGetAnswers, HandlePostAnswers, HandleDeleteAnswers, AnswersKeeps
<1>4. CASE UNCHANGED vars
  <2>1. /\ uri' = uri /\ method' = method /\ conf' = conf /\ point' = point /\ loc' = loc
        /\ path' = path /\ status' = status /\ op' = op /\ target' = target
    BY <1>4 DEF vars
  <2>2. TypeOK'
    BY <2>1 DEF Inv, TypeOK
  <2>3. Chosen'
    BY <2>1, SameChoice DEF Inv, Chosen
  <2>4. Resolved'
    BY <2>1, SameChoice DEF Inv, Resolved, Location
  <2>5. TargetUnderRoot'
    BY <2>1 DEF Inv, TargetUnderRoot, Location
  <2> QED BY <2>2, <2>3, <2>4, <2>5 DEF Inv
<1> QED BY <1>1, <1>2, <1>3, <1>4 DEF Next

LEMMA InvAlways == Spec => []Inv
  BY InitInv, StepInv, PTL DEF Spec

\* The reference segments are the function that their definition describes.
LEMMA SegmentedIs ==
    ASSUME NEW S, NEW p \in Seq(S)
    PROVE  /\ Segmented(p)[0] = <<>>
           /\ \A n \in 1..Len(p) : Segmented(p)[n] = WithChar(Segmented(p)[n - 1], p[n])
<1> DEFINE First == <<>>
           Step(a, x) == WithChar(a, x)
           Run(f, m) == f = [n \in 0..m |-> IF n = 0 THEN First ELSE Step(f[n - 1], p[n])]
           N == {m \in Nat : \E f : Run(f, m)}
<1>1. Segmented(p) = CHOOSE f : Run(f, Len(p))
  BY DEF Segmented
<1> HIDE DEF First, Step
<1>2. 0 \in N
  <2>1. Run([n \in 0..0 |-> First], 0)
    OBVIOUS
  <2> QED BY <2>1
<1>3. \A m \in Nat : m \in N => m + 1 \in N
  <2> SUFFICES ASSUME NEW m \in Nat, m \in N PROVE \E g : Run(g, m + 1)
    <3> HIDE DEF Run
    <3> QED OBVIOUS
  <2>0. PICK f : Run(f, m)
    <3> HIDE DEF Run
    <3> QED OBVIOUS
  <2> DEFINE g == [n \in 0..(m + 1) |-> IF n = m + 1 THEN Step(f[m], p[m + 1]) ELSE f[n]]
  <2>1. Run(g, m + 1)
    BY <2>0
  <2> QED BY <2>1
<1>4. Len(p) \in Nat
  OBVIOUS
<1>5. \E f : Run(f, Len(p))
  <2> HIDE DEF Run
  <2> QED BY <1>2, <1>3, <1>4, NaturalInduction
<1>6. Run(Segmented(p), Len(p))
  <2> HIDE DEF Run
  <2> QED BY <1>1, <1>5
<1>7. Segmented(p)[0] = First /\ \A n \in 1..Len(p) : Segmented(p)[n] = Step(Segmented(p)[n - 1], p[n])
  BY <1>4, <1>6
<1> QED BY <1>7 DEF First, Step

(***************************************************************************)
(* The location: keys and lists of segments.                               *)
(***************************************************************************)
LEMMA WithCharPut ==
    ASSUME NEW W, NEW s \in Seq(Seq(W)), NEW x \in Seq(W), NEW ch \in Chars(W)
    PROVE  /\ ch = "/" => WithChar(Put(s, x), ch) = Put(Put(s, x), <<>>)
           /\ ch # "/" => WithChar(Put(s, x), ch) = Put(s, Put(x, ch)) /\ Put(x, ch) \in Seq(W)
<1>1. CASE ch = "/"
  BY <1>1 DEF WithChar, Put
<1>2. CASE ch # "/"
  <2>1. Front(Put(s, x)) = s /\ Last(Put(s, x)) = x
    BY FrontPut
  <2> DEFINE y == Put(s, x)
  <2>2. WithChar(y, ch) = Put(Front(y), Put(Last(y), ch))
    BY <1>2 DEF WithChar, Put
  <2>3. Put(x, ch) \in Seq(W)
    BY <1>2, PutIs DEF Chars
  <2> QED BY <1>2, <2>1, <2>2, <2>3
<1> QED BY <1>1, <1>2

LEMMA WithCharIs ==
    ASSUME NEW W, NEW s \in Seq(Seq(W)), s # <<>>, NEW ch \in Chars(W)
    PROVE  /\ WithChar(s, ch) \in Seq(Seq(W)) /\ WithChar(s, ch) # <<>>
           /\ Whole(WithChar(s, ch)) = Put(Whole(s), ch)
<1> DEFINE f == Front(s)
           x == Last(s)
           w == Whole(f)
<1>1. f \in Seq(Seq(W)) /\ x \in Seq(W) /\ s = Put(f, x)
  BY FrontLast
<1>2. w \in Seq(Chars(W)) /\ Slash(x) \in Seq(Chars(W)) /\ Whole(s) \in Seq(Chars(W))
  BY <1>1, WholeType, SlashIs
<1>3. Whole(s) = Cat(w, Slash(x))
  BY <1>1, WholePut
<1> HIDE DEF f, x, w
<1>4. CASE ch = "/"
  <2> DEFINE e == <<>>
  <2>1. e \in Seq(W) /\ e \in Seq(Chars(W))
    OBVIOUS
  <2>2. WithChar(s, ch) = Put(s, e)
    BY <1>4 DEF WithChar, Put
  <2>3. Slash(e) = <<"/">>
    BY DEF Slash, Cat
  <2> HIDE DEF e
  <2>4. Put(s, e) \in Seq(Seq(W)) /\ Put(s, e) # <<>>
    BY <2>1, PutIs
  <2>5. Whole(Put(s, e)) = Cat(Whole(s), Slash(e))
    BY <2>1, WholePut
  <2>6. Put(Whole(s), ch) = Cat(Whole(s), <<ch>>)
    BY <1>2, PutIsCat
  <2> QED BY <1>4, <2>2, <2>3, <2>4, <2>5, <2>6
<1>5. CASE ch # "/"
  <2> DEFINE y == Put(x, ch)
  <2>1. WithChar(s, ch) = Put(f, y) /\ y \in Seq(W)
    BY <1>1, <1>5, WithCharPut
  <2>2. Slash(y) = Put(Slash(x), ch)
    <3> DEFINE one == <<"/">>
    <3>1. one \in Seq(Chars(W)) /\ x \in Seq(Chars(W))
      BY <1>1 DEF Chars
    <3> HIDE DEF one
    <3>2. Put(Cat(one, x), ch) = Cat(one, Put(x, ch))
      BY <3>1, CatPut
    <3> QED BY <3>2 DEF Slash, one
  <2> HIDE DEF y
  <2>3. Put(f, y) \in Seq(Seq(W)) /\ Put(f, y) # <<>>
    BY <1>1, <2>1, PutIs
  <2>4. Whole(Put(f, y)) = Cat(w, Slash(y))
    BY <1>1, <2>1, WholePut DEF w
  <2>5. Put(Cat(w, Slash(x)), ch) = Cat(w, Put(Slash(x), ch))
    BY <1>2, CatPut
  <2> QED BY <1>3, <2>1, <2>2, <2>3, <2>4, <2>5
<1> QED BY <1>4, <1>5

LEMMA WithCharCat ==
    ASSUME NEW W, NEW a \in Seq(Seq(W)), NEW s \in Seq(Seq(W)), s # <<>>, NEW ch \in Chars(W)
    PROVE  WithChar(Cat(a, s), ch) = Cat(a, WithChar(s, ch))
<1> DEFINE f == Front(s)
           x == Last(s)
           b == Cat(a, f)
<1>1. f \in Seq(Seq(W)) /\ x \in Seq(W) /\ s = Put(f, x)
  BY FrontLast
<1>2. Cat(a, s) = Put(b, x) /\ b \in Seq(Seq(W))
  BY <1>1, CatPut, CatIs
<1> HIDE DEF f, x
<1>3. CASE ch = "/"
  <2> DEFINE e == <<>>
  <2>1. e \in Seq(W) /\ WithChar(Cat(a, s), ch) = Put(Cat(a, s), e) /\ WithChar(s, ch) = Put(s, e)
    BY <1>3 DEF WithChar, Put
  <2> HIDE DEF e
  <2>2. Put(Cat(a, s), e) = Cat(a, Put(s, e))
    BY <2>1, CatPut
  <2> QED BY <2>1, <2>2
<1>4. CASE ch # "/"
  <2> HIDE DEF b
  <2>1. WithChar(Put(b, x), ch) = Put(b, Put(x, ch)) /\ Put(x, ch) \in Seq(W)
    BY <1>1, <1>2, <1>4, WithCharPut
  <2>2. WithChar(Put(f, x), ch) = Put(f, Put(x, ch))
    BY <1>1, <1>4, WithCharPut
  <2>3. Put(b, Put(x, ch)) = Cat(a, Put(f, Put(x, ch)))
    BY <1>1, <2>1, CatPut DEF b
  <2> QED BY <1>1, <1>2, <2>1, <2>2, <2>3
<1> QED BY <1>3, <1>4

LEMMA SegmentedStep ==
    ASSUME NEW W, NEW p \in Seq(Chars(W)), NEW n \in 0..(Len(p) - 1)
    PROVE  Segmented(p)[n + 1] = WithChar(Segmented(p)[n], p[n + 1]) /\ p[n + 1] \in Chars(W)
<1>1. n + 1 \in 1..Len(p) /\ (n + 1) - 1 = n /\ p[n + 1] \in Chars(W)
  OBVIOUS
<1>2. Segmented(p)[n + 1] = WithChar(Segmented(p)[(n + 1) - 1], p[n + 1])
  BY <1>1, SegmentedIs
<1> QED BY <1>1, <1>2

LEMMA SegmentedFirst ==
    ASSUME NEW W, NEW p \in Seq(Chars(W)), p # <<>>, p[1] = "/"
    PROVE  Segmented(p)[1] = Put(<<>>, <<>>)
<1>1. 0 \in 0..(Len(p) - 1)
  OBVIOUS
<1>2. Segmented(p)[0 + 1] = WithChar(Segmented(p)[0], p[0 + 1])
  BY <1>1, SegmentedStep
<1>3. Segmented(p)[0] = <<>>
  BY SegmentedIs
<1> QED BY <1>2, <1>3 DEF WithChar, Put

\* Joining the reference segments of an absolute path gives the path.
Rejoins(p, W, n) ==
    /\ Segmented(p)[n] \in Seq(Seq(W)) /\ Segmented(p)[n] # <<>>
    /\ Whole(Segmented(p)[n]) = Left(p, n)

LEMMA SegmentedRejoins ==
    ASSUME NEW W, NEW p \in Seq(Chars(W)), p # <<>>, p[1] = "/"
    PROVE  1..Len(p) \subseteq {n \in Nat : Rejoins(p, W, n)}
<1> DEFINE N == {n \in Nat : Rejoins(p, W, n)}
<1>0. Len(p) \in Nat /\ Len(p) >= 1 /\ 0 \in 0..(Len(p) - 1)
  OBVIOUS
<1>1. 1 \in N
  <2> DEFINE e == <<>>
  <2>1. Segmented(p)[1] = Put(e, e)
    BY SegmentedFirst
  <2>2. e \in Seq(Seq(W)) /\ e \in Seq(W) /\ e \in Seq(Chars(W))
    OBVIOUS
  <2>3. Slash(e) = <<"/">> /\ Whole(e) = e
    <3>1. Join(e)[0] = <<>>
      BY <2>2, JoinStart
    <3> QED BY <3>1 DEF Slash, Cat, Whole
  <2>4. Left(p, 0) = e
    BY LeftEnds
  <2>5. Left(p, 0 + 1) = Put(Left(p, 0), p[0 + 1])
    BY <1>0, LeftNext
  <2>6. Put(e, "/") = <<"/">>
    BY DEF Put
  <2> HIDE DEF e
  <2>7. Put(e, e) \in Seq(Seq(W)) /\ Put(e, e) # <<>>
    BY <2>2, PutIs
  <2>8. Whole(Put(e, e)) = Cat(Whole(e), Slash(e))
    BY <2>2, WholePut
  <2>9. Cat(e, Slash(e)) = Slash(e)
    <3>1. Slash(e) \in Seq(Chars(W))
      BY <2>2, SlashIs
    <3> QED BY <3>1, CatEmpty DEF e
  <2>10. Left(p, 1) = Slash(e)
    BY <2>3, <2>4, <2>5, <2>6
  <2>11. Rejoins(p, W, 1)
    BY <2>1, <2>3, <2>7, <2>8, <2>9, <2>10 DEF Rejoins
  <2> QED BY <2>11
<1>2. ASSUME NEW n \in 1..(Len(p) - 1), n \in N PROVE n + 1 \in N
  <2>1. n \in 0..(Len(p) - 1) /\ n + 1 \in Nat
    BY <1>0
  <2> DEFINE s == Segmented(p)[n]
  <2>2. s \in Seq(Seq(W)) /\ s # <<>> /\ Whole(s) = Left(p, n)
    BY <1>2 DEF Rejoins
  <2>3. Segmented(p)[n + 1] = WithChar(s, p[n + 1]) /\ p[n + 1] \in Chars(W)
    BY <2>1, SegmentedStep
  <2> HIDE DEF s
  <2>4. /\ WithChar(s, p[n + 1]) \in Seq(Seq(W)) /\ WithChar(s, p[n + 1]) # <<>>
        /\ Whole(WithChar(s, p[n + 1])) = Put(Whole(s), p[n + 1])
    BY <2>2, <2>3, WithCharIs
  <2>5. Left(p, n + 1) = Put(Left(p, n), p[n + 1])
    BY <2>1, LeftNext
  <2>6. Rejoins(p, W, n + 1)
    BY <2>2, <2>3, <2>4, <2>5 DEF Rejoins
  <2> QED BY <2>1, <2>6
<1> HIDE DEF N
<1>3. 1..Len(p) \subseteq N
  BY <1>0, <1>1, <1>2, IntervalInduction
<1> QED BY <1>3 DEF N

LEMMA AllSegmentsIs ==
    ASSUME NEW W, NEW p \in Seq(Chars(W)), p # <<>>, p[1] = "/"
    PROVE  /\ AllSegments(p) \in Seq(Seq(W)) /\ AllSegments(p) # <<>>
           /\ Whole(AllSegments(p)) = p
<1>1. Len(p) \in 1..Len(p)
  OBVIOUS
<1>2. Rejoins(p, W, Len(p))
  BY <1>1, SegmentedRejoins
<1>3. Left(p, Len(p)) = p
  BY LeftEnds
<1> QED BY <1>2, <1>3 DEF Rejoins, AllSegments

LEMMA SegmentedGrows ==
    ASSUME NEW W, NEW a \in Seq(Chars(W)), NEW r \in Seq(Chars(W))
    PROVE  0..Len(a) \subseteq {n \in Nat : Segmented(Cat(a, r))[n] = Segmented(a)[n]}
<1> DEFINE p == Cat(a, r)
           N == {n \in Nat : Segmented(p)[n] = Segmented(a)[n]}
<1>0. p \in Seq(Chars(W)) /\ Len(p) = Len(a) + Len(r) /\ Len(a) \in Nat /\ Len(r) \in Nat
  BY CatIs, LenIs
<1>a. ASSUME NEW n \in 1..Len(a) PROVE p[n] = a[n]
  BY CatLeft
<1> HIDE DEF p
<1>1. 0 \in N
  BY <1>0, SegmentedIs
<1>2. ASSUME NEW n \in 0..(Len(a) - 1), n \in N PROVE n + 1 \in N
  <2>1. n + 1 \in 1..Len(a) /\ n \in 0..(Len(p) - 1) /\ n + 1 \in Nat
    BY <1>0
  <2>2. Segmented(p)[n + 1] = WithChar(Segmented(p)[n], p[n + 1])
    BY <1>0, <2>1, SegmentedStep
  <2>3. Segmented(a)[n + 1] = WithChar(Segmented(a)[n], a[n + 1])
    BY <2>1, SegmentedStep
  <2> QED BY <1>2, <1>a, <2>1, <2>2, <2>3
<1> HIDE DEF N
<1>4. 0..Len(a) \subseteq N
  BY <1>0, <1>1, <1>2, IntervalInduction
<1> QED BY <1>4 DEF N, p

\* The reference segments of a path that an absolute one continues.
LEMMA AllSegmentsCat ==
    ASSUME NEW W, NEW a \in Seq(Chars(W)), a # <<>>, a[1] = "/",
           NEW r \in Seq(Chars(W)), r # <<>>, r[1] = "/"
    PROVE  AllSegments(Cat(a, r)) = Cat(AllSegments(a), AllSegments(r))
<1> DEFINE p == Cat(a, r)
           b == AllSegments(a)
           N == {n \in Nat : Segmented(p)[Len(a) + n] = Cat(b, Segmented(r)[n])}
<1>0. /\ p \in Seq(Chars(W)) /\ Len(p) = Len(a) + Len(r) /\ Len(a) \in Nat /\ Len(r) \in Nat
      /\ Len(r) >= 1 /\ b \in Seq(Seq(W))
  <2>1. p \in Seq(Chars(W)) /\ Len(p) = Len(a) + Len(r)
    BY CatIs
  <2>2. Len(a) \in Nat /\ Len(r) \in Nat /\ Len(r) >= 1
    OBVIOUS
  <2>3. b \in Seq(Seq(W))
    BY AllSegmentsIs
  <2> QED BY <2>1, <2>2, <2>3
<1>a. ASSUME NEW n \in 1..Len(r) PROVE p[Len(a) + n] = r[n]
  BY CatRight
<1>b. Segmented(p)[Len(a)] = Segmented(a)[Len(a)]
  <2>1. Len(a) \in 0..Len(a)
    BY <1>0
  <2>2. Len(a) \in {n \in Nat : Segmented(p)[n] = Segmented(a)[n]}
    BY <2>1, SegmentedGrows
  <2> QED BY <2>2
<1> HIDE DEF p
<1>1. 1 \in N
  <2> DEFINE e == <<>>
  <2>1. Len(a) \in 0..(Len(p) - 1) /\ 1 \in 1..Len(r)
    BY <1>0
  <2>2. Segmented(p)[Len(a) + 1] = WithChar(Segmented(p)[Len(a)], p[Len(a) + 1])
    BY <1>0, <2>1, SegmentedStep
  <2>3. p[Len(a) + 1] = "/"
    BY <1>a, <2>1
  <2>4. Segmented(p)[Len(a) + 1] = Put(b, e)
    BY <1>b, <2>2, <2>3 DEF WithChar, Put, AllSegments
  <2>5. Segmented(r)[1] = Put(e, e) /\ Put(e, e) = <<e>>
    BY SegmentedFirst DEF Put
  <2>6. e \in Seq(W)
    OBVIOUS
  <2> HIDE DEF e, b
  <2>7. Put(b, e) = Cat(b, <<e>>)
    BY <1>0, <2>6, PutIsCat
  <2>8. Segmented(p)[Len(a) + 1] = Cat(b, Segmented(r)[1])
    BY <2>4, <2>5, <2>7
  <2> QED BY <2>8
<1>2. ASSUME NEW n \in 1..(Len(r) - 1), n \in N PROVE n + 1 \in N
  <2>1. /\ n + 1 \in 1..Len(r) /\ Len(a) + n \in 0..(Len(p) - 1) /\ n + 1 \in Nat
        /\ n \in 0..(Len(r) - 1) /\ n \in 1..Len(r) /\ (Len(a) + n) + 1 = Len(a) + (n + 1)
    BY <1>0
  <2> DEFINE s == Segmented(r)[n]
  <2>2. Segmented(p)[(Len(a) + n) + 1] = WithChar(Segmented(p)[Len(a) + n], p[(Len(a) + n) + 1])
    BY <1>0, <2>1, SegmentedStep
  <2>3. Segmented(r)[n + 1] = WithChar(s, r[n + 1]) /\ r[n + 1] \in Chars(W)
    BY <2>1, SegmentedStep
  <2>4. s \in Seq(Seq(W)) /\ s # <<>>
    BY <2>1, SegmentedRejoins DEF Rejoins
  <2>5. p[(Len(a) + n) + 1] = r[n + 1]
    BY <1>a, <2>1
  <2>6. Segmented(p)[Len(a) + n] = Cat(b, s)
    BY <1>2
  <2> HIDE DEF s, b
  <2>7. WithChar(Cat(b, s), r[n + 1]) = Cat(b, WithChar(s, r[n + 1]))
    BY <1>0, <2>3, <2>4, WithCharCat
  <2>8. Segmented(p)[Len(a) + (n + 1)] = Cat(b, Segmented(r)[n + 1])
    BY <2>1, <2>2, <2>3, <2>5, <2>6, <2>7
  <2> QED BY <2>1, <2>8 DEF b
<1> HIDE DEF N
<1>3. 1..Len(r) \subseteq N
  BY <1>0, <1>1, <1>2, IntervalInduction
<1>4. Len(r) \in N
  <2>1. Len(r) \in 1..Len(r)
    BY <1>0
  <2> QED BY <1>3, <2>1
<1>5. Segmented(p)[Len(a) + Len(r)] = Cat(b, Segmented(r)[Len(r)])
  BY <1>4 DEF N
<1> QED BY <1>0, <1>5 DEF AllSegments, p


-----------------------------------------------------------------------------
(***************************************************************************)
(* The location, segment by segment.                                       *)
(***************************************************************************)
LEMMA AbsoluteIs ==
    ASSUME NEW p, IsAbsolute(p)
    PROVE  /\ p \in Seq(Chars(NameChars)) /\ p # <<>> /\ p[1] = "/" /\ Len(p) \in Nat /\ Len(p) >= 1
           /\ AllSegments(p) \in Seq(Seq(NameChars)) /\ AllSegments(p) # <<>>
           /\ Whole(AllSegments(p)) = p
<1>1. p \in Seq(Chars(NameChars)) /\ p # <<>> /\ p[1] = "/"
  BY AnyChars DEF IsAbsolute
<1>2. Len(p) \in Nat /\ Len(p) >= 1
  BY <1>1
<1> QED BY <1>1, <1>2, AllSegmentsIs

LEMMA SegmentsBelow ==
    ASSUME NEW k, IsAbsolute(k), NEW u, IsAbsolute(u), Below(k, u)
    PROVE  /\ IsPrefix(AllSegments(k), AllSegments(u))
           /\ k = u \/ Len(AllSegments(k)) < Len(AllSegments(u))
<1> DEFINE r == Right(u, Len(k))
           a == AllSegments(k)
           b == AllSegments(u)
           c == AllSegments(r)
           none == <<>>
<1>1. /\ k \in Seq(Chars(NameChars)) /\ k # none /\ k[1] = "/"
      /\ u \in Seq(Chars(NameChars)) /\ a \in Seq(Seq(NameChars)) /\ b \in Seq(Seq(NameChars))
  BY AbsoluteIs
<1>2. u = Cat(k, r) /\ r \in Seq(Chars(NameChars)) /\ Continues(r)
  BY <1>1, BelowIs
<1>3. CASE r = none
  <2>1. Cat(k, none) = k
    BY <1>1, CatEmpty
  <2>2. k = u
    BY <1>2, <1>3, <2>1
  <2>3. Len(a) <= Len(b) /\ \A i \in 1..Len(a) : b[i] = a[i]
    BY <1>1, <2>2, LenIs
  <2>4. IsPrefix(a, b)
    BY <1>1, <2>3, PrefixIf
  <2> QED BY <2>2, <2>4
<1>4. CASE r # none
  <2>1. r[1] = "/"
    BY <1>2, <1>4 DEF Continues
  <2>2. AllSegments(Cat(k, r)) = Cat(a, c)
    BY <1>1, <1>2, <1>4, <2>1, AllSegmentsCat
  <2>3. c \in Seq(Seq(NameChars)) /\ c # none
    BY <1>2, <1>4, <2>1, AllSegmentsIs
  <2>4. b = Cat(a, c)
    BY <1>2, <2>2
  <2>5. Len(c) >= 1 /\ Len(c) \in Nat /\ Len(a) \in Nat
    BY <1>1, <2>3
  <2> HIDE DEF a, b, c
  <2>6. IsPrefix(a, b) /\ Len(b) = Len(a) + Len(c)
    BY <1>1, <2>3, <2>4, PrefixOfCat, CatIs
  <2>7. Len(a) < Len(b)
    BY <2>5, <2>6
  <2> QED BY <2>6, <2>7 DEF a, b
<1> QED BY <1>3, <1>4

LEMMA BelowSegments ==
    ASSUME NEW k, IsAbsolute(k), NEW u, IsAbsolute(u),
           IsPrefix(AllSegments(k), AllSegments(u))
    PROVE  Below(k, u)
<1> DEFINE a == AllSegments(k)
           b == AllSegments(u)
           c == Right(b, Len(a))
<1>1. /\ k \in Seq(Chars(NameChars)) /\ u \in Seq(Chars(NameChars))
      /\ a \in Seq(Seq(NameChars)) /\ b \in Seq(Seq(NameChars))
      /\ Whole(a) = k /\ Whole(b) = u /\ IsPrefix(a, b)
  BY AbsoluteIs
<1> HIDE DEF a, b
<1>2. b = Cat(a, c) /\ Len(a) \in 0..Len(b)
  BY <1>1, CatOfPrefix
<1>3. c \in Seq(Seq(NameChars))
  BY <1>1, <1>2, RightIs
<1> HIDE DEF c
<1>4. Whole(Cat(a, c)) = Cat(k, Whole(c))
  BY <1>1, <1>3, WholeCat
<1>5. Whole(c) \in Seq(Chars(NameChars)) /\ Continues(Whole(c))
  BY <1>3, WholeType, WholeStarts
<1>6. Below(k, Cat(k, Whole(c)))
  BY <1>1, <1>5, BelowCat
<1> QED BY <1>1, <1>2, <1>4, <1>6

\* The test on characters is the one on segments.
LEMMA FitsIs ==
    ASSUME TypeOK, NEW i \in DOMAIN conf
    PROVE  i \in Matching <=> IsPrefix(NameSegments(conf[i]), AllSegments(UriKey))
<1> DEFINE k == Key(conf[i])
           u == UriKey
           none == <<>>
<1>1. IsAbsolute(k) /\ IsAbsolute(u)
  BY LocationIs, RequestIs
<1>2. i \in Matching <=> IsPathPrefix(u, k)
  BY DEF Matching
<1>3. CASE k = <<"/">>
  <2>1. IsPathPrefix(u, k)
    BY <1>3 DEF IsPathPrefix
  <2>2. NameSegments(conf[i]) = none
    BY <1>3 DEF NameSegments
  <2> DEFINE b == AllSegments(u)
  <2>3. b \in Seq(Seq(NameChars)) /\ none \in Seq(Seq(NameChars)) /\ Len(none) = 0
    BY <1>1, AbsoluteIs
  <2> HIDE DEF b, none
  <2>4. Len(none) <= Len(b) /\ \A j \in 1..Len(none) : b[j] = none[j]
    BY <2>3, LenIs
  <2>5. IsPrefix(none, b)
    BY <2>3, <2>4, PrefixIf
  <2> QED BY <1>2, <2>1, <2>2, <2>5 DEF b
<1>4. CASE k # <<"/">>
  <2>1. IsPathPrefix(u, k) <=> Below(k, u)
    BY <1>4 DEF IsPathPrefix, Below
  <2>2. NameSegments(conf[i]) = AllSegments(k)
    BY <1>4 DEF NameSegments
  <2>3. Below(k, u) <=> IsPrefix(AllSegments(k), AllSegments(u))
    BY <1>1, SegmentsBelow, BelowSegments
  <2> QED BY <1>2, <2>1, <2>2, <2>3
<1> QED BY <1>3, <1>4

LEMMA LongerMatch ==
    ASSUME TypeOK, NEW i \in Matching, NEW j \in Matching, i # j, FindLocationForUri(i)
    PROVE  Len(NameSegments(conf[j])) < Len(NameSegments(conf[i]))
<1> DEFINE k == Key(conf[i])
           m == Key(conf[j])
           u == UriKey
           none == <<>>
<1>1. /\ i \in DOMAIN conf /\ j \in DOMAIN conf /\ conf \in Confs
      /\ IsPathPrefix(u, k) /\ IsPathPrefix(u, m)
  BY DEF Matching, TypeOK
<1>2. IsAbsolute(k) /\ IsAbsolute(m) /\ IsAbsolute(u)
  BY <1>1, LocationIs, RequestIs
<1>3. k # m
  BY <1>1, ConfsAssumption
<1>4. Len(m) < Len(k) \/ Len(m) = Len(k)
  BY DEF FindLocationForUri
<1>5. /\ k \in Seq(Chars(NameChars)) /\ m \in Seq(Chars(NameChars)) /\ u \in Seq(Chars(NameChars))
      /\ Len(k) \in Nat /\ Len(m) \in Nat /\ Len(m) >= 1 /\ m[1] = "/"
      /\ AllSegments(k) \in Seq(Seq(NameChars)) /\ AllSegments(k) # none
  BY <1>2, AbsoluteIs
<1>6. NameSegments(conf[i]) = (IF k = <<"/">> THEN none ELSE AllSegments(k))
  BY DEF NameSegments
<1>7. NameSegments(conf[j]) = (IF m = <<"/">> THEN none ELSE AllSegments(m))
  BY DEF NameSegments
<1>8. k # <<"/">>
  <2> SUFFICES ASSUME k = <<"/">> PROVE FALSE
    OBVIOUS
  <2>1. Len(m) = 1
    BY <1>4, <1>5
  <2> HIDE DEF m, k
  <2>2. m = <<"/">>
    BY <1>5, <2>1
  <2> QED BY <1>3, <2>2
<1>9. CASE m = <<"/">>
  <2> DEFINE a == AllSegments(k)
  <2>1. Len(none) = 0
    OBVIOUS
  <2> HIDE DEF a, k
  <2>2. Len(a) > 0
    BY <1>5 DEF a
  <2> HIDE DEF none, m
  <2> QED BY <1>6, <1>7, <1>8, <1>9, <2>1, <2>2 DEF a
<1>10. CASE m # <<"/">>
  <2>1. Below(k, u) /\ Below(m, u)
    BY <1>1, <1>8, <1>10 DEF IsPathPrefix, Below
  <2>2. Len(m) <= Len(k)
    BY <1>4, <1>5
  <2>3. Below(m, k)
    BY <1>5, <2>1, <2>2, BelowBoth
  <2>4. Len(AllSegments(m)) < Len(AllSegments(k))
    BY <1>2, <1>3, <2>3, SegmentsBelow
  <2> QED BY <1>6, <1>7, <1>8, <1>10, <2>4
<1> QED BY <1>9, <1>10

LEMMA LongestIs == TypeOK /\ Chosen => LongestMatch
<1> SUFFICES ASSUME TypeOK, Chosen, point # "route" PROVE
      LET fits == {i \in DOMAIN conf : IsPrefix(NameSegments(conf[i]), AllSegments(UriKey))}
      IN  /\ loc = 0 <=> fits = {}
          /\ loc # 0 => /\ loc \in fits
                        /\ \A i \in fits \ {loc} : Len(NameSegments(conf[i]))
                                                   < Len(NameSegments(conf[loc]))
  BY DEF LongestMatch
<1> DEFINE fits == {i \in DOMAIN conf : IsPrefix(NameSegments(conf[i]), AllSegments(UriKey))}
<1>1. fits = Matching
  <2>1. Matching \subseteq DOMAIN conf
    BY DEF Matching
  <2> QED BY <2>1, FitsIs
<1> HIDE DEF fits
<1>2. loc = 0 => Matching = {}
  BY DEF Chosen
<1>3. ASSUME loc # 0 PROVE FindLocationForUri(loc) /\ loc \in Matching
  BY <1>3 DEF Chosen, FindLocationForUri
<1>4. ASSUME loc # 0, NEW i \in Matching, i # loc
      PROVE  Len(NameSegments(conf[i])) < Len(NameSegments(conf[loc]))
  BY <1>3, <1>4, LongerMatch
<1>5. /\ loc = 0 <=> fits = {}
      /\ loc # 0 => /\ loc \in fits
                    /\ \A i \in fits \ {loc} : Len(NameSegments(conf[i]))
                                               < Len(NameSegments(conf[loc]))
  BY <1>1, <1>2, <1>3, <1>4
<1> QED BY <1>5 DEF fits

-----------------------------------------------------------------------------
(***************************************************************************)
(* Paths without dots.                                                     *)
(***************************************************************************)
PlainChars == NameChars \ {"."}

LEMMA PlainNames ==
    ASSUME NEW s \in Names(PlainChars)
    PROVE  s \in Names(NameChars) \ Dots
<1>1. s \in Seq(PlainChars) /\ s # <<>>
  BY DEF Names
<1>2. s[1] \in PlainChars
  BY <1>1
<1>3. s[1] # "."
  BY <1>2 DEF PlainChars
<1>4. s # Dot /\ s # DotDot
  BY <1>3 DEF Dot, DotDot
<1>5. PlainChars \subseteq NameChars
  BY DEF PlainChars
<1>6. s \in Seq(NameChars)
  BY <1>1, <1>5
<1> QED BY <1>1, <1>4, <1>6 DEF Names, Dots

LEMMA PlainSegments ==
    ASSUME NEW r \in Seq(Chars(PlainChars))
    PROVE  /\ r \in Seq(Chars(NameChars))
           /\ SplitPathSegments(r) \in Seq(Names(NameChars) \ Dots)
<1> DEFINE b == SplitPathSegments(r)
<1>1. Chars(PlainChars) \subseteq Chars(NameChars)
  BY DEF Chars, PlainChars
<1>2. r \in Seq(Chars(NameChars))
  BY <1>1
<1>3. b \in Seq(Names(PlainChars))
  BY SplitType
<1>4. Names(PlainChars) \subseteq Names(NameChars) \ Dots
  BY PlainNames
<1> HIDE DEF b
<1>5. b \in Seq(Names(NameChars) \ Dots)
  BY <1>3, <1>4
<1> QED BY <1>2, <1>5 DEF b

\* A normal root is the path that its segments spell.
LEMMA NormalRootIs ==
    ASSUME NEW root \in Seq(Chars(NameChars)), NormalRoot(root)
    PROVE  /\ SplitPathSegments(root) \in Seq(Names(NameChars) \ Dots)
           /\ root # <<>> /\ root[1] = "/"
           /\ root = <<"/">> \/ root = Whole(SplitPathSegments(root))
           /\ root = <<"/">> \/ SplitPathSegments(root) # <<>>
<1> DEFINE a == SegmentStack(root).stack
<1>0. "/" \notin NameChars
  BY AnyChars
<1>1. /\ root[1] = "/" /\ root = NormalizePathBySegments(root)
      /\ root = <<"/">> \/ Last(root) # "/"
  BY DEF NormalRoot
<1>2. /\ a \in Seq(Names(NameChars) \ Dots) /\ root # <<>> /\ SplitPathSegments(root) = a
  BY <1>0, <1>1, NormalizeType
<1>3. CASE root # <<"/">>
  <2>1. Last(root) # "/"
    BY <1>1, <1>3
  <2>2. NormalizePathBySegments(root) =
          IF Last(root) = "/" /\ Last(Rebuilt(a)) # "/" THEN Put(Rebuilt(a), "/") ELSE Rebuilt(a)
    BY NormalizeIs
  <2>3. root = Rebuilt(a)
    BY <1>1, <2>1, <2>2
  <2>4. a # <<>> /\ root = Whole(a)
    BY <1>3, <2>3 DEF Rebuilt
  <2> QED BY <1>1, <1>2, <2>4
<1> QED BY <1>1, <1>2, <1>3

LEMMA PutContinues ==
    ASSUME NEW r \in Seq(Chars(NameChars)), Continues(r)
    PROVE  Put(r, "/") \in Seq(Chars(NameChars)) /\ Continues(Put(r, "/"))
<1>0. "/" \in Chars(NameChars)
  BY DEF Chars
<1>1. Put(r, "/") \in Seq(Chars(NameChars)) /\ Put(r, "/")[Len(r) + 1] = "/"
  BY <1>0, PutIs
<1>2. CASE r = <<>>
  <2>1. Len(r) + 1 = 1
    BY <1>2
  <2> QED BY <1>1, <2>1 DEF Continues
<1>3. CASE r # <<>>
  <2>1. 1 \in 1..Len(r) /\ r[1] = "/"
    BY <1>3 DEF Continues
  <2>2. Put(r, "/")[1] = r[1]
    BY <1>0, <2>1, PutAt
  <2> QED BY <1>1, <2>1, <2>2 DEF Continues
<1> QED BY <1>2, <1>3

\* What follows a normal root without dots is never refused.
LEMMA PlainStatus ==
    ASSUME NEW root \in Seq(Chars(NameChars)), NormalRoot(root),
           NEW r \in Seq(Chars(PlainChars)), r # <<>>, Continues(r)
    PROVE  PathStatus(Cat(root, r), root) = 0
<1> DEFINE full == Cat(root, r)
           a == SplitPathSegments(root)
           b == SplitPathSegments(r)
           segs == Cat(a, b)
           T == Names(NameChars)
           q == NormalizePathBySegments(full)
           none == <<>>
<1>0. "/" \notin NameChars
  BY AnyChars
<1>1. r \in Seq(Chars(NameChars)) /\ b \in Seq(T \ Dots)
  BY PlainSegments
<1>2. /\ a \in Seq(T \ Dots) /\ root # none /\ root[1] = "/"
      /\ root = <<"/">> \/ root = Whole(a)
      /\ root = <<"/">> \/ a # none
  BY NormalRootIs
<1>3. SplitPathSegments(full) = segs
  BY <1>1, SplitCat
<1>4. segs \in Seq(T \ Dots)
  <2> HIDE DEF a, b, T
  <2> QED BY <1>1, <1>2, CatIs
<1>5. Stacked(segs)[Len(segs)] = [ok |-> TRUE, stack |-> segs]
  <2> HIDE DEF segs, T
  <2> QED BY <1>4, StackPlain
<1>6. SegmentStack(full) = [ok |-> TRUE, stack |-> segs]
  BY <1>3, <1>5 DEF SegmentStack
<1>7. full[1] = "/"
  <2>1. 1 \in 1..Len(root)
    BY <1>2
  <2> QED BY <1>1, <1>2, <2>1, CatLeft
<1>8. IsPathUnderDocumentRoot(q, root)
  <2>1. CASE root = <<"/">>
    BY <2>1 DEF IsPathUnderDocumentRoot
  <2>2. CASE root # <<"/">>
    <3> DEFINE w == Whole(b)
    <3>1. /\ a \in Seq(Seq(NameChars)) /\ b \in Seq(Seq(NameChars)) /\ a # none /\ root = Whole(a)
      <4>1. T \ Dots \subseteq Seq(NameChars)
        BY DEF Names
      <4> HIDE DEF a, b, T
      <4> QED BY <1>1, <1>2, <2>2, <4>1
    <3>2. Whole(segs) = Cat(root, w)
      BY <3>1, WholeCat
    <3>3. w \in Seq(Chars(NameChars)) /\ Continues(w)
      BY <3>1, WholeType, WholeStarts
    <3>4. segs # none
      <4>1. Len(segs) = Len(a) + Len(b) /\ Len(a) \in Nat /\ Len(b) \in Nat
        BY <3>1, CatIs, LenIs
      <4>2. Len(a) >= 1
        <5> HIDE DEF a
        <5> QED BY <3>1
      <4>3. Len(segs) >= 1
        BY <4>1, <4>2
      <4> HIDE DEF segs
      <4> QED BY <4>3
    <3>5. Rebuilt(segs) = Cat(root, w)
      BY <3>2, <3>4 DEF Rebuilt
    <3>6. SegmentStack(full).stack = segs
      BY <1>6
    <3>7. q \in {Rebuilt(segs), Put(Rebuilt(segs), "/")}
      <4>1. q = IF Last(full) = "/" /\ Last(Rebuilt(SegmentStack(full).stack)) # "/"
                THEN Put(Rebuilt(SegmentStack(full).stack), "/") ELSE Rebuilt(SegmentStack(full).stack)
        BY NormalizeIs
      <4> QED BY <3>6, <4>1
    <3>8. "/" \in Chars(NameChars)
      BY DEF Chars
    <3>9. Put(Cat(root, w), "/") = Cat(root, Put(w, "/"))
      BY <3>3, <3>8, CatPut
    <3>10. Put(w, "/") \in Seq(Chars(NameChars)) /\ Continues(Put(w, "/"))
      BY <3>3, PutContinues
    <3>11. Below(root, Cat(root, w)) /\ Below(root, Cat(root, Put(w, "/")))
      BY <3>3, <3>10, BelowCat
    <3>12. Below(root, q)
      BY <3>5, <3>7, <3>9, <3>11
    <3> HIDE DEF q
    <3> QED BY <1>2, <3>12 DEF Below, IsPathUnderDocumentRoot
  <2> QED BY <2>1, <2>2
<1>9. SegmentStack(full).ok
  BY <1>6
<1> QED BY <1>7, <1>8, <1>9 DEF PathStatus

LEMMA PlainUri ==
    ASSUME TypeOK, ~ \E i \in DOMAIN uri : uri[i] = "."
    PROVE  uri \in Seq(Chars(PlainChars))
<1>1. uri \in Seq(Characters)
  BY RequestIs DEF IsAbsolute
<1>2. ASSUME NEW i \in 1..Len(uri) PROVE uri[i] \in Chars(PlainChars)
  <2>1. i \in DOMAIN uri /\ uri[i] \in Characters
    BY <1>1
  <2> QED BY <2>1 DEF Chars, PlainChars, NameChars
<1> QED BY <1>1, <1>2

LEMMA ServedIs == TypeOK /\ Chosen /\ Resolved => PlainPathIsServed
<1> SUFFICES ASSUME TypeOK, Chosen, Resolved,
                    point = "done", loc # 0, status \in {400, 404}, path = <<>>,
                    NormalRoot(Location.root), ~ \E i \in DOMAIN uri : uri[i] = "."
             PROVE  FALSE
  BY DEF PlainPathIsServed
<1> DEFINE root == Location.root
           r == Remainder(loc)
<1>1. loc \in Matching
  BY DEF Chosen, FindLocationForUri
<1>2. loc \in DOMAIN conf
  BY <1>1 DEF Matching
<1>3. root \in Seq(Chars(NameChars))
  BY <1>2, LocationIs, AnyChars DEF Location
<1>4. uri \in Seq(Chars(PlainChars))
  BY PlainUri
<1>5. r \in Seq(Chars(PlainChars)) /\ r # <<>> /\ Continues(r)
  BY <1>1, <1>4, RemainderIs
<1>6. PathStatus(Cat(root, r), root) = 0
  <2> HIDE DEF r
  <2> QED BY <1>3, <1>5, PlainStatus
<1>7. status \in {302, PathStatus(Cat(root, r), root)}
  BY DEF Resolved, Cat
<1> QED BY <1>6, <1>7

-----------------------------------------------------------------------------
(***************************************************************************)
(* Theorems.                                                               *)
(***************************************************************************)
\* The request handler keeps its types: the location is one of the server block
\* or none, and a file is named exactly when something was done to it.
THEOREM AlwaysTypeOK == Spec => []TypeOK
<1>1. Inv => TypeOK
  BY DEF Inv
<1> QED BY <1>1, InvAlways, PTL

\* Whatever the server block, the request and the answers of the file system, the
\* file that is read, written, removed or executed lies under the root of the
\* location, and no "." or ".." is left in its path (ValidateAndNormalizePath,
\* IsPathUnderDocumentRoot and CreatePathInfo).
THEOREM AlwaysTargetUnderRoot == Spec => []TargetUnderRoot
<1>1. Inv => TargetUnderRoot
  BY DEF Inv
<1> QED BY <1>1, InvAlways, PTL

\* FindLocationForUri, which compares characters, finds the one location with the
\* most leading segments of the request path, and misses none.
THEOREM AlwaysLongestMatch == Spec => []LongestMatch
<1>1. Inv => LongestMatch
  BY LongestIs DEF Inv
<1> QED BY <1>1, InvAlways, PTL

\* Under a normal root a request path without dots passes the path checks of
\* ResolveFilesystemPath, whatever slashes it has.
THEOREM AlwaysPlainPathIsServed == Spec => []PlainPathIsServed
<1>1. Inv => PlainPathIsServed
  BY ServedIs DEF Inv
<1> QED BY <1>1, InvAlways, PTL
=============================================================================
