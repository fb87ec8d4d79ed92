------------------------- MODULE CgiExecutorProofs -------------------------
(***************************************************************************)
(* The socket pair of a CGI request has the right owners, on every way     *)
(* through CgiExecutor::Run; and the path of a request is split into a     *)
(* script, SCRIPT_NAME and PATH_INFO by its segments.  For any path, root, *)
(* extensions, body and capacity.                                          *)
(***************************************************************************)
EXTENDS CgiExecutor, PathsProofs

(***************************************************************************)
(* What each Fd object owns and what is open, at every point of Run, and   *)
(* what the child has open, whatever Run does meanwhile.                   *)
(***************************************************************************)
Before == {"construct", "run", "answered"}
Paired == {"pair", "forked"}
After == {"send", "return", "running"}

ServerInv ==
    /\ point \in Points
    /\ fds \in [Objects -> Ends \cup {"none"}]
    /\ point \in Before => open = {} /\ \A o \in Objects : fds[o] = "none"
    /\ point \in Paired => /\ open = Ends
                           /\ fds["sv0"] = "end0" /\ fds["sv1"] = "end1" /\ fds["fd_"] = "none"
    /\ point \in After => /\ open = {"end0"}
                          /\ fds["sv0"] = "none" /\ fds["sv1"] = "none" /\ fds["fd_"] = "end0"

ChildInv ==
    /\ child \in [state : {"absent", "forked", "script", "gone"}, open : SUBSET Ends]
    /\ child.state = "absent" <=> point \in Before \cup {"pair"}
    /\ child.state = "forked" => child.open = Ends
    /\ child.state = "script" => child.open = {"end1"}
    /\ child.state = "gone" => child.open = {}

PipeInv == ServerInv /\ ChildInv

LEMMA PipeInit == Init => PipeInv
  BY DEF Init, PipeInv, ServerInv, ChildInv, Points, Objects, Before, Paired, After

\* Every step of the server keeps the invariant.
LEMMA RunKeepsPipe == PipeInv /\ Run => PipeInv'
<1> SUFFICES ASSUME PipeInv, Run PROVE PipeInv'
  OBVIOUS
<1> USE DEF PipeInv, ServerInv, ChildInv, Points, Before, Paired, After
<1>1. CASE InitializeMetaVars
  BY <1>1 DEF InitializeMetaVars, pipe
<1>2. CASE Forbidden \/ SocketpairFails
  BY <1>2 DEF Forbidden, SocketpairFails, pipe
<1>3. CASE Socketpair
  BY <1>3 DEF Socketpair, Objects, Ends
<1>4. CASE ForkFails
  BY <1>4 DEF ForkFails, Destroy, Released, Closed, Objects, Ends
<1>5. CASE Fork
  BY <1>5 DEF Fork
<1>6. CASE NewCgiSocket
  <2>1. open' = {"end0"}
    BY <1>6 DEF NewCgiSocket, Closed, Ends
  <2> DEFINE left == Released(fds, {"sv1"})
  <2>2. /\ left \in [Objects -> Ends \cup {"none"}]
        /\ left["sv0"] = "end0" /\ left["sv1"] = "none" /\ left["fd_"] = "none"
    BY <1>6 DEF NewCgiSocket, Released, Objects, Ends
  <2> HIDE DEF left
  <2>3. /\ Moved(left, "sv0", "fd_") \in [Objects -> Ends \cup {"none"}]
        /\ Moved(left, "sv0", "fd_")["sv0"] = "none"
        /\ Moved(left, "sv0", "fd_")["sv1"] = "none"
        /\ Moved(left, "sv0", "fd_")["fd_"] = "end0"
    BY <2>2 DEF Moved, Objects, Ends
  <2>4. ServerInv'
    BY <1>6, <2>1, <2>3 DEF NewCgiSocket, left
  <2>5. ChildInv'
    BY <1>6 DEF NewCgiSocket
  <2> QED BY <2>4, <2>5
<1>7. CASE Send
  BY <1>7 DEF Send
<1>8. CASE Return
  BY <1>8 DEF Return, Destroy, Released, Closed, Objects, Ends
<1> QED BY <1>1, <1>2, <1>3, <1>4, <1>5, <1>6, <1>7, <1>8 DEF Run

\* Every step of the child keeps it.
LEMMA ChildKeepsPipe == PipeInv /\ Child => PipeInv'
<1> SUFFICES ASSUME PipeInv, Child PROVE PipeInv'
  OBVIOUS
<1>1. ServerInv'
  BY DEF PipeInv, Child, Exec, Leave, Read, ServerInv
<1>2. ChildInv'
  <2>1. CASE Exec
    <3>1. child.open = Ends
      BY <2>1 DEF Exec, PipeInv, ChildInv
    <3> QED BY <2>1, <3>1 DEF Exec, PipeInv, ChildInv, Ends
  <2>2. CASE Leave
    BY <2>2 DEF Leave, PipeInv, ChildInv, Ends
  <2>3. CASE Read
    BY <2>3 DEF Read, PipeInv, ChildInv
  <2> QED BY <2>1, <2>2, <2>3 DEF Child
<1> QED BY <1>1, <1>2 DEF PipeInv

LEMMA PipeAlways == Spec => []PipeInv
<1>1. PipeInv /\ UNCHANGED vars => PipeInv'
  BY DEF PipeInv, ServerInv, ChildInv, vars
<1>2. PipeInv /\ [Next]_vars => PipeInv'
  BY <1>1, RunKeepsPipe, ChildKeepsPipe DEF Next
<1> QED BY PipeInit, <1>2, PTL DEF Spec

\* Every open end of the pair has exactly one Fd object in the server, on every
\* way out of Run, those on which socketpair or fork fail included.
THEOREM AlwaysOwnedOnce == Spec => []OwnedOnce
<1>1. PipeInv => OwnedOnce
  BY DEF PipeInv, ServerInv, OwnedOnce, Objects, Ends, Points, Before, Paired, After
<1> QED BY PipeAlways, <1>1, PTL

\* Once Run has returned, the server and the script have one end each, however
\* the steps of the child fall between those of the server.
THEOREM EndsAlwaysApart == Spec => []EndsAreApart
<1>1. PipeInv => EndsAreApart
  BY DEF PipeInv, ServerInv, ChildInv, EndsAreApart, After
<1> QED BY PipeAlways, <1>1, PTL

-----------------------------------------------------------------------------
(***************************************************************************)
(* Where the segments of a path end.                                       *)
(***************************************************************************)
EndOf(segs, n) == Len(Join(segs)[n])

LEMMA JoinLeft ==
    ASSUME NEW W, NEW s \in Seq(Seq(W)), NEW n \in 0..Len(s)
    PROVE  /\ Join(s)[n] = Whole(Left(s, n)) /\ Join(s)[n] \in Seq(Chars(W))
           /\ Whole(s) = Cat(Join(s)[n], Whole(Right(s, n)))
           /\ Whole(Right(s, n)) \in Seq(Chars(W))
<1> DEFINE a == Left(s, n)
           r == Right(s, n)
<1>1. a \in Seq(Seq(W)) /\ Len(a) = n /\ r \in Seq(Seq(W)) /\ s = Cat(a, r)
  BY LeftIs, RightIs, LeftRight
<1> HIDE DEF a, r
<1>2. n \in 0..Len(a)
  BY <1>1
<1>3. n \in {m \in Nat : Join(Cat(a, r))[m] = Join(a)[m]}
  BY <1>1, <1>2, JoinGrows
<1>4. Join(s)[n] = Whole(a)
  BY <1>1, <1>3 DEF Whole
<1>5. Whole(s) = Cat(Whole(a), Whole(r))
  BY <1>1, WholeCat
<1>6. Whole(a) \in Seq(Chars(W)) /\ Whole(r) \in Seq(Chars(W))
  BY <1>1, WholeType
<1> QED BY <1>4, <1>5, <1>6 DEF a, r

LEMMA NamesIn ==
    ASSUME NEW W, NEW s \in Seq(Names(W)), NEW n \in 0..(Len(s) - 1)
    PROVE  /\ s \in Seq(Seq(W)) /\ Len(s) \in Nat
           /\ s[n + 1] \in Seq(W) /\ Len(s[n + 1]) \in Nat /\ Len(s[n + 1]) >= 1
           /\ n \in 0..Len(s) /\ n + 1 \in 0..Len(s) /\ n + 1 \in 1..Len(s)
<1>1. s \in Seq(Seq(W)) /\ Len(s) \in Nat
  BY NamesAreSeqs
<1>2. n \in 0..Len(s) /\ n + 1 \in 0..Len(s) /\ n + 1 \in 1..Len(s)
  BY <1>1
<1>3. s[n + 1] \in Seq(W) /\ s[n + 1] # <<>>
  BY <1>2 DEF Names
<1>4. Len(s[n + 1]) \in Nat /\ Len(s[n + 1]) >= 1
  BY <1>3
<1> QED BY <1>1, <1>2, <1>3, <1>4

LEMMA EndNext ==
    ASSUME NEW W, NEW s \in Seq(Names(W)), NEW n \in 0..(Len(s) - 1)
    PROVE  EndOf(s, n + 1) = EndOf(s, n) + 1 + Len(s[n + 1]) /\ EndOf(s, n) \in Nat
<1>1. /\ s \in Seq(Seq(W)) /\ s[n + 1] \in Seq(W) /\ n \in 0..Len(s)
      /\ Len(s[n + 1]) \in Nat
  BY NamesIn
<1>2. Join(s)[n] \in Seq(Chars(W))
  BY <1>1, JoinLeft
<1>3. Slash(s[n + 1]) \in Seq(Chars(W)) /\ Len(Slash(s[n + 1])) = 1 + Len(s[n + 1])
  BY <1>1, SlashIs
<1>4. Join(s)[n + 1] = Cat(Join(s)[n], Slash(s[n + 1]))
  BY <1>1, JoinStep
<1>5. Len(Cat(Join(s)[n], Slash(s[n + 1]))) = Len(Join(s)[n]) + Len(Slash(s[n + 1]))
  BY <1>2, <1>3, CatIs
<1>6. Len(Join(s)[n]) \in Nat
  BY <1>2, LenIs
<1>7. Len(Join(s)[n + 1]) = Len(Join(s)[n]) + (1 + Len(s[n + 1]))
  BY <1>3, <1>4, <1>5
<1> DEFINE m == Len(Join(s)[n])
           l == Len(s[n + 1])
<1>8. m \in Nat /\ l \in Nat /\ Len(Join(s)[n + 1]) = m + (1 + l)
  BY <1>1, <1>6, <1>7
<1> HIDE DEF m, l
<1>9. m + (1 + l) = m + 1 + l
  BY <1>8
<1> QED BY <1>8, <1>9 DEF EndOf, m, l

LEMMA EndIs ==
    ASSUME NEW W, NEW s \in Seq(Names(W)), NEW n \in 0..Len(s)
    PROVE  EndOf(s, n) \in Nat /\ EndOf(s, 0) = 0 /\ EndOf(s, Len(s)) = Len(Whole(s))
<1>1. s \in Seq(Seq(W)) /\ Len(s) \in Nat
  BY NamesAreSeqs
<1>2. Join(s)[n] \in Seq(Chars(W))
  BY <1>1, JoinLeft
<1>3. EndOf(s, n) \in Nat
  BY <1>2, LenIs DEF EndOf
<1>4. Join(s)[0] = <<>>
  BY <1>1, JoinStart
<1>5. EndOf(s, 0) = 0
  BY <1>4 DEF EndOf
<1>6. EndOf(s, Len(s)) = Len(Whole(s))
  BY DEF EndOf, Whole
<1> QED BY <1>3, <1>5, <1>6

LEMMA EndsGrow ==
    ASSUME NEW W, NEW s \in Seq(Names(W)), NEW i \in 0..Len(s), NEW j \in i..Len(s)
    PROVE  EndOf(s, i) <= EndOf(s, j)
<1> DEFINE N == {n \in Nat : EndOf(s, i) <= EndOf(s, n)}
<1>0. Len(s) \in Nat /\ i \in Nat
  OBVIOUS
<1>1. i \in N
  <2>1. EndOf(s, i) \in Nat
    BY EndIs
  <2> QED BY <1>0, <2>1
<1>2. ASSUME NEW n \in i..(Len(s) - 1), n \in N PROVE n + 1 \in N
  <2>1. n \in 0..(Len(s) - 1) /\ n \in 0..Len(s) /\ n \in Nat
    BY <1>0
  <2>2. EndOf(s, n + 1) = EndOf(s, n) + 1 + Len(s[n + 1]) /\ EndOf(s, n) \in Nat
    BY <2>1, EndNext
  <2>3. Len(s[n + 1]) \in Nat
    BY <2>1, NamesIn
  <2>4. EndOf(s, i) \in Nat /\ EndOf(s, i) <= EndOf(s, n)
    BY <1>2, EndIs
  <2> QED BY <2>1, <2>2, <2>3, <2>4
<1> HIDE DEF N
<1>3. i..Len(s) \subseteq N
  BY <1>0, <1>1, <1>2, IntervalInduction
<1>4. j \in N
  BY <1>3
<1> QED BY <1>4 DEF N

LEMMA EndsInOrder ==
    ASSUME NEW W, NEW s \in Seq(Names(W)), NEW i \in 0..Len(s), NEW j \in 0..Len(s),
           EndOf(s, i) <= EndOf(s, j)
    PROVE  i <= j
<1> SUFFICES ASSUME j < i PROVE FALSE
  OBVIOUS
<1>1. j \in 0..(Len(s) - 1) /\ j + 1 \in 0..Len(s) /\ i \in (j + 1)..Len(s)
  OBVIOUS
<1>2. EndOf(s, j + 1) <= EndOf(s, i)
  BY <1>1, EndsGrow
<1>3. EndOf(s, j + 1) = EndOf(s, j) + 1 + Len(s[j + 1]) /\ EndOf(s, j) \in Nat
  BY <1>1, EndNext
<1>4. Len(s[j + 1]) \in Nat
  BY <1>1, NamesIn
<1>5. EndOf(s, i) \in Nat
  BY EndIs
<1> QED BY <1>2, <1>3, <1>4, <1>5

\* The characters of a segment, and the slash before it.
LEMMA SlashBefore ==
    ASSUME NEW W, NEW s \in Seq(Names(W)), NEW n \in 0..(Len(s) - 1)
    PROVE  Whole(s)[EndOf(s, n) + 1] = "/"
<1>1. /\ s \in Seq(Seq(W)) /\ s[n + 1] \in Seq(W) /\ n \in 0..Len(s) /\ n + 1 \in 0..Len(s)
      /\ Len(s[n + 1]) \in Nat
  BY NamesIn
<1> DEFINE a == Join(s)[n]
           b == Slash(s[n + 1])
           r == Whole(Right(s, n + 1))
<1>2. a \in Seq(Chars(W))
  BY <1>1, JoinLeft
<1>3. b \in Seq(Chars(W)) /\ Len(b) = 1 + Len(s[n + 1]) /\ b[1] = "/"
  BY <1>1, SlashIs
<1>4. Join(s)[n + 1] = Cat(a, b)
  BY <1>1, JoinStep
<1>5. Whole(s) = Cat(Cat(a, b), r) /\ r \in Seq(Chars(W)) /\ Cat(a, b) \in Seq(Chars(W))
  BY <1>1, <1>4, JoinLeft
<1> HIDE DEF a, b, r
<1>6. Len(Cat(a, b)) = Len(a) + Len(b) /\ Len(a) \in Nat
  BY <1>2, <1>3, CatIs, LenIs
<1>7. Len(a) + 1 \in 1..Len(Cat(a, b)) /\ 1 \in 1..Len(b)
  BY <1>1, <1>3, <1>6
<1>8. Cat(Cat(a, b), r)[Len(a) + 1] = Cat(a, b)[Len(a) + 1]
  BY <1>5, <1>7, CatLeft
<1>9. Cat(a, b)[Len(a) + 1] = b[1]
  BY <1>2, <1>3, <1>7, CatRight
<1> QED BY <1>3, <1>5, <1>8, <1>9 DEF a, EndOf

LEMMA CharOf ==
    ASSUME NEW W, NEW s \in Seq(Names(W)), NEW n \in 0..(Len(s) - 1), NEW k \in 1..Len(s[n + 1])
    PROVE  Whole(s)[EndOf(s, n) + (1 + k)] = s[n + 1][k] /\ s[n + 1][k] \in W
<1>1. /\ s \in Seq(Seq(W)) /\ s[n + 1] \in Seq(W) /\ n \in 0..Len(s) /\ n + 1 \in 0..Len(s)
      /\ Len(s[n + 1]) \in Nat
  BY NamesIn
<1> DEFINE a == Join(s)[n]
           b == Slash(s[n + 1])
           r == Whole(Right(s, n + 1))
<1>2. a \in Seq(Chars(W))
  BY <1>1, JoinLeft
<1>3. b \in Seq(Chars(W)) /\ Len(b) = 1 + Len(s[n + 1])
  BY <1>1, SlashIs
<1>a. b[1 + k] = s[n + 1][k] /\ s[n + 1][k] \in W
  BY <1>1, SlashAt
<1>4. Join(s)[n + 1] = Cat(a, b)
  BY <1>1, JoinStep
<1>5. Whole(s) = Cat(Cat(a, b), r) /\ r \in Seq(Chars(W)) /\ Cat(a, b) \in Seq(Chars(W))
  BY <1>1, <1>4, JoinLeft
<1> HIDE DEF a, b, r
<1>6. Len(Cat(a, b)) = Len(a) + Len(b) /\ Len(a) \in Nat
  BY <1>2, <1>3, CatIs, LenIs
<1>7. Len(a) + (1 + k) \in 1..Len(Cat(a, b)) /\ 1 + k \in 1..Len(b)
  BY <1>1, <1>3, <1>6
<1>8. Cat(Cat(a, b), r)[Len(a) + (1 + k)] = Cat(a, b)[Len(a) + (1 + k)]
  BY <1>5, <1>7, CatLeft
<1>9. Cat(a, b)[Len(a) + (1 + k)] = b[1 + k]
  BY <1>2, <1>3, <1>7, CatRight
<1> QED BY <1>a, <1>5, <1>8, <1>9 DEF a, EndOf

\* Every character is in a segment or is the slash before it.
LEMMA InSegment ==
    ASSUME NEW W, NEW s \in Seq(Names(W)), NEW x \in 1..Len(Whole(s))
    PROVE  \E n \in 0..(Len(s) - 1) : EndOf(s, n) < x /\ x <= EndOf(s, n + 1)
<1> DEFINE T == {m \in 0..Len(s) : x <= EndOf(s, m)}
<1>0. Len(s) \in Nat /\ Len(s) \in 0..Len(s) /\ 0 \in 0..Len(s)
  OBVIOUS
<1>1. EndOf(s, 0) = 0 /\ EndOf(s, Len(s)) = Len(Whole(s)) /\ Len(Whole(s)) \in Nat
  BY <1>0, EndIs
<1>2. Len(s) \in T /\ T \in SUBSET Nat
  BY <1>0, <1>1
<1>3. PICK m \in T : \A y \in T : m <= y
  BY <1>2, LeastNatural
<1>4. m \in 0..Len(s) /\ x <= EndOf(s, m)
  BY <1>3
<1>5. m # 0
  BY <1>1, <1>4
<1>6. m - 1 \in 0..(Len(s) - 1) /\ m - 1 \in 0..Len(s) /\ (m - 1) + 1 = m /\ ~ m <= m - 1
  BY <1>0, <1>4, <1>5
<1>7. m - 1 \notin T
  BY <1>3, <1>6
<1>8. EndOf(s, m - 1) \in Nat
  BY <1>6, EndIs
<1>9. EndOf(s, m - 1) < x
  BY <1>1, <1>6, <1>7, <1>8
<1> QED BY <1>4, <1>6, <1>9

LEMMA EndsAt ==
    ASSUME NEW W, "/" \notin W, NEW s \in Seq(Names(W)), NEW e, EndsSegment(Whole(s), e)
    PROVE  \E n \in 0..(Len(s) - 1) : e = EndOf(s, n + 1)
<1>1. e \in 1..Len(Whole(s)) /\ (e = Len(Whole(s)) \/ Whole(s)[e + 1] = "/")
  BY DEF EndsSegment
<1>2. PICK n \in 0..(Len(s) - 1) : EndOf(s, n) < e /\ e <= EndOf(s, n + 1)
  BY <1>1, InSegment
<1>3. EndOf(s, n + 1) = EndOf(s, n) + 1 + Len(s[n + 1]) /\ EndOf(s, n) \in Nat
  BY <1>2, EndNext
<1>4. /\ Len(s[n + 1]) \in Nat /\ n + 1 \in 0..Len(s) /\ Len(s) \in (n + 1)..Len(s)
      /\ Len(s) \in 0..Len(s)
  BY NamesIn
<1>5. EndOf(s, n + 1) <= Len(Whole(s)) /\ EndOf(s, n + 1) \in Nat /\ Len(Whole(s)) \in Nat
  <2>1. EndOf(s, n + 1) <= EndOf(s, Len(s))
    BY <1>4, EndsGrow
  <2>2. EndOf(s, Len(s)) = Len(Whole(s)) /\ EndOf(s, n + 1) \in Nat /\ EndOf(s, Len(s)) \in Nat
    BY <1>4, EndIs
  <2> QED BY <2>1, <2>2
<1>6. e = EndOf(s, n + 1)
  <2> SUFFICES ASSUME e # EndOf(s, n + 1) PROVE FALSE
    OBVIOUS
  <2> DEFINE k == e - EndOf(s, n)
  <2> DEFINE m == EndOf(s, n)
             l == Len(s[n + 1])
             w == Len(Whole(s))
             z == EndOf(s, n + 1)
  <2>0. /\ e \in 1..w /\ m < e /\ e <= z /\ z = m + 1 + l /\ m \in Nat /\ l \in Nat
        /\ z <= w /\ z \in Nat /\ w \in Nat /\ e # z
    BY <1>1, <1>2, <1>3, <1>4, <1>5
  <2> HIDE DEF m, l, w, z
  <2>a. e - m \in 1..l /\ e + 1 = m + (1 + (e - m)) /\ e # w
    BY <2>0
  <2>1. k \in 1..Len(s[n + 1]) /\ e + 1 = EndOf(s, n) + (1 + k) /\ e # Len(Whole(s))
    BY <2>a DEF m, l, w
  <2>2. Whole(s)[EndOf(s, n) + (1 + k)] = s[n + 1][k] /\ s[n + 1][k] \in W
    BY <2>1, CharOf
  <2> QED BY <1>1, <2>1, <2>2
<1> QED BY <1>6

-----------------------------------------------------------------------------
(***************************************************************************)
(* Places in characters and names in segments.                             *)
(***************************************************************************)
\* What IsSuffix says, element by element.
LEMMA SuffixAt ==
    ASSUME NEW S, NEW a \in Seq(S), NEW p \in Seq(S), IsSuffix(a, p)
    PROVE  Len(a) <= Len(p) /\ \A k \in 1..Len(a) : a[k] = p[Len(p) - Len(a) + k]
<1> DEFINE ra == Reverse(a)
           rp == Reverse(p)
<1>0. Len(a) \in Nat /\ Len(p) \in Nat
  OBVIOUS
<1>1. ra \in Seq(S) /\ Len(ra) = Len(a) /\ \A i \in 1..Len(a) : ra[i] = a[Len(a) - i + 1]
  BY <1>0 DEF Reverse
<1>2. rp \in Seq(S) /\ Len(rp) = Len(p) /\ \A i \in 1..Len(p) : rp[i] = p[Len(p) - i + 1]
  BY <1>0 DEF Reverse
<1>3. IsPrefix(ra, rp)
  BY DEF IsSuffix
<1> HIDE DEF ra, rp
<1>4. Len(a) <= Len(p)
  BY <1>1, <1>2, <1>3, SamePrefix
<1>5. ASSUME NEW k \in 1..Len(a) PROVE a[k] = p[Len(p) - Len(a) + k]
  <2> DEFINE i == Len(a) - k + 1
  <2>1. /\ i \in 1..Len(a) /\ i \in 1..Len(ra) /\ i \in 1..Len(p) /\ Len(a) - i + 1 = k
        /\ Len(p) - i + 1 = Len(p) - Len(a) + k
    BY <1>0, <1>1, <1>4
  <2> HIDE DEF i
  <2>2. rp[i] = ra[i]
    BY <1>1, <1>2, <1>3, <2>1, PrefixAt
  <2>3. ra[i] = a[Len(a) - i + 1] /\ rp[i] = p[Len(p) - i + 1]
    BY <1>1, <1>2, <2>1
  <2> QED BY <2>1, <2>2, <2>3
<1> QED BY <1>4, <1>5

LEMMA SuffixIf ==
    ASSUME NEW S, NEW a \in Seq(S), NEW p \in Seq(S), Len(a) <= Len(p),
           \A k \in 1..Len(a) : a[k] = p[Len(p) - Len(a) + k]
    PROVE  IsSuffix(a, p)
<1> DEFINE ra == Reverse(a)
           rp == Reverse(p)
<1>0. Len(a) \in Nat /\ Len(p) \in Nat
  OBVIOUS
<1>1. ra \in Seq(S) /\ Len(ra) = Len(a) /\ \A i \in 1..Len(a) : ra[i] = a[Len(a) - i + 1]
  BY <1>0 DEF Reverse
<1>2. rp \in Seq(S) /\ Len(rp) = Len(p) /\ \A i \in 1..Len(p) : rp[i] = p[Len(p) - i + 1]
  BY <1>0 DEF Reverse
<1> HIDE DEF ra, rp
<1>3. ASSUME NEW i \in 1..Len(a) PROVE rp[i] = ra[i]
  <2> DEFINE k == Len(a) - i + 1
  <2>1. k \in 1..Len(a) /\ i \in 1..Len(p) /\ Len(p) - Len(a) + k = Len(p) - i + 1
    BY <1>0
  <2>2. a[k] = p[Len(p) - Len(a) + k]
    BY <2>1
  <2> QED BY <1>1, <1>2, <2>1, <2>2
<1>4. Len(ra) <= Len(rp) /\ \A i \in 1..Len(ra) : rp[i] = ra[i]
  BY <1>1, <1>2, <1>3
<1>5. IsPrefix(ra, rp)
  BY <1>1, <1>2, <1>4, PrefixIf
<1> QED BY <1>5 DEF IsSuffix, ra, rp

LEMMA PlaceIf ==
    ASSUME NEW S, NEW path \in Seq(S), NEW ext \in Seq(S),
           NEW p \in 1..(Len(path) - Len(ext) + 1),
           \A k \in 1..Len(ext) : path[p + k - 1] = ext[k],
           p + Len(ext) = Len(path) + 1 \/ path[p + Len(ext)] = "/",
           p = 1 \/ path[p - 1] # "/"
    PROVE  p \in ExtensionAt(path, ext)
<1> DEFINE u == SubSeq(path, p, p + Len(ext) - 1)
<1>0. Len(path) \in Nat /\ Len(ext) \in Nat
  OBVIOUS
<1>1. u \in Seq(S) /\ Len(u) = Len(ext)
  BY <1>0
<1>2. ASSUME NEW k \in 1..Len(ext) PROVE u[k] = ext[k]
  <2>1. u[k] = path[p + k - 1]
    BY <1>0
  <2> QED BY <2>1
<1> HIDE DEF u
<1>3. u = ext
  BY <1>1, <1>2, SameSeq
<1> QED BY <1>3 DEF ExtensionAt, u

\* A segment with the extension is a place of it.
LEMMA PlaceOfName ==
    ASSUME NEW W, "/" \notin W, NEW s \in Seq(Names(W)), NEW ext \in Seq(Chars(W)), ext # <<>>,
           NEW i \in Named(s, ext)
    PROVE  EndOf(s, i) - Len(ext) + 1 \in ExtensionAt(Whole(s), ext)
<1> DEFINE n == i - 1
           q == EndOf(s, n)
           t == s[n + 1]
           l == Len(t)
           x == Len(ext)
           path == Whole(s)
           w == Len(path)
<1>1. i \in DOMAIN s /\ IsSuffix(ext, s[i]) /\ s[i] # ext
  BY DEF Named
<1>2. i \in 1..Len(s) /\ Len(s) \in Nat
  BY <1>1
<1>3. /\ n \in 0..(Len(s) - 1) /\ n + 1 = i /\ i \in 0..Len(s)
      /\ Len(s) \in i..Len(s) /\ Len(s) \in 0..Len(s)
  BY <1>2
<1>4. s \in Seq(Seq(W)) /\ t \in Seq(W) /\ l \in Nat /\ t = s[i]
  BY <1>3, NamesIn
<1>5. path \in Seq(Chars(W)) /\ w \in Nat /\ x \in Nat /\ x >= 1
  <2>1. path \in Seq(Chars(W))
    BY <1>4, WholeType
  <2> QED BY <2>1, LenIs
<1>6. EndOf(s, i) = q + 1 + l /\ q \in Nat
  BY <1>3, EndNext
<1>7. EndOf(s, i) <= w
  <2>1. EndOf(s, i) <= EndOf(s, Len(s))
    BY <1>3, EndsGrow
  <2> QED BY <1>3, <2>1, EndIs
<1>8. t \in Seq(Chars(W))
  BY <1>4 DEF Chars
<1>9. x <= l /\ \A k \in 1..x : ext[k] = t[l - x + k]
  BY <1>1, <1>4, <1>8, SuffixAt
<1>10. x # l
  <2> SUFFICES ASSUME x = l PROVE FALSE
    OBVIOUS
  <2>1. \A k \in 1..x : ext[k] = t[k]
    BY <1>4, <1>5, <1>9
  <2> HIDE DEF t
  <2>2. ext = t
    BY <1>8, <2>1, SameSeq
  <2> QED BY <1>1, <1>4, <2>2
<1> DEFINE p == q + 1 + l - x + 1
<1>11. ASSUME NEW k \in 1..l PROVE path[q + (1 + k)] = t[k] /\ t[k] \in W
  BY <1>3, CharOf
<1>12. EndOf(s, i) = w \/ path[EndOf(s, i) + 1] = "/"
  <2>1. CASE i = Len(s)
    BY <1>3, <2>1, EndIs
  <2>2. CASE i # Len(s)
    <3>1. i \in 0..(Len(s) - 1)
      BY <1>2, <2>2
    <3> QED BY <3>1, SlashBefore
  <2> QED BY <2>1, <2>2
<1> HIDE DEF n, q, t, l, x, path, w
<1>13. x <= l - 1 /\ q + 1 + l <= w
  BY <1>4, <1>5, <1>6, <1>7, <1>9, <1>10
<1>14. /\ p \in 1..(w - x + 1) /\ p + x = q + 1 + l + 1 /\ p # 1
       /\ p - 1 = q + (1 + (l - x)) /\ l - x \in 1..l
  BY <1>4, <1>5, <1>6, <1>13
<1>15. path[p - 1] # "/"
  BY <1>11, <1>14
<1>16. p + x = w + 1 \/ path[p + x] = "/"
  BY <1>5, <1>6, <1>12, <1>14
<1>17. ASSUME NEW k \in 1..x PROVE path[p + k - 1] = ext[k]
  <2>1. l - x + k \in 1..l /\ p + k - 1 = q + (1 + (l - x + k))
    BY <1>4, <1>5, <1>6, <1>13
  <2> QED BY <1>9, <1>11, <2>1
<1>18. p \in ExtensionAt(path, ext)
  <2> HIDE DEF p
  <2>1. p \in 1..(Len(path) - Len(ext) + 1) /\ \A k \in 1..Len(ext) : path[p + k - 1] = ext[k]
    BY <1>14, <1>17 DEF w, x
  <2>2. p + Len(ext) = Len(path) + 1 \/ path[p + Len(ext)] = "/"
    BY <1>16 DEF w, x
  <2> QED BY <1>5, <1>14, <1>15, <2>1, <2>2, PlaceIf
<1>19. EndOf(s, i) - x + 1 = p
  BY <1>4, <1>5, <1>6
<1> HIDE DEF p
<1> QED BY <1>18, <1>19 DEF x, path

HasNoSlash(ext) == \A k \in DOMAIN ext : ext[k] # "/"

\* A place of an extension without a slash is a segment with the extension.
LEMMA NameOfPlace ==
    ASSUME NEW W, "/" \notin W, NEW s \in Seq(Names(W)), NEW ext \in Seq(Chars(W)), ext # <<>>,
           HasNoSlash(ext), NEW p \in ExtensionAt(Whole(s), ext)
    PROVE  \E i \in Named(s, ext) : /\ p = EndOf(s, i) - Len(ext) + 1
                                    /\ EndOf(s, i - 1) < p
<1> DEFINE x == Len(ext)
           path == Whole(s)
           w == Len(path)
           e == p + x - 1
<1>0. s \in Seq(Seq(W)) /\ Len(s) \in Nat
  BY NamesAreSeqs, LenIs
<1>1. path \in Seq(Chars(W)) /\ w \in Nat /\ x \in Nat /\ x >= 1
  <2>1. path \in Seq(Chars(W))
    BY <1>0, WholeType
  <2> QED BY <2>1, LenIs
<1>2. /\ p \in 1..w /\ e \in 1..w /\ (e = w \/ path[e + 1] = "/")
      /\ p = 1 \/ path[p - 1] # "/"
  BY <1>1, FoundIs
<1>3. ASSUME NEW k \in 1..x PROVE path[p + k - 1] = ext[k] /\ ext[k] # "/"
  <2>1. path[p + k - 1] = ext[k]
    BY <1>1, FoundAt
  <2> QED BY <2>1 DEF HasNoSlash
<1>4. EndsSegment(path, e)
  BY <1>2 DEF EndsSegment
<1>5. PICK n \in 0..(Len(s) - 1) : e = EndOf(s, n + 1)
  BY <1>4, EndsAt
<1> DEFINE q == EndOf(s, n)
           t == s[n + 1]
           l == Len(t)
<1>6. t \in Seq(W) /\ l \in Nat /\ n + 1 \in 1..Len(s)
  BY NamesIn
<1>7. e = q + 1 + l /\ q \in Nat
  BY <1>5, EndNext
<1>8. path[q + 1] = "/"
  BY SlashBefore
<1>9. ASSUME NEW k \in 1..l PROVE path[q + (1 + k)] = t[k]
  BY CharOf
<1>10. t \in Seq(Chars(W))
  BY <1>6 DEF Chars
<1>a. n = (n + 1) - 1 /\ n + 1 \in DOMAIN s
  BY <1>0, <1>6
<1> HIDE DEF q, t, l, x, path, w
<1>11. q + 1 < p
  <2> SUFFICES ASSUME p <= q + 1 PROVE FALSE
    BY <1>2, <1>7
  <2> DEFINE k == q + 1 - p + 1
  <2>1. k \in 1..x /\ p + k - 1 = q + 1
    BY <1>1, <1>2, <1>6, <1>7
  <2> QED BY <1>3, <1>8, <2>1
<1>12. p # q + 2
  <2> SUFFICES ASSUME p = q + 2 PROVE FALSE
    OBVIOUS
  <2>1. p # 1 /\ p - 1 = q + 1
    BY <1>7
  <2> QED BY <1>2, <1>8, <2>1
<1>13. x < l
  BY <1>1, <1>2, <1>6, <1>7, <1>11, <1>12
<1>14. ASSUME NEW k \in 1..x PROVE ext[k] = t[l - x + k]
  <2>1. l - x + k \in 1..l /\ p + k - 1 = q + (1 + (l - x + k))
    BY <1>1, <1>2, <1>6, <1>7, <1>13
  <2>2. path[q + (1 + (l - x + k))] = t[l - x + k]
    BY <1>9, <2>1
  <2> QED BY <1>3, <2>1, <2>2
<1>15. IsSuffix(ext, t)
  <2>1. Len(ext) <= Len(t) /\ \A k \in 1..Len(ext) : ext[k] = t[Len(t) - Len(ext) + k]
    BY <1>1, <1>6, <1>13, <1>14 DEF x, l
  <2> QED BY <1>10, <2>1, SuffixIf
<1>16. t # ext
  BY <1>1, <1>6, <1>13 DEF x, l
<1>17. n + 1 \in Named(s, ext)
  BY <1>a, <1>15, <1>16 DEF Named, t
<1>18. p = e - x + 1
  BY <1>1, <1>2
<1>19. EndOf(s, (n + 1) - 1) < p
  <2>1. q < p
    BY <1>2, <1>7, <1>11
  <2> QED BY <1>a, <2>1 DEF q
<1>20. p = EndOf(s, n + 1) - Len(ext) + 1
  BY <1>5, <1>18 DEF x
<1> QED BY <1>17, <1>19, <1>20

(***************************************************************************)
(* The script that CreatePathInfo finds is the one of the reference.       *)
(***************************************************************************)
LastNamed(segs, ext) == CHOOSE i \in Named(segs, ext) : \A j \in Named(segs, ext) : j <= i

LEMMA LastNamedIs ==
    ASSUME NEW S, NEW s \in Seq(S), NEW ext, Named(s, ext) # {}
    PROVE  /\ LastNamed(s, ext) \in Named(s, ext) /\ LastNamed(s, ext) \in 1..Len(s)
           /\ \A j \in Named(s, ext) : j <= LastNamed(s, ext)
<1> DEFINE T == Named(s, ext)
<1>1. T \in SUBSET (0..Len(s)) /\ T \subseteq 1..Len(s) /\ Len(s) \in Nat
  BY DEF Named
<1> HIDE DEF T
<1>2. T # {}
  BY DEF T
<1>3. \E i \in T : \A j \in T : j <= i
  BY <1>1, <1>2, GreatestNatural
<1>4. LastNamed(s, ext) \in T /\ \A j \in T : j <= LastNamed(s, ext)
  BY <1>3 DEF LastNamed, T
<1> QED BY <1>1, <1>4 DEF T

\* rfind and the last name agree.
LEMMA LastPlace ==
    ASSUME NEW W, "/" \notin W, NEW s \in Seq(Names(W)), NEW ext \in Seq(Chars(W)), ext # <<>>,
           HasNoSlash(ext)
    PROVE  /\ LastExtension(Whole(s), ext) = 0 <=> Named(s, ext) = {}
           /\ Named(s, ext) # {} =>
                LET i == LastNamed(s, ext)
                IN  /\ LastExtension(Whole(s), ext) = EndOf(s, i) - Len(ext) + 1
                    /\ EndOf(s, i - 1) < LastExtension(Whole(s), ext)
                    /\ LastExtension(Whole(s), ext) \in Nat
<1> DEFINE path == Whole(s)
           at == LastExtension(path, ext)
           T == Named(s, ext)
<1>0. s \in Seq(Seq(W)) /\ path \in Seq(Chars(W))
  BY NamesAreSeqs, WholeType
<1>1. \/ at = 0 /\ ExtensionAt(path, ext) = {}
      \/ IsLast(path, ext, at) /\ at \in 1..Len(path)
  BY <1>0, LastExtensionIs
<1>2. CASE T = {}
  <2>1. at \notin ExtensionAt(path, ext)
    BY <1>2, NameOfPlace
  <2> QED BY <1>1, <1>2, <2>1 DEF IsLast
<1>3. CASE T # {}
  <2> DEFINE m == LastNamed(s, ext)
             x == Len(ext)
  <2>1. m \in T /\ m \in 1..Len(s) /\ \A j \in T : j <= m
    BY <1>3, LastNamedIs
  <2>2. EndOf(s, m) - x + 1 \in ExtensionAt(path, ext)
    BY <2>1, PlaceOfName
  <2>3. at \in ExtensionAt(path, ext) /\ at \in 1..Len(path) /\ EndOf(s, m) - x + 1 <= at
    BY <1>1, <2>2 DEF IsLast
  <2> HIDE DEF at
  <2>4. PICK i \in T : at = EndOf(s, i) - x + 1 /\ EndOf(s, i - 1) < at
    BY <2>3, NameOfPlace
  <2>5. i <= m
    BY <2>1, <2>4
  <2>6. i \in 1..Len(s) /\ i \in 0..Len(s) /\ m \in 0..Len(s) /\ Len(s) \in Nat
    BY <2>1, <2>4 DEF Named
  <2>7. EndOf(s, i) \in Nat /\ EndOf(s, m) \in Nat /\ x \in Nat
    BY <2>6, EndIs
  <2> HIDE DEF T, m, x, path
  <2>8. EndOf(s, m) <= EndOf(s, i)
    BY <2>3, <2>4, <2>7
  <2>9. m <= i
    BY <2>6, <2>8, EndsInOrder
  <2>10. i = m
    BY <2>5, <2>6, <2>9
  <2>11. at = EndOf(s, m) - x + 1 /\ EndOf(s, m - 1) < at /\ at # 0 /\ at \in Nat
    BY <2>3, <2>4, <2>10
  <2> QED BY <1>3, <2>11 DEF m, x, at, path, T
<1> QED BY <1>2, <1>3

Lasts(segs, exts) ==
    {LastNamed(segs, exts[k]) : k \in {k \in DOMAIN exts : Named(segs, exts[k]) # {}}}

LEMMA ScriptSegmentIs ==
    ASSUME NEW segs, NEW exts
    PROVE  ScriptSegment(segs, exts) =
             IF Lasts(segs, exts) = {} THEN 0
             ELSE CHOOSE i \in Lasts(segs, exts) : \A j \in Lasts(segs, exts) : i <= j
  BY DEF ScriptSegment, Lasts, LastNamed

LEMMA ExtensionIs ==
    ASSUME NEW S, NEW exts \in Seq(Seq(S) \ {<<>>}), SlashFree(exts), NEW k \in 1..Len(exts)
    PROVE  exts[k] \in Seq(S) /\ exts[k] # <<>> /\ HasNoSlash(exts[k])
<1>1. exts[k] \in Seq(S) \ {<<>>} /\ k \in DOMAIN exts
  OBVIOUS
<1> QED BY <1>1 DEF SlashFree, HasNoSlash

\* A place depends on what comes before its end.
LEMMA PlaceInside ==
    ASSUME NEW S, NEW a \in Seq(S), NEW r \in Seq(S), NEW ext \in Seq(S), ext # <<>>,
           NEW p \in ExtensionAt(Cat(a, r), ext), p + Len(ext) - 1 <= Len(a)
    PROVE  p \in ExtensionAt(a, ext)
<1> DEFINE path == Cat(a, r)
           x == Len(ext)
<1>1. path \in Seq(S) /\ Len(path) = Len(a) + Len(r) /\ Len(a) \in Nat /\ Len(r) \in Nat
  BY CatIs, LenIs
<1>2. x \in Nat /\ x >= 1
  OBVIOUS
<1>3. /\ p \in 1..Len(path) /\ p + x - 1 \in 1..Len(path)
      /\ p + x - 1 = Len(path) \/ path[p + x - 1 + 1] = "/"
      /\ p = 1 \/ path[p - 1] # "/"
  BY <1>1, FoundIs
<1>4. ASSUME NEW k \in 1..x PROVE path[p + k - 1] = ext[k]
  BY <1>1, FoundAt
<1>5. ASSUME NEW i \in 1..Len(a) PROVE path[i] = a[i]
  BY CatLeft
<1> HIDE DEF path
<1>6. p \in 1..(Len(a) - x + 1) /\ p + x - 1 + 1 = p + x
  BY <1>1, <1>2, <1>3
<1>7. ASSUME NEW k \in 1..x PROVE a[p + k - 1] = ext[k]
  <2>1. p + k - 1 \in 1..Len(a)
    BY <1>1, <1>2, <1>6
  <2> QED BY <1>4, <1>5, <2>1
<1>8. p + x = Len(a) + 1 \/ a[p + x] = "/"
  <2> SUFFICES ASSUME p + x # Len(a) + 1 PROVE a[p + x] = "/"
    OBVIOUS
  <2> DEFINE la == Len(a)
             lr == Len(r)
  <2>0. /\ la \in Nat /\ lr \in Nat /\ x \in Nat /\ x >= 1 /\ p \in 1..(la - x + 1)
        /\ p + x # la + 1 /\ Len(path) = la + lr
    BY <1>1, <1>2, <1>6
  <2> HIDE DEF x, la, lr
  <2>a. p + x \in 1..la /\ p + x - 1 # la + lr
    BY <2>0
  <2>1. p + x \in 1..Len(a) /\ p + x - 1 # Len(path)
    BY <2>0, <2>a DEF la
  <2> QED BY <1>3, <1>5, <1>6, <2>1
<1>9. p = 1 \/ a[p - 1] # "/"
  <2> SUFFICES ASSUME p # 1 PROVE a[p - 1] # "/"
    OBVIOUS
  <2>1. p - 1 \in 1..Len(a)
    BY <1>1, <1>2, <1>6
  <2> QED BY <1>3, <1>5, <2>1
<1> QED BY <1>6, <1>7, <1>8, <1>9, PlaceIf

LEMMA PlaceStays ==
    ASSUME NEW S, NEW a \in Seq(S), NEW r \in Seq(S), Continues(r), NEW ext \in Seq(S), ext # <<>>,
           NEW p \in ExtensionAt(a, ext)
    PROVE  p \in ExtensionAt(Cat(a, r), ext)
<1> DEFINE path == Cat(a, r)
           x == Len(ext)
<1>1. path \in Seq(S) /\ Len(path) = Len(a) + Len(r) /\ Len(a) \in Nat /\ Len(r) \in Nat
  BY CatIs, LenIs
<1>2. x \in Nat /\ x >= 1
  OBVIOUS
<1>3. /\ p \in 1..Len(a) /\ p + x - 1 \in 1..Len(a)
      /\ p + x - 1 = Len(a) \/ a[p + x - 1 + 1] = "/"
      /\ p = 1 \/ a[p - 1] # "/"
  BY FoundIs
<1>4. ASSUME NEW k \in 1..x PROVE a[p + k - 1] = ext[k]
  BY FoundAt
<1>5. ASSUME NEW i \in 1..Len(a) PROVE path[i] = a[i]
  BY CatLeft
<1>6. ASSUME r # <<>> PROVE path[Len(a) + 1] = "/"
  <2>1. r[1] = "/" /\ 1 \in 1..Len(r)
    BY <1>6 DEF Continues
  <2>2. path[Len(a) + 1] = r[1]
    BY <2>1, CatRight
  <2> QED BY <2>1, <2>2
<1>a. r = <<>> => Len(r) = 0
  OBVIOUS
<1> HIDE DEF path
<1>7. p \in 1..(Len(path) - x + 1) /\ p + x - 1 + 1 = p + x
  BY <1>1, <1>2, <1>3
<1>8. ASSUME NEW k \in 1..x PROVE path[p + k - 1] = ext[k]
  <2>1. p + k - 1 \in 1..Len(a)
    BY <1>1, <1>2, <1>3
  <2> QED BY <1>4, <1>5, <2>1
<1>9. p + x = Len(path) + 1 \/ path[p + x] = "/"
  <2>1. CASE p + x - 1 = Len(a)
    <3>1. p + x = Len(a) + 1
      BY <1>1, <1>2, <1>3, <2>1
    <3> QED BY <1>1, <1>6, <1>a, <3>1
  <2>2. CASE p + x - 1 # Len(a)
    <3> DEFINE la == Len(a)
    <3>0. /\ la \in Nat /\ x \in Nat /\ x >= 1 /\ p \in 1..la /\ p + x - 1 \in 1..la
          /\ p + x - 1 # la /\ a[p + x] = "/"
      BY <1>1, <1>2, <1>3, <1>7, <2>2
    <3> HIDE DEF x, la
    <3>a. p + x \in 1..la
      BY <3>0
    <3>1. p + x \in 1..Len(a) /\ a[p + x] = "/"
      BY <3>0, <3>a DEF la
    <3> QED BY <1>5, <3>1
  <2> QED BY <2>1, <2>2
<1>10. p = 1 \/ path[p - 1] # "/"
  <2> SUFFICES ASSUME p # 1 PROVE path[p - 1] # "/"
    OBVIOUS
  <2>1. p - 1 \in 1..Len(a)
    BY <1>1, <1>3
  <2> QED BY <1>3, <1>5, <2>1
<1>11. p \in ExtensionAt(path, ext)
  BY <1>1, <1>7, <1>8, <1>9, <1>10, PlaceIf
<1> QED BY <1>11 DEF path

\* A slash at the end of a path is beyond every place of an extension that has none.
LEMMA TrailingPlaces ==
    ASSUME NEW S, "/" \in S, NEW a \in Seq(S), NEW ext \in Seq(S), ext # <<>>, HasNoSlash(ext)
    PROVE  LastExtension(Put(a, "/"), ext) = LastExtension(a, ext)
<1> DEFINE r == <<"/">>
           path == Cat(a, r)
           x == Len(ext)
<1>1. r \in Seq(S) /\ Continues(r) /\ Put(a, "/") = path /\ Len(r) = 1 /\ r[1] = "/"
  BY PutIsCat DEF Continues
<1>x. x \in Nat /\ x >= 1
  OBVIOUS
<1> HIDE DEF r
<1>2. path \in Seq(S) /\ Len(path) = Len(a) + Len(r) /\ Len(a) \in Nat /\ x \in Nat /\ x >= 1
  BY <1>1, <1>x, CatIs, LenIs
<1>3. path[Len(a) + 1] = "/"
  <2>1. 1 \in 1..Len(r)
    BY <1>1
  <2>2. r \in Seq(S)
    BY <1>1
  <2>3. path[Len(a) + 1] = r[1]
    BY <2>1, <2>2, CatRight
  <2> QED BY <1>1, <2>3
<1> HIDE DEF path
<1>4. ASSUME NEW p \in ExtensionAt(a, ext) PROVE p \in ExtensionAt(path, ext)
  BY <1>1, PlaceStays DEF path
<1>5. ASSUME NEW p \in ExtensionAt(path, ext) PROVE p \in ExtensionAt(a, ext)
  <2>1. p \in 1..Len(path) /\ p + x - 1 \in 1..Len(path)
    BY <1>2, FoundIs
  <2>2. x \in 1..x /\ x \in DOMAIN ext
    BY <1>2
  <2>3. path[p + x - 1] = ext[x]
    BY <1>2, <2>2, FoundAt
  <2>4. p + x - 1 # Len(a) + 1
    BY <1>3, <2>2, <2>3 DEF HasNoSlash
  <2> DEFINE l == Len(a)
  <2>5. p \in Nat /\ x \in Nat /\ l \in Nat /\ p + x - 1 \in 1..(l + 1) /\ p + x - 1 # l + 1
    BY <1>1, <1>2, <2>1, <2>4
  <2> HIDE DEF l, x
  <2>6. p + x - 1 <= l
    BY <2>5
  <2> QED BY <1>1, <2>6, PlaceInside DEF l, x, path
<1>6. ExtensionAt(path, ext) = ExtensionAt(a, ext)
  BY <1>4, <1>5
<1>7. LastExtension(path, ext) = LastExtension(a, ext)
  BY <1>6 DEF LastExtension
<1> QED BY <1>1, <1>7

LEMMA ScriptFound ==
    ASSUME NEW W, "/" \notin W, NEW s \in Seq(Names(W)),
           NEW exts \in Seq(Seq(Chars(W)) \ {<<>>}), SlashFree(exts),
           NEW path, path = Whole(s) \/ path = Put(Whole(s), "/")
    PROVE  LET n == ScriptSegment(s, exts)
           IN  /\ n \in 0..Len(s)
               /\ n = 0 => ScriptEnd(path, exts) = 0
               /\ n # 0 => ScriptEnd(path, exts) = EndOf(s, n)
<1> DEFINE w == Whole(s)
           n == ScriptSegment(s, exts)
           L == Lasts(s, exts)
           b == Leftmost(path, exts)[Len(exts)]
           at(k) == LastExtension(path, exts[k])
<1>0. /\ s \in Seq(Seq(W)) /\ w \in Seq(Chars(W)) /\ Len(s) \in Nat
      /\ "/" \in Chars(W) /\ path \in Seq(Chars(W))
  <2>1. s \in Seq(Seq(W)) /\ Len(s) \in Nat /\ "/" \in Chars(W)
    BY NamesAreSeqs, LenIs DEF Chars
  <2>2. w \in Seq(Chars(W))
    BY <2>1, WholeType
  <2>3. Put(w, "/") \in Seq(Chars(W))
    BY <2>1, <2>2, PutIs
  <2> QED BY <2>1, <2>2, <2>3
<1>w. ASSUME NEW k \in 1..Len(exts) PROVE at(k) = LastExtension(w, exts[k])
  <2>1. exts[k] \in Seq(Chars(W)) /\ exts[k] # <<>> /\ HasNoSlash(exts[k])
    BY ExtensionIs
  <2>2. LastExtension(Put(w, "/"), exts[k]) = LastExtension(w, exts[k])
    BY <1>0, <2>1, TrailingPlaces
  <2> QED BY <2>2
<1>a. DOMAIN exts = 1..Len(exts)
  OBVIOUS
<1>1. IsBest(path, exts, Len(exts), b)
  BY <1>0, LeftmostBest
<1>2. ScriptEnd(path, exts) = b.end
  BY DEF ScriptEnd
<1>3. ASSUME NEW k \in 1..Len(exts), Named(s, exts[k]) # {}
      PROVE  LET i == LastNamed(s, exts[k])
             IN  /\ i \in L /\ i \in 1..Len(s) /\ at(k) # 0
                 /\ at(k) = EndOf(s, i) - Len(exts[k]) + 1 /\ EndOf(s, i - 1) < at(k)
                 /\ at(k) \in Nat
  <2>1. exts[k] \in Seq(Chars(W)) /\ exts[k] # <<>> /\ HasNoSlash(exts[k])
    BY ExtensionIs
  <2>2. LastNamed(s, exts[k]) \in L
    BY <1>a, <1>3 DEF Lasts
  <2>3. LastNamed(s, exts[k]) \in 1..Len(s)
    BY <1>3, LastNamedIs
  <2>4. at(k) = LastExtension(w, exts[k])
    BY <1>w
  <2> HIDE DEF at
  <2> QED BY <1>3, <2>1, <2>2, <2>3, <2>4, LastPlace
<1>4. ASSUME NEW k \in 1..Len(exts), at(k) # 0 PROVE Named(s, exts[k]) # {}
  <2>1. exts[k] \in Seq(Chars(W)) /\ exts[k] # <<>> /\ HasNoSlash(exts[k])
    BY ExtensionIs
  <2>2. at(k) = LastExtension(w, exts[k])
    BY <1>w
  <2> HIDE DEF at
  <2> QED BY <1>4, <2>1, <2>2, LastPlace
<1>5. CASE b = [pos |-> 0, end |-> 0] /\ \A k \in 1..Len(exts) : at(k) = 0
  <2>1. L = {}
    BY <1>3, <1>5, <1>a DEF Lasts
  <2>2. n = 0
    BY <2>1, ScriptSegmentIs
  <2>3. b.end = 0
    BY <1>5
  <2> QED BY <1>0, <1>2, <2>2, <2>3
<1>6. CASE \E i \in 1..Len(exts) :
        Found(path, exts, i, b) /\ NotBetter(path, exts, Len(exts), b.pos)
  <2>1. PICK i \in 1..Len(exts) :
          Found(path, exts, i, b) /\ NotBetter(path, exts, Len(exts), b.pos)
    BY <1>6
  <2> DEFINE m == LastNamed(s, exts[i])
             x == Len(exts[i])
  <2> HIDE DEF b, L, n
  <2>2. at(i) # 0 /\ b.pos = at(i) /\ b.end = at(i) + x - 1
    BY <2>1 DEF Found
  <2>3. /\ m \in L /\ m \in 1..Len(s)
        /\ at(i) = EndOf(s, m) - x + 1 /\ EndOf(s, m - 1) < at(i) /\ at(i) \in Nat
    BY <1>3, <1>4, <2>2
  <2>4. /\ EndOf(s, m) \in Nat /\ EndOf(s, m - 1) \in Nat /\ x \in Nat
        /\ m \in 0..Len(s) /\ m - 1 \in 0..Len(s)
    <3>1. m \in 0..Len(s) /\ m - 1 \in 0..Len(s)
      BY <1>0, <2>3
    <3>2. exts[i] \in Seq(Chars(W))
      BY ExtensionIs
    <3> QED BY <3>1, <3>2, EndIs, LenIs
  <2>5. ASSUME NEW y \in L PROVE m <= y /\ y \in 1..Len(s)
    <3>1. PICK k \in 1..Len(exts) : Named(s, exts[k]) # {} /\ y = LastNamed(s, exts[k])
      BY <1>a DEF L, Lasts
    <3> DEFINE z == Len(exts[k])
    <3>2. /\ y \in 1..Len(s) /\ at(k) # 0 /\ at(k) \in Nat
          /\ at(k) = EndOf(s, y) - z + 1
      BY <1>3, <3>1
    <3>3. at(i) <= at(k)
      BY <2>1, <2>2, <3>2 DEF NotBetter
    <3>4. y \in 0..Len(s) /\ z \in Nat /\ z >= 1
      <4>1. exts[k] \in Seq(Chars(W)) /\ exts[k] # <<>>
        BY ExtensionIs
      <4>2. y \in 0..Len(s)
        BY <1>0, <3>2
      <4>3. z \in Nat /\ z >= 1
        BY <4>1
      <4> QED BY <4>2, <4>3
    <3>5. EndOf(s, y) \in Nat
      BY <3>4, EndIs
    <3> SUFFICES ASSUME ~ m <= y PROVE FALSE
      BY <3>2
    <3>6. m - 1 \in y..Len(s)
      <4> HIDE DEF m
      <4> QED BY <1>0, <2>3, <3>2
    <3>7. EndOf(s, y) <= EndOf(s, m - 1)
      BY <3>4, <3>6, EndsGrow
    <3> DEFINE here == at(i)
               there == at(k)
               end == EndOf(s, y)
               before == EndOf(s, m - 1)
    <3>8. /\ here <= there /\ there = end - z + 1 /\ before < here /\ end <= before
          /\ here \in Nat /\ end \in Nat /\ before \in Nat /\ z \in Nat /\ z >= 1
      BY <2>3, <2>4, <3>2, <3>3, <3>4, <3>5, <3>7
    <3> HIDE DEF here, there, end, before, z
    <3> QED BY <3>8
  <2> HIDE DEF m
  <2>6. n = CHOOSE j \in L : \A k \in L : j <= k
    BY <2>3, ScriptSegmentIs DEF n, L
  <2>7. n \in L /\ \A k \in L : n <= k
    BY <2>3, <2>5, <2>6
  <2>8. n = m
    <3>1. n \in 1..Len(s) /\ m <= n /\ n <= m
      BY <2>3, <2>5, <2>7
    <3> QED BY <2>3, <3>1
  <2>9. b.end = EndOf(s, m)
    <3> DEFINE here == at(i)
               end == EndOf(s, m)
    <3>1. b.end = here + x - 1 /\ here = end - x + 1 /\ end \in Nat /\ x \in Nat
      BY <2>2, <2>3, <2>4
    <3> HIDE DEF here, end, x
    <3>2. here + x - 1 = end
      BY <3>1
    <3> QED BY <3>1, <3>2 DEF end
  <2> QED BY <1>2, <2>3, <2>4, <2>8, <2>9 DEF n
<1> QED BY <1>1, <1>5, <1>6 DEF IsBest

-----------------------------------------------------------------------------
(***************************************************************************)
(* The file and its meta-variables.                                        *)
(***************************************************************************)
LEMMA CatSplit ==
    ASSUME NEW S, NEW s \in Seq(S), NEW t \in Seq(S)
    PROVE  Left(Cat(s, t), Len(s)) = s /\ Right(Cat(s, t), Len(s)) = t
<1> DEFINE p == Cat(s, t)
           n == Len(s)
<1>1. p \in Seq(S) /\ Len(p) = n + Len(t) /\ n \in Nat /\ Len(t) \in Nat
  BY CatIs, LenIs
<1>2. n \in 0..Len(p) /\ Len(p) - n = Len(t)
  BY <1>1
<1>3. Left(p, n) \in Seq(S) /\ Len(Left(p, n)) = n
  BY <1>1, <1>2, LeftIs
<1>4. Right(p, n) \in Seq(S) /\ Len(Right(p, n)) = Len(t)
  BY <1>1, <1>2, RightIs
<1>5. ASSUME NEW i \in 1..n PROVE Left(p, n)[i] = s[i]
  <2>1. Left(p, n)[i] = p[i]
    BY <1>1, <1>2, LeftAt
  <2> QED BY <2>1, CatLeft
<1>6. ASSUME NEW i \in 1..Len(t) PROVE Right(p, n)[i] = t[i]
  <2>1. i \in 1..(Len(p) - n)
    BY <1>2
  <2>2. Right(p, n)[i] = p[n + i]
    BY <1>1, <1>2, <2>1, RightAt
  <2> QED BY <2>2, CatRight
<1>7. Left(p, n) = s
  BY <1>3, <1>5, SameSeq
<1>8. Right(p, n) = t
  BY <1>4, <1>6, SameSeq
<1> QED BY <1>7, <1>8

\* The stack of a list depends on what comes before its end.
LEMMA StackLeft ==
    ASSUME NEW T, NEW s \in Seq(T), NEW t \in Seq(T)
    PROVE  Stacked(Cat(s, t))[Len(s)] = Stacked(s)[Len(s)]
<1> DEFINE u == Cat(s, t)
           N == {n \in Nat : Stacked(u)[n] = Stacked(s)[n]}
<1>1. u \in Seq(T) /\ Len(u) = Len(s) + Len(t) /\ Len(s) \in Nat /\ Len(t) \in Nat
  BY CatIs, LenIs
<1>2. ASSUME NEW i \in 1..Len(s) PROVE u[i] = s[i]
  BY CatLeft
<1> HIDE DEF u
<1>3. 0 \in N
  <2>1. Stacked(u)[0] = Stacked(s)[0]
    BY <1>1, StackedIs
  <2> QED BY <2>1
<1>4. ASSUME NEW n \in 0..(Len(s) - 1), n \in N PROVE n + 1 \in N
  <2>1. n + 1 \in 1..Len(s) /\ n + 1 \in 1..Len(u) /\ (n + 1) - 1 = n /\ n + 1 \in Nat
    BY <1>1
  <2>2. Stacked(s)[n + 1] = PushSegment(Stacked(s)[(n + 1) - 1], s[n + 1])
    BY <2>1, StackedIs
  <2>3. Stacked(u)[n + 1] = PushSegment(Stacked(u)[(n + 1) - 1], u[n + 1])
    BY <1>1, <2>1, StackedIs
  <2>4. Stacked(u)[n] = Stacked(s)[n]
    BY <1>4
  <2>5. Stacked(u)[n + 1] = Stacked(s)[n + 1]
    BY <1>2, <2>1, <2>2, <2>3, <2>4
  <2> QED BY <2>1, <2>5
<1> HIDE DEF N
<1>5. 0..Len(s) \subseteq N
  BY <1>1, <1>3, <1>4, IntervalInduction
<1>6. Len(s) \in 0..Len(s)
  BY <1>1
<1>7. Len(s) \in N
  BY <1>5, <1>6
<1> QED BY <1>7 DEF N, u

\* One more segment, on a stack without dots.
LEMMA StackPut ==
    ASSUME NEW T, NEW s \in Seq(T \ Dots), NEW x \in T
    PROVE  Stacked(Put(s, x))[Len(Put(s, x))] = PushSegment([ok |-> TRUE, stack |-> s], x)
<1> DEFINE t == <<x>>
           u == Put(s, x)
<1>1. s \in Seq(T) /\ t \in Seq(T)
  OBVIOUS
<1>2. u = Cat(s, t) /\ u \in Seq(T) /\ Len(u) = Len(s) + 1 /\ u[Len(s) + 1] = x /\ Len(s) \in Nat
  BY <1>1, PutIsCat, PutIs, LenIs
<1>3. Stacked(Cat(s, t))[Len(s)] = Stacked(s)[Len(s)]
  BY <1>1, StackLeft
<1>4. Stacked(s)[Len(s)] = [ok |-> TRUE, stack |-> s]
  BY StackPlain
<1> HIDE DEF u
<1>5. Len(s) + 1 \in 1..Len(u) /\ (Len(s) + 1) - 1 = Len(s)
  BY <1>2
<1>6. Stacked(u)[Len(s) + 1] = PushSegment(Stacked(u)[(Len(s) + 1) - 1], u[Len(s) + 1])
  BY <1>2, <1>5, StackedIs
<1> QED BY <1>2, <1>3, <1>4, <1>5, <1>6 DEF u

\* The segments that follow without dots end up on top of the stack.
LEMMA StackCat ==
    ASSUME NEW T, NEW s \in Seq(T), NEW t \in Seq(T \ Dots)
    PROVE  Stacked(Cat(s, t))[Len(Cat(s, t))].stack = Cat(Stacked(s)[Len(s)].stack, t)
<1> DEFINE u == Cat(s, t)
           a == Stacked(s)[Len(s)].stack
           M == {n \in Nat : Stacked(u)[Len(s) + n].stack = Cat(a, Left(t, n))}
<1>0. t \in Seq(T)
  OBVIOUS
<1>1. u \in Seq(T) /\ Len(u) = Len(s) + Len(t) /\ Len(s) \in Nat /\ Len(t) \in Nat
  BY <1>0, CatIs, LenIs
<1>2. a \in Seq(T \ Dots)
  BY StackType
<1>b. ASSUME NEW i \in 1..Len(t) PROVE u[Len(s) + i] = t[i]
  BY <1>0, CatRight
<1> HIDE DEF u
<1>6. Stacked(u)[Len(s)] = Stacked(s)[Len(s)]
  BY <1>0, StackLeft DEF u
<1>7. 0 \in M
  <2>1. Left(t, 0) = <<>> /\ Cat(a, <<>>) = a
    BY <1>2, LeftEnds, CatEmpty
  <2>2. Stacked(u)[Len(s) + 0].stack = Cat(a, Left(t, 0))
    BY <1>1, <1>6, <2>1
  <2> QED BY <2>2
<1> HIDE DEF a
<1>8. ASSUME NEW n \in 0..(Len(t) - 1), n \in M PROVE n + 1 \in M
  <2>1. /\ n + 1 \in 1..Len(t) /\ n + 1 \in Nat /\ t[n + 1] \in T \ Dots /\ n \in 0..Len(t)
        /\ Len(s) + (n + 1) \in 1..Len(u) /\ (Len(s) + (n + 1)) - 1 = Len(s) + n
    BY <1>1
  <2> DEFINE x == Stacked(u)[Len(s) + n]
             y == t[n + 1]
             z == Stacked(u)[Len(s) + (n + 1)]
  <2>2. z = PushSegment(Stacked(u)[(Len(s) + (n + 1)) - 1], u[Len(s) + (n + 1)])
    BY <1>1, <2>1, StackedIs
  <2>3. z = PushSegment(x, y)
    BY <1>b, <2>1, <2>2
  <2>4. x.stack = Cat(a, Left(t, n))
    BY <1>8
  <2>5. Left(t, n + 1) = Put(Left(t, n), y) /\ Left(t, n) \in Seq(T \ Dots)
    BY <2>1, LeftNext, LeftIs
  <2>6. y \in T \ Dots
    BY <2>1
  <2> HIDE DEF x, y, z
  <2>7. z.stack = Put(x.stack, y)
    BY <2>3, <2>6 DEF PushSegment, Put, Dots
  <2>8. Put(Cat(a, Left(t, n)), y) = Cat(a, Put(Left(t, n), y))
    BY <1>2, <2>5, <2>6, CatPut
  <2>9. z.stack = Cat(a, Left(t, n + 1))
    BY <2>4, <2>5, <2>7, <2>8
  <2> QED BY <2>1, <2>9 DEF z
<1> HIDE DEF M
<1>9. 0..Len(t) \subseteq M
  BY <1>1, <1>7, <1>8, IntervalInduction
<1>10. Len(t) \in M
  <2>1. Len(t) \in 0..Len(t)
    BY <1>1
  <2> QED BY <1>9, <2>1
<1>11. Left(t, Len(t)) = t
  BY LeftEnds
<1>12. Stacked(u)[Len(s) + Len(t)].stack = Cat(a, t)
  BY <1>10, <1>11 DEF M
<1> QED BY <1>1, <1>12 DEF a, u

LEMMA WholeLast ==
    ASSUME NEW W, "/" \notin W, NEW s \in Seq(Names(W)), s # <<>>
    PROVE  /\ Whole(s) \in Seq(Chars(W)) /\ Whole(s) # <<>> /\ Continues(Whole(s))
           /\ Last(Whole(s)) # "/"
<1> DEFINE n == Len(s) - 1
           q == EndOf(s, n)
           l == Len(s[n + 1])
           none == <<>>
<1>0. s \in Seq(Seq(W)) /\ Len(s) \in Nat /\ Len(s) >= 1
  BY NamesAreSeqs
<1>1. n \in 0..(Len(s) - 1) /\ n + 1 = Len(s) /\ Len(s) \in 0..Len(s)
  BY <1>0
<1>2. EndOf(s, n + 1) = q + 1 + l /\ q \in Nat
  BY <1>1, EndNext
<1>3. EndOf(s, Len(s)) = Len(Whole(s))
  BY <1>1, EndIs
<1>4. l \in Nat /\ l >= 1
  BY <1>1, NamesIn
<1>5. l \in 1..l /\ Len(Whole(s)) = q + (1 + l)
  BY <1>1, <1>2, <1>3, <1>4
<1>6. Whole(s)[q + (1 + l)] = s[n + 1][l] /\ s[n + 1][l] \in W
  BY <1>1, <1>5, CharOf
<1>7. Last(Whole(s)) # "/"
  BY <1>5, <1>6 DEF Last
<1>8. Whole(s) \in Seq(Chars(W)) /\ Continues(Whole(s)) /\ Whole(s) # none
  BY <1>0, WholeType, WholeStarts
<1> QED BY <1>7, <1>8

LEMMA LastCat ==
    ASSUME NEW S, NEW s \in Seq(S), NEW t \in Seq(S), t # <<>>
    PROVE  Last(Cat(s, t)) = Last(t)
<1>1. Len(Cat(s, t)) = Len(s) + Len(t)
  BY CatIs
<1>2. Len(t) \in 1..Len(t)
  OBVIOUS
<1>3. Cat(s, t)[Len(s) + Len(t)] = t[Len(t)]
  BY <1>2, CatRight
<1> QED BY <1>1, <1>3 DEF Last

\* A path without dots is put, as it is, under what is left of its root.
LEMMA NormalizeUnder ==
    ASSUME NEW W, "/" \notin W, NEW root \in Seq(Chars(W)),
           NEW b \in Seq(Names(W) \ Dots), b # <<>>
    PROVE  NormalizePathBySegments(Cat(root, Whole(b)))
             = Cat(Whole(SegmentStack(root).stack), Whole(b))
<1> DEFINE w == Whole(b)
           full == Cat(root, w)
           s == SplitPathSegments(root)
           a == SegmentStack(root).stack
           T == Names(W)
           none == <<>>
<1>0. b \in Seq(T \ Dots)
  OBVIOUS
<1>1. b \in Seq(T)
  OBVIOUS
<1>2. w \in Seq(Chars(W)) /\ w # none /\ Continues(w) /\ Last(w) # "/"
  BY <1>1, WholeLast
<1>3. SplitPathSegments(w) = b
  BY <1>1, SplitWhole
<1>4. SplitPathSegments(full) = Cat(s, b)
  BY <1>2, <1>3, SplitCat
<1>5. s \in Seq(T)
  BY SplitType
<1>6. a = Stacked(s)[Len(s)].stack
  BY DEF SegmentStack
<1>7. Stacked(Cat(s, b))[Len(Cat(s, b))].stack = Cat(Stacked(s)[Len(s)].stack, b)
  <2> HIDE DEF T, s
  <2> QED BY <1>0, <1>5, StackCat
<1>8. SegmentStack(full).stack = Cat(a, b)
  BY <1>4, <1>6, <1>7 DEF SegmentStack
<1>9. a \in Seq(T)
  BY NormalizeType
<1>10. a \in Seq(Seq(W)) /\ b \in Seq(Seq(W))
  BY <1>1, <1>9, NamesAreSeqs
<1>11. Last(full) # "/"
  <2> HIDE DEF w
  <2> QED BY <1>2, LastCat
<1>12. NormalizePathBySegments(full) = Rebuilt(Cat(a, b))
  <2>1. NormalizePathBySegments(full) =
          IF Last(full) = "/" /\ Last(Rebuilt(SegmentStack(full).stack)) # "/"
          THEN Put(Rebuilt(SegmentStack(full).stack), "/") ELSE Rebuilt(SegmentStack(full).stack)
    BY NormalizeIs
  <2> HIDE DEF a, full
  <2> QED BY <1>8, <1>11, <2>1
<1> HIDE DEF a, w
<1>13. Cat(a, b) # none
  <2>1. Len(Cat(a, b)) = Len(a) + Len(b) /\ Len(a) \in Nat /\ Len(b) \in Nat
    BY <1>10, CatIs, LenIs
  <2>2. Len(b) >= 1
    BY <1>1
  <2>3. Len(Cat(a, b)) >= 1
    BY <2>1, <2>2
  <2> DEFINE c == Cat(a, b)
  <2>4. Len(c) >= 1
    BY <2>3
  <2> HIDE DEF c
  <2>5. c # none
    BY <2>4
  <2> QED BY <2>5 DEF c
<1>14. Rebuilt(Cat(a, b)) = Whole(Cat(a, b))
  BY <1>13 DEF Rebuilt
<1>15. Whole(Cat(a, b)) = Cat(Whole(a), w)
  BY <1>10, WholeCat DEF w
<1> QED BY <1>12, <1>14, <1>15 DEF a, w

(***************************************************************************)
(* Where a script is found.                                                *)
(***************************************************************************)
LEMMA ScriptPlace ==
    ASSUME NEW S, NEW path \in Seq(S), NEW exts \in Seq(Seq(S) \ {<<>>}),
           ScriptEnd(path, exts) # 0
    PROVE  \E i \in 1..Len(exts) : \E p \in ExtensionAt(path, exts[i]) :
             ScriptEnd(path, exts) = p + Len(exts[i]) - 1
<1> DEFINE b == Leftmost(path, exts)[Len(exts)]
<1>1. IsBest(path, exts, Len(exts), b)
  BY LeftmostBest
<1>2. ScriptEnd(path, exts) = b.end
  BY DEF ScriptEnd
<1> HIDE DEF b
<1>3. b # [pos |-> 0, end |-> 0]
  BY <1>2
<1>4. PICK i \in 1..Len(exts) : Found(path, exts, i, b)
  BY <1>1, <1>3 DEF IsBest
<1> DEFINE x == exts[i]
           p == LastExtension(path, x)
<1>5. x \in Seq(S) /\ x # <<>>
  OBVIOUS
<1>6. p # 0 /\ b.end = p + Len(x) - 1
  BY <1>4 DEF Found
<1> HIDE DEF x
<1>7. p \in ExtensionAt(path, x)
  BY <1>5, <1>6, LastExtensionIs DEF IsLast
<1> QED BY <1>2, <1>6, <1>7 DEF x

LEMMA NoScript ==
    ASSUME NEW S, NEW path \in Seq(S), NEW exts \in Seq(Seq(S) \ {<<>>}),
           ScriptEnd(path, exts) = 0, NEW i \in 1..Len(exts)
    PROVE  ExtensionAt(path, exts[i]) = {}
<1> DEFINE b == Leftmost(path, exts)[Len(exts)]
           at(k) == LastExtension(path, exts[k])
<1>1. IsBest(path, exts, Len(exts), b)
  BY LeftmostBest
<1>2. b.end = 0
  BY DEF ScriptEnd
<1>3. ASSUME NEW k \in 1..Len(exts)
      PROVE  \/ at(k) = 0 /\ ExtensionAt(path, exts[k]) = {}
             \/ at(k) \in Nat /\ at(k) >= 1 /\ Len(exts[k]) \in Nat /\ Len(exts[k]) >= 1
  <2>1. exts[k] \in Seq(S) /\ exts[k] # <<>>
    OBVIOUS
  <2>2. \/ at(k) = 0 /\ ExtensionAt(path, exts[k]) = {}
        \/ at(k) \in 1..Len(path)
    BY <2>1, LastExtensionIs
  <2>3. Len(exts[k]) \in Nat /\ Len(exts[k]) >= 1 /\ Len(path) \in Nat
    BY <2>1
  <2> HIDE DEF at
  <2> QED BY <2>2, <2>3
<1> HIDE DEF b
<1>4. ~ \E k \in 1..Len(exts) : Found(path, exts, k, b)
  <2> SUFFICES ASSUME NEW k \in 1..Len(exts), Found(path, exts, k, b) PROVE FALSE
    OBVIOUS
  <2> DEFINE here == at(k)
             x == Len(exts[k])
  <2>1. here # 0 /\ b.end = here + x - 1
    BY DEF Found
  <2>2. here \in Nat /\ here >= 1 /\ x \in Nat /\ x >= 1
    BY <1>3, <2>1
  <2> HIDE DEF here, x
  <2> QED BY <1>2, <2>1, <2>2
<1>5. at(i) = 0
  BY <1>1, <1>4 DEF IsBest
<1>6. ExtensionAt(path, exts[i]) = {} \/ at(i) >= 1
  BY <1>3
<1> QED BY <1>5, <1>6

\* The path is the file executed and what follows it.
LEMMA SplitAt ==
    ASSUME NEW S, NEW path \in Seq(S), NEW exts \in Seq(Seq(S) \ {<<>>}), ScriptEnd(path, exts) # 0
    PROVE  LET e == ScriptEnd(path, exts)
           IN  /\ e \in 1..Len(path) /\ e \in 0..Len(path) /\ EndsSegment(path, e)
               /\ ExecutablePath(path, exts) = Left(path, e)
               /\ path = Cat(Left(path, e), Right(path, e))
               /\ Right(path, e) \in Seq(S) /\ Left(path, e) \in Seq(S) /\ Continues(Right(path, e))
<1> DEFINE e == ScriptEnd(path, exts)
           r == Right(path, e)
<1>1. EndsSegment(path, e)
  BY ScriptEndIs
<1>2. /\ e \in 1..Len(path) /\ e \in 0..Len(path) /\ Len(path) \in Nat
      /\ e = Len(path) \/ path[e + 1] = "/"
  BY <1>1 DEF EndsSegment
<1>3. ExecutablePath(path, exts) = Left(path, e)
  BY DEF ExecutablePath, Left
<1> HIDE DEF e
<1>4. /\ path = Cat(Left(path, e), r) /\ r \in Seq(S) /\ Left(path, e) \in Seq(S)
      /\ Len(r) = Len(path) - e
  BY <1>2, LeftRight, LeftIs, RightIs
<1>5. ASSUME e # Len(path) PROVE r[1] = "/"
  <2>1. 1 \in 1..(Len(path) - e)
    BY <1>2, <1>5
  <2>2. r[1] = path[e + 1]
    BY <1>2, <2>1, RightAt
  <2> QED BY <1>2, <1>5, <2>2
<1> HIDE DEF r
<1>6. Continues(r)
  <2>1. CASE e = Len(path)
    <3>1. Len(r) = 0
      BY <1>2, <1>4, <2>1
    <3>2. r = <<>>
      BY <1>4, <3>1
    <3> QED BY <3>2 DEF Continues
  <2> QED BY <1>5, <2>1 DEF Continues
<1> QED BY <1>1, <1>2, <1>3, <1>4, <1>6 DEF e, r

-----------------------------------------------------------------------------
(***************************************************************************)
(* The request of a CgiExecutor.                                           *)
(***************************************************************************)
NameChars == Characters \ {"/"}

\* The path that the constructor is given, and before RequestHandler normalises it.
Given == ScriptPath(req, req.uri)

Ungiven ==
    IF req.directory THEN WithIndex(Resolve(req, req.uri), req.index) ELSE FullPath(req, req.uri)

MetaVars ==
    LET n == ScriptEnd(Given, req.extensions)
        pathInfo == SubSeq(Given, n + 1, Len(Given))
    IN  IF n = 0 THEN [scriptName |-> req.uri, pathInfo |-> <<>>]
        ELSE [scriptName |-> ScriptName(pathInfo), pathInfo |-> pathInfo]

\* The constructor has set script_path_ and the meta-variables; nothing changes
\* them later.
PathInv ==
    /\ req \in Requests
    /\ point = "construct" => script = Given
    /\ point # "construct" => script = ExecutablePath(Given, req.extensions) /\ meta = MetaVars

LEMMA PathInit == Init => PathInv
  BY DEF Init, PathInv, Given

LEMMA PathStep == PathInv /\ [Next]_vars => PathInv'
<1> SUFFICES ASSUME PathInv, [Next]_vars PROVE PathInv'
  OBVIOUS
<1>1. CASE InitializeMetaVars
  <2>1. point = "construct" /\ script = Given /\ req' = req /\ point' = "run"
    BY <1>1 DEF InitializeMetaVars, PathInv
  <2>2. Given' = Given /\ MetaVars' = MetaVars
    BY <2>1 DEF Given, MetaVars, ScriptName
  <2>3. script' = ExecutablePath(Given, req.extensions)
    BY <1>1, <2>1 DEF InitializeMetaVars
  <2>4. meta' = MetaVars
    BY <1>1, <2>1 DEF InitializeMetaVars, MetaVars
  <2> QED BY <2>1, <2>2, <2>3, <2>4 DEF PathInv
<1>2. ASSUME req' = req, script' = script, meta' = meta,
             point' = point \/ (point # "construct" /\ point' # "construct")
      PROVE  PathInv'
  <2>1. Given' = Given /\ MetaVars' = MetaVars
    BY <1>2 DEF Given, MetaVars, ScriptName
  <2> QED BY <1>2, <2>1 DEF PathInv
<1>3. CASE Forbidden \/ SocketpairFails \/ Socketpair \/ ForkFails \/ Fork \/ NewCgiSocket
  BY <1>2, <1>3 DEF Forbidden, SocketpairFails, Socketpair, ForkFails, Fork, NewCgiSocket
<1>4. CASE Send \/ Return
  BY <1>2, <1>4 DEF Send, Return
<1>5. CASE Child
  BY <1>2, <1>5 DEF Child, Exec, Leave, Read
<1>6. CASE UNCHANGED vars
  BY <1>2, <1>6 DEF vars
<1> QED BY <1>1, <1>3, <1>4, <1>5, <1>6 DEF Next, Run

LEMMA PathAlways == Spec => []PathInv
  BY PathInit, PathStep, PTL DEF Spec

LEMMA AnyChars == Chars(NameChars) = Characters /\ "/" \notin NameChars
<1>1. "/" \in Characters
  BY RequestsAssumption
<1> QED BY <1>1 DEF Chars, NameChars

LEMMA RequestIs ==
    ASSUME PathInv
    PROVE  /\ req.uri \in Seq(Chars(NameChars)) /\ req.root \in Seq(Chars(NameChars))
           /\ req.name \in Seq(Chars(NameChars)) /\ req.name # <<>>
           /\ req.index \in Seq(NameChars)
           /\ req.uri # <<>> /\ req.uri[1] = "/"
           /\ IsPathPrefix(UriKey(req.uri), LocKey(req))
           /\ ~ req.directory => Last(req.uri) # "/"
           /\ req.directory => req.index # <<>>
           /\ req.extensions \in Seq(Seq(Chars(NameChars)) \ {<<>>})
<1>1. req \in Requests
  BY DEF PathInv
<1>2. /\ {req.uri, req.name, req.root} \subseteq Seq(Characters)
      /\ req.uri # <<>> /\ req.uri[1] = "/"
      /\ req.name # <<>>
      /\ IsPathPrefix(UriKey(req.uri), LocKey(req))
      /\ req.index \in Seq(Characters \ {"/"})
      /\ req.extensions \in Seq(Seq(Characters) \ {<<>>})
      /\ Last(req.uri) = "/" => req.directory
      /\ req.directory => req.index # <<>>
  BY <1>1, RequestsAssumption
<1> QED BY <1>2, AnyChars DEF NameChars

\* What a location leaves of a path begins with "/".
LEMMA RemainderType ==
    ASSUME NEW W, NEW u \in Seq(Chars(W)), NEW k \in Seq(Chars(W)), u # <<>>, IsPathPrefix(u, k)
    PROVE  /\ RemainderOf(u, k) \in Seq(Chars(W)) /\ RemainderOf(u, k) # <<>>
           /\ Len(k) \in 0..Len(u)
<1> DEFINE n == Len(k)
           rest == Right(u, n)
           none == <<>>
<1>1. n \in 0..Len(u)
  <2>1. CASE k = <<"/">>
    <3>1. n = 1 /\ Len(u) \in Nat \ {0}
      BY <2>1
    <3> QED BY <3>1
  <2>2. CASE IsPrefix(k, u)
    BY <2>2, CatOfPrefix
  <2> QED BY <2>1, <2>2 DEF IsPathPrefix
<1>2. rest \in Seq(Chars(W))
  BY <1>1, RightIs
<1>3. RemainderOf(u, k) = IF rest = none \/ rest[1] # "/" THEN Slash(rest) ELSE rest
  BY DEF RemainderOf, Right, Slash, Cat
<1> HIDE DEF rest
<1>4. Slash(rest) \in Seq(Chars(W)) /\ Slash(rest) # none
  <2>1. Chars(Chars(W)) = Chars(W)
    BY DEF Chars
  <2> QED BY <1>2, <2>1, SlashIs
<1> QED BY <1>1, <1>2, <1>3, <1>4

LEMMA FullPathIs ==
    ASSUME PathInv
    PROVE  /\ FullPath(req, req.uri) = Cat(req.root, RemainderOf(UriKey(req.uri), LocKey(req)))
           /\ FullPath(req, req.uri) \in Seq(Chars(NameChars))
           /\ LocKey(req) \in Seq(Chars(NameChars))
           /\ Len(LocKey(req)) \in 0..Len(UriKey(req.uri))
<1> DEFINE W == NameChars
           k == LocKey(req)
           u == UriKey(req.uri)
<1>1. /\ req.uri \in Seq(Chars(W)) /\ req.root \in Seq(Chars(W)) /\ req.name \in Seq(Chars(W))
      /\ req.uri # <<>> /\ req.name # <<>> /\ IsPathPrefix(u, k)
  BY RequestIs
<1>2. k \in Seq(Chars(W)) /\ u \in Seq(Chars(W))
  BY <1>1, TrimOver DEF LocKey, UriKey
<1>3. u # <<>>
  <2>1. PICK n \in 1..Len(req.uri) : u = Left(req.uri, n)
    BY <1>1, TrimIs DEF UriKey
  <2>2. n \in 0..Len(req.uri) /\ n # 0
    BY <1>1, <2>1
  <2>3. Len(u) = n
    BY <1>1, <2>1, <2>2, LeftIs
  <2>4. Len(u) # 0
    BY <2>2, <2>3
  <2> HIDE DEF u
  <2> QED BY <2>4
<1> HIDE DEF W, k, u
<1>4. RemainderOf(u, k) \in Seq(Chars(W)) /\ Len(k) \in 0..Len(u)
  BY <1>1, <1>2, <1>3, RemainderType
<1>5. FullPath(req, req.uri) = Cat(req.root, RemainderOf(u, k))
  BY DEF FullPath, Cat, u, k
<1>6. Cat(req.root, RemainderOf(u, k)) \in Seq(Chars(W))
  BY <1>1, <1>4, CatIs
<1> QED BY <1>2, <1>4, <1>5, <1>6 DEF W, k, u

\* With its slash at the end or without, a resolved path is its segments, joined;
\* and they are those of the path it comes from, normalised.
LEMMA NormalForm ==
    ASSUME NEW W, "/" \notin W, NEW p \in Seq(Chars(W))
    PROVE  LET q == NormalizePathBySegments(p)
               s == SegmentStack(p).stack
           IN  /\ q \in Seq(Chars(W)) /\ s \in Seq(Names(W)) /\ s \in Seq(Names(W) \ Dots)
               /\ SplitPathSegments(q) = s
               /\ s = <<>> => q = <<"/">>
               /\ s # <<>> => q = Whole(s) \/ q = Put(Whole(s), "/")
               /\ Last(p) # "/" => q = Rebuilt(s)
               /\ Last(p) = "/" => q = Put(Whole(s), "/")
<1> DEFINE q == NormalizePathBySegments(p)
           s == SegmentStack(p).stack
           none == <<>>
           one == <<"/">>
<1>1. /\ q \in Seq(Chars(W)) /\ s \in Seq(Names(W)) /\ s \in Seq(Names(W) \ Dots)
      /\ SplitPathSegments(q) = s
  BY NormalizeType
<1>2. q = IF Last(p) = "/" /\ Last(Rebuilt(s)) # "/" THEN Put(Rebuilt(s), "/") ELSE Rebuilt(s)
  BY NormalizeIs
<1> HIDE DEF q, s
<1>3. CASE s = none
  <2>1. Rebuilt(s) = one
    BY <1>3 DEF Rebuilt
  <2>2. Last(one) = "/"
    BY DEF Last
  <2>3. Whole(s) = none
    BY <1>1, <1>3, NamesAreSeqs, WholeStarts
  <2>4. Put(none, "/") = one
    BY DEF Put
  <2> QED BY <1>1, <1>2, <1>3, <2>1, <2>2, <2>3, <2>4 DEF q, s
<1>4. CASE s # none
  <2>1. Rebuilt(s) = Whole(s)
    BY <1>4 DEF Rebuilt
  <2>2. Last(Whole(s)) # "/"
    BY <1>1, <1>4, WholeLast
  <2> QED BY <1>1, <1>2, <1>4, <2>1, <2>2 DEF q, s
<1> QED BY <1>3, <1>4

\* A resolved path lies below its segments, joined.
LEMMA BelowNormal ==
    ASSUME NEW W, "/" \notin W, NEW p \in Seq(Chars(W))
    PROVE  Below(Whole(SegmentStack(p).stack), NormalizePathBySegments(p))
<1> DEFINE q == NormalizePathBySegments(p)
           s == SegmentStack(p).stack
           a == Whole(s)
           none == <<>>
           one == <<"/">>
<1>1. /\ s \in Seq(Names(W))
      /\ s = none => q = one
      /\ s # none => q = a \/ q = Put(a, "/")
  BY NormalForm
<1> HIDE DEF q, s
<1>2. a \in Seq(Chars(W)) /\ (s = none => a = none)
  <2>1. s \in Seq(Seq(W))
    BY <1>1, NamesAreSeqs
  <2> QED BY <2>1, WholeType, WholeStarts
<1>3. one \in Seq(Chars(W)) /\ none \in Seq(Chars(W)) /\ Continues(one) /\ Continues(none)
  BY DEF Chars, Continues
<1>4. q = Cat(a, one) \/ q = Cat(a, none)
  <2>1. "/" \in Chars(W)
    BY DEF Chars
  <2>2. Cat(a, none) = a /\ Put(a, "/") = Cat(a, one) /\ Cat(none, one) = one
    BY <1>2, <1>3, <2>1, CatEmpty, PutIsCat
  <2> QED BY <1>1, <1>2, <2>2
<1> HIDE DEF a, one, none
<1>5. Below(a, Cat(a, one)) /\ Below(a, Cat(a, none))
  BY <1>2, <1>3, BelowCat
<1>6. Below(a, q)
  BY <1>4, <1>5
<1> QED BY <1>6 DEF a, q, s

\* The path of a request is its segments, joined, and a slash perhaps.
LEMMA GivenIs ==
    ASSUME PathInv
    PROVE  /\ Given \in Seq(Chars(NameChars))
           /\ SplitPathSegments(Given) \in Seq(Names(NameChars))
           /\ SplitPathSegments(Given) = <<>> => Given = <<"/">>
           /\ SplitPathSegments(Given) # <<>> =>
                \/ Given = Whole(SplitPathSegments(Given))
                \/ Given = Put(Whole(SplitPathSegments(Given)), "/")
<1> DEFINE W == NameChars
           p == Ungiven
           dir == Resolve(req, req.uri)
<1>1. "/" \notin W /\ FullPath(req, req.uri) \in Seq(Chars(W)) /\ req.index \in Seq(W)
  BY AnyChars, FullPathIs, RequestIs
<1>2. dir \in Seq(Chars(W))
  BY <1>1, NormalizeType DEF Resolve
<1> HIDE DEF dir
<1>3. WithIndex(dir, req.index) \in Seq(Chars(W))
  <2> DEFINE d == IF Last(dir) = "/" THEN dir ELSE Put(dir, "/")
  <2>1. "/" \in Chars(W) /\ req.index \in Seq(Chars(W))
    BY <1>1 DEF Chars
  <2>2. WithIndex(dir, req.index) = Cat(d, req.index)
    BY DEF WithIndex, Put, Cat
  <2>3. d \in Seq(Chars(W))
    BY <1>2, <2>1, PutIs
  <2> HIDE DEF d
  <2> QED BY <2>1, <2>2, <2>3, CatIs
<1>4. p \in Seq(Chars(W))
  BY <1>1, <1>3 DEF Ungiven, dir
<1>5. Given = NormalizePathBySegments(p)
  BY DEF Given, Ungiven, ScriptPath, Resolve
<1> HIDE DEF W, p
<1> DEFINE s == SegmentStack(p).stack
<1>6. /\ Given \in Seq(Chars(W)) /\ s \in Seq(Names(W))
      /\ SplitPathSegments(Given) = s
      /\ s = <<>> => Given = <<"/">>
      /\ s # <<>> => Given = Whole(s) \/ Given = Put(Whole(s), "/")
  BY <1>1, <1>4, <1>5, NormalForm
<1> HIDE DEF s
<1> QED BY <1>6 DEF W

LEMMA MetaVarsIs ==
    ASSUME NEW n, n = ScriptEnd(Given, req.extensions)
    PROVE  /\ n = 0 => MetaVars.scriptName = req.uri /\ MetaVars.pathInfo = <<>>
           /\ n # 0 => /\ MetaVars.scriptName = ScriptName(Right(Given, n))
                       /\ MetaVars.pathInfo = Right(Given, n)
  BY DEF MetaVars, Right

\* Without a slash in its extensions, nothing is found in "/".
LEMMA NoneInRoot ==
    ASSUME NEW W, NEW exts \in Seq(Seq(Chars(W)) \ {<<>>}), SlashFree(exts)
    PROVE  ScriptEnd(<<"/">>, exts) = 0
<1> DEFINE path == <<"/">>
<1>0. path \in Seq(Chars(W)) /\ Len(path) = 1 /\ path[1] = "/"
  BY DEF Chars
<1> HIDE DEF path
<1>1. ASSUME ScriptEnd(path, exts) # 0 PROVE FALSE
  <2>1. PICK i \in 1..Len(exts) : \E p \in ExtensionAt(path, exts[i]) : TRUE
    BY <1>0, <1>1, ScriptPlace
  <2>2. PICK p \in ExtensionAt(path, exts[i]) : TRUE
    BY <2>1
  <2> DEFINE x == exts[i]
  <2>3. x \in Seq(Chars(W)) /\ x # <<>> /\ HasNoSlash(x)
    BY ExtensionIs
  <2> HIDE DEF x
  <2>4. p \in 1..Len(path) /\ p \in ExtensionAt(path, x)
    BY <1>0, <2>2, <2>3, FoundIs DEF x
  <2>5. 1 \in 1..Len(x) /\ 1 \in DOMAIN x
    BY <2>3
  <2>6. path[p + 1 - 1] = x[1]
    BY <1>0, <2>3, <2>4, <2>5, FoundAt
  <2>7. p = 1 /\ p + 1 - 1 = 1
    BY <1>0, <2>4
  <2> QED BY <1>0, <2>3, <2>5, <2>6, <2>7 DEF HasNoSlash
<1> QED BY <1>1 DEF path

LEMMA SplitsIs == PathInv => SplitsAtSegment
<1> DEFINE segments == SplitPathSegments(Given)
           exts == req.extensions
           n == ScriptSegment(segments, exts)
           e == ScriptEnd(Given, exts)
           none == <<>>
<1> SUFFICES ASSUME PathInv, point # "construct", SlashFree(exts)
             PROVE  /\ Cat(script, meta.pathInfo) = Given
                    /\ n # 0 => SplitPathSegments(script) = Left(segments, n)
                    /\ n = 0 => script = Given
                    /\ meta.pathInfo # none => meta.pathInfo[1] = "/"
  BY DEF SplitsAtSegment, Given, Cat, Left
<1>1. script = ExecutablePath(Given, exts) /\ meta = MetaVars
  BY DEF PathInv
<1>2. /\ Given \in Seq(Chars(NameChars)) /\ segments \in Seq(Names(NameChars))
      /\ segments = none => Given = <<"/">>
      /\ segments # none => Given = Whole(segments) \/ Given = Put(Whole(segments), "/")
      /\ exts \in Seq(Seq(Chars(NameChars)) \ {none}) /\ "/" \notin NameChars
  BY GivenIs, RequestIs, AnyChars
<1>3. /\ n \in 0..Len(segments)
      /\ n = 0 /\ segments # none => ScriptEnd(Given, exts) = 0
      /\ n # 0 => ScriptEnd(Given, exts) = EndOf(segments, n) /\ segments # none
  <2> DEFINE w == Whole(segments)
  <2>0. w = Whole(segments)
    OBVIOUS
  <2>1. n \in 0..Len(segments)
    BY <1>2, <2>0, ScriptFound
  <2>2. segments = none => n = 0
    BY <2>1
  <2>3. ASSUME segments # none
        PROVE  /\ n = 0 => ScriptEnd(Given, exts) = 0
               /\ n # 0 => ScriptEnd(Given, exts) = EndOf(segments, n)
    BY <1>2, <2>3, ScriptFound
  <2> HIDE DEF n, segments
  <2> QED BY <2>1, <2>2, <2>3
<1> HIDE DEF n, e, segments, none
<1>4. CASE n = 0
  <2>1. e = 0
    <3>1. CASE segments = <<>>
      <4>1. Given = <<"/">>
        BY <1>2, <3>1 DEF none
      <4>2. ScriptEnd(<<"/">>, exts) = 0
        BY <1>2, NoneInRoot DEF none
      <4> QED BY <4>1, <4>2 DEF e
    <3>2. CASE segments # <<>>
      BY <1>3, <1>4, <3>2 DEF e, none
    <3> QED BY <3>1, <3>2
  <2>2. script = Given
    BY <1>1, <2>1 DEF ExecutablePath, e
  <2>3. meta.pathInfo = none
    BY <1>1, <2>1, MetaVarsIs DEF e, none
  <2>4. Cat(Given, none) = Given
    BY <1>2, CatEmpty DEF none
  <2> QED BY <1>4, <2>2, <2>3, <2>4
<1>5. CASE n # 0
  <2>1. Given = Whole(segments) \/ Given = Put(Whole(segments), "/")
    BY <1>2, <1>3, <1>5
  <2>3. e = EndOf(segments, n)
    BY <1>3, <1>5 DEF e
  <2>4. segments \in Seq(Seq(NameChars))
    BY <1>2, NamesAreSeqs
  <2> DEFINE first == Join(segments)[n]
             rest == Whole(Right(segments, n))
  <2>5. /\ first = Whole(Left(segments, n)) /\ first \in Seq(Chars(NameChars))
        /\ Whole(segments) = Cat(first, rest) /\ rest \in Seq(Chars(NameChars))
    BY <1>3, <2>4, JoinLeft
  <2>6. e = Len(first)
    BY <2>3 DEF EndOf
  <2>7. e # 0
    <3>1. n - 1 \in 0..(Len(segments) - 1) /\ (n - 1) + 1 = n /\ Len(segments) \in Nat
      BY <1>2, <1>3, <1>5
    <3>2. /\ EndOf(segments, (n - 1) + 1) = EndOf(segments, n - 1) + 1 + Len(segments[(n - 1) + 1])
          /\ EndOf(segments, n - 1) \in Nat /\ Len(segments[(n - 1) + 1]) \in Nat
      BY <1>2, <3>1, EndNext, NamesIn
    <3> DEFINE m == EndOf(segments, n - 1)
               l == Len(segments[(n - 1) + 1])
    <3>3. e = m + 1 + l /\ m \in Nat /\ l \in Nat
      BY <2>3, <3>1, <3>2
    <3> HIDE DEF m, l
    <3> QED BY <3>3
  <2> HIDE DEF first, rest
  <2> DEFINE more == IF Given = Whole(segments) THEN rest ELSE Put(rest, "/")
  <2>2. Given = Cat(first, more) /\ more \in Seq(Chars(NameChars))
    <3>1. "/" \in Chars(NameChars)
      BY DEF Chars
    <3>2. Put(Cat(first, rest), "/") = Cat(first, Put(rest, "/"))
      BY <2>5, <3>1, CatPut
    <3>3. Put(rest, "/") \in Seq(Chars(NameChars))
      BY <2>5, <3>1, PutIs
    <3> QED BY <2>1, <2>5, <3>2, <3>3
  <2> HIDE DEF more
  <2>8. Left(Given, e) = first /\ Right(Given, e) = more
    BY <2>2, <2>5, <2>6, CatSplit
  <2>9. /\ ExecutablePath(Given, exts) = Left(Given, e)
        /\ Continues(Right(Given, e))
    BY <1>2, <2>7, SplitAt DEF e, none
  <2>10. script = first /\ meta.pathInfo = more /\ Continues(more)
    <3>1. meta.pathInfo = Right(Given, e)
      BY <1>1, <2>7, MetaVarsIs DEF e
    <3> QED BY <1>1, <2>8, <2>9, <3>1
  <2>11. SplitPathSegments(first) = Left(segments, n)
    <3>1. Left(segments, n) \in Seq(Names(NameChars))
      BY <1>2, <1>3, LeftIs
    <3> QED BY <1>2, <2>5, <3>1, SplitWhole
  <2>12. more # none => more[1] = "/"
    BY <2>10 DEF Continues, none
  <2> QED BY <1>5, <2>2, <2>10, <2>11, <2>12
<1> QED BY <1>4, <1>5

HasPlace(path, exts, e) ==
    \E i \in 1..Len(exts) : \E p \in ExtensionAt(path, exts[i]) : e = p + Len(exts[i]) - 1

LEMMA PlaceOfScript ==
    ASSUME NEW S, NEW path \in Seq(S), NEW exts \in Seq(Seq(S) \ {<<>>})
    PROVE  ScriptEnd(path, exts) # 0 => HasPlace(path, exts, ScriptEnd(path, exts))
  BY ScriptPlace DEF HasPlace

\* Where no script is found below a path, none is found that ends in it.
LEMMA BeyondRoot ==
    ASSUME NEW W, NEW a \in Seq(Chars(W)), NEW u \in Seq(Chars(W)), NEW q \in Seq(Chars(W)),
           Below(a, q), NEW exts \in Seq(Seq(Chars(W)) \ {<<>>}),
           ScriptEnd(q, exts) = 0, ScriptEnd(Cat(a, u), exts) # 0
    PROVE  Len(a) < ScriptEnd(Cat(a, u), exts)
<1> DEFINE path == Cat(a, u)
           e == ScriptEnd(path, exts)
           none == <<>>
<1>1. path \in Seq(Chars(W)) /\ Len(a) \in Nat /\ Len(path) \in Nat
  BY CatIs, LenIs
<1>2. e \in 1..Len(path) /\ e # 0
  BY <1>1, SplitAt
<1>3. PICK i \in 1..Len(exts) : \E p \in ExtensionAt(path, exts[i]) : e = p + Len(exts[i]) - 1
  <2>1. HasPlace(path, exts, e)
    BY <1>1, <1>2, PlaceOfScript
  <2> QED BY <2>1 DEF HasPlace
<1>4. PICK p \in ExtensionAt(path, exts[i]) : e = p + Len(exts[i]) - 1
  BY <1>3
<1>5. exts[i] \in Seq(Chars(W)) /\ exts[i] # none
  OBVIOUS
<1> SUFFICES ASSUME ~ Len(a) < e PROVE FALSE
  OBVIOUS
<1>6. p + Len(exts[i]) - 1 <= Len(a)
  <2> HIDE DEF e, path
  <2> QED BY <1>1, <1>2, <1>4
<1>7. p \in ExtensionAt(a, exts[i])
  BY <1>4, <1>5, <1>6, PlaceInside
<1> DEFINE r == Right(q, Len(a))
<1>8. q = Cat(a, r) /\ r \in Seq(Chars(W)) /\ Continues(r)
  BY BelowIs
<1> HIDE DEF r
<1>9. p \in ExtensionAt(q, exts[i])
  BY <1>5, <1>7, <1>8, PlaceStays
<1>10. ExtensionAt(q, exts[i]) = {}
  BY NoScript
<1> QED BY <1>9, <1>10

\* Nor is there a PATH_INFO, if one segment follows, or nothing.
LEMMA OnlyAtEnd ==
    ASSUME NEW W, NEW a \in Seq(Chars(W)), NEW u \in Seq(Chars(W)), NEW q \in Seq(Chars(W)),
           Below(a, q), NEW exts \in Seq(Seq(Chars(W)) \ {<<>>}), ScriptEnd(q, exts) = 0,
           \A i \in 2..Len(u) : u[i] # "/"
    PROVE  ScriptEnd(Cat(a, u), exts) \in {0, Len(Cat(a, u))}
<1> DEFINE path == Cat(a, u)
           e == ScriptEnd(path, exts)
           l == Len(a)
<1> SUFFICES ASSUME e # 0, e # Len(path) PROVE FALSE
  OBVIOUS
<1>1. path \in Seq(Chars(W)) /\ Len(path) = l + Len(u) /\ l \in Nat /\ Len(u) \in Nat
  BY CatIs, LenIs
<1>2. e \in 1..Len(path) /\ EndsSegment(path, e)
  BY <1>1, SplitAt
<1>3. l < e
  BY BeyondRoot
<1>4. path[e + 1] = "/"
  BY <1>2 DEF EndsSegment
<1>5. ASSUME NEW i \in 1..Len(u) PROVE path[l + i] = u[i]
  BY CatRight
<1> DEFINE k == e - l
           m == Len(u)
<1>6. e \in 1..(l + m) /\ e # l + m /\ l < e /\ l \in Nat /\ m \in Nat
  BY <1>1, <1>2, <1>3
<1> HIDE DEF path, e, l, m
<1>7. k + 1 \in 1..m /\ k + 1 \in 2..m /\ l + (k + 1) = e + 1
  BY <1>6
<1> HIDE DEF k
<1>8. path[l + (k + 1)] = u[k + 1]
  BY <1>5, <1>7 DEF m
<1> QED BY <1>4, <1>7, <1>8 DEF m

(***************************************************************************)
(* The request path and the name of its location.                          *)
(***************************************************************************)
\* A request path that normalisation leaves alone is its segments, joined.
LEMMA NormalUri ==
    ASSUME NEW W, "/" \notin W, NEW u \in Seq(Chars(W)), Last(u) # "/",
           u = NormalizePathBySegments(u)
    PROVE  \E b \in Seq(Names(W) \ Dots) : b # <<>> /\ u = Whole(b)
<1> DEFINE b == SegmentStack(u).stack
           none == <<>>
           one == <<"/">>
<1>1. b \in Seq(Names(W) \ Dots) /\ u = Rebuilt(b)
  BY NormalForm
<1>2. b # none
  <2> SUFFICES ASSUME b = none PROVE FALSE
    OBVIOUS
  <2>1. u = one
    BY <1>1 DEF Rebuilt
  <2>2. Last(one) = "/"
    BY DEF Last
  <2> QED BY <2>1, <2>2
<1>3. u = Whole(b)
  BY <1>1, <1>2 DEF Rebuilt
<1> QED BY <1>1, <1>2, <1>3

\* What a key puts before the remainder of a path: nothing, if it is "/".
Lead(key) == IF key = <<"/">> THEN <<>> ELSE key

\* The second character of joined segments is not a slash.
LEMMA WholeSecond ==
    ASSUME NEW W, "/" \notin W, NEW b \in Seq(Names(W)), b # <<>>
    PROVE  ~ EndsSegment(Whole(b), 1)
<1> SUFFICES ASSUME EndsSegment(Whole(b), 1) PROVE FALSE
  OBVIOUS
<1>1. b \in Seq(Seq(W)) /\ Len(b) \in Nat
  BY NamesAreSeqs, LenIs
<1>2. PICK k \in 0..(Len(b) - 1) : 1 = EndOf(b, k + 1)
  BY <1>1, EndsAt
<1>3. EndOf(b, k + 1) = EndOf(b, k) + 1 + Len(b[k + 1]) /\ EndOf(b, k) \in Nat
  BY EndNext
<1>4. Len(b[k + 1]) \in Nat /\ Len(b[k + 1]) >= 1
  BY <1>1, NamesIn
<1> DEFINE m == EndOf(b, k)
           l == Len(b[k + 1])
<1>5. 1 = m + 1 + l /\ m \in Nat /\ l \in Nat /\ l >= 1
  BY <1>2, <1>3, <1>4
<1> HIDE DEF m, l
<1> QED BY <1>5

\* What follows the lead of a key is what its location leaves of the path.
LEMMA RemainderAfter ==
    ASSUME NEW W, "/" \notin W, NEW key \in Seq(Chars(W)),
           NEW b \in Seq(Names(W)), b # <<>>
    PROVE  RemainderOf(UriKey(Cat(Lead(key), Whole(b))), key) = Whole(b)
<1> DEFINE w == Whole(b)
           u == Cat(Lead(key), w)
           rest == Right(u, Len(key))
           none == <<>>
           one == <<"/">>
<1>1. w \in Seq(Chars(W)) /\ w # none /\ Continues(w) /\ Last(w) # "/"
  BY WholeLast
<1>2. w[1] = "/" /\ Len(w) \in Nat /\ Len(w) >= 1
  BY <1>1 DEF Continues
<1>s. ~ EndsSegment(w, 1)
  BY WholeSecond
<1> HIDE DEF w
<1>3. Lead(key) \in Seq(Chars(W))
  BY DEF Lead
<1>4. u \in Seq(Chars(W)) /\ Last(u) = Last(w)
  BY <1>1, <1>3, CatIs, LastCat
<1>5. u # none
  <2>1. Len(u) = Len(Lead(key)) + Len(w) /\ Len(Lead(key)) \in Nat
    BY <1>1, <1>3, CatIs, LenIs
  <2>2. Len(u) # 0
    BY <1>2, <2>1
  <2> HIDE DEF u
  <2> QED BY <2>2
<1>6. UriKey(u) = u
  BY <1>1, <1>4, <1>5, TrimPlain DEF UriKey
<1>7. RemainderOf(u, key) = IF rest = none \/ rest[1] # "/" THEN Slash(rest) ELSE rest
  BY DEF RemainderOf, Right, Slash, Cat
<1>8. CASE key = one
  <2>1. Lead(key) = none /\ Len(key) = 1
    BY <1>8 DEF Lead
  <2>2. u = w
    BY <1>1, <2>1, CatEmpty
  <2>3. 1 \in 0..Len(w) /\ Len(w) - 1 \in Nat
    BY <1>2
  <2> DEFINE r == Right(w, 1)
  <2>4. r \in Seq(Chars(W)) /\ Len(r) = Len(w) - 1 /\ w = Cat(Left(w, 1), r)
    BY <1>1, <2>3, RightIs, LeftRight
  <2>5. Left(w, 1) = one
    <3>1. Left(w, 1) \in Seq(Chars(W)) /\ Len(Left(w, 1)) = 1
      BY <1>1, <2>3, LeftIs
    <3>2. Left(w, 1)[1] = w[1]
      <4>1. 1 \in 1..1
        OBVIOUS
      <4> QED BY <1>1, <2>3, <4>1, LeftAt
    <3> DEFINE x == Left(w, 1)
    <3>3. x \in Seq(Chars(W)) /\ Len(x) = 1 /\ x[1] = "/"
      BY <1>2, <3>1, <3>2
    <3> HIDE DEF x
    <3>4. x = one
      BY <3>3
    <3> QED BY <3>4 DEF x
  <2>6. Slash(r) = w
    BY <2>4, <2>5 DEF Slash
  <2>7. r # none => r[1] # "/"
    <3> SUFFICES ASSUME r # none, r[1] = "/" PROVE FALSE
      OBVIOUS
    <3>1. Len(w) - 1 >= 1
      <4> HIDE DEF r
      <4> QED BY <2>4
    <3>2. 1 \in 1..(Len(w) - 1) /\ 1 \in 1..Len(w)
      BY <1>2, <3>1
    <3>3. r[1] = w[1 + 1]
      BY <1>1, <2>3, <3>2, RightAt
    <3> QED BY <1>s, <3>2, <3>3 DEF EndsSegment
  <2>8. rest = r
    BY <2>1, <2>2
  <2> HIDE DEF r, rest, u
  <2> QED BY <1>6, <1>7, <2>6, <2>7, <2>8 DEF u, w
<1>9. CASE key # one
  <2>1. Lead(key) = key
    BY <1>9 DEF Lead
  <2>2. Right(Cat(key, w), Len(key)) = w
    BY <1>1, CatSplit
  <2>3. rest = w
    BY <2>1, <2>2
  <2> HIDE DEF rest, u
  <2> QED BY <1>1, <1>2, <1>6, <1>7, <2>3 DEF u, w
<1> QED BY <1>8, <1>9

\* A path longer than the key of its location is the lead of the key and segments.
LEMMA BehindKey ==
    ASSUME NEW W, "/" \notin W, NEW b \in Seq(Names(W) \ Dots), b # <<>>,
           NEW key \in Seq(Chars(W)), key # <<>>, IsPathPrefix(Whole(b), key), Whole(b) # key
    PROVE  \E g \in Seq(Names(W) \ Dots) : g # <<>> /\ Whole(b) = Cat(Lead(key), Whole(g))
<1> DEFINE u == Whole(b)
           one == <<"/">>
           none == <<>>
<1>1. b \in Seq(Names(W))
  OBVIOUS
<1>2. b \in Seq(Seq(W)) /\ Len(b) \in Nat
  BY <1>1, NamesAreSeqs, LenIs
<1>3. u \in Seq(Chars(W))
  BY <1>2, WholeType
<1>4. CASE key = one
  <2>1. Lead(key) = none
    BY <1>4 DEF Lead
  <2>2. Cat(none, u) = u
    BY <1>3, CatEmpty
  <2> QED BY <2>1, <2>2
<1>5. CASE key # one
  <2>1. Lead(key) = key /\ IsPrefix(key, u) /\ (Len(u) = Len(key) \/ u[Len(key) + 1] = "/")
    BY <1>5 DEF Lead, IsPathPrefix
  <2>2. Below(key, u)
    BY <2>1 DEF Below
  <2> DEFINE r == Right(u, Len(key))
  <2>3. Len(key) \in 0..Len(u) /\ u = Cat(key, r) /\ r \in Seq(Chars(W)) /\ Len(r) = Len(u) - Len(key)
    BY <1>3, <2>2, BelowIs
  <2>4. Len(key) # 0 /\ Len(u) \in Nat
    BY <1>3
  <2>5. Len(key) \in 1..Len(u)
    BY <2>3, <2>4
  <2>6. EndsSegment(u, Len(key))
    BY <2>1, <2>5 DEF EndsSegment
  <2>7. PICK k \in 0..(Len(b) - 1) : Len(key) = EndOf(b, k + 1)
    BY <1>1, <1>2, <2>6, EndsAt
  <2> DEFINE f == Join(b)[k + 1]
             g == Right(b, k + 1)
  <2>8. k + 1 \in 0..Len(b)
    BY <1>2
  <2>9. f \in Seq(Chars(W)) /\ u = Cat(f, Whole(g)) /\ Whole(g) \in Seq(Chars(W))
    BY <1>2, <2>8, JoinLeft
  <2>10. Len(f) = Len(key)
    BY <2>7 DEF EndOf
  <2>11. g \in Seq(Names(W) \ Dots)
    BY <2>8, RightIs
  <2>12. Whole(g) = r
    <3> HIDE DEF f, g, u
    <3>1. Right(Cat(f, Whole(g)), Len(f)) = Whole(g)
      BY <2>9, CatSplit
    <3> QED BY <2>9, <2>10, <3>1
  <2>13. g # none
    <3> SUFFICES ASSUME g = none PROVE FALSE
      OBVIOUS
    <3>1. Whole(g) = none
      <4>1. none \in Seq(Seq(W))
        OBVIOUS
      <4>2. Whole(none) = none
        BY <4>1, WholeStarts
      <4> QED BY <4>2
    <3>2. Cat(key, none) = key
      BY CatEmpty
    <3> QED BY <2>3, <2>12, <3>1, <3>2
  <2> HIDE DEF f, g
  <2> QED BY <2>1, <2>3, <2>11, <2>12, <2>13
<1> QED BY <1>4, <1>5

(***************************************************************************)
(* The index file of a directory.                                          *)
(***************************************************************************)
\* It is one more segment of the directory.
LEMMA IndexPath ==
    ASSUME NEW W, "/" \notin W, NEW p \in Seq(Chars(W)), NEW x \in Names(W)
    PROVE  WithIndex(NormalizePathBySegments(p), x) = Whole(Put(SegmentStack(p).stack, x))
<1> DEFINE d == NormalizePathBySegments(p)
           s == SegmentStack(p).stack
           a == Whole(s)
           none == <<>>
           one == <<"/">>
           base == IF Last(d) = "/" THEN d ELSE Put(d, "/")
<1>1. /\ s \in Seq(Names(W)) /\ d \in Seq(Chars(W))
      /\ s = none => d = one
      /\ s # none => d = a \/ d = Put(a, "/")
  BY NormalForm
<1>2. WithIndex(d, x) = Cat(base, x)
  BY DEF WithIndex, Put, Cat
<1>3. s \in Seq(Seq(W)) /\ x \in Seq(W) /\ x \in Seq(Chars(W)) /\ "/" \in Chars(W)
  BY <1>1, NamesAreSeqs DEF Names, Chars
<1> HIDE DEF d, s
<1>4. a \in Seq(Chars(W)) /\ (s = none => a = none)
  BY <1>3, WholeType, WholeStarts
<1>5. base = Put(a, "/")
  <2>1. CASE s = none
    <3>1. Last(one) = "/" /\ Put(none, "/") = one
      BY DEF Last, Put
    <3> QED BY <1>1, <1>4, <2>1, <3>1
  <2>2. CASE s # none
    <3>1. Last(a) # "/"
      BY <1>1, <2>2, WholeLast
    <3>2. Last(Put(a, "/")) = "/"
      BY <1>3, <1>4, FrontPut
    <3> HIDE DEF a
    <3> QED BY <1>1, <2>2, <3>1, <3>2
  <2> QED BY <2>1, <2>2
<1>6. Put(a, "/") = Cat(a, one) /\ one \in Seq(Chars(W))
  BY <1>3, <1>4, PutIsCat
<1>7. Cat(Cat(a, one), x) = Cat(a, Cat(one, x))
  <2>1. a \in Seq(Chars(W)) /\ one \in Seq(Chars(W)) /\ x \in Seq(Chars(W))
    BY <1>3, <1>4, <1>6
  <2> HIDE DEF a, one
  <2> QED BY <2>1, CatAssociative
<1>8. Whole(Put(s, x)) = Cat(a, Slash(x))
  BY <1>3, WholePut
<1> HIDE DEF base, a
<1> QED BY <1>2, <1>5, <1>6, <1>7, <1>8 DEF Slash, d, s

\* Its path is normalised: a segment without dots, or one that leads back.
LEMMA IndexNormal ==
    ASSUME NEW W, "/" \notin W, NEW p \in Seq(Chars(W)), NEW x \in Names(W)
    PROVE  LET s == SegmentStack(p).stack
           IN  NormalizePathBySegments(WithIndex(NormalizePathBySegments(p), x))
                 = Rebuilt(PushSegment([ok |-> TRUE, stack |-> s], x).stack)
<1> DEFINE s == SegmentStack(p).stack
           t == Put(s, x)
           f == Whole(t)
           T == Names(W)
           none == <<>>
<1>1. s \in Seq(T) /\ s \in Seq(T \ Dots)
  BY NormalForm
<1>2. WithIndex(NormalizePathBySegments(p), x) = f
  BY IndexPath
<1> HIDE DEF s
<1>3. t \in Seq(T) /\ t # none
  BY <1>1, PutIs
<1> HIDE DEF t
<1>4. f \in Seq(Chars(W)) /\ Last(f) # "/"
  BY <1>3, WholeLast
<1>5. SplitPathSegments(f) = t
  BY <1>3, SplitWhole
<1> HIDE DEF f
<1>6. NormalizePathBySegments(f) = Rebuilt(SegmentStack(f).stack)
  BY <1>4, NormalForm
<1>7. Stacked(t)[Len(t)] = PushSegment([ok |-> TRUE, stack |-> s], x)
  <2> HIDE DEF T
  <2>1. x \in T
    BY DEF T
  <2> QED BY <1>1, <2>1, StackPut DEF t
<1>8. SegmentStack(f) = Stacked(t)[Len(t)]
  BY <1>5 DEF SegmentStack
<1> QED BY <1>2, <1>6, <1>7, <1>8 DEF s

LEMMA BelowBelow ==
    ASSUME NEW W, NEW a \in Seq(Chars(W)), NEW b \in Seq(Chars(W)), NEW c \in Seq(Chars(W)),
           Below(a, b), Below(b, c)
    PROVE  Below(a, c)
<1> DEFINE r == Right(b, Len(a))
           t == Right(c, Len(b))
           none == <<>>
<1>1. b = Cat(a, r) /\ r \in Seq(Chars(W)) /\ Continues(r)
  BY BelowIs
<1>2. c = Cat(b, t) /\ t \in Seq(Chars(W)) /\ Continues(t)
  BY BelowIs
<1> HIDE DEF r, t
<1>3. c = Cat(a, Cat(r, t))
  <2>1. Cat(Cat(a, r), t) = Cat(a, Cat(r, t))
    BY <1>1, <1>2, CatAssociative
  <2> QED BY <1>1, <1>2, <2>1
<1>4. Cat(r, t) \in Seq(Chars(W))
  BY <1>1, <1>2, CatIs
<1>5. Continues(Cat(r, t))
  <2>1. CASE r = none
    <3>1. Cat(none, t) = t
      BY <1>2, CatEmpty
    <3> QED BY <1>2, <2>1, <3>1
  <2>2. CASE r # none
    <3>1. 1 \in 1..Len(r) /\ r[1] = "/"
      BY <1>1, <2>2 DEF Continues
    <3>2. Cat(r, t)[1] = r[1]
      BY <1>1, <1>2, <3>1, CatLeft
    <3> QED BY <3>1, <3>2 DEF Continues
  <2> QED BY <2>1, <2>2
<1>6. Below(a, Cat(a, Cat(r, t)))
  BY <1>4, <1>5, BelowCat
<1> QED BY <1>3, <1>6

\* Where no script is found, none is found above.
LEMMA NoneAbove ==
    ASSUME NEW W, "/" \notin W, NEW f \in Seq(Names(W)), NEW q \in Seq(Chars(W)),
           Below(Whole(f), q), NEW exts \in Seq(Seq(Chars(W)) \ {<<>>}), ScriptEnd(q, exts) = 0
    PROVE  ScriptEnd(Rebuilt(f), exts) \in {0, Len(Rebuilt(f))}
<1> DEFINE a == Whole(f)
           none == <<>>
           one == <<"/">>
<1>1. CASE f = none
  <2>1. Rebuilt(f) = one
    BY <1>1 DEF Rebuilt
  <2>2. one \in Seq(Chars(W))
    BY DEF Chars
  <2>3. Len(one) = 1
    OBVIOUS
  <2> HIDE DEF one
  <2>4. ScriptEnd(one, exts) # 0 => ScriptEnd(one, exts) \in 1..Len(one)
    BY <2>2, SplitAt
  <2> DEFINE e == ScriptEnd(one, exts)
             l == Len(one)
  <2>5. (e # 0 => e \in 1..l) /\ l = 1
    BY <2>3, <2>4
  <2> HIDE DEF e, l
  <2>6. e \in {0, l}
    BY <2>5
  <2> QED BY <2>1, <2>6 DEF e, l
<1>2. CASE f # none
  <2>1. Rebuilt(f) = a
    BY <1>2 DEF Rebuilt
  <2>2. f \in Seq(Seq(W))
    BY NamesAreSeqs
  <2>3. a \in Seq(Chars(W)) /\ none \in Seq(Chars(W))
    BY <2>2, WholeType
  <2>4. Cat(a, none) = a
    BY <2>3, CatEmpty
  <2>5. Below(a, q)
    OBVIOUS
  <2>6. \A i \in 2..Len(none) : none[i] # "/"
    OBVIOUS
  <2> HIDE DEF a, none
  <2>7. ScriptEnd(Cat(a, none), exts) \in {0, Len(Cat(a, none))}
    BY <2>3, <2>5, <2>6, OnlyAtEnd
  <2> QED BY <2>1, <2>4, <2>7
<1> QED BY <1>1, <1>2

\* The script of an index file is that file, and nothing follows it.
LEMMA IndexAtEnd ==
    ASSUME NEW W, "/" \notin W, NEW p \in Seq(Chars(W)), NEW x \in Names(W),
           NEW exts \in Seq(Seq(Chars(W)) \ {<<>>}),
           ScriptEnd(NormalizePathBySegments(p), exts) = 0
    PROVE  LET path == NormalizePathBySegments(WithIndex(NormalizePathBySegments(p), x))
           IN  ScriptEnd(path, exts) \in {0, Len(path)}
<1> DEFINE q == NormalizePathBySegments(p)
           s == SegmentStack(p).stack
           a == Whole(s)
           t == PushSegment([ok |-> TRUE, stack |-> s], x).stack
           none == <<>>
<1>1. NormalizePathBySegments(WithIndex(q, x)) = Rebuilt(t)
  BY IndexNormal
<1>2. s \in Seq(Names(W)) /\ q \in Seq(Chars(W))
  BY NormalForm
<1>3. Below(a, q)
  BY BelowNormal
<1>4. ScriptEnd(q, exts) = 0
  OBVIOUS
<1>5. x \in Seq(W) /\ x # none
  BY DEF Names
<1> HIDE DEF q, s
<1>6. s \in Seq(Seq(W))
  BY <1>2, NamesAreSeqs
<1>7. a \in Seq(Chars(W)) /\ (s = none => a = none)
  BY <1>6, WholeType, WholeStarts
<1> SUFFICES ScriptEnd(Rebuilt(t), exts) \in {0, Len(Rebuilt(t))}
  BY <1>1 DEF q
<1>8. CASE x \notin Dots
  <2>1. t = Put(s, x)
    BY <1>8 DEF PushSegment, Put, Dots
  <2>2. t \in Seq(Names(W)) /\ t # none
    BY <1>2, <2>1, PutIs
  <2> DEFINE u == Slash(x)
  <2>3. Rebuilt(t) = Cat(a, u)
    <3>1. Whole(Put(s, x)) = Cat(a, u)
      BY <1>5, <1>6, WholePut
    <3> HIDE DEF t, a, u
    <3> QED BY <2>1, <2>2, <3>1 DEF Rebuilt
  <2>4. u \in Seq(Chars(W)) /\ Len(u) = 1 + Len(x) /\ Len(x) \in Nat
    BY <1>5, SlashIs
  <2>5. ASSUME NEW i \in 2..Len(u) PROVE u[i] # "/"
    <3>1. i - 1 \in 1..Len(x) /\ 1 + (i - 1) = i
      <4> HIDE DEF u
      <4> QED BY <2>4
    <3>2. u[1 + (i - 1)] = x[i - 1]
      BY <1>5, <3>1, SlashAt
    <3>3. x[i - 1] \in W
      BY <1>5, <3>1
    <3> QED BY <3>1, <3>2, <3>3
  <2> HIDE DEF a, u
  <2>6. ScriptEnd(Cat(a, u), exts) \in {0, Len(Cat(a, u))}
    BY <1>2, <1>3, <1>4, <1>7, <2>4, <2>5, OnlyAtEnd
  <2> QED BY <2>3, <2>6
<1>9. CASE t = s
  <2>1. ScriptEnd(Rebuilt(s), exts) \in {0, Len(Rebuilt(s))}
    BY <1>2, <1>3, <1>4, NoneAbove
  <2> HIDE DEF t
  <2> QED BY <1>9, <2>1
<1>10. CASE x = Dot
  BY <1>9, <1>10 DEF PushSegment
<1>11. CASE x = DotDot /\ s = none
  <2>1. x # Dot
    BY <1>11 DEF Dot, DotDot
  <2>2. t = none
    BY <1>11, <2>1 DEF PushSegment
  <2> HIDE DEF t
  <2> QED BY <1>9, <1>11, <2>2
<1>12. CASE x = DotDot /\ s # none
  <2>1. x # Dot
    BY <1>12 DEF Dot, DotDot
  <2> DEFINE f == Front(s)
             l == Last(s)
  <2>2. t = f
    BY <1>12, <2>1 DEF PushSegment
  <2>3. f \in Seq(Names(W)) /\ l \in Names(W) /\ s = Put(f, l)
    BY <1>2, <1>12, FrontLast
  <2> HIDE DEF f, l, t
  <2>4. f \in Seq(Seq(W)) /\ l \in Seq(W)
    BY <2>3, NamesAreSeqs DEF Names
  <2>5. a = Cat(Whole(f), Slash(l))
    BY <2>3, <2>4, WholePut
  <2>6. Whole(f) \in Seq(Chars(W)) /\ Slash(l) \in Seq(Chars(W)) /\ Continues(Slash(l))
    BY <2>4, WholeType, SlashIs
  <2>7. Below(Whole(f), a)
    BY <2>5, <2>6, BelowCat
  <2> HIDE DEF a
  <2>8. Below(Whole(f), q)
    BY <1>2, <1>3, <1>7, <2>6, <2>7, BelowBelow
  <2>9. ScriptEnd(Rebuilt(f), exts) \in {0, Len(Rebuilt(f))}
    BY <1>2, <1>4, <2>3, <2>8, NoneAbove
  <2> QED BY <2>2, <2>9
<1> QED BY <1>8, <1>10, <1>11, <1>12 DEF Dots

(***************************************************************************)
(* A request for the name of its location, which is no directory.          *)
(***************************************************************************)
LEMMA KeyAtEnd ==
    ASSUME NEW W, "/" \notin W, NEW root \in Seq(Chars(W)),
           NEW exts \in Seq(Seq(Chars(W)) \ {<<>>}),
           ScriptEnd(NormalizePathBySegments(root), exts) = 0
    PROVE  LET path == NormalizePathBySegments(Cat(root, <<"/">>))
           IN  ScriptEnd(path, exts) \in {0, Len(path)}
<1> DEFINE s == SegmentStack(root).stack
           a == Whole(s)
           q == NormalizePathBySegments(root)
           one == <<"/">>
           p == Cat(root, one)
<1>1. p = Put(root, "/") /\ one \in Seq(Chars(W)) /\ "/" \in Chars(W)
  <2>1. "/" \in Chars(W)
    BY DEF Chars
  <2> QED BY <2>1, PutIsCat
<1>2. p \in Seq(Chars(W)) /\ Last(p) = "/"
  BY <1>1, PutIs, FrontPut
<1>3. SegmentStack(p) = SegmentStack(root)
  BY <1>1, SplitTrailing DEF SegmentStack
<1>4. s \in Seq(Names(W)) /\ q \in Seq(Chars(W)) /\ Below(a, q) /\ ScriptEnd(q, exts) = 0
  BY NormalForm, BelowNormal
<1>5. NormalizePathBySegments(p) = Put(a, "/")
  <2> HIDE DEF p
  <2> QED BY <1>2, <1>3, NormalForm
<1> HIDE DEF p, s, q
<1>6. a \in Seq(Chars(W))
  BY <1>4, NamesAreSeqs, WholeType
<1> HIDE DEF a
<1>7. Put(a, "/") = Cat(a, one)
  BY <1>1, <1>6, PutIsCat
<1>8. \A i \in 2..Len(one) : one[i] # "/"
  OBVIOUS
<1> HIDE DEF one
<1>9. ScriptEnd(Cat(a, one), exts) \in {0, Len(Cat(a, one))}
  BY <1>1, <1>4, <1>6, <1>8, OnlyAtEnd
<1> QED BY <1>5, <1>7, <1>9 DEF p, one

(***************************************************************************)
(* SCRIPT_NAME and PATH_INFO.                                              *)
(***************************************************************************)
\* No script is found, or the whole path is one.
LEMMA NothingFollows ==
    ASSUME PathInv, point # "construct", ScriptEnd(Given, req.extensions) \in {0, Len(Given)}
    PROVE  meta.scriptName = req.uri /\ meta.pathInfo = <<>> /\ script = Given
<1> DEFINE e == ScriptEnd(Given, req.extensions)
           none == <<>>
           u == req.uri
<1>1. script = ExecutablePath(Given, req.extensions) /\ meta = MetaVars
  BY DEF PathInv
<1>2. CASE e = 0
  <2>1. ExecutablePath(Given, req.extensions) = Given
    BY <1>2 DEF ExecutablePath
  <2>2. MetaVars.scriptName = u /\ MetaVars.pathInfo = none
    BY <1>2, MetaVarsIs
  <2> QED BY <1>1, <2>1, <2>2
<1>3. CASE e # 0 /\ e = Len(Given)
  <2>1. ExecutablePath(Given, req.extensions) = Left(Given, e)
    BY <1>3 DEF ExecutablePath, Left
  <2>2. Given \in Seq(Chars(NameChars)) /\ u \in Seq(Chars(NameChars))
    BY GivenIs, RequestIs
  <2>3. Left(Given, e) = Given
    BY <1>3, <2>2, LeftEnds
  <2>4. Right(Given, e) = none
    <3>1. e \in 0..Len(Given) /\ Len(Given) - e = 0
      BY <1>3, <2>2, LenIs
    <3>2. Right(Given, e) \in Seq(Chars(NameChars)) /\ Len(Right(Given, e)) = Len(Given) - e
      BY <2>2, <3>1, RightIs
    <3> DEFINE r == Right(Given, e)
    <3>3. r \in Seq(Chars(NameChars)) /\ Len(r) = 0
      BY <3>1, <3>2
    <3> HIDE DEF r
    <3>4. r = none
      BY <3>3
    <3> QED BY <3>4 DEF r
  <2>5. MetaVars.scriptName = ScriptName(none) /\ MetaVars.pathInfo = none
    BY <1>3, <2>4, MetaVarsIs
  <2>6. ScriptName(none) = u
    <3>1. Len(u) - Len(none) = Len(u) /\ ~ Len(u) < 0
      BY <2>2, LenIs
    <3>2. ScriptName(none) = Left(u, Len(u))
      BY <3>1 DEF ScriptName, Left
    <3> QED BY <2>2, <3>2, LeftEnds
  <2> QED BY <1>1, <2>1, <2>3, <2>5, <2>6
<1> QED BY <1>2, <1>3

\* A request path that continues the name of its location.
LEMMA MetaVarsBehindKey ==
    ASSUME PathInv, point # "construct", ~ req.directory,
           NEW g \in Seq(Names(NameChars) \ Dots), g # <<>>,
           req.uri = Cat(Lead(LocKey(req)), Whole(g)),
           ScriptEnd(NormalizePathBySegments(req.root), req.extensions) = 0
    PROVE  /\ Cat(meta.scriptName, meta.pathInfo) = req.uri
           /\ ScriptPath(req, meta.scriptName) = script
<1> DEFINE W == NameChars
           uri == req.uri
           root == req.root
           exts == req.extensions
           key == LocKey(req)
           lead == Lead(key)
           u == Whole(g)
           q == NormalizePathBySegments(root)
           a == Whole(SegmentStack(root).stack)
           e == ScriptEnd(Given, exts)
           none == <<>>
<1>1. script = ExecutablePath(Given, exts) /\ meta = MetaVars
  BY DEF PathInv
<1>2. /\ uri \in Seq(Chars(W)) /\ root \in Seq(Chars(W)) /\ key \in Seq(Chars(W))
      /\ exts \in Seq(Seq(Chars(W)) \ {none}) /\ "/" \notin W
  BY RequestIs, AnyChars, FullPathIs
<1>3. g \in Seq(Names(W)) /\ g \in Seq(Names(W) \ Dots) /\ g # none /\ g \in Seq(Seq(W))
  <2>1. g \in Seq(Names(W))
    OBVIOUS
  <2> QED BY <2>1, NamesAreSeqs
<1>4. lead \in Seq(Chars(W)) /\ u \in Seq(Chars(W)) /\ uri = Cat(lead, u)
  BY <1>2, <1>3, WholeType DEF Lead
\* A request for the name of the location and further segments.
<1>5. ASSUME NEW c \in Seq(Names(W) \ Dots), c # none
      PROVE  ScriptPath(req, Cat(lead, Whole(c))) = Cat(a, Whole(c))
  <2>1. c \in Seq(Names(W))
    OBVIOUS
  <2>2. RemainderOf(UriKey(Cat(lead, Whole(c))), key) = Whole(c)
    BY <1>2, <1>5, <2>1, RemainderAfter
  <2>3. ScriptPath(req, Cat(lead, Whole(c)))
          = NormalizePathBySegments(Cat(root, RemainderOf(UriKey(Cat(lead, Whole(c))), key)))
    BY DEF ScriptPath, Resolve, FullPath, Cat
  <2>4. NormalizePathBySegments(Cat(root, Whole(c))) = Cat(a, Whole(c))
    BY <1>2, <1>5, NormalizeUnder
  <2> HIDE DEF a, lead, key
  <2> QED BY <2>2, <2>3, <2>4
<1>6. Given = Cat(a, u)
  BY <1>3, <1>4, <1>5 DEF Given
<1>7. /\ a \in Seq(Chars(W)) /\ q \in Seq(Chars(W)) /\ Below(a, q) /\ ScriptEnd(q, exts) = 0
      /\ Len(a) \in Nat
  <2>1. SegmentStack(root).stack \in Seq(Names(W)) /\ q \in Seq(Chars(W))
    BY <1>2, NormalForm
  <2>2. a \in Seq(Chars(W))
    BY <2>1, NamesAreSeqs, WholeType
  <2>3. Below(a, q)
    BY <1>2, BelowNormal
  <2> QED BY <2>1, <2>2, <2>3, LenIs
<1>8. Given \in Seq(Chars(W)) /\ Len(Given) = Len(a) + Len(u) /\ Len(u) \in Nat
  BY <1>4, <1>6, <1>7, CatIs, LenIs
<1>9. CASE e = 0
  <2>1. meta.scriptName = uri /\ meta.pathInfo = none /\ script = Given
    BY <1>9, NothingFollows
  <2>2. Cat(uri, none) = uri
    BY <1>2, CatEmpty
  <2> QED BY <2>1, <2>2 DEF Given
<1>10. CASE e # 0
  <2> DEFINE rest == Right(Given, e)
             m == e - Len(a)
             x == Left(u, m)
             y == Right(u, m)
  <2>0. uri = req.uri
    OBVIOUS
  <2> HIDE DEF W, uri, root, exts, a, e, u, q, key, lead
  <2>1. /\ e \in 1..Len(Given) /\ e \in 0..Len(Given) /\ EndsSegment(Given, e)
        /\ ExecutablePath(Given, exts) = Left(Given, e)
    BY <1>2, <1>8, <1>10, SplitAt DEF e
  <2>2. Len(a) < e
    <3>1. ScriptEnd(Cat(a, u), exts) # 0
      BY <1>6, <1>10 DEF e
    <3>2. Len(a) < ScriptEnd(Cat(a, u), exts)
      BY <1>2, <1>4, <1>7, <3>1, BeyondRoot
    <3> QED BY <1>6, <3>2 DEF e
  <2>4. m \in 1..Len(u) /\ m \in 0..Len(u) /\ e = Len(a) + m
    BY <1>7, <1>8, <2>1, <2>2
  <2> HIDE DEF m
  <2>5. /\ u = Cat(x, y) /\ x \in Seq(Chars(W)) /\ y \in Seq(Chars(W))
        /\ Len(x) = m /\ Len(y) = Len(u) - m
    BY <1>4, <2>4, LeftRight, LeftIs, RightIs
  <2> HIDE DEF x, y
  <2>6. Given = Cat(Cat(a, x), y) /\ Cat(a, x) \in Seq(Chars(W)) /\ Len(Cat(a, x)) = e
    <3>1. Cat(a, Cat(x, y)) = Cat(Cat(a, x), y)
      BY <1>7, <2>5, CatAssociative
    <3>2. Cat(a, x) \in Seq(Chars(W)) /\ Len(Cat(a, x)) = Len(a) + Len(x)
      BY <1>7, <2>5, CatIs
    <3> QED BY <1>6, <2>4, <2>5, <3>1, <3>2
  <2>7. Left(Given, e) = Cat(a, x) /\ rest = y
    BY <2>5, <2>6, CatSplit
  <2>8. meta.pathInfo = y /\ meta.scriptName = ScriptName(y)
    BY <1>1, <1>10, <2>7, MetaVarsIs DEF e, exts
  <2>9. /\ uri = Cat(Cat(lead, x), y) /\ Cat(lead, x) \in Seq(Chars(W))
        /\ Len(Cat(lead, x)) = Len(lead) + m /\ Len(lead) \in Nat /\ Len(uri) = Len(lead) + Len(u)
    <3>1. Cat(lead, Cat(x, y)) = Cat(Cat(lead, x), y)
      BY <1>4, <2>5, CatAssociative
    <3>2. Cat(lead, x) \in Seq(Chars(W)) /\ Len(Cat(lead, x)) = Len(lead) + Len(x)
      BY <1>4, <2>5, CatIs
    <3>3. Len(uri) = Len(lead) + Len(u) /\ Len(lead) \in Nat
      BY <1>4, CatIs, LenIs
    <3> QED BY <1>4, <2>5, <3>1, <3>2, <3>3
  <2>10. ScriptName(y) = Cat(lead, x)
    <3> DEFINE v == Cat(lead, x)
    <3>1. Len(uri) - Len(y) = Len(v) /\ ~ Len(v) < 0
      BY <1>8, <2>4, <2>5, <2>9
    <3>2. ScriptName(y) = Left(uri, Len(v))
      BY <2>0, <3>1 DEF ScriptName, Left
    <3> HIDE DEF v
    <3>3. Left(Cat(v, y), Len(v)) = v
      BY <2>5, <2>9, CatSplit DEF v
    <3>4. uri = Cat(v, y)
      BY <2>9 DEF v
    <3> QED BY <3>2, <3>3, <3>4 DEF v
  <2>11. script = Cat(a, x)
    BY <1>1, <2>1, <2>7
  <2>12. EndsSegment(u, m)
    <3>1. CASE m = Len(u)
      BY <2>4, <3>1 DEF EndsSegment
    <3>2. CASE m # Len(u)
      <4>1. m + 1 \in 1..Len(u) /\ e # Len(Given) /\ Len(a) + (m + 1) = e + 1
        BY <1>7, <1>8, <2>4, <3>2
      <4>2. Cat(a, u)[Len(a) + (m + 1)] = u[m + 1]
        BY <1>4, <1>7, <4>1, CatRight
      <4>3. Given[e + 1] = "/"
        BY <2>1, <4>1 DEF EndsSegment
      <4> QED BY <1>6, <2>4, <4>1, <4>2, <4>3 DEF EndsSegment
    <3> QED BY <3>1, <3>2
  <2>13. PICK k \in 0..(Len(g) - 1) : m = EndOf(g, k + 1)
    BY <1>2, <1>3, <2>12, EndsAt DEF u
  <2> DEFINE c == Left(g, k + 1)
             first == Join(g)[k + 1]
             more == Whole(Right(g, k + 1))
  <2>14. k + 1 \in 0..Len(g) /\ Len(g) \in Nat
    BY <1>3, LenIs
  <2>15. /\ first = Whole(c) /\ first \in Seq(Chars(W))
         /\ u = Cat(first, more) /\ more \in Seq(Chars(W))
    BY <1>3, <2>14, JoinLeft DEF u
  <2>16. m = Len(first)
    BY <2>13 DEF EndOf
  <2>17. x = Whole(c)
    <3> HIDE DEF first, more
    <3>1. Left(Cat(first, more), Len(first)) = first
      BY <2>15, CatSplit
    <3> QED BY <2>15, <2>16, <3>1 DEF x
  <2>18. c \in Seq(Names(W) \ Dots) /\ c # none
    <3>1. c \in Seq(Names(W) \ Dots) /\ Len(c) = k + 1
      BY <1>3, <2>14, LeftIs
    <3> HIDE DEF c
    <3> QED BY <2>14, <3>1
  <2>19. ScriptPath(req, Cat(lead, Whole(c))) = Cat(a, Whole(c))
    BY <1>5, <2>18
  <2> QED BY <2>0, <2>8, <2>9, <2>10, <2>11, <2>17, <2>19
<1> QED BY <1>9, <1>10

LEMMA MetaVarsSplit == PathInv => MetaVarsSplitUri
<1> DEFINE W == NameChars
           uri == req.uri
           root == req.root
           exts == req.extensions
           key == LocKey(req)
           full == FullPath(req, uri)
           above == IF req.directory THEN Resolve(req, uri) ELSE NormalizePathBySegments(root)
           none == <<>>
           one == <<"/">>
<1> SUFFICES ASSUME PathInv, point # "construct", uri = NormalizePathBySegments(uri),
                    ScriptEnd(above, exts) = 0
             PROVE  /\ Cat(meta.scriptName, meta.pathInfo) = uri
                    /\ ScriptPath(req, meta.scriptName) = script
  BY DEF MetaVarsSplitUri, Cat
<1>1. /\ uri \in Seq(Chars(W)) /\ root \in Seq(Chars(W)) /\ uri # none
      /\ exts \in Seq(Seq(Chars(W)) \ {none}) /\ "/" \notin W
      /\ key \in Seq(Chars(W)) /\ full \in Seq(Chars(W))
      /\ full = Cat(root, RemainderOf(UriKey(uri), key))
  BY RequestIs, AnyChars, FullPathIs
<1>2. ASSUME ScriptEnd(Given, exts) \in {0, Len(Given)}
      PROVE  /\ Cat(meta.scriptName, meta.pathInfo) = uri
             /\ ScriptPath(req, meta.scriptName) = script
  <2>1. meta.scriptName = uri /\ meta.pathInfo = none /\ script = Given
    BY <1>2, NothingFollows
  <2>2. Cat(uri, none) = uri
    BY <1>1, CatEmpty
  <2> QED BY <2>1, <2>2 DEF Given
<1>3. CASE req.directory
  <2>1. req.index \in Names(W)
    BY <1>3, RequestIs DEF Names
  <2>2. Given = NormalizePathBySegments(WithIndex(NormalizePathBySegments(full), req.index))
    BY <1>3 DEF Given, ScriptPath, Resolve
  <2>3. ScriptEnd(NormalizePathBySegments(full), exts) = 0
    BY <1>3 DEF Resolve
  <2> HIDE DEF full, exts, W
  <2>4. ScriptEnd(Given, exts) \in {0, Len(Given)}
    BY <1>1, <2>1, <2>2, <2>3, IndexAtEnd
  <2> QED BY <1>2, <2>4
<1>4. CASE ~ req.directory
  <2>1. ScriptEnd(NormalizePathBySegments(root), exts) = 0
    BY <1>4
  <2>2. Given = NormalizePathBySegments(full)
    BY <1>4 DEF Given, ScriptPath, Resolve
  <2>3. Last(uri) # "/"
    BY <1>4, RequestIs
  <2>4. UriKey(uri) = uri
    BY <1>1, <2>3, TrimPlain DEF UriKey
  <2>5. CASE uri = key
    <3>1. RemainderOf(key, key) = one
      <4>1. Right(key, Len(key)) = none
        <5>1. Cat(key, none) = key /\ none \in Seq(Chars(W))
          BY <1>1, CatEmpty
        <5>2. Right(Cat(key, none), Len(key)) = none
          BY <1>1, <5>1, CatSplit
        <5> QED BY <5>1, <5>2
      <4>2. Cat(one, none) = one
        BY DEF Cat
      <4>3. RemainderOf(key, key) = Cat(one, Right(key, Len(key)))
        BY <4>1 DEF RemainderOf, Right, Cat
      <4> QED BY <4>1, <4>2, <4>3
    <3>2. full = Cat(root, one)
      BY <1>1, <2>4, <2>5, <3>1
    <3> HIDE DEF full, root, exts, W, uri, key
    <3>3. ScriptEnd(Given, exts) \in {0, Len(Given)}
      BY <1>1, <2>1, <2>2, <3>2, KeyAtEnd
    <3> QED BY <1>2, <3>3
  <2>6. CASE uri # key
    <3>1. PICK b \in Seq(Names(W) \ Dots) : b # none /\ uri = Whole(b)
      BY <1>1, <2>3, NormalUri
    <3>2. IsPathPrefix(uri, key)
      BY <2>4, RequestIs
    <3>3. key # none
      <4>1. req.name \in Seq(Chars(W)) /\ req.name # none
        BY RequestIs
      <4>2. PICK n \in 1..Len(req.name) : key = Left(req.name, n)
        BY <4>1, TrimIs DEF LocKey
      <4>3. n \in 0..Len(req.name) /\ n # 0
        BY <4>1
      <4>4. Len(key) = n
        BY <4>1, <4>2, <4>3, LeftIs
      <4> HIDE DEF key
      <4> QED BY <4>3, <4>4
    <3>4. PICK g \in Seq(Names(W) \ Dots) : g # none /\ Whole(b) = Cat(Lead(key), Whole(g))
      <4> HIDE DEF key, W, uri
      <4> QED BY <1>1, <2>6, <3>1, <3>2, <3>3, BehindKey
    <3> QED BY <1>4, <2>1, <3>1, <3>4, MetaVarsBehindKey
  <2> QED BY <2>5, <2>6
<1> QED BY <1>3, <1>4

-----------------------------------------------------------------------------
\* The search of CreatePathInfo for characters finds a script by segments, for
\* every path and every list of extensions without a slash in them.
THEOREM AlwaysSplitsAtSegment == Spec => []SplitsAtSegment
  BY PathAlways, SplitsIs, PTL

\* SCRIPT_NAME and PATH_INFO, which InitializeMetaVars counts from the end of the
\* request path, are that path, and a request for SCRIPT_NAME runs the same script:
\* in a location of any name and root, and for the index file of a directory too.
THEOREM AlwaysMetaVarsSplitUri == Spec => []MetaVarsSplitUri
  BY PathAlways, MetaVarsSplit, PTL
=============================================================================
