---------------------------- MODULE PathsProofs ----------------------------
(***************************************************************************)
(* What the conversions of Paths and CgiPath return, for paths of any      *)
(* length: splitting undoes joining, a path that continues another has its *)
(* segments after those of the other, a normal path is its segments        *)
(* joined, and the script that is found ends where a segment does.  The    *)
(* characters of a path are those of names, W, and "/".                    *)
(***************************************************************************)
EXTENDS Paths, CgiPath, Induction

(***************************************************************************)
(* Sequences.  Cat, Put, Left and Right are kept closed: the provers take  *)
(* \o, Append and SubSeq apart when the law that is wanted is one of those *)
(* below.                                                                  *)
(***************************************************************************)
Cat(s, t) == s \o t
Put(s, x) == Append(s, x)

\* A sequence is what comes before a place and what comes after it.
Left(p, n) == SubSeq(p, 1, n)
Right(p, n) == SubSeq(p, n + 1, Len(p))

LEMMA CatIs ==
    ASSUME NEW S, NEW s \in Seq(S), NEW t \in Seq(S)
    PROVE  Cat(s, t) \in Seq(S) /\ Len(Cat(s, t)) = Len(s) + Len(t)
  BY DEF Cat

LEMMA CatLeft ==
    ASSUME NEW S, NEW s \in Seq(S), NEW t \in Seq(S), NEW i \in 1..Len(s)
    PROVE  Cat(s, t)[i] = s[i]
  BY DEF Cat

LEMMA CatRight ==
    ASSUME NEW S, NEW s \in Seq(S), NEW t \in Seq(S), NEW i \in 1..Len(t)
    PROVE  Cat(s, t)[Len(s) + i] = t[i]
  BY DEF Cat

LEMMA CatEmpty ==
    ASSUME NEW S, NEW s \in Seq(S)
    PROVE  Cat(s, <<>>) = s /\ Cat(<<>>, s) = s
  BY DEF Cat

LEMMA LenIs ==
    ASSUME NEW S, NEW s \in Seq(S)
    PROVE  Len(s) \in Nat
  OBVIOUS

LEMMA SameSeq ==
    ASSUME NEW S, NEW s \in Seq(S), NEW t \in Seq(S),
           Len(s) = Len(t), \A i \in 1..Len(s) : s[i] = t[i]
    PROVE  s = t
  OBVIOUS

LEMMA CatAssociative ==
    ASSUME NEW S, NEW s \in Seq(S), NEW t \in Seq(S), NEW u \in Seq(S)
    PROVE  Cat(Cat(s, t), u) = Cat(s, Cat(t, u))
<1> DEFINE st == Cat(s, t)
           tu == Cat(t, u)
           left == Cat(st, u)
           right == Cat(s, tu)
<1>1. st \in Seq(S) /\ tu \in Seq(S) /\ Len(st) = Len(s) + Len(t) /\ Len(tu) = Len(t) + Len(u)
  BY CatIs
<1>2. Len(s) \in Nat /\ Len(t) \in Nat /\ Len(u) \in Nat
  BY LenIs
<1>a. ASSUME NEW i \in 1..Len(s) PROVE st[i] = s[i]
  BY CatLeft
<1>b. ASSUME NEW i \in 1..Len(t) PROVE st[Len(s) + i] = t[i] /\ tu[i] = t[i]
  BY CatLeft, CatRight
<1>c. ASSUME NEW i \in 1..Len(u) PROVE tu[Len(t) + i] = u[i]
  BY CatRight
<1> HIDE DEF st, tu
<1>3. /\ left \in Seq(S) /\ right \in Seq(S)
      /\ Len(left) = Len(s) + Len(t) + Len(u) /\ Len(right) = Len(s) + Len(t) + Len(u)
  <2>1. left \in Seq(S) /\ Len(left) = Len(st) + Len(u)
    BY <1>1, CatIs
  <2>2. right \in Seq(S) /\ Len(right) = Len(s) + Len(tu)
    BY <1>1, CatIs
  <2> HIDE DEF left, right
  <2> QED BY <1>1, <1>2, <2>1, <2>2
<1>4. ASSUME NEW i \in 1..(Len(s) + Len(t) + Len(u)) PROVE left[i] = right[i]
  <2>1. CASE i <= Len(s)
    <3>0. i \in 1..Len(s) /\ i \in 1..Len(st)
      BY <1>1, <1>2, <2>1
    <3>1. left[i] = st[i]
      BY <1>1, <3>0, CatLeft
    <3>2. right[i] = s[i]
      BY <1>1, <3>0, CatLeft
    <3> QED BY <1>a, <3>0, <3>1, <3>2
  <2>2. ASSUME NEW j \in 1..Len(t), i = Len(s) + j PROVE left[i] = right[i]
    <3>0. i \in 1..Len(st)
      BY <1>1, <1>2, <2>2
    <3>1. left[i] = st[i]
      BY <1>1, <3>0, CatLeft
    <3>2. j \in 1..Len(tu)
      BY <1>1, <1>2, <2>2
    <3>3. right[i] = tu[j]
      BY <1>1, <2>2, <3>2, CatRight
    <3> QED BY <1>b, <2>2, <3>1, <3>3
  <2>3. ASSUME NEW j \in 1..Len(u), i = Len(s) + Len(t) + j PROVE left[i] = right[i]
    <3>0. i = Len(st) + j
      BY <1>1, <2>3
    <3>a. left[Len(st) + j] = u[j]
      BY <1>1, <2>3, CatRight
    <3>1. left[i] = u[j]
      BY <3>0, <3>a
    <3>2. Len(t) + j \in 1..Len(tu) /\ i = Len(s) + (Len(t) + j)
      BY <1>1, <1>2, <2>3
    <3>3. right[i] = tu[Len(t) + j]
      BY <1>1, <3>2, CatRight
    <3> QED BY <1>c, <2>3, <3>1, <3>3
  <2> HIDE DEF left, right
  <2>4. CASE i > Len(s) /\ i <= Len(s) + Len(t)
    <3>1. i - Len(s) \in 1..Len(t) /\ i = Len(s) + (i - Len(s))
      BY <1>2, <2>4
    <3> QED BY <2>2, <3>1
  <2>5. CASE i > Len(s) + Len(t)
    <3>1. i - Len(s) - Len(t) \in 1..Len(u) /\ i = Len(s) + Len(t) + (i - Len(s) - Len(t))
      BY <1>2, <2>5
    <3> QED BY <2>3, <3>1
  <2> QED BY <1>2, <2>1, <2>4, <2>5
<1> HIDE DEF left, right
<1>5. left = right
  BY <1>3, <1>4, SameSeq
<1> QED BY <1>5 DEF left, right, st, tu

LEMMA CatPut ==
    ASSUME NEW S, NEW s \in Seq(S), NEW t \in Seq(S), NEW x \in S
    PROVE  Put(Cat(s, t), x) = Cat(s, Put(t, x))
  BY DEF Cat, Put

LEMMA PutIs ==
    ASSUME NEW S, NEW s \in Seq(S), NEW x \in S
    PROVE  /\ Put(s, x) \in Seq(S) /\ Put(s, x) # <<>> /\ Len(Put(s, x)) = Len(s) + 1
           /\ Put(s, x)[Len(s) + 1] = x
  BY DEF Put

LEMMA PutAt ==
    ASSUME NEW S, NEW s \in Seq(S), NEW x \in S, NEW i \in 1..Len(s)
    PROVE  Put(s, x)[i] = s[i]
  BY DEF Put

LEMMA PutIsCat ==
    ASSUME NEW S, NEW s \in Seq(S), NEW x \in S
    PROVE  Put(s, x) = Cat(s, <<x>>) /\ <<x>> \in Seq(S)
<1> DEFINE e == <<>>
<1>1. e \in Seq(S) /\ <<x>> = Put(e, x) /\ <<x>> \in Seq(S)
  BY DEF Put
<1>2. Cat(s, e) = s
  BY CatEmpty
<1> HIDE DEF e
<1>3. Put(Cat(s, e), x) = Cat(s, Put(e, x))
  BY <1>1, CatPut
<1> QED BY <1>1, <1>2, <1>3

LEMMA LeftIs ==
    ASSUME NEW S, NEW p \in Seq(S), NEW n \in 0..Len(p)
    PROVE  Left(p, n) \in Seq(S) /\ Len(Left(p, n)) = n
  BY DEF Left

LEMMA LeftAt ==
    ASSUME NEW S, NEW p \in Seq(S), NEW n \in 0..Len(p), NEW i \in 1..n
    PROVE  Left(p, n)[i] = p[i]
  BY DEF Left

LEMMA RightIs ==
    ASSUME NEW S, NEW p \in Seq(S), NEW n \in 0..Len(p)
    PROVE  Right(p, n) \in Seq(S) /\ Len(Right(p, n)) = Len(p) - n
  BY DEF Right

LEMMA RightAt ==
    ASSUME NEW S, NEW p \in Seq(S), NEW n \in 0..Len(p), NEW i \in 1..(Len(p) - n)
    PROVE  Right(p, n)[i] = p[n + i]
  BY DEF Right

LEMMA LeftRight ==
    ASSUME NEW S, NEW p \in Seq(S), NEW n \in 0..Len(p)
    PROVE  p = Cat(Left(p, n), Right(p, n))
<1> DEFINE b == Left(p, n)
           a == Right(p, n)
           c == Cat(b, a)
<1>1. b \in Seq(S) /\ Len(b) = n /\ a \in Seq(S) /\ Len(a) = Len(p) - n
  BY LeftIs, RightIs
<1>2. ASSUME NEW i \in 1..n PROVE b[i] = p[i]
  BY LeftAt
<1>3. ASSUME NEW i \in 1..(Len(p) - n) PROVE a[i] = p[n + i]
  BY RightAt
<1> HIDE DEF a, b
<1>4. c \in Seq(S) /\ Len(c) = Len(p) /\ Len(p) \in Nat
  <2>1. c \in Seq(S) /\ Len(c) = Len(b) + Len(a)
    BY <1>1, CatIs
  <2> HIDE DEF c
  <2> QED BY <1>1, <2>1, LenIs
<1>5. ASSUME NEW i \in 1..Len(p) PROVE c[i] = p[i]
  <2>1. CASE i <= n
    <3>1. i \in 1..Len(b) /\ i \in 1..n
      BY <1>1, <2>1
    <3>2. c[i] = b[i]
      BY <1>1, <3>1, CatLeft
    <3> QED BY <1>2, <3>1, <3>2
  <2>2. CASE i > n
    <3>1. i - n \in 1..Len(a) /\ i - n \in 1..(Len(p) - n) /\ n + (i - n) = i
      BY <1>1, <2>2
    <3>2. c[Len(b) + (i - n)] = a[i - n]
      BY <1>1, <3>1, CatRight
    <3> QED BY <1>1, <1>3, <3>1, <3>2
  <2> QED BY <1>1, <2>1, <2>2
<1> HIDE DEF c
<1>6. p = c
  BY <1>4, <1>5, SameSeq
<1> QED BY <1>6 DEF a, b, c

LEMMA LeftNext ==
    ASSUME NEW S, NEW p \in Seq(S), NEW n \in 0..(Len(p) - 1)
    PROVE  Left(p, n + 1) = Put(Left(p, n), p[n + 1])
<1> DEFINE left == Left(p, n + 1)
           b == Left(p, n)
           right == Put(b, p[n + 1])
<1>1. n \in 0..Len(p) /\ n + 1 \in 0..Len(p) /\ p[n + 1] \in S /\ n \in Nat
  OBVIOUS
<1>2. left \in Seq(S) /\ Len(left) = n + 1 /\ b \in Seq(S) /\ Len(b) = n
  BY <1>1, LeftIs
<1>3. ASSUME NEW i \in 1..(n + 1) PROVE left[i] = p[i]
  BY <1>1, LeftAt
<1>4. ASSUME NEW i \in 1..n PROVE b[i] = p[i]
  BY <1>1, LeftAt
<1> HIDE DEF left, b
<1>5. right \in Seq(S) /\ Len(right) = n + 1 /\ right[n + 1] = p[n + 1]
  BY <1>1, <1>2, PutIs
<1>6. ASSUME NEW i \in 1..n PROVE right[i] = b[i]
  BY <1>1, <1>2, PutAt
<1> HIDE DEF right
<1>7. \A i \in 1..(n + 1) : left[i] = right[i]
  BY <1>1, <1>3, <1>4, <1>5, <1>6
<1>8. left = right
  BY <1>2, <1>5, <1>7, SameSeq
<1> QED BY <1>8 DEF left, right, b

LEMMA LeftEnds ==
    ASSUME NEW S, NEW p \in Seq(S)
    PROVE  Left(p, 0) = <<>> /\ Left(p, Len(p)) = p
  BY DEF Left

LEMMA SamePrefix ==
    ASSUME NEW S, NEW a \in Seq(S), NEW p \in Seq(S)
    PROVE  IsPrefix(a, p) <=> Len(a) <= Len(p) /\ a = Left(p, Len(a))
<1>1. IsPrefix(a, p) <=> Len(a) <= Len(p) /\ Left(a, Len(a)) = Left(p, Len(a))
  BY DEF IsPrefix, Left
<1> QED BY <1>1, LeftEnds

\* What IsPrefix says, element by element.
LEMMA PrefixAt ==
    ASSUME NEW S, NEW a \in Seq(S), NEW p \in Seq(S), IsPrefix(a, p), NEW i \in 1..Len(a)
    PROVE  p[i] = a[i] /\ Len(a) <= Len(p)
<1>1. Len(a) \in 0..Len(p) /\ a = Left(p, Len(a))
  BY SamePrefix, LenIs
<1>2. Left(p, Len(a))[i] = p[i]
  BY <1>1, LeftAt
<1> QED BY <1>1, <1>2

LEMMA PrefixIf ==
    ASSUME NEW S, NEW a \in Seq(S), NEW p \in Seq(S),
           Len(a) <= Len(p), \A i \in 1..Len(a) : p[i] = a[i]
    PROVE  IsPrefix(a, p)
<1>1. Len(a) \in 0..Len(p)
  BY LenIs
<1>2. Left(p, Len(a)) \in Seq(S) /\ Len(Left(p, Len(a))) = Len(a)
  BY <1>1, LeftIs
<1>3. \A i \in 1..Len(a) : a[i] = Left(p, Len(a))[i]
  BY <1>1, LeftAt
<1>4. a = Left(p, Len(a))
  BY <1>2, <1>3, SameSeq
<1> QED BY <1>4, SamePrefix

LEMMA PrefixOfCat ==
    ASSUME NEW S, NEW a \in Seq(S), NEW r \in Seq(S)
    PROVE  IsPrefix(a, Cat(a, r))
<1>1. Len(a) \in Nat /\ Len(r) \in Nat /\ Cat(a, r) \in Seq(S) /\ Len(Cat(a, r)) = Len(a) + Len(r)
  BY CatIs, LenIs
<1>2. \A i \in 1..Len(a) : Cat(a, r)[i] = a[i]
  BY CatLeft
<1>3. Len(a) <= Len(Cat(a, r))
  BY <1>1
<1> QED BY <1>1, <1>2, <1>3, PrefixIf

LEMMA CatOfPrefix ==
    ASSUME NEW S, NEW a \in Seq(S), NEW p \in Seq(S), IsPrefix(a, p)
    PROVE  Len(a) \in 0..Len(p) /\ a = Left(p, Len(a)) /\ p = Cat(a, Right(p, Len(a)))
<1>1. Len(a) \in 0..Len(p) /\ a = Left(p, Len(a))
  BY SamePrefix, LenIs
<1>2. p = Cat(Left(p, Len(a)), Right(p, Len(a)))
  BY <1>1, LeftRight
<1> QED BY <1>1, <1>2

\* The loops over a path are the functions that their definitions describe.
LEMMA ScanIs ==
    ASSUME NEW S, NEW p \in Seq(S)
    PROVE  /\ Scan(p)[0] = [segments |-> <<>>, segment |-> <<>>]
           /\ \A n \in 1..Len(p) : Scan(p)[n] = TakeChar(Scan(p)[n - 1], p[n])
<1> DEFINE First == [segments |-> <<>>, segment |-> <<>>]
           Step(a, x) == TakeChar(a, x)
           Run(f, m) == f = [n \in 0..m |-> IF n = 0 THEN First ELSE Step(f[n - 1], p[n])]
           N == {m \in Nat : \E f : Run(f, m)}
<1>1. Scan(p) = CHOOSE f : Run(f, Len(p))
  BY DEF Scan
<1> HIDE DEF First, Step
<1>2. 0 \in N
  <2>1. Run([n \in 0..0 |-> First], 0)
    OBVIOUS
  <2> QED BY <2>1
<1>3. \A m \in Nat : m \in N => m + 1 \in N
  <2> SUFFICES ASSUME NEW m \in Nat, m \in N PROVE \E g : Run(g, m + 1)
    <3> HIDE DEF Run
    <3> QED OBVIOUS
  <2>0. PICK f : Run(f, m)
    <3> HIDE DEF Run
    <3> QED OBVIOUS
  <2> DEFINE g == [n \in 0..(m + 1) |-> IF n = m + 1 THEN Step(f[m], p[m + 1]) ELSE f[n]]
  <2>1. Run(g, m + 1)
    BY <2>0
  <2> QED BY <2>1
<1>4. Len(p) \in Nat
  OBVIOUS
<1>5. \E f : Run(f, Len(p))
  <2> HIDE DEF Run
  <2> QED BY <1>2, <1>3, <1>4, NaturalInduction
<1>6. Run(Scan(p), Len(p))
  <2> HIDE DEF Run
  <2> QED BY <1>1, <1>5
<1>7. Scan(p)[0] = First /\ \A n \in 1..Len(p) : Scan(p)[n] = Step(Scan(p)[n - 1], p[n])
  BY <1>4, <1>6
<1> QED BY <1>7 DEF First, Step

\* The same for the stack of segments.
LEMMA StackedIs ==
    ASSUME NEW S, NEW s \in Seq(S)
    PROVE  /\ Stacked(s)[0] = [ok |-> TRUE, stack |-> <<>>]
           /\ \A n \in 1..Len(s) : Stacked(s)[n] = PushSegment(Stacked(s)[n - 1], s[n])
<1> DEFINE First == [ok |-> TRUE, stack |-> <<>>]
           Step(a, x) == PushSegment(a, x)
           Run(f, m) == f = [n \in 0..m |-> IF n = 0 THEN First ELSE Step(f[n - 1], s[n])]
           N == {m \in Nat : \E f : Run(f, m)}
<1>1. Stacked(s) = CHOOSE f : Run(f, Len(s))
  BY DEF Stacked
<1> HIDE DEF First, Step
<1>2. 0 \in N
  <2>1. Run([n \in 0..0 |-> First], 0)
    OBVIOUS
  <2> QED BY <2>1
<1>3. \A m \in Nat : m \in N => m + 1 \in N
  <2> SUFFICES ASSUME NEW m \in Nat, m \in N PROVE \E g : Run(g, m + 1)
    <3> HIDE DEF Run
    <3> QED OBVIOUS
  <2>0. PICK f : Run(f, m)
    <3> HIDE DEF Run
    <3> QED OBVIOUS
  <2> DEFINE g == [n \in 0..(m + 1) |-> IF n = m + 1 THEN Step(f[m], s[m + 1]) ELSE f[n]]
  <2>1. Run(g, m + 1)
    BY <2>0
  <2> QED BY <2>1
<1>4. Len(s) \in Nat
  OBVIOUS
<1>5. \E f : Run(f, Len(s))
  <2> HIDE DEF Run
  <2> QED BY <1>2, <1>3, <1>4, NaturalInduction
<1>6. Run(Stacked(s), Len(s))
  <2> HIDE DEF Run
  <2> QED BY <1>1, <1>5
<1>7. Stacked(s)[0] = First /\ \A n \in 1..Len(s) : Stacked(s)[n] = Step(Stacked(s)[n - 1], s[n])
  BY <1>4, <1>6
<1> QED BY <1>7 DEF First, Step

\* The same for the path rebuilt from segments.
LEMMA JoinIs ==
    ASSUME NEW S, NEW s \in Seq(S)
    PROVE  /\ Join(s)[0] = <<>>
           /\ \A n \in 1..Len(s) : Join(s)[n] = Join(s)[n - 1] \o (<<"/">> \o s[n])
<1> DEFINE First == <<>>
           Step(a, x) == a \o (<<"/">> \o x)
           Run(f, m) == f = [n \in 0..m |-> IF n = 0 THEN First ELSE Step(f[n - 1], s[n])]
           N == {m \in Nat : \E f : Run(f, m)}
<1>1. Join(s) = CHOOSE f : Run(f, Len(s))
  BY DEF Join
<1> HIDE DEF First, Step
<1>2. 0 \in N
  <2>1. Run([n \in 0..0 |-> First], 0)
    OBVIOUS
  <2> QED BY <2>1
<1>3. \A m \in Nat : m \in N => m + 1 \in N
  <2> SUFFICES ASSUME NEW m \in Nat, m \in N PROVE \E g : Run(g, m + 1)
    <3> HIDE DEF Run
    <3> QED OBVIOUS
  <2>0. PICK f : Run(f, m)
    <3> HIDE DEF Run
    <3> QED OBVIOUS
  <2> DEFINE g == [n \in 0..(m + 1) |-> IF n = m + 1 THEN Step(f[m], s[m + 1]) ELSE f[n]]
  <2>1. Run(g, m + 1)
    BY <2>0
  <2> QED BY <2>1
<1>4. Len(s) \in Nat
  OBVIOUS
<1>5. \E f : Run(f, Len(s))
  <2> HIDE DEF Run
  <2> QED BY <1>2, <1>3, <1>4, NaturalInduction
<1>6. Run(Join(s), Len(s))
  <2> HIDE DEF Run
  <2> QED BY <1>1, <1>5
<1>7. Join(s)[0] = First /\ \A n \in 1..Len(s) : Join(s)[n] = Step(Join(s)[n - 1], s[n])
  BY <1>4, <1>6
<1> QED BY <1>7 DEF First, Step

(***************************************************************************)
(* SplitPathSegments.  W holds the characters of names; a name is not      *)
(* empty.                                                                  *)
(***************************************************************************)
Names(W) == Seq(W) \ {<<>>}
Chars(W) == W \cup {"/"}
ScanState(W) == [segments : Seq(Names(W)), segment : Seq(W)]

LEMMA EndSegmentIs ==
    ASSUME NEW W, NEW acc \in ScanState(W)
    PROVE  EndSegment(acc) \in Seq(Names(W))
<1>1. acc.segments \in Seq(Names(W)) /\ acc.segment \in Seq(W)
  BY DEF ScanState
<1>2. CASE acc.segment = <<>>
  BY <1>1, <1>2 DEF EndSegment
<1>3. CASE acc.segment # <<>>
  <2>1. acc.segment \in Names(W)
    BY <1>1, <1>3 DEF Names
  <2>2. EndSegment(acc) = Put(acc.segments, acc.segment)
    BY <1>3 DEF EndSegment, Put
  <2> QED BY <1>1, <2>1, <2>2, PutIs
<1> QED BY <1>2, <1>3

LEMMA TakeCharIs ==
    ASSUME NEW W, NEW acc \in ScanState(W), NEW ch \in Chars(W)
    PROVE  TakeChar(acc, ch) \in ScanState(W)
<1>1. acc.segments \in Seq(Names(W)) /\ acc.segment \in Seq(W)
  BY DEF ScanState
<1>2. CASE ch = "/"
  <2>1. EndSegment(acc) \in Seq(Names(W)) /\ <<>> \in Seq(W)
    BY EndSegmentIs
  <2> QED BY <1>2, <2>1 DEF TakeChar, ScanState
<1>3. CASE ch # "/"
  <2>1. Put(acc.segment, ch) \in Seq(W)
    BY <1>1, <1>3, PutIs DEF Chars
  <2>2. TakeChar(acc, ch) = [segments |-> acc.segments, segment |-> Put(acc.segment, ch)]
    BY <1>3 DEF TakeChar, Put
  <2> QED BY <1>1, <2>1, <2>2 DEF ScanState
<1> QED BY <1>2, <1>3

LEMMA ScanType ==
    ASSUME NEW W, NEW p \in Seq(Chars(W))
    PROVE  0..Len(p) \subseteq {n \in Nat : Scan(p)[n] \in ScanState(W)}
<1> DEFINE N == {n \in Nat : Scan(p)[n] \in ScanState(W)}
<1>1. 0 \in N
  <2>1. Scan(p)[0] = [segments |-> <<>>, segment |-> <<>>]
    BY ScanIs
  <2>2. [segments |-> <<>>, segment |-> <<>>] \in ScanState(W)
    BY DEF ScanState
  <2>3. Scan(p)[0] \in ScanState(W)
    BY <2>1, <2>2
  <2> QED BY <2>3
<1>2. ASSUME NEW n \in 0..(Len(p) - 1), n \in N PROVE n + 1 \in N
  <2>1. n + 1 \in 1..Len(p) /\ (n + 1) - 1 = n /\ p[n + 1] \in Chars(W) /\ n + 1 \in Nat
    OBVIOUS
  <2>2. Scan(p)[n + 1] = TakeChar(Scan(p)[n], p[n + 1])
    BY <2>1, ScanIs
  <2> QED BY <1>2, <2>1, <2>2, TakeCharIs
<1>3. Len(p) \in Nat
  OBVIOUS
<1> HIDE DEF N
<1>4. 0..Len(p) \subseteq N
  BY <1>1, <1>2, <1>3, IntervalInduction
<1> QED BY <1>4 DEF N

LEMMA ScanStep ==
    ASSUME NEW W, NEW p \in Seq(Chars(W)), NEW n \in 0..(Len(p) - 1)
    PROVE  /\ Scan(p)[n + 1] = TakeChar(Scan(p)[n], p[n + 1])
           /\ Scan(p)[n] \in ScanState(W) /\ p[n + 1] \in Chars(W)
<1>1. n + 1 \in 1..Len(p) /\ (n + 1) - 1 = n /\ p[n + 1] \in Chars(W) /\ n \in 0..Len(p)
  OBVIOUS
<1>2. Scan(p)[n + 1] = TakeChar(Scan(p)[(n + 1) - 1], p[n + 1])
  BY <1>1, ScanIs
<1>3. Scan(p)[n] \in ScanState(W)
  BY <1>1, ScanType
<1> QED BY <1>1, <1>2, <1>3

LEMMA SplitType ==
    ASSUME NEW W, NEW p \in Seq(Chars(W))
    PROVE  SplitPathSegments(p) \in Seq(Names(W)) /\ Scan(p)[Len(p)] \in ScanState(W)
<1>1. Len(p) \in 0..Len(p)
  OBVIOUS
<1>2. Scan(p)[Len(p)] \in ScanState(W)
  BY <1>1, ScanType
<1> QED BY <1>2, EndSegmentIs DEF SplitPathSegments

\* The scan of a path does not depend on what follows.
LEMMA ScanGrows ==
    ASSUME NEW W, NEW a \in Seq(Chars(W)), NEW r \in Seq(Chars(W))
    PROVE  0..Len(a) \subseteq {n \in Nat : Scan(Cat(a, r))[n] = Scan(a)[n]}
<1> DEFINE p == Cat(a, r)
           N == {n \in Nat : Scan(p)[n] = Scan(a)[n]}
<1>0. p \in Seq(Chars(W)) /\ Len(p) = Len(a) + Len(r) /\ Len(a) \in Nat /\ Len(r) \in Nat
  BY CatIs, LenIs
<1>a. ASSUME NEW n \in 1..Len(a) PROVE p[n] = a[n]
  BY CatLeft
<1> HIDE DEF p
<1>1. 0 \in N
  BY <1>0, ScanIs
<1>2. ASSUME NEW n \in 0..(Len(a) - 1), n \in N PROVE n + 1 \in N
  <2>1. n + 1 \in 1..Len(a) /\ n \in 0..(Len(p) - 1) /\ n + 1 \in Nat
    BY <1>0
  <2>2. Scan(p)[n + 1] = TakeChar(Scan(p)[n], p[n + 1])
    BY <1>0, <2>1, ScanStep
  <2>3. Scan(a)[n + 1] = TakeChar(Scan(a)[n], a[n + 1])
    BY <2>1, ScanStep
  <2> QED BY <1>2, <1>a, <2>1, <2>2, <2>3
<1> HIDE DEF N
<1>4. 0..Len(a) \subseteq N
  BY <1>0, <1>1, <1>2, IntervalInduction
<1> QED BY <1>4 DEF N, p

\* A scan that begins with some segments.
From(segs, x) == [segments |-> Cat(segs, x.segments), segment |-> x.segment]

LEMMA EndFrom ==
    ASSUME NEW W, NEW segs \in Seq(Names(W)), NEW x \in ScanState(W)
    PROVE  EndSegment(From(segs, x)) = Cat(segs, EndSegment(x))
<1>1. x.segments \in Seq(Names(W)) /\ x.segment \in Seq(W)
  BY DEF ScanState
<1> DEFINE y == From(segs, x)
<1>2. y.segments = Cat(segs, x.segments) /\ y.segment = x.segment
  BY DEF From
<1> HIDE DEF y
<1>3. CASE x.segment = <<>>
  BY <1>2, <1>3 DEF EndSegment, y
<1>4. CASE x.segment # <<>>
  <2>1. x.segment \in Names(W)
    BY <1>1, <1>4 DEF Names
  <2>2. EndSegment(y) = Put(y.segments, y.segment) /\ EndSegment(x) = Put(x.segments, x.segment)
    BY <1>2, <1>4 DEF EndSegment, Put
  <2>3. Put(Cat(segs, x.segments), x.segment) = Cat(segs, Put(x.segments, x.segment))
    BY <1>1, <2>1, CatPut
  <2> QED BY <1>2, <2>2, <2>3 DEF y
<1> QED BY <1>3, <1>4

LEMMA TakeFrom ==
    ASSUME NEW W, NEW segs \in Seq(Names(W)), NEW x \in ScanState(W), NEW ch
    PROVE  TakeChar(From(segs, x), ch) = From(segs, TakeChar(x, ch))
<1>1. CASE ch = "/"
  <2>1. EndSegment(From(segs, x)) = Cat(segs, EndSegment(x))
    BY EndFrom
  <2>2. TakeChar(From(segs, x), ch) = [segments |-> EndSegment(From(segs, x)), segment |-> <<>>]
    BY <1>1 DEF TakeChar
  <2>3. TakeChar(x, ch) = [segments |-> EndSegment(x), segment |-> <<>>]
    BY <1>1 DEF TakeChar
  <2> QED BY <2>1, <2>2, <2>3 DEF From
<1>2. CASE ch # "/"
  <2>1. TakeChar(x, ch) = [segments |-> x.segments, segment |-> Put(x.segment, ch)]
    BY <1>2 DEF TakeChar, Put
  <2>2. TakeChar(From(segs, x), ch)
          = [segments |-> From(segs, x).segments, segment |-> Put(From(segs, x).segment, ch)]
    BY <1>2 DEF TakeChar, Put
  <2> QED BY <2>1, <2>2 DEF From
<1> QED BY <1>1, <1>2

\* What the second of two paths may begin with.
Continues(r) == r = <<>> \/ r[1] = "/"

\* The segments of a path that another continues are followed by those of the
\* other.
LEMMA SplitCat ==
    ASSUME NEW W, NEW a \in Seq(Chars(W)), NEW r \in Seq(Chars(W)), Continues(r)
    PROVE  SplitPathSegments(Cat(a, r)) = Cat(SplitPathSegments(a), SplitPathSegments(r))
<1> DEFINE p == Cat(a, r)
           segs == SplitPathSegments(a)
           N == {n \in Nat : Scan(p)[Len(a) + n] = From(segs, Scan(r)[n])}
<1>0. /\ p \in Seq(Chars(W)) /\ Len(p) = Len(a) + Len(r) /\ Len(a) \in Nat /\ Len(r) \in Nat
      /\ segs \in Seq(Names(W))
  BY CatIs, LenIs, SplitType
<1>1. CASE r = <<>>
  <2>1. Scan(r)[0] = [segments |-> <<>>, segment |-> <<>>] /\ Len(r) = 0
    BY <1>1, ScanIs
  <2>2. SplitPathSegments(r) = <<>>
    BY <2>1 DEF SplitPathSegments, EndSegment
  <2>3. Cat(a, r) = a /\ Cat(segs, <<>>) = segs
    BY <1>0, <1>1, CatEmpty
  <2> QED BY <2>2, <2>3
<1>2. CASE r # <<>>
  <2>a. ASSUME NEW n \in 1..Len(r) PROVE p[Len(a) + n] = r[n]
    BY CatRight
  <2>0. r[1] = "/" /\ Len(r) >= 1
    BY <1>2 DEF Continues
  <2>d. Scan(p)[Len(a)] = Scan(a)[Len(a)]
    BY <1>0, ScanGrows
  <2> HIDE DEF p
  <2>1. 1 \in N
    <3>1. Len(a) \in 0..(Len(p) - 1) /\ 0 \in 0..(Len(r) - 1) /\ 1 \in 1..Len(r) /\ Len(a) + 1 \in Nat
      BY <1>0, <2>0
    <3>a. Scan(p)[Len(a) + 1] = TakeChar(Scan(p)[Len(a)], p[Len(a) + 1])
      BY <1>0, <3>1, ScanStep
    <3>b. p[Len(a) + 1] = "/"
      BY <2>0, <2>a, <3>1
    <3>2. Scan(p)[Len(a) + 1] = TakeChar(Scan(a)[Len(a)], "/")
      BY <2>d, <3>a, <3>b
    <3>3. Scan(p)[Len(a) + 1] = [segments |-> segs, segment |-> <<>>]
      BY <3>2 DEF TakeChar, SplitPathSegments
    <3>4. Scan(r)[0 + 1] = TakeChar(Scan(r)[0], r[0 + 1])
      BY <3>1, ScanStep
    <3>5. Scan(r)[0] = [segments |-> <<>>, segment |-> <<>>]
      BY ScanIs
    <3>6. Scan(r)[1] = [segments |-> <<>>, segment |-> <<>>]
      BY <2>0, <3>4, <3>5 DEF TakeChar, EndSegment
    <3>7. Cat(segs, <<>>) = segs
      BY <1>0, CatEmpty
    <3>8. From(segs, Scan(r)[1]) = [segments |-> segs, segment |-> <<>>]
      BY <3>6, <3>7 DEF From
    <3> QED BY <3>3, <3>8
  <2>2. ASSUME NEW n \in 1..(Len(r) - 1), n \in N PROVE n + 1 \in N
    <3> HIDE DEF segs
    <3>1. /\ Len(a) + n \in 0..(Len(p) - 1) /\ n \in 0..(Len(r) - 1) /\ n + 1 \in 1..Len(r)
          /\ (Len(a) + n) + 1 = Len(a) + (n + 1) /\ n + 1 \in Nat
      BY <1>0
    <3>2. Scan(p)[(Len(a) + n) + 1] = TakeChar(Scan(p)[Len(a) + n], p[(Len(a) + n) + 1])
      BY <1>0, <3>1, ScanStep
    <3>3. Scan(r)[n + 1] = TakeChar(Scan(r)[n], r[n + 1]) /\ Scan(r)[n] \in ScanState(W)
      BY <3>1, ScanStep
    <3>4. p[(Len(a) + n) + 1] = r[n + 1]
      BY <2>a, <3>1
    <3>5. Scan(p)[Len(a) + n] = From(segs, Scan(r)[n])
      BY <2>2
    <3>6. TakeChar(From(segs, Scan(r)[n]), r[n + 1]) = From(segs, TakeChar(Scan(r)[n], r[n + 1]))
      BY <1>0, <3>3, TakeFrom
    <3> QED BY <3>1, <3>2, <3>3, <3>4, <3>5, <3>6
  <2> HIDE DEF N
  <2>3. 1..Len(r) \subseteq N
    BY <1>0, <2>1, <2>2, IntervalInduction
  <2>4. Scan(p)[Len(p)] = From(segs, Scan(r)[Len(r)])
    <3>0. Len(r) \in 1..Len(r)
      BY <1>0, <2>0
    <3>1. Len(r) \in N
      BY <2>3, <3>0
    <3>2. Scan(p)[Len(a) + Len(r)] = From(segs, Scan(r)[Len(r)])
      BY <3>1 DEF N
    <3> QED BY <1>0, <3>2
  <2>5. Scan(r)[Len(r)] \in ScanState(W)
    BY SplitType
  <2> HIDE DEF segs
  <2>6. EndSegment(From(segs, Scan(r)[Len(r)])) = Cat(segs, EndSegment(Scan(r)[Len(r)]))
    BY <1>0, <2>5, EndFrom
  <2>7. SplitPathSegments(p) = Cat(segs, SplitPathSegments(r))
    BY <2>4, <2>6 DEF SplitPathSegments
  <2> QED BY <2>7 DEF p, segs
<1> QED BY <1>1, <1>2

(***************************************************************************)
(* Join: a path is made of the segments that it is joined from.            *)
(***************************************************************************)
Slash(s) == Cat(<<"/">>, s)
Whole(segs) == Join(segs)[Len(segs)]

LEMMA SlashIs ==
    ASSUME NEW W, NEW s \in Seq(W)
    PROVE  /\ Slash(s) \in Seq(Chars(W)) /\ Len(Slash(s)) = 1 + Len(s)
           /\ Slash(s)[1] = "/" /\ Slash(s) # <<>> /\ Continues(Slash(s))
<1> DEFINE one == <<"/">>
<1>1. one \in Seq(Chars(W)) /\ Len(one) = 1 /\ one[1] = "/" /\ s \in Seq(Chars(W)) /\ Len(s) \in Nat
      /\ 1 \in 1..Len(one)
  BY DEF Chars
<1> HIDE DEF one
<1>2. Cat(one, s) \in Seq(Chars(W)) /\ Len(Cat(one, s)) = Len(one) + Len(s)
  BY <1>1, CatIs
<1>3. Cat(one, s)[1] = one[1]
  BY <1>1, CatLeft
<1>4. Slash(s) = Cat(one, s)
  BY DEF Slash, one
<1>5. Slash(s) \in Seq(Chars(W)) /\ Len(Slash(s)) = 1 + Len(s) /\ Slash(s)[1] = "/"
  BY <1>1, <1>2, <1>3, <1>4
<1> QED BY <1>1, <1>5 DEF Continues

LEMMA SlashAt ==
    ASSUME NEW W, NEW s \in Seq(W), NEW n \in 1..Len(s)
    PROVE  Slash(s)[1 + n] = s[n]
<1> DEFINE one == <<"/">>
<1>1. one \in Seq(Chars(W)) /\ Len(one) = 1 /\ s \in Seq(Chars(W))
  BY DEF Chars
<1> HIDE DEF one
<1>2. Cat(one, s)[Len(one) + n] = s[n]
  BY <1>1, CatRight
<1> QED BY <1>1, <1>2 DEF Slash, one

\* "/name" has the one segment name.
LEMMA SplitSlash ==
    ASSUME NEW W, "/" \notin W, NEW s \in Names(W)
    PROVE  SplitPathSegments(Slash(s)) = <<s>>
<1> DEFINE p == Slash(s)
           N == {n \in Nat : Scan(p)[1 + n] = [segments |-> <<>>, segment |-> Left(s, n)]}
<1>0. s \in Seq(W) /\ s # <<>> /\ Len(s) \in Nat
  BY DEF Names
<1>1. p \in Seq(Chars(W)) /\ Len(p) = 1 + Len(s) /\ p[1] = "/"
  BY <1>0, SlashIs
<1>2. ASSUME NEW n \in 1..Len(s) PROVE p[1 + n] = s[n]
  BY <1>0, SlashAt
<1> HIDE DEF p
<1>3. 0 \in N
  <2>1. 0 \in 0..(Len(p) - 1)
    BY <1>0, <1>1
  <2>2. Scan(p)[0 + 1] = TakeChar(Scan(p)[0], p[0 + 1])
    BY <1>1, <2>1, ScanStep
  <2>3. Scan(p)[0] = [segments |-> <<>>, segment |-> <<>>]
    BY <1>1, ScanIs
  <2>4. Scan(p)[1] = [segments |-> <<>>, segment |-> <<>>]
    BY <1>1, <2>2, <2>3 DEF TakeChar, EndSegment
  <2>5. Left(s, 0) = <<>>
    BY <1>0, LeftEnds
  <2>6. Scan(p)[1 + 0] = [segments |-> <<>>, segment |-> Left(s, 0)]
    BY <2>4, <2>5
  <2> QED BY <2>6
<1>4. ASSUME NEW n \in 0..(Len(s) - 1), n \in N PROVE n + 1 \in N
  <2>1. 1 + n \in 0..(Len(p) - 1) /\ n + 1 \in 1..Len(s) /\ (1 + n) + 1 = 1 + (n + 1) /\ n + 1 \in Nat
    BY <1>0, <1>1
  <2>2. Scan(p)[(1 + n) + 1] = TakeChar(Scan(p)[1 + n], p[(1 + n) + 1])
    BY <1>1, <2>1, ScanStep
  <2>3. p[(1 + n) + 1] = s[n + 1] /\ s[n + 1] # "/"
    BY <1>0, <1>2, <2>1
  <2>4. Scan(p)[1 + n] = [segments |-> <<>>, segment |-> Left(s, n)]
    BY <1>4
  <2>5. Left(s, n + 1) = Put(Left(s, n), s[n + 1])
    BY <1>0, LeftNext
  <2>6. TakeChar([segments |-> <<>>, segment |-> Left(s, n)], s[n + 1])
          = [segments |-> <<>>, segment |-> Put(Left(s, n), s[n + 1])]
    BY <2>3 DEF TakeChar, Put
  <2>7. Scan(p)[1 + (n + 1)] = [segments |-> <<>>, segment |-> Left(s, n + 1)]
    BY <2>1, <2>2, <2>3, <2>4, <2>5, <2>6
  <2> QED BY <2>1, <2>7
<1>5. Scan(p)[Len(p)] = [segments |-> <<>>, segment |-> s]
  <2> HIDE DEF N
  <2>1. 0..Len(s) \subseteq N
    BY <1>0, <1>3, <1>4, IntervalInduction
  <2>2. Len(s) \in N
    BY <1>0, <2>1
  <2>3. Scan(p)[1 + Len(s)] = [segments |-> <<>>, segment |-> Left(s, Len(s))]
    BY <2>2 DEF N
  <2>4. Left(s, Len(s)) = s
    BY <1>0, LeftEnds
  <2> QED BY <1>1, <2>3, <2>4
<1>6. SplitPathSegments(p) = <<s>>
  BY <1>0, <1>5 DEF SplitPathSegments, EndSegment
<1> QED BY <1>6 DEF p

LEMMA JoinStep ==
    ASSUME NEW S, NEW s \in Seq(S), NEW n \in 0..(Len(s) - 1)
    PROVE  Join(s)[n + 1] = Cat(Join(s)[n], Slash(s[n + 1])) /\ s[n + 1] \in S
<1>1. n + 1 \in 1..Len(s) /\ (n + 1) - 1 = n /\ s[n + 1] \in S
  OBVIOUS
<1>2. Join(s)[n + 1] = Join(s)[(n + 1) - 1] \o (<<"/">> \o s[n + 1])
  BY <1>1, JoinIs
<1> QED BY <1>1, <1>2 DEF Cat, Slash

LEMMA JoinStart ==
    ASSUME NEW S, NEW s \in Seq(S)
    PROVE  Join(s)[0] = <<>>
  BY JoinIs

LEMMA JoinType ==
    ASSUME NEW W, NEW s \in Seq(Seq(W))
    PROVE  0..Len(s) \subseteq {n \in Nat : Join(s)[n] \in Seq(Chars(W))}
<1> DEFINE N == {n \in Nat : Join(s)[n] \in Seq(Chars(W))}
<1>1. 0 \in N
  <2>1. Join(s)[0] = <<>> /\ <<>> \in Seq(Chars(W))
    BY JoinStart
  <2>2. Join(s)[0] \in Seq(Chars(W))
    BY <2>1
  <2> QED BY <2>2
<1>2. ASSUME NEW n \in 0..(Len(s) - 1), n \in N PROVE n + 1 \in N
  <2>1. Join(s)[n + 1] = Cat(Join(s)[n], Slash(s[n + 1])) /\ s[n + 1] \in Seq(W)
    BY JoinStep
  <2>2. Slash(s[n + 1]) \in Seq(Chars(W))
    BY <2>1, SlashIs
  <2>3. Cat(Join(s)[n], Slash(s[n + 1])) \in Seq(Chars(W))
    BY <1>2, <2>2, CatIs
  <2> QED BY <2>1, <2>3
<1>3. Len(s) \in Nat
  OBVIOUS
<1> HIDE DEF N
<1>4. 0..Len(s) \subseteq N
  BY <1>1, <1>2, <1>3, IntervalInduction
<1> QED BY <1>4 DEF N

LEMMA JoinAt ==
    ASSUME NEW W, NEW s \in Seq(Seq(W)), NEW n \in 0..Len(s)
    PROVE  Join(s)[n] \in Seq(Chars(W))
  BY JoinType

LEMMA WholeType ==
    ASSUME NEW W, NEW s \in Seq(Seq(W))
    PROVE  Whole(s) \in Seq(Chars(W))
<1>1. Len(s) \in 0..Len(s)
  OBVIOUS
<1> QED BY <1>1, JoinAt DEF Whole

LEMMA NamesAreSeqs ==
    ASSUME NEW W, NEW s \in Seq(Names(W))
    PROVE  s \in Seq(Seq(W))
<1>1. ASSUME NEW i \in 1..Len(s) PROVE s[i] \in Seq(W)
  <2>1. s[i] \in Names(W)
    OBVIOUS
  <2> QED BY <2>1 DEF Names
<1>2. Len(s) \in Nat /\ DOMAIN s = 1..Len(s) /\ s = [i \in 1..Len(s) |-> s[i]]
  OBVIOUS
<1> QED BY <1>1, <1>2

\* Splitting undoes joining.
LEMMA SplitWhole ==
    ASSUME NEW W, "/" \notin W, NEW s \in Seq(Names(W))
    PROVE  SplitPathSegments(Whole(s)) = s
<1> DEFINE N == {n \in Nat : SplitPathSegments(Join(s)[n]) = Left(s, n)}
<1>0. s \in Seq(Seq(W)) /\ Len(s) \in Nat
  BY NamesAreSeqs, LenIs
<1>1. 0 \in N
  <2>1. Join(s)[0] = <<>> /\ Left(s, 0) = <<>>
    BY JoinStart, LeftEnds
  <2>2. Scan(<<>>)[0] = [segments |-> <<>>, segment |-> <<>>]
    <3>1. <<>> \in Seq(W)
      OBVIOUS
    <3> QED BY <3>1, ScanIs
  <2>3. SplitPathSegments(<<>>) = <<>>
    BY <2>2 DEF SplitPathSegments, EndSegment
  <2> QED BY <2>1, <2>3
<1>2. ASSUME NEW n \in 0..(Len(s) - 1), n \in N PROVE n + 1 \in N
  <2> DEFINE a == Join(s)[n]
             x == s[n + 1]
             b == Left(s, n)
  <2>1. Join(s)[n + 1] = Cat(a, Slash(x)) /\ x \in Names(W)
    BY JoinStep
  <2>2. n \in 0..Len(s) /\ n + 1 \in Nat
    BY <1>0
  <2>3. a \in Seq(Chars(W)) /\ b \in Seq(Names(W))
    BY <1>0, <2>2, JoinAt, LeftIs
  <2>4. Left(s, n + 1) = Put(b, x)
    BY LeftNext
  <2>5. SplitPathSegments(a) = b
    BY <1>2
  <2> HIDE DEF a, b, x
  <2>6. x \in Seq(W)
    BY <2>1 DEF Names
  <2>7. Slash(x) \in Seq(Chars(W)) /\ Continues(Slash(x))
    BY <2>6, SlashIs
  <2>8. SplitPathSegments(Cat(a, Slash(x))) = Cat(b, SplitPathSegments(Slash(x)))
    BY <2>3, <2>5, <2>7, SplitCat
  <2>9. SplitPathSegments(Slash(x)) = <<x>>
    BY <2>1, SplitSlash
  <2>10. Put(b, x) = Cat(b, <<x>>)
    BY <2>1, <2>3, PutIsCat
  <2>11. SplitPathSegments(Join(s)[n + 1]) = Left(s, n + 1)
    BY <2>1, <2>4, <2>8, <2>9, <2>10
  <2> QED BY <2>2, <2>11
<1> HIDE DEF N
<1>3. 0..Len(s) \subseteq N
  BY <1>0, <1>1, <1>2, IntervalInduction
<1>4. Len(s) \in N
  BY <1>0, <1>3
<1>5. SplitPathSegments(Join(s)[Len(s)]) = Left(s, Len(s))
  BY <1>4 DEF N
<1>6. Left(s, Len(s)) = s
  BY LeftEnds
<1> QED BY <1>5, <1>6 DEF Whole

LEMMA JoinGrows ==
    ASSUME NEW W, NEW s \in Seq(Seq(W)), NEW t \in Seq(Seq(W))
    PROVE  0..Len(s) \subseteq {n \in Nat : Join(Cat(s, t))[n] = Join(s)[n]}
<1> DEFINE u == Cat(s, t)
           N == {n \in Nat : Join(u)[n] = Join(s)[n]}
<1>0. u \in Seq(Seq(W)) /\ Len(u) = Len(s) + Len(t) /\ Len(s) \in Nat /\ Len(t) \in Nat
  BY CatIs, LenIs
<1>a. ASSUME NEW n \in 1..Len(s) PROVE u[n] = s[n]
  BY CatLeft
<1> HIDE DEF u
<1>1. 0 \in N
  BY <1>0, JoinStart
<1>2. ASSUME NEW n \in 0..(Len(s) - 1), n \in N PROVE n + 1 \in N
  <2>1. n + 1 \in 1..Len(s) /\ n \in 0..(Len(u) - 1) /\ n + 1 \in Nat
    BY <1>0
  <2>2. Join(u)[n + 1] = Cat(Join(u)[n], Slash(u[n + 1]))
    BY <1>0, <2>1, JoinStep
  <2>3. Join(s)[n + 1] = Cat(Join(s)[n], Slash(s[n + 1]))
    BY <2>1, JoinStep
  <2> QED BY <1>2, <1>a, <2>1, <2>2, <2>3
<1> HIDE DEF N
<1>4. 0..Len(s) \subseteq N
  BY <1>0, <1>1, <1>2, IntervalInduction
<1> QED BY <1>4 DEF N, u

LEMMA WholeCat ==
    ASSUME NEW W, NEW s \in Seq(Seq(W)), NEW t \in Seq(Seq(W))
    PROVE  Whole(Cat(s, t)) = Cat(Whole(s), Whole(t))
<1> DEFINE u == Cat(s, t)
           a == Whole(s)
           N == {n \in Nat : Join(u)[Len(s) + n] = Cat(a, Join(t)[n])}
<1>0. /\ u \in Seq(Seq(W)) /\ Len(u) = Len(s) + Len(t) /\ Len(s) \in Nat /\ Len(t) \in Nat
      /\ a \in Seq(Chars(W))
  BY CatIs, LenIs, WholeType
<1>a. ASSUME NEW n \in 1..Len(t) PROVE u[Len(s) + n] = t[n]
  BY CatRight
<1>b. Join(u)[Len(s)] = Join(s)[Len(s)]
  BY <1>0, JoinGrows
<1>c. Join(s)[Len(s)] = a
  BY DEF Whole
<1> HIDE DEF u, a
<1>1. 0 \in N
  <2>1. Join(t)[0] = <<>> /\ Cat(a, <<>>) = a
    BY <1>0, JoinStart, CatEmpty
  <2>2. Join(u)[Len(s) + 0] = Cat(a, Join(t)[0])
    BY <1>0, <1>b, <1>c, <2>1
  <2> QED BY <2>2
<1>2. ASSUME NEW n \in 0..(Len(t) - 1), n \in N PROVE n + 1 \in N
  <2>1. /\ n + 1 \in 1..Len(t) /\ Len(s) + n \in 0..(Len(u) - 1) /\ n + 1 \in Nat /\ n \in 0..Len(t)
        /\ (Len(s) + n) + 1 = Len(s) + (n + 1)
    BY <1>0
  <2>2. Join(u)[(Len(s) + n) + 1] = Cat(Join(u)[Len(s) + n], Slash(u[(Len(s) + n) + 1]))
    BY <1>0, <2>1, JoinStep
  <2>3. Join(t)[n + 1] = Cat(Join(t)[n], Slash(t[n + 1])) /\ t[n + 1] \in Seq(W)
    BY <2>1, JoinStep
  <2>4. Join(t)[n] \in Seq(Chars(W)) /\ Slash(t[n + 1]) \in Seq(Chars(W))
    BY <2>1, <2>3, JoinAt, SlashIs
  <2>5. u[(Len(s) + n) + 1] = t[n + 1]
    BY <1>a, <2>1
  <2>6. Cat(Cat(a, Join(t)[n]), Slash(t[n + 1])) = Cat(a, Cat(Join(t)[n], Slash(t[n + 1])))
    BY <1>0, <2>4, CatAssociative
  <2>7. Join(u)[Len(s) + n] = Cat(a, Join(t)[n])
    BY <1>2
  <2>8. Join(u)[Len(s) + (n + 1)] = Cat(a, Join(t)[n + 1])
    BY <2>1, <2>2, <2>3, <2>5, <2>6, <2>7
  <2> QED BY <2>1, <2>8
<1> HIDE DEF N
<1>3. 0..Len(t) \subseteq N
  BY <1>0, <1>1, <1>2, IntervalInduction
<1>4. Len(t) \in N
  <2>1. Len(t) \in 0..Len(t)
    BY <1>0
  <2> QED BY <1>3, <2>1
<1>5. Join(u)[Len(s) + Len(t)] = Cat(a, Join(t)[Len(t)])
  BY <1>4 DEF N
<1>6. Join(u)[Len(u)] = Cat(a, Whole(t))
  BY <1>0, <1>5 DEF Whole
<1> QED BY <1>6 DEF Whole, a, u

\* What is joined from segments begins with "/", if there are any.
LEMMA WholeStarts ==
    ASSUME NEW W, NEW s \in Seq(Seq(W))
    PROVE  Continues(Whole(s)) /\ (s = <<>> <=> Whole(s) = <<>>)
<1> DEFINE N == {n \in Nat : Join(s)[n] # <<>> /\ Join(s)[n][1] = "/"}
<1>0. Len(s) \in Nat
  OBVIOUS
<1>1. CASE s = <<>>
  <2>1. Len(s) = 0 /\ Join(s)[0] = <<>>
    BY <1>1, JoinStart
  <2>2. Whole(s) = <<>>
    BY <2>1 DEF Whole
  <2> QED BY <1>1, <2>2 DEF Continues
<1>2. CASE s # <<>>
  <2>0. Len(s) >= 1
    BY <1>2
  <2>1. 1 \in N
    <3>1. 0 \in 0..(Len(s) - 1)
      BY <1>0, <2>0
    <3>2. Join(s)[0 + 1] = Cat(Join(s)[0], Slash(s[0 + 1])) /\ s[0 + 1] \in Seq(W)
      BY <3>1, JoinStep
    <3>3. Join(s)[0] = <<>>
      BY JoinStart
    <3> DEFINE x == Slash(s[0 + 1])
    <3>4. x \in Seq(Chars(W)) /\ x # <<>> /\ x[1] = "/"
      BY <3>2, SlashIs
    <3> HIDE DEF x
    <3>5. Cat(<<>>, x) = x
      BY <3>4, CatEmpty
    <3>6. Join(s)[1] = x
      BY <3>2, <3>3, <3>5 DEF x
    <3> QED BY <3>4, <3>6
  <2>2. ASSUME NEW n \in 1..(Len(s) - 1), n \in N PROVE n + 1 \in N
    <3>1. n \in 0..(Len(s) - 1) /\ n \in 0..Len(s) /\ n + 1 \in Nat
      BY <1>0
    <3> DEFINE a == Join(s)[n]
               x == Slash(s[n + 1])
    <3>2. Join(s)[n + 1] = Cat(a, x) /\ s[n + 1] \in Seq(W)
      BY <3>1, JoinStep
    <3>3. a \in Seq(Chars(W)) /\ x \in Seq(Chars(W)) /\ a # <<>> /\ a[1] = "/"
      BY <2>2, <3>1, <3>2, JoinAt, SlashIs
    <3> HIDE DEF a, x
    <3>4. 1 \in 1..Len(a) /\ Len(a) \in Nat /\ Len(x) \in Nat /\ Len(a) >= 1
      BY <3>3
    <3>5. Cat(a, x)[1] = a[1]
      BY <3>3, <3>4, CatLeft
    <3>6. Len(Cat(a, x)) = Len(a) + Len(x)
      BY <3>3, CatIs
    <3>7. Cat(a, x) # <<>>
      BY <3>4, <3>6
    <3> QED BY <3>1, <3>2, <3>3, <3>5, <3>7
  <2> HIDE DEF N
  <2>3. 1..Len(s) \subseteq N
    BY <1>0, <2>1, <2>2, IntervalInduction
  <2>4. Len(s) \in N
    <3>1. Len(s) \in 1..Len(s)
      BY <1>0, <2>0
    <3> QED BY <2>3, <3>1
  <2> QED BY <1>2, <2>4 DEF N, Whole, Continues
<1> QED BY <1>1, <1>2

(***************************************************************************)
(* SegmentStack and NormalizePathBySegments.                               *)
(***************************************************************************)
Dots == {Dot, DotDot}

LEMMA PushKeeps ==
    ASSUME NEW T, NEW acc, acc.stack \in Seq(T \ Dots), NEW s \in T
    PROVE  PushSegment(acc, s).stack \in Seq(T \ Dots)
<1>1. CASE s = Dot
  BY <1>1 DEF PushSegment
<1>2. CASE s # Dot /\ s # DotDot
  <2>1. PushSegment(acc, s).stack = Put(acc.stack, s)
    BY <1>2 DEF PushSegment, Put
  <2>2. s \in T \ Dots
    BY <1>2 DEF Dots
  <2> QED BY <2>1, <2>2, PutIs
<1>3. CASE s # Dot /\ s = DotDot /\ acc.stack = <<>>
  <2>1. PushSegment(acc, s).stack = <<>>
    BY <1>3 DEF PushSegment
  <2> QED BY <2>1
<1>4. CASE s # Dot /\ s = DotDot /\ acc.stack # <<>>
  <2>1. PushSegment(acc, s).stack = Left(acc.stack, Len(acc.stack) - 1)
    BY <1>4 DEF PushSegment, Front, Left
  <2>2. Len(acc.stack) - 1 \in 0..Len(acc.stack)
    BY <1>4
  <2> QED BY <2>1, <2>2, LeftIs
<1> QED BY <1>1, <1>2, <1>3, <1>4

\* The stack never holds a dot segment.
LEMMA StackType ==
    ASSUME NEW T, NEW s \in Seq(T)
    PROVE  Stacked(s)[Len(s)].stack \in Seq(T \ Dots)
<1> DEFINE N == {n \in Nat : Stacked(s)[n].stack \in Seq(T \ Dots)}
<1>0. Len(s) \in Nat
  OBVIOUS
<1>1. 0 \in N
  <2>1. Stacked(s)[0] = [ok |-> TRUE, stack |-> <<>>]
    BY StackedIs
  <2>2. Stacked(s)[0].stack = <<>> /\ <<>> \in Seq(T \ Dots)
    BY <2>1
  <2>3. Stacked(s)[0].stack \in Seq(T \ Dots)
    BY <2>2
  <2> QED BY <2>3
<1>2. ASSUME NEW n \in 0..(Len(s) - 1), n \in N PROVE n + 1 \in N
  <2>1. n + 1 \in 1..Len(s) /\ (n + 1) - 1 = n /\ s[n + 1] \in T /\ n + 1 \in Nat
    BY <1>0
  <2>2. Stacked(s)[n + 1] = PushSegment(Stacked(s)[(n + 1) - 1], s[n + 1])
    BY <2>1, StackedIs
  <2>3. Stacked(s)[n].stack \in Seq(T \ Dots)
    BY <1>2
  <2>4. PushSegment(Stacked(s)[n], s[n + 1]).stack \in Seq(T \ Dots)
    BY <2>1, <2>3, PushKeeps
  <2> QED BY <2>1, <2>2, <2>4
<1> HIDE DEF N
<1>3. 0..Len(s) \subseteq N
  BY <1>0, <1>1, <1>2, IntervalInduction
<1>4. Len(s) \in N
  <2>1. Len(s) \in 0..Len(s)
    BY <1>0
  <2> QED BY <1>3, <2>1
<1> QED BY <1>4 DEF N

\* Without dot segments the stack is the list of segments.
LEMMA StackPlain ==
    ASSUME NEW T, NEW s \in Seq(T \ Dots)
    PROVE  Stacked(s)[Len(s)] = [ok |-> TRUE, stack |-> s]
<1> DEFINE R(x) == [ok |-> TRUE, stack |-> x]
           N == {n \in Nat : Stacked(s)[n] = R(Left(s, n))}
<1>0. Len(s) \in Nat
  OBVIOUS
<1>a. Stacked(s)[0] = R(<<>>)
  BY StackedIs
<1>b. ASSUME NEW x, NEW y \in T \ Dots PROVE PushSegment(R(x), y) = R(Put(x, y))
  BY DEF PushSegment, Put, Dots
<1> HIDE DEF R
<1>1. 0 \in N
  <2>1. Left(s, 0) = <<>>
    BY LeftEnds
  <2> QED BY <1>a, <2>1
<1>2. ASSUME NEW n \in 0..(Len(s) - 1), n \in N PROVE n + 1 \in N
  <2>1. n + 1 \in 1..Len(s) /\ (n + 1) - 1 = n /\ s[n + 1] \in T \ Dots /\ n + 1 \in Nat
    BY <1>0
  <2>2. Stacked(s)[n + 1] = PushSegment(Stacked(s)[(n + 1) - 1], s[n + 1])
    BY <2>1, StackedIs
  <2>3. Stacked(s)[n] = R(Left(s, n))
    BY <1>2
  <2>4. Left(s, n + 1) = Put(Left(s, n), s[n + 1])
    BY LeftNext
  <2>5. Stacked(s)[n + 1] = R(Left(s, n + 1))
    BY <1>b, <2>1, <2>2, <2>3, <2>4
  <2> QED BY <2>1, <2>5
<1> HIDE DEF N
<1>3. 0..Len(s) \subseteq N
  BY <1>0, <1>1, <1>2, IntervalInduction
<1>4. Len(s) \in N
  <2>1. Len(s) \in 0..Len(s)
    BY <1>0
  <2> QED BY <1>3, <2>1
<1>5. Left(s, Len(s)) = s
  BY LeftEnds
<1> QED BY <1>4, <1>5 DEF N, R

\* The path rebuilt from a stack, before the trailing slash is put back.
Rebuilt(stack) == IF stack = <<>> THEN <<"/">> ELSE Whole(stack)

LEMMA RebuiltIs ==
    ASSUME NEW W, "/" \notin W, NEW s \in Seq(Names(W))
    PROVE  /\ Rebuilt(s) \in Seq(Chars(W)) /\ Rebuilt(s) # <<>> /\ Rebuilt(s)[1] = "/"
           /\ SplitPathSegments(Rebuilt(s)) = s
<1>0. s \in Seq(Seq(W))
  BY NamesAreSeqs
<1>1. CASE s = <<>>
  <2> DEFINE one == <<"/">>
  <2>1. Rebuilt(s) = one
    BY <1>1 DEF Rebuilt
  <2>2. one \in Seq(Chars(W)) /\ one # <<>> /\ one[1] = "/" /\ Len(one) = 1 /\ 0 \in 0..(Len(one) - 1)
    BY DEF Chars
  <2> HIDE DEF one
  <2>3. Scan(one)[0 + 1] = TakeChar(Scan(one)[0], one[0 + 1])
    BY <2>2, ScanStep
  <2>4. Scan(one)[0] = [segments |-> <<>>, segment |-> <<>>]
    BY <2>2, ScanIs
  <2>5. Scan(one)[1] = [segments |-> <<>>, segment |-> <<>>]
    BY <2>2, <2>3, <2>4 DEF TakeChar, EndSegment
  <2>6. SplitPathSegments(one) = <<>>
    BY <2>2, <2>5 DEF SplitPathSegments, EndSegment
  <2> QED BY <1>1, <2>1, <2>2, <2>6
<1>2. CASE s # <<>>
  <2>1. Rebuilt(s) = Whole(s)
    BY <1>2 DEF Rebuilt
  <2>2. Whole(s) \in Seq(Chars(W)) /\ SplitPathSegments(Whole(s)) = s
    BY <1>0, WholeType, SplitWhole
  <2>3. Continues(Whole(s)) /\ Whole(s) # <<>>
    BY <1>0, <1>2, WholeStarts
  <2>4. Whole(s)[1] = "/"
    BY <2>3 DEF Continues
  <2> QED BY <2>1, <2>2, <2>3, <2>4
<1> QED BY <1>1, <1>2

\* "/" alone has no segments, and a slash at the end adds none.
LEMMA SplitTrailing ==
    ASSUME NEW W, "/" \notin W, NEW p \in Seq(Chars(W))
    PROVE  /\ SplitPathSegments(Put(p, "/")) = SplitPathSegments(p)
           /\ SplitPathSegments(<<"/">>) = <<>> /\ "/" \in Chars(W)
<1> DEFINE one == <<"/">>
           none == <<>>
           segs == SplitPathSegments(p)
<1>1. "/" \in Chars(W)
  BY DEF Chars
<1>2. Put(p, "/") = Cat(p, one) /\ one \in Seq(Chars(W))
  BY <1>1, PutIsCat
<1>3. none \in Seq(Names(W)) /\ Rebuilt(none) = one /\ Continues(one)
  BY DEF Rebuilt, Continues
<1>4. segs \in Seq(Names(W))
  BY SplitType
<1>5. Cat(segs, none) = segs
  BY <1>4, CatEmpty
<1> HIDE DEF one, none, segs
<1>6. SplitPathSegments(one) = none
  BY <1>3, RebuiltIs
<1>7. SplitPathSegments(Cat(p, one)) = Cat(SplitPathSegments(p), SplitPathSegments(one))
  BY <1>2, <1>3, SplitCat
<1>8. SplitPathSegments(Put(p, "/")) = segs
  BY <1>2, <1>5, <1>6, <1>7 DEF segs
<1> QED BY <1>1, <1>6, <1>8 DEF one, none, segs

\* NormalizePathBySegments rebuilds the stack of segments.
LEMMA NormalizeIs ==
    ASSUME NEW p
    PROVE  LET r == Rebuilt(SegmentStack(p).stack)
           IN  NormalizePathBySegments(p) = IF Last(p) = "/" /\ Last(r) # "/" THEN Put(r, "/") ELSE r
  BY DEF NormalizePathBySegments, Rebuilt, Whole, Put

\* What NormalizePathBySegments returns for a path of any characters: an absolute
\* path whose segments are those of the stack, none of them "." or "..".
LEMMA NormalizeType ==
    ASSUME NEW W, "/" \notin W, NEW p \in Seq(Chars(W))
    PROVE  /\ SegmentStack(p).stack \in Seq(Names(W) \ Dots)
           /\ SegmentStack(p).stack \in Seq(Names(W))
           /\ NormalizePathBySegments(p) \in Seq(Chars(W))
           /\ NormalizePathBySegments(p) # <<>> /\ NormalizePathBySegments(p)[1] = "/"
           /\ SplitPathSegments(NormalizePathBySegments(p)) = SegmentStack(p).stack
<1> DEFINE stack == SegmentStack(p).stack
           r == Rebuilt(stack)
           q == NormalizePathBySegments(p)
<1>1. SplitPathSegments(p) \in Seq(Names(W))
  BY SplitType
<1>2. stack \in Seq(Names(W) \ Dots)
  BY <1>1, StackType DEF SegmentStack
<1>3. q = r \/ q = Put(r, "/")
  BY NormalizeIs
<1> HIDE DEF stack, q
<1>4. stack \in Seq(Names(W))
  <2>1. Names(W) \ Dots \subseteq Names(W)
    OBVIOUS
  <2> QED BY <1>2, <2>1
<1>5. r \in Seq(Chars(W)) /\ r # <<>> /\ r[1] = "/" /\ SplitPathSegments(r) = stack
  BY <1>4, RebuiltIs
<1> HIDE DEF r
<1>6. SplitPathSegments(Put(r, "/")) = stack /\ "/" \in Chars(W)
  BY <1>5, SplitTrailing
<1>7. Put(r, "/") \in Seq(Chars(W)) /\ Put(r, "/") # <<>>
  BY <1>5, <1>6, PutIs
<1>8. Put(r, "/")[1] = "/"
  <2>1. 1 \in 1..Len(r)
    BY <1>5
  <2> QED BY <1>5, <1>6, <2>1, PutAt
<1>9. q \in Seq(Chars(W)) /\ q # <<>> /\ q[1] = "/" /\ SplitPathSegments(q) = stack
  BY <1>3, <1>5, <1>6, <1>7, <1>8
<1> QED BY <1>2, <1>4, <1>9 DEF stack, q

(***************************************************************************)
(* CreatePathInfo.                                                         *)
(***************************************************************************)
\* CreatePathInfo runs over the extensions.
LEMMA LeftmostIs ==
    ASSUME NEW path, NEW S, NEW s \in Seq(S)
    PROVE  /\ Leftmost(path, s)[0] = [pos |-> 0, end |-> 0]
           /\ \A n \in 1..Len(s) :
                Leftmost(path, s)[n] = BetterPlace(Leftmost(path, s)[n - 1],
                                                   LastExtension(path, s[n]), s[n])
<1> DEFINE First == [pos |-> 0, end |-> 0]
           Step(a, x) == BetterPlace(a, LastExtension(path, x), x)
           Run(f, m) == f = [n \in 0..m |-> IF n = 0 THEN First ELSE Step(f[n - 1], s[n])]
           N == {m \in Nat : \E f : Run(f, m)}
<1>1. Leftmost(path, s) = CHOOSE f : Run(f, Len(s))
  BY DEF Leftmost
<1> HIDE DEF First, Step
<1>2. 0 \in N
  <2>1. Run([n \in 0..0 |-> First], 0)
    OBVIOUS
  <2> QED BY <2>1
<1>3. \A m \in Nat : m \in N => m + 1 \in N
  <2> SUFFICES ASSUME NEW m \in Nat, m \in N PROVE \E g : Run(g, m + 1)
    <3> HIDE DEF Run
    <3> QED OBVIOUS
  <2>0. PICK f : Run(f, m)
    <3> HIDE DEF Run
    <3> QED OBVIOUS
  <2> DEFINE g == [n \in 0..(m + 1) |-> IF n = m + 1 THEN Step(f[m], s[m + 1]) ELSE f[n]]
  <2>1. Run(g, m + 1)
    BY <2>0
  <2> QED BY <2>1
<1>4. Len(s) \in Nat
  OBVIOUS
<1>5. \E f : Run(f, Len(s))
  <2> HIDE DEF Run
  <2> QED BY <1>2, <1>3, <1>4, NaturalInduction
<1>6. Run(Leftmost(path, s), Len(s))
  <2> HIDE DEF Run
  <2> QED BY <1>1, <1>5
<1>7. /\ Leftmost(path, s)[0] = First
      /\ \A n \in 1..Len(s) : Leftmost(path, s)[n] = Step(Leftmost(path, s)[n - 1], s[n])
  BY <1>4, <1>6
<1> QED BY <1>7 DEF First, Step

LEMMA GreatestNatural ==
    ASSUME NEW m \in Nat, NEW T \in SUBSET (0..m), T # {}
    PROVE  \E x \in T : \A y \in T : y <= x
<1> DEFINE U == {m - y : y \in T}
<1>1. U \in SUBSET Nat /\ U # {}
  <2>1. \A y \in T : y \in 0..m /\ m - y \in Nat
    OBVIOUS
  <2>2. PICK t \in T : TRUE
    OBVIOUS
  <2>3. m - t \in U
    BY <2>2
  <2> QED BY <2>1, <2>3
<1> HIDE DEF U
<1>2. PICK u \in U : \A v \in U : u <= v
  BY <1>1, LeastNatural
<1>3. PICK x \in T : u = m - x
  BY DEF U
<1>4. ASSUME NEW y \in T PROVE y <= x
  <2>1. m - y \in U
    BY DEF U
  <2>2. m - x <= m - y
    BY <1>2, <1>3, <2>1
  <2> QED BY <2>2
<1> QED BY <1>4

\* An extension found at p ends a segment.
LEMMA FoundIs ==
    ASSUME NEW S, NEW path \in Seq(S), NEW ext \in Seq(S), ext # <<>>,
           NEW p \in ExtensionAt(path, ext)
    PROVE  /\ p \in 1..Len(path) /\ p + Len(ext) - 1 \in 1..Len(path)
           /\ p + Len(ext) - 1 = Len(path) \/ path[p + Len(ext) - 1 + 1] = "/"
           /\ p = 1 \/ path[p - 1] # "/"
<1>1. Len(ext) \in Nat \ {0} /\ Len(path) \in Nat
  OBVIOUS
<1>2. /\ p \in 1..(Len(path) - Len(ext) + 1)
      /\ p + Len(ext) = Len(path) + 1 \/ path[p + Len(ext)] = "/"
      /\ p = 1 \/ path[p - 1] # "/"
  BY DEF ExtensionAt
<1>3. p + Len(ext) - 1 + 1 = p + Len(ext)
  BY <1>1, <1>2
<1> QED BY <1>1, <1>2, <1>3

LEMMA FoundAt ==
    ASSUME NEW S, NEW path \in Seq(S), NEW ext \in Seq(S), ext # <<>>,
           NEW p \in ExtensionAt(path, ext), NEW k \in 1..Len(ext)
    PROVE  path[p + k - 1] = ext[k]
<1>1. Len(ext) \in Nat \ {0} /\ Len(path) \in Nat
  OBVIOUS
<1>2. p \in 1..(Len(path) - Len(ext) + 1) /\ SubSeq(path, p, p + Len(ext) - 1) = ext
  BY DEF ExtensionAt
<1>3. SubSeq(path, p, p + Len(ext) - 1)[k] = path[p + k - 1]
  BY <1>1, <1>2
<1> QED BY <1>2, <1>3

\* p is the last place of ext in path.
IsLast(path, ext, p) ==
    /\ p \in ExtensionAt(path, ext)
    /\ \A q \in ExtensionAt(path, ext) : q <= p

LEMMA LastExtensionIs ==
    ASSUME NEW S, NEW path \in Seq(S), NEW ext \in Seq(S), ext # <<>>
    PROVE  \/ LastExtension(path, ext) = 0 /\ ExtensionAt(path, ext) = {}
           \/ IsLast(path, ext, LastExtension(path, ext)) /\ LastExtension(path, ext) \in 1..Len(path)
<1> DEFINE places == ExtensionAt(path, ext)
<1>0. ASSUME NEW q \in places PROVE q \in 1..Len(path) /\ q \in 0..Len(path)
  <2>1. q \in 1..Len(path)
    BY FoundIs
  <2> QED BY <2>1
<1>1. CASE places = {}
  BY <1>1 DEF LastExtension
<1>2. CASE places # {}
  <2>1. LastExtension(path, ext) = CHOOSE p \in places : \A q \in places : q <= p
    BY <1>2 DEF LastExtension
  <2> HIDE DEF places
  <2>2. places \in SUBSET (0..Len(path)) /\ Len(path) \in Nat
    BY <1>0, LenIs
  <2>3. \E p \in places : \A q \in places : q <= p
    BY <1>2, <2>2, GreatestNatural
  <2>4. LastExtension(path, ext) \in places /\ \A q \in places : q <= LastExtension(path, ext)
    BY <2>1, <2>3
  <2>5. LastExtension(path, ext) \in 1..Len(path)
    BY <1>0, <2>4
  <2> QED BY <2>4, <2>5 DEF IsLast, places
<1> QED BY <1>1, <1>2

\* b is the leftmost of the places of the first n extensions.
Found(path, exts, i, b) ==
    /\ LastExtension(path, exts[i]) # 0
    /\ b = [pos |-> LastExtension(path, exts[i]),
            end |-> LastExtension(path, exts[i]) + Len(exts[i]) - 1]

NotBetter(path, exts, n, p) ==
    \A j \in 1..n : LastExtension(path, exts[j]) = 0 \/ p <= LastExtension(path, exts[j])

IsBest(path, exts, n, b) ==
    \/ b = [pos |-> 0, end |-> 0] /\ \A i \in 1..n : LastExtension(path, exts[i]) = 0
    \/ \E i \in 1..n : Found(path, exts, i, b) /\ NotBetter(path, exts, n, b.pos)

LEMMA LeftmostBest ==
    ASSUME NEW S, NEW path \in Seq(S), NEW exts \in Seq(Seq(S) \ {<<>>})
    PROVE  IsBest(path, exts, Len(exts), Leftmost(path, exts)[Len(exts)])
<1> DEFINE best(n) == Leftmost(path, exts)[n]
           at(i) == LastExtension(path, exts[i])
           N == {n \in Nat : IsBest(path, exts, n, best(n))}
<1>0. Len(exts) \in Nat
  OBVIOUS
<1>a. ASSUME NEW i \in 1..Len(exts) PROVE at(i) \in Nat
  <2>1. exts[i] \in Seq(S) /\ exts[i] # <<>>
    OBVIOUS
  <2> QED BY <2>1, LastExtensionIs
<1>1. 0 \in N
  <2>1. best(0) = [pos |-> 0, end |-> 0]
    BY LeftmostIs
  <2>2. IsBest(path, exts, 0, best(0))
    BY <2>1 DEF IsBest
  <2> QED BY <2>2
<1>2. ASSUME NEW n \in 0..(Len(exts) - 1), n \in N PROVE n + 1 \in N
  <2>1. n + 1 \in 1..Len(exts) /\ (n + 1) - 1 = n /\ n + 1 \in Nat /\ at(n + 1) \in Nat
    BY <1>0, <1>a
  <2> DEFINE b == best(n)
             x == exts[n + 1]
  <2>2. best(n + 1) = BetterPlace(best((n + 1) - 1), at(n + 1), x)
    BY <2>1, LeftmostIs
  <2>3. best(n + 1) = BetterPlace(b, at(n + 1), x) /\ IsBest(path, exts, n, b)
    BY <1>2, <2>1, <2>2
  <2> DEFINE c == best(n + 1)
  <2> HIDE DEF best, b, c, at, x
  <2>4. CASE at(n + 1) # 0 /\ (b.pos = 0 \/ at(n + 1) < b.pos)
    <3>1. c = [pos |-> at(n + 1), end |-> at(n + 1) + Len(x) - 1]
      BY <2>3, <2>4 DEF BetterPlace, c
    <3>2. Found(path, exts, n + 1, c)
      BY <2>4, <3>1 DEF Found, at, x
    <3>3. ASSUME NEW j \in 1..n PROVE at(j) = 0 \/ c.pos <= at(j)
      <4>0. c.pos = at(n + 1) /\ at(j) \in Nat
        BY <1>0, <1>a, <3>1
      <4>1. CASE b = [pos |-> 0, end |-> 0] /\ \A i \in 1..n : at(i) = 0
        BY <4>1
      <4>2. CASE \E i \in 1..n : Found(path, exts, i, b) /\ NotBetter(path, exts, n, b.pos)
        <5>1. PICK i \in 1..n : Found(path, exts, i, b) /\ NotBetter(path, exts, n, b.pos)
          BY <4>2
        <5>2. b.pos = at(i) /\ at(i) # 0 /\ at(i) \in Nat
          BY <1>0, <1>a, <5>1 DEF Found, at
        <5>3. at(j) = 0 \/ b.pos <= at(j)
          BY <5>1 DEF NotBetter, at
        <5> QED BY <2>1, <2>4, <4>0, <5>2, <5>3
      <4> QED BY <2>3, <4>1, <4>2 DEF IsBest, at
    <3>4. NotBetter(path, exts, n + 1, c.pos)
      <4>1. \A j \in 1..(n + 1) : at(j) = 0 \/ c.pos <= at(j)
        <5>1. c.pos = at(n + 1) /\ at(n + 1) <= at(n + 1)
          BY <2>1, <3>1
        <5>2. ASSUME NEW j \in 1..(n + 1) PROVE at(j) = 0 \/ c.pos <= at(j)
          <6>1. j \in 1..n \/ j = n + 1
            OBVIOUS
          <6> QED BY <3>3, <5>1, <6>1
        <5> QED BY <5>2
      <4> QED BY <4>1 DEF NotBetter, at
    <3>5. n + 1 \in 1..(n + 1)
      OBVIOUS
    <3> QED BY <2>1, <3>2, <3>4, <3>5 DEF IsBest, c
  <2>5. CASE ~ (at(n + 1) # 0 /\ (b.pos = 0 \/ at(n + 1) < b.pos))
    <3>1. c = b
      BY <2>3, <2>5 DEF BetterPlace, c
    <3>2. CASE b = [pos |-> 0, end |-> 0] /\ \A i \in 1..n : at(i) = 0
      <4>1. at(n + 1) = 0
        BY <2>5, <3>2
      <4>2. \A i \in 1..(n + 1) : at(i) = 0
        BY <3>2, <4>1
      <4>3. IsBest(path, exts, n + 1, c)
        BY <3>1, <3>2, <4>2 DEF IsBest, at
      <4> QED BY <2>1, <4>3 DEF c
    <3>3. CASE \E i \in 1..n : Found(path, exts, i, b) /\ NotBetter(path, exts, n, b.pos)
      <4>1. PICK i \in 1..n : Found(path, exts, i, b) /\ NotBetter(path, exts, n, b.pos)
        BY <3>3
      <4>2. b.pos = at(i) /\ at(i) # 0 /\ at(i) \in Nat
        BY <1>0, <1>a, <4>1 DEF Found, at
      <4>3. at(n + 1) = 0 \/ b.pos <= at(n + 1)
        BY <2>1, <2>5, <4>2
      <4>4. \A j \in 1..(n + 1) : at(j) = 0 \/ b.pos <= at(j)
        BY <4>1, <4>3 DEF NotBetter, at
      <4>5. NotBetter(path, exts, n + 1, c.pos) /\ Found(path, exts, i, c) /\ i \in 1..(n + 1)
        BY <3>1, <4>1, <4>4 DEF NotBetter, at
      <4>6. IsBest(path, exts, n + 1, c)
        BY <4>5 DEF IsBest
      <4> QED BY <2>1, <4>6 DEF c
    <3> QED BY <2>3, <3>2, <3>3 DEF IsBest, at
  <2> QED BY <2>4, <2>5
<1> HIDE DEF N
<1>3. 0..Len(exts) \subseteq N
  BY <1>0, <1>1, <1>2, IntervalInduction
<1>4. Len(exts) \in N
  <2>1. Len(exts) \in 0..Len(exts)
    BY <1>0
  <2> QED BY <1>3, <2>1
<1> QED BY <1>4 DEF N

\* A script ends at the end of a segment.
EndsSegment(path, n) == n \in 1..Len(path) /\ (n = Len(path) \/ path[n + 1] = "/")

LEMMA ScriptEndIs ==
    ASSUME NEW S, NEW path \in Seq(S), NEW exts \in Seq(Seq(S) \ {<<>>})
    PROVE  ScriptEnd(path, exts) = 0 \/ EndsSegment(path, ScriptEnd(path, exts))
<1> DEFINE b == Leftmost(path, exts)[Len(exts)]
<1>1. IsBest(path, exts, Len(exts), b)
  BY LeftmostBest
<1>2. ScriptEnd(path, exts) = b.end
  BY DEF ScriptEnd
<1> HIDE DEF b
<1>3. CASE b = [pos |-> 0, end |-> 0]
  BY <1>2, <1>3
<1>4. CASE b # [pos |-> 0, end |-> 0]
  <2>1. PICK i \in 1..Len(exts) : Found(path, exts, i, b)
    BY <1>1, <1>4 DEF IsBest
  <2> DEFINE x == exts[i]
             p == LastExtension(path, x)
  <2>2. x \in Seq(S) /\ x # <<>>
    OBVIOUS
  <2>3. p # 0 /\ b.end = p + Len(x) - 1
    BY <2>1 DEF Found
  <2> HIDE DEF x
  <2>4. p \in ExtensionAt(path, x)
    BY <2>2, <2>3, LastExtensionIs DEF IsLast
  <2> HIDE DEF p
  <2>5. p + Len(x) - 1 \in 1..Len(path)
    BY <2>2, <2>4, FoundIs
  <2>6. p + Len(x) - 1 = Len(path) \/ path[p + Len(x) - 1 + 1] = "/"
    BY <2>2, <2>4, FoundIs
  <2> QED BY <1>2, <2>3, <2>5, <2>6 DEF EndsSegment
<1> QED BY <1>3, <1>4

(***************************************************************************)
(* A path below another, at a segment boundary.                            *)
(***************************************************************************)
Below(a, p) == IsPrefix(a, p) /\ (Len(p) = Len(a) \/ p[Len(a) + 1] = "/")

LEMMA BelowIs ==
    ASSUME NEW W, NEW a \in Seq(Chars(W)), NEW p \in Seq(Chars(W)), Below(a, p)
    PROVE  /\ Len(a) \in 0..Len(p)
           /\ p = Cat(a, Right(p, Len(a))) /\ Right(p, Len(a)) \in Seq(Chars(W))
           /\ Continues(Right(p, Len(a))) /\ Len(Right(p, Len(a))) = Len(p) - Len(a)
<1> DEFINE r == Right(p, Len(a))
<1>1. IsPrefix(a, p) /\ (Len(p) = Len(a) \/ p[Len(a) + 1] = "/")
  BY DEF Below
<1>2. Len(a) \in 0..Len(p) /\ p = Cat(a, r)
  BY <1>1, CatOfPrefix
<1>3. r \in Seq(Chars(W)) /\ Len(r) = Len(p) - Len(a)
  BY <1>2, RightIs
<1>4. ASSUME Len(p) # Len(a) PROVE r[1] = "/"
  <2>1. 1 \in 1..(Len(p) - Len(a))
    BY <1>2, <1>4
  <2>2. r[1] = p[Len(a) + 1]
    BY <1>2, <2>1, RightAt
  <2> QED BY <1>1, <1>4, <2>2
<1> HIDE DEF r
<1>5. Continues(r)
  <2>1. CASE Len(p) = Len(a)
    <3>1. Len(r) = 0
      BY <1>2, <1>3, <2>1
    <3>2. r = <<>>
      BY <1>3, <3>1
    <3> QED BY <3>2 DEF Continues
  <2> QED BY <1>4, <2>1 DEF Continues
<1> QED BY <1>2, <1>3, <1>5 DEF r

LEMMA SplitBelow ==
    ASSUME NEW W, NEW a \in Seq(Chars(W)), NEW p \in Seq(Chars(W)), Below(a, p)
    PROVE  /\ IsPrefix(SplitPathSegments(a), SplitPathSegments(p))
           /\ SplitPathSegments(a) \in Seq(Names(W)) /\ SplitPathSegments(p) \in Seq(Names(W))
<1> DEFINE r == Right(p, Len(a))
<1>1. p = Cat(a, r) /\ r \in Seq(Chars(W)) /\ Continues(r)
  BY BelowIs
<1> HIDE DEF r
<1>2. SplitPathSegments(p) = Cat(SplitPathSegments(a), SplitPathSegments(r))
  BY <1>1, SplitCat
<1>3. SplitPathSegments(a) \in Seq(Names(W)) /\ SplitPathSegments(r) \in Seq(Names(W))
  BY <1>1, SplitType
<1>4. SplitPathSegments(p) \in Seq(Names(W))
  BY SplitType
<1> QED BY <1>2, <1>3, <1>4, PrefixOfCat

\* The reference of a file that begins a segment list: a list over fewer names.
LEMMA PrefixOver ==
    ASSUME NEW S, NEW T, NEW a \in Seq(S), NEW p \in Seq(S), p \in Seq(T), IsPrefix(a, p)
    PROVE  a \in Seq(T)
<1>1. Len(a) \in 0..Len(p) /\ a = Left(p, Len(a))
  BY CatOfPrefix
<1> QED BY <1>1, LeftIs

\* The file that CgiExecutor takes for the script is the path, or a path that it
\* lies below.
LEMMA ExecutableIs ==
    ASSUME NEW S, NEW path \in Seq(S), path # <<>>, NEW exts \in Seq(Seq(S) \ {<<>>})
    PROVE  LET t == ExecutablePath(path, exts)
           IN  t \in Seq(S) /\ t # <<>> /\ Below(t, path)
<1> DEFINE n == ScriptEnd(path, exts)
           t == ExecutablePath(path, exts)
<1>0. Len(path) \in Nat
  OBVIOUS
<1>1. CASE n = 0
  <2>1. t = path
    BY <1>1 DEF ExecutablePath
  <2>2. IsPrefix(path, path)
    BY <1>0, PrefixIf
  <2> QED BY <2>1, <2>2 DEF Below
<1>2. CASE n # 0
  <2>1. t = Left(path, n)
    BY <1>2 DEF ExecutablePath, Left
  <2>2. n \in 1..Len(path) /\ (n = Len(path) \/ path[n + 1] = "/")
    BY <1>2, ScriptEndIs DEF EndsSegment
  <2> HIDE DEF n, t
  <2>3. n \in 0..Len(path) /\ n <= Len(path)
    BY <1>0, <2>2
  <2>4. t \in Seq(S) /\ Len(t) = n
    BY <2>1, <2>3, LeftIs
  <2>5. t # <<>>
    BY <2>2, <2>4
  <2>6. IsPrefix(t, path)
    BY <2>1, <2>3, <2>4, SamePrefix
  <2> QED BY <2>2, <2>4, <2>5, <2>6 DEF Below, t
<1> QED BY <1>1, <1>2

LEMMA FrontPut ==
    ASSUME NEW S, NEW s \in Seq(S), NEW x \in S
    PROVE  Front(Put(s, x)) = s /\ Last(Put(s, x)) = x
<1> DEFINE t == Put(s, x)
<1>1. t \in Seq(S) /\ Len(t) = Len(s) + 1 /\ t[Len(s) + 1] = x /\ Len(s) \in Nat
  BY PutIs, LenIs
<1>2. ASSUME NEW i \in 1..Len(s) PROVE t[i] = s[i]
  BY PutAt
<1> HIDE DEF t
<1>3. Front(t) = Left(t, Len(s)) /\ Last(t) = x
  BY <1>1 DEF Front, Left, Last
<1>4. Len(s) \in 0..Len(t)
  BY <1>1
<1>5. Left(t, Len(s)) \in Seq(S) /\ Len(Left(t, Len(s))) = Len(s)
  BY <1>1, <1>4, LeftIs
<1>6. ASSUME NEW i \in 1..Len(s) PROVE Left(t, Len(s))[i] = s[i]
  BY <1>1, <1>2, <1>4, LeftAt
<1>7. Left(t, Len(s)) = s
  BY <1>5, <1>6, SameSeq
<1> QED BY <1>3, <1>7 DEF t

LEMMA FrontLast ==
    ASSUME NEW S, NEW s \in Seq(S), s # <<>>
    PROVE  Front(s) \in Seq(S) /\ Last(s) \in S /\ s = Put(Front(s), Last(s))
<1>1. Len(s) - 1 \in 0..Len(s) /\ Len(s) - 1 \in 0..(Len(s) - 1) /\ (Len(s) - 1) + 1 = Len(s)
      /\ Len(s) \in 1..Len(s)
  OBVIOUS
<1>2. Front(s) = Left(s, Len(s) - 1) /\ Last(s) = s[Len(s)]
  BY DEF Front, Left, Last
<1>3. Left(s, Len(s) - 1) \in Seq(S) /\ s[Len(s)] \in S
  BY <1>1, LeftIs
<1>4. Left(s, (Len(s) - 1) + 1) = Put(Left(s, Len(s) - 1), s[(Len(s) - 1) + 1])
  BY <1>1, LeftNext
<1>5. Left(s, Len(s)) = s
  BY LeftEnds
<1> QED BY <1>1, <1>2, <1>3, <1>4, <1>5

LEMMA WholePut ==
    ASSUME NEW W, NEW s \in Seq(Seq(W)), NEW x \in Seq(W)
    PROVE  Whole(Put(s, x)) = Cat(Whole(s), Slash(x))
<1> DEFINE t == <<x>>
<1>1. Put(s, x) = Cat(s, t) /\ t \in Seq(Seq(W))
  BY PutIsCat
<1>2. Len(t) = 1 /\ t[1] = x
  OBVIOUS
<1> HIDE DEF t
<1>3. Whole(Cat(s, t)) = Cat(Whole(s), Whole(t))
  BY <1>1, WholeCat
<1>4. Whole(t) = Slash(x)
  <2>1. 0 \in 0..(Len(t) - 1)
    BY <1>2
  <2>2. Join(t)[0 + 1] = Cat(Join(t)[0], Slash(t[0 + 1]))
    BY <1>1, <2>1, JoinStep
  <2>3. Join(t)[0] = <<>>
    BY <1>1, JoinStart
  <2>4. Slash(x) \in Seq(Chars(W))
    BY SlashIs
  <2>5. Cat(<<>>, Slash(x)) = Slash(x)
    BY <2>4, CatEmpty
  <2> QED BY <1>2, <2>2, <2>3, <2>5 DEF Whole
<1> QED BY <1>1, <1>3, <1>4

LEMMA BelowCat ==
    ASSUME NEW S, NEW a \in Seq(S), NEW r \in Seq(S), Continues(r)
    PROVE  Below(a, Cat(a, r))
<1> DEFINE p == Cat(a, r)
<1>1. p \in Seq(S) /\ Len(p) = Len(a) + Len(r) /\ Len(a) \in Nat /\ Len(r) \in Nat
  BY CatIs, LenIs
<1>2. IsPrefix(a, p)
  BY PrefixOfCat
<1>3. CASE r = <<>>
  <2>1. Len(r) = 0
    BY <1>3
  <2> HIDE DEF p
  <2> QED BY <1>1, <1>2, <2>1 DEF Below, p
<1>4. CASE r # <<>>
  <2>1. r[1] = "/" /\ 1 \in 1..Len(r)
    BY <1>1, <1>4 DEF Continues
  <2>2. p[Len(a) + 1] = r[1]
    BY <2>1, CatRight
  <2> QED BY <1>2, <2>1, <2>2 DEF Below
<1> QED BY <1>3, <1>4

(***************************************************************************)
(* The keys of names and paths.                                            *)
(***************************************************************************)
LEMMA TrimIs ==
    ASSUME NEW S, NEW s \in Seq(S), s # <<>>
    PROVE  \E n \in 1..Len(s) : TrimTrailingSlashExceptRoot(s) = Left(s, n)
<1>0. Len(s) \in Nat /\ Len(s) >= 1
  OBVIOUS
<1>1. CASE Len(s) <= 1
  <2>1. TrimTrailingSlashExceptRoot(s) = s
    BY <1>1 DEF TrimTrailingSlashExceptRoot
  <2>2. Left(s, Len(s)) = s
    BY LeftEnds
  <2> QED BY <1>0, <2>1, <2>2
<1>2. CASE ~ (Len(s) <= 1)
  <2> DEFINE ends == {n \in 1..Len(s) : n = 1 \/ s[n] # "/"}
  <2>1. TrimTrailingSlashExceptRoot(s)
          = SubSeq(s, 1, CHOOSE n \in ends : \A m \in ends : m <= n)
    BY <1>2 DEF TrimTrailingSlashExceptRoot
  <2>2. ends \in SUBSET (0..Len(s)) /\ 1 \in ends /\ ends \subseteq 1..Len(s)
    BY <1>0
  <2> HIDE DEF ends
  <2>3. \E n \in ends : \A m \in ends : m <= n
    BY <1>0, <2>2, GreatestNatural
  <2>4. (CHOOSE n \in ends : \A m \in ends : m <= n) \in ends
    BY <2>3
  <2> QED BY <2>1, <2>2, <2>4 DEF Left
<1> QED BY <1>1, <1>2

LEMMA TrimOver ==
    ASSUME NEW S, NEW s \in Seq(S), s # <<>>
    PROVE  TrimTrailingSlashExceptRoot(s) \in Seq(S)
<1>1. PICK n \in 1..Len(s) : TrimTrailingSlashExceptRoot(s) = Left(s, n)
  BY TrimIs
<1>2. n \in 0..Len(s)
  OBVIOUS
<1> QED BY <1>1, <1>2, LeftIs

\* A path that does not end in "/" is its own key.
LEMMA TrimPlain ==
    ASSUME NEW S, NEW s \in Seq(S), s # <<>>, Last(s) # "/"
    PROVE  TrimTrailingSlashExceptRoot(s) = s
<1>0. Len(s) \in Nat /\ Len(s) >= 1 /\ s[Len(s)] # "/"
  BY DEF Last
<1>1. CASE Len(s) <= 1
  BY <1>1 DEF TrimTrailingSlashExceptRoot
<1>2. CASE ~ (Len(s) <= 1)
  <2> DEFINE ends == {n \in 1..Len(s) : n = 1 \/ s[n] # "/"}
             last == CHOOSE n \in ends : \A m \in ends : m <= n
  <2>1. TrimTrailingSlashExceptRoot(s) = Left(s, last)
    BY <1>2 DEF TrimTrailingSlashExceptRoot, Left
  <2>2. Len(s) \in ends /\ \A n \in ends : n \in 1..Len(s) /\ n <= Len(s)
    BY <1>0
  <2> HIDE DEF ends
  <2>3. last \in ends /\ \A m \in ends : m <= last
    BY <2>2
  <2> HIDE DEF last
  <2>4. last = Len(s)
    BY <1>0, <2>2, <2>3
  <2>5. Left(s, Len(s)) = s
    BY LeftEnds
  <2> QED BY <2>1, <2>4, <2>5
<1> QED BY <1>1, <1>2

=============================================================================
