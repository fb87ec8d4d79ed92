------------------------- MODULE CgiResponseProofs -------------------------
(***************************************************************************)
(* The output of a CGI script, for every output: the header loop stops at  *)
(* the first blank line and never reads past the end that FindEndOfHeader  *)
(* found, the body and the status are the script's, and every response     *)
(* says where it ends.                                                     *)
(***************************************************************************)
EXTENDS CgiResponse, Induction

(***************************************************************************)
(* Where a pattern occurs.                                                 *)
(***************************************************************************)
LEMMA PrefixIs ==
    ASSUME NEW S, NEW p \in Seq(S), NEW t \in Seq(S)
    PROVE  IsPrefix(p, t) <=> Len(p) <= Len(t) /\ \A k \in 1..Len(p) : t[k] = p[k]
<1> SUFFICES ASSUME Len(p) <= Len(t)
             PROVE  SubSeq(p, 1, Len(p)) = SubSeq(t, 1, Len(p)) <=> \A k \in 1..Len(p) : t[k] = p[k]
  BY DEF IsPrefix
<1> DEFINE left == SubSeq(p, 1, Len(p))
           right == SubSeq(t, 1, Len(p))
<1>1. Len(p) \in Nat
  OBVIOUS
<1>2. left \in Seq(S) /\ Len(left) = Len(p) /\ \A k \in 1..Len(p) : left[k] = p[k]
  OBVIOUS
<1>3. right \in Seq(S) /\ Len(right) = Len(p) /\ \A k \in 1..Len(p) : right[k] = t[k]
  OBVIOUS
<1> HIDE DEF left, right
<1>4. left = right <=> \A k \in 1..Len(p) : left[k] = right[k]
  BY <1>1, <1>2, <1>3
<1>5. left = right <=> \A k \in 1..Len(p) : t[k] = p[k]
  BY <1>2, <1>3, <1>4
<1> QED BY <1>5 DEF left, right

\* pattern occurs in s at i if its symbols are there.
Matches(s, pattern, i) ==
    /\ i \in 1..Len(s) /\ i + Len(pattern) - 1 <= Len(s)
    /\ \A k \in 1..Len(pattern) : s[i + k - 1] = pattern[k]

LEMMA OccursIs ==
    ASSUME NEW S, NEW s \in Seq(S), NEW pattern \in Seq(S), NEW i
    PROVE  i \in Occurrences(s, pattern) <=> Matches(s, pattern, i)
<1> DEFINE rest == SubSeq(s, i, Len(s))
<1>1. i \in Occurrences(s, pattern) <=> i \in 1..Len(s) /\ IsPrefix(pattern, rest)
  BY DEF Occurrences
<1> SUFFICES ASSUME i \in 1..Len(s)
             PROVE  IsPrefix(pattern, rest) <=>
                      /\ i + Len(pattern) - 1 <= Len(s)
                      /\ \A k \in 1..Len(pattern) : s[i + k - 1] = pattern[k]
  BY <1>1 DEF Matches
<1>2. Len(s) \in Nat /\ Len(pattern) \in Nat
  OBVIOUS
<1>3. /\ rest \in Seq(S) /\ Len(rest) = Len(s) - i + 1
      /\ \A k \in 1..(Len(s) - i + 1) : rest[k] = s[i + k - 1]
  OBVIOUS
<1> HIDE DEF rest
<1>4. IsPrefix(pattern, rest) <=>
        Len(pattern) <= Len(rest) /\ \A k \in 1..Len(pattern) : rest[k] = pattern[k]
  BY <1>3, PrefixIs
<1> QED BY <1>2, <1>3, <1>4

Twice(s) == s \o s

LEMMA TwiceIs ==
    ASSUME NEW S, NEW s \in Seq(S)
    PROVE  /\ Twice(s) \in Seq(S) /\ Len(Twice(s)) = Len(s) + Len(s)
           /\ \A i \in 1..Len(s) : Twice(s)[i] = s[i] /\ Twice(s)[Len(s) + i] = s[i]
  BY DEF Twice

\* The four patterns, symbol by symbol.
LEMMA PatternTypes ==
    /\ LF \in Seq(Symbols) /\ CRLF \in Seq(Symbols)
    /\ LF \o LF \in Seq(Symbols) /\ CRLF \o CRLF \in Seq(Symbols)
    /\ Len(LF) = 1 /\ LF[1] = "LF"
    /\ Len(CRLF) = 2 /\ CRLF[1] = "CR" /\ CRLF[2] = "LF"
    /\ Len(LF \o LF) = 2 /\ (LF \o LF)[1] = "LF" /\ (LF \o LF)[2] = "LF"
    /\ Len(CRLF \o CRLF) = 4 /\ (CRLF \o CRLF)[1] = "CR" /\ (CRLF \o CRLF)[2] = "LF"
    /\ (CRLF \o CRLF)[3] = "CR" /\ (CRLF \o CRLF)[4] = "LF"
<1>1. "LF" \in Symbols /\ "CR" \in Symbols
  BY DEF Symbols, LineEnds
<1>2. LF \in Seq(Symbols) /\ Len(LF) = 1 /\ LF[1] = "LF"
  BY <1>1 DEF LF
<1>3. CRLF \in Seq(Symbols) /\ Len(CRLF) = 2 /\ CRLF[1] = "CR" /\ CRLF[2] = "LF"
  BY <1>1 DEF CRLF
<1>4. /\ LF \o LF \in Seq(Symbols) /\ Len(LF \o LF) = 2
      /\ (LF \o LF)[1] = "LF" /\ (LF \o LF)[2] = "LF"
  <2> DEFINE q == Twice(LF)
  <2>1. /\ q \in Seq(Symbols) /\ Len(q) = Len(LF) + Len(LF)
        /\ \A i \in 1..Len(LF) : q[i] = LF[i] /\ q[Len(LF) + i] = LF[i]
    BY <1>2, TwiceIs
  <2> HIDE DEF q
  <2>2. q \in Seq(Symbols) /\ Len(q) = 2 /\ q[1] = "LF" /\ q[2] = "LF"
    BY <1>2, <2>1
  <2> QED BY <2>2 DEF q, Twice
<1>5. /\ CRLF \o CRLF \in Seq(Symbols) /\ Len(CRLF \o CRLF) = 4
      /\ (CRLF \o CRLF)[1] = "CR" /\ (CRLF \o CRLF)[2] = "LF"
      /\ (CRLF \o CRLF)[3] = "CR" /\ (CRLF \o CRLF)[4] = "LF"
  <2> DEFINE q == Twice(CRLF)
  <2>1. /\ q \in Seq(Symbols) /\ Len(q) = Len(CRLF) + Len(CRLF)
        /\ \A i \in 1..Len(CRLF) : q[i] = CRLF[i] /\ q[Len(CRLF) + i] = CRLF[i]
    BY <1>3, TwiceIs
  <2> HIDE DEF q
  <2>2. /\ q \in Seq(Symbols) /\ Len(q) = 4 /\ q[1] = "CR" /\ q[2] = "LF"
        /\ q[3] = "CR" /\ q[4] = "LF"
    BY <1>3, <2>1
  <2> QED BY <2>2 DEF q, Twice
<1> QED BY <1>2, <1>3, <1>4, <1>5

HasLF(s, i) == i \in 1..Len(s) /\ s[i] = "LF"
HasCRLF(s, i) == i \in 1..Len(s) /\ i + 1 <= Len(s) /\ s[i] = "CR" /\ s[i + 1] = "LF"

LEMMA PatternsOccur ==
    ASSUME NEW s \in Seq(Symbols), NEW i \in Int
    PROVE  /\ IsLF(s, i) <=> HasLF(s, i)
           /\ IsCRLF(s, i) <=> HasCRLF(s, i)
           /\ i \in Occurrences(s, LF \o LF) <=> HasLF(s, i) /\ HasLF(s, i + 1)
           /\ i \in Occurrences(s, CRLF \o CRLF) <=> HasCRLF(s, i) /\ HasCRLF(s, i + 2)
<1> DEFINE at(k) == s[i + k - 1]
<1>1. /\ i + 1 - 1 = i /\ i + 2 - 1 = i + 1 /\ i + 3 - 1 = i + 2 /\ i + 4 - 1 = i + 3
      /\ (i + 2) + 1 = i + 3 /\ Len(s) \in Nat
  OBVIOUS
<1>2. IsLF(s, i) <=> HasLF(s, i)
  <2>1. IsLF(s, i) <=> /\ i \in 1..Len(s) /\ i + Len(LF) - 1 <= Len(s)
                       /\ \A k \in 1..Len(LF) : at(k) = LF[k]
    BY PatternTypes, OccursIs DEF IsLF, Matches
  <2>2. (\A k \in 1..1 : at(k) = LF[k]) <=> at(1) = LF[1]
    OBVIOUS
  <2> QED BY <1>1, <2>1, <2>2, PatternTypes DEF HasLF
<1>3. IsCRLF(s, i) <=> HasCRLF(s, i)
  <2>1. IsCRLF(s, i) <=> /\ i \in 1..Len(s) /\ i + Len(CRLF) - 1 <= Len(s)
                         /\ \A k \in 1..Len(CRLF) : at(k) = CRLF[k]
    BY PatternTypes, OccursIs DEF IsCRLF, Matches
  <2>2. (\A k \in 1..2 : at(k) = CRLF[k]) <=> at(1) = CRLF[1] /\ at(2) = CRLF[2]
    OBVIOUS
  <2> QED BY <1>1, <2>1, <2>2, PatternTypes DEF HasCRLF
<1>4. i \in Occurrences(s, LF \o LF) <=> HasLF(s, i) /\ HasLF(s, i + 1)
  <2> DEFINE q == LF \o LF
  <2>0. q \in Seq(Symbols) /\ Len(q) = 2 /\ q[1] = "LF" /\ q[2] = "LF"
    BY PatternTypes
  <2> HIDE DEF q
  <2>1. i \in Occurrences(s, q) <=> /\ i \in 1..Len(s) /\ i + Len(q) - 1 <= Len(s)
                                    /\ \A k \in 1..Len(q) : at(k) = q[k]
    <3>1. i \in Occurrences(s, q) <=> Matches(s, q, i)
      BY <2>0, OccursIs
    <3> QED BY <3>1 DEF Matches
  <2>2. (\A k \in 1..2 : at(k) = q[k]) <=> at(1) = q[1] /\ at(2) = q[2]
    OBVIOUS
  <2>3. i \in Occurrences(s, q) <=> HasLF(s, i) /\ HasLF(s, i + 1)
    BY <1>1, <2>0, <2>1, <2>2 DEF HasLF
  <2> QED BY <2>3 DEF q
<1>5. i \in Occurrences(s, CRLF \o CRLF) <=> HasCRLF(s, i) /\ HasCRLF(s, i + 2)
  <2> DEFINE q == CRLF \o CRLF
  <2>0. q \in Seq(Symbols) /\ Len(q) = 4 /\ q[1] = "CR" /\ q[2] = "LF" /\ q[3] = "CR" /\ q[4] = "LF"
    BY PatternTypes
  <2> HIDE DEF q
  <2>1. i \in Occurrences(s, q) <=> /\ i \in 1..Len(s) /\ i + Len(q) - 1 <= Len(s)
                                    /\ \A k \in 1..Len(q) : at(k) = q[k]
    <3>1. i \in Occurrences(s, q) <=> Matches(s, q, i)
      BY <2>0, OccursIs
    <3> QED BY <3>1 DEF Matches
  <2>2. (\A k \in 1..4 : at(k) = q[k])
          <=> at(1) = q[1] /\ at(2) = q[2] /\ at(3) = q[3] /\ at(4) = q[4]
    OBVIOUS
  <2>3. i \in Occurrences(s, q) <=> HasCRLF(s, i) /\ HasCRLF(s, i + 2)
    BY <1>1, <2>0, <2>1, <2>2 DEF HasCRLF
  <2> QED BY <2>3 DEF q
<1> QED BY <1>2, <1>3, <1>4, <1>5

LEMMA FirstIs ==
    ASSUME NEW T \in SUBSET Nat, T # {}
    PROVE  First(T) \in T /\ \A j \in T : First(T) <= j
<1>1. \E i \in T : \A j \in T : i <= j
  BY LeastNatural
<1> QED BY <1>1 DEF First

\* The end of the header is that of the first CR LF CR LF; only if there is none,
\* that of the first LF LF.
EndsCRLF(s, i) ==
    /\ HasCRLF(s, i) /\ HasCRLF(s, i + 2) /\ FindEndOfHeader(s) = i + 3
    /\ \A j \in Int : HasCRLF(s, j) /\ HasCRLF(s, j + 2) => i <= j

EndsLF(s, i) ==
    /\ HasLF(s, i) /\ HasLF(s, i + 1) /\ FindEndOfHeader(s) = i + 1
    /\ \A j \in Int : HasLF(s, j) /\ HasLF(s, j + 1) => i <= j
    /\ \A j \in Int : ~ (HasCRLF(s, j) /\ HasCRLF(s, j + 2))

LEMMA EndIs ==
    ASSUME NEW s \in Seq(Symbols), FindEndOfHeader(s) # 0
    PROVE  \E i \in Nat : EndsCRLF(s, i) \/ EndsLF(s, i)
<1> DEFINE T == Occurrences(s, CRLF \o CRLF)
           U == Occurrences(s, LF \o LF)
<1>1. /\ \A j \in Int : j \in T <=> HasCRLF(s, j) /\ HasCRLF(s, j + 2)
      /\ \A j \in Int : j \in U <=> HasLF(s, j) /\ HasLF(s, j + 1)
  BY PatternsOccur
<1>2. T \in SUBSET Nat /\ U \in SUBSET Nat
  BY DEF Occurrences
<1>3. FindEndOfHeader(s) = IF T # {} THEN First(T) + 3 ELSE IF U # {} THEN First(U) + 1 ELSE 0
  BY DEF FindEndOfHeader
<1> HIDE DEF T, U
<1>4. CASE T # {}
  <2>1. First(T) \in T /\ \A j \in T : First(T) <= j
    BY <1>2, <1>4, FirstIs
  <2>2. First(T) \in Nat
    BY <1>2, <2>1
  <2>3. EndsCRLF(s, First(T))
    BY <1>1, <1>3, <1>4, <2>1, <2>2 DEF EndsCRLF
  <2> QED BY <2>2, <2>3
<1>5. CASE T = {} /\ U # {}
  <2>1. First(U) \in U /\ \A j \in U : First(U) <= j
    BY <1>2, <1>5, FirstIs
  <2>2. First(U) \in Nat
    BY <1>2, <2>1
  <2>3. EndsLF(s, First(U))
    BY <1>1, <1>3, <1>5, <2>1, <2>2 DEF EndsLF
  <2> QED BY <2>2, <2>3
<1> QED BY <1>3, <1>4, <1>5

-----------------------------------------------------------------------------
(***************************************************************************)
(* The response and its headers.                                           *)
(***************************************************************************)
IsResponse(r) == r = [status |-> r.status, headers |-> r.headers, body |-> r.body]

LEMMA NewResponseIs ==
    ASSUME NEW status
    PROVE  /\ IsResponse(NewResponse(status)) /\ NewResponse(status).status = status
           /\ \A n : ~ HasHeader(NewResponse(status), n)
           /\ NewResponse(status).body = <<>>
  BY DEF IsResponse, NewResponse, HasHeader

LEMMA SetStatusIs ==
    ASSUME NEW r, IsResponse(r), NEW status
    PROVE  /\ IsResponse(SetStatus(r, status)) /\ SetStatus(r, status).status = status
           /\ SetStatus(r, status).headers = r.headers
           /\ SetStatus(r, status).body = r.body
  BY DEF IsResponse, SetStatus

LEMMA AddHeaderIs ==
    ASSUME NEW r, IsResponse(r), NEW name, NEW value
    PROVE  /\ IsResponse(AddHeader(r, name, value))
           /\ AddHeader(r, name, value).status = r.status
           /\ AddHeader(r, name, value).body = r.body
           /\ AddHeader(r, name, value).headers[name] = value
           /\ \A n : HasHeader(AddHeader(r, name, value), n) <=> n = name \/ HasHeader(r, n)
<1> DEFINE h == [n \in DOMAIN r.headers \cup {name} |-> IF n = name THEN value ELSE r.headers[n]]
<1>1. AddHeader(r, name, value) = [status |-> r.status, headers |-> h, body |-> r.body]
  BY DEF IsResponse, AddHeader
<1>2. h[name] = value /\ \A n : n \in DOMAIN h <=> n = name \/ n \in DOMAIN r.headers
  OBVIOUS
<1> HIDE DEF h
<1> QED BY <1>1, <1>2 DEF IsResponse, HasHeader

LEMMA ToHttpStringIs ==
    ASSUME NEW r, IsResponse(r)
    PROVE  /\ IsResponse(ToHttpString(r)) /\ ToHttpString(r).status = r.status
           /\ ToHttpString(r).body = r.body
           /\ \A n : HasHeader(r, n) => HasHeader(ToHttpString(r), n)
           /\ \A n : HasHeader(ToHttpString(r), n) => HasHeader(r, n) \/ n = "content-length"
           /\ ~ HasHeader(r, "content-length") /\ ~ HasHeader(r, "transfer-encoding") =>
                /\ HasHeader(ToHttpString(r), "content-length")
                /\ ToHttpString(r).headers["content-length"] = Len(ToHttpString(r).body)
<1>1. CASE HasHeader(r, "content-length") \/ HasHeader(r, "transfer-encoding")
  BY <1>1 DEF ToHttpString
<1>2. CASE ~ (HasHeader(r, "content-length") \/ HasHeader(r, "transfer-encoding"))
  <2>1. ToHttpString(r) = AddHeader(r, "content-length", Len(r.body))
    BY <1>2 DEF ToHttpString
  <2> QED BY <1>2, <2>1, AddHeaderIs
<1> QED BY <1>1, <1>2

-----------------------------------------------------------------------------
(***************************************************************************)
(* The inductive invariant.  The header loop is always at the start of a   *)
(* line, no blank line is behind it, and the status is that of the lines   *)
(* behind it.                                                              *)
(***************************************************************************)
HeaderNames == {FieldName[f] : f \in Fields} \cup {"other"}

CgiType ==
    /\ point \in {"read", "header", "sent"}
    /\ script \in Scripts
    /\ out \in Seq(Symbols)
    /\ req \in Nat /\ req >= 1
    /\ IsResponse(res) /\ res.status \in {200, 302, 404}
    /\ DOMAIN res.headers \subseteq HeaderNames
    /\ point = "read" => req = 1 /\ res = NewResponse(200)

IsBlank(i) == HasLF(out, i) \/ HasCRLF(out, i)
FieldLine(i, fields) == StartsLine(i) /\ out[i] \in fields

\* The status that the lines before position r ask for.
StatusBefore(status, r) ==
    LET locations(i) == \E k \in i..(r - 1) : FieldLine(k, {"Location"})
    IN  \/ /\ \A k \in 1..(r - 1) : ~ FieldLine(k, DOMAIN StatusOf)
           /\ status = IF locations(1) THEN 302 ELSE 200
        \/ \E i \in 1..(r - 1) :
             /\ FieldLine(i, DOMAIN StatusOf)
             /\ \A k \in (i + 1)..(r - 1) : ~ FieldLine(k, DOMAIN StatusOf)
             /\ status = IF StatusOf[out[i]] = 200 /\ locations(i + 1) THEN 302
                         ELSE StatusOf[out[i]]

\* A header of one Content-Type line.
ShortHeader ==
    /\ Len(out) >= 3 /\ out[1] = "Content_Type"
    /\ \/ HasCRLF(out, 2) /\ HasCRLF(out, 4)
       \/ HasLF(out, 2) /\ HasLF(out, 3)

LoopInv ==
    point = "header" =>
        /\ LoopStaysInHeader
        /\ StartsLine(req)
        /\ \A i \in 1..(req - 1) : StartsLine(i) => ~ IsBlank(i)
        /\ HasHeader(res, "content-type") => req > 1
        /\ StatusBefore(res.status, req)
        /\ ShortHeader => req = 1 \/ (HasHeader(res, "content-type") /\ IsBlank(req))

SentInv == BodyIsRest /\ StatusFromScript /\ IsDelimited

CgiInv == CgiType /\ LoopInv /\ SentInv

\* The end of the header ends a line, and the last line before it is blank.
LEMMA EndOfHeader ==
    ASSUME CgiType, FindEndOfHeader(out) # 0
    PROVE  /\ FindEndOfHeader(out) \in 1..Len(out) /\ out[FindEndOfHeader(out)] = "LF"
           /\ \E i \in Nat : EndsCRLF(out, i) \/ EndsLF(out, i)
<1>1. PICK i \in Nat : EndsCRLF(out, i) \/ EndsLF(out, i)
  BY EndIs DEF CgiType
<1>2. Len(out) \in Nat
  BY DEF CgiType
<1>3. CASE EndsCRLF(out, i)
  <2>1. (i + 2) + 1 = i + 3
    OBVIOUS
  <2> QED BY <1>1, <1>2, <1>3, <2>1 DEF EndsCRLF, HasCRLF
<1>4. CASE EndsLF(out, i)
  BY <1>1, <1>2, <1>4 DEF EndsLF, HasLF
<1> QED BY <1>1, <1>3, <1>4

LEMMA BlankIs ==
    ASSUME CgiType
    PROVE  AtBlankLine <=> IsBlank(req)
  BY PatternsOccur DEF CgiType, AtBlankLine, IsBlank

\* The line that ReadHeaderLine reads.
LEMMA LineEndIs ==
    ASSUME CgiType, FindEndOfHeader(out) # 0, req <= FindEndOfHeader(out)
    PROVE  /\ LineEnd \in Nat /\ req <= LineEnd /\ LineEnd <= FindEndOfHeader(out)
           /\ LineEnd <= Len(out) /\ out[LineEnd] \in LineEnds
           /\ \A i \in req..(LineEnd - 1) : out[i] \notin LineEnds
           /\ \A i \in req..Len(out) : out[i] \in LineEnds => LineEnd <= i
<1> DEFINE T == {i \in req..Len(out) : out[i] \in LineEnds}
           E == FindEndOfHeader(out)
<1>1. E \in 1..Len(out) /\ out[E] = "LF" /\ Len(out) \in Nat /\ req \in Nat
  BY EndOfHeader DEF CgiType
<1>2. E \in T
  BY <1>1 DEF LineEnds
<1>3. T \in SUBSET Nat /\ T # {}
  BY <1>1, <1>2
<1>4. LineEnd = First(T)
  BY DEF LineEnd
<1> HIDE DEF E
<1>5. LineEnd \in T /\ \A j \in T : LineEnd <= j
  <2> HIDE DEF T
  <2> QED BY <1>3, <1>4, FirstIs
<1>6. LineEnd <= E /\ LineEnd \in Nat /\ req <= LineEnd /\ LineEnd <= Len(out) /\ out[LineEnd] \in LineEnds
  BY <1>1, <1>2, <1>5
<1>7. \A i \in req..Len(out) : out[i] \in LineEnds => LineEnd <= i
  BY <1>5
<1>8. \A i \in req..(LineEnd - 1) : out[i] \notin LineEnds
  BY <1>1, <1>6, <1>7
<1> QED BY <1>6, <1>7, <1>8 DEF E

LEMMA LineIs ==
    ASSUME CgiType, LoopInv, point = "header", ~ AtBlankLine, IsHeaderLine
    PROVE  /\ NextLine \in Nat /\ req < NextLine - 1 /\ NextLine <= FindEndOfHeader(out)
           /\ out[NextLine - 1] = "LF"
           /\ \A i \in (req + 1)..(NextLine - 1) : ~ StartsLine(i)
           /\ Colon \in Nat /\ req <= Colon /\ Colon <= Len(out) /\ out[Colon] \in Fields
           /\ out[req] \in Fields => Colon = req
           /\ req <= Len(out)
<1> DEFINE E == FindEndOfHeader(out)
<1>0. E # 0 /\ req <= E /\ req \in Nat /\ req >= 1
  BY DEF LoopInv, LoopStaysInHeader, CgiType
<1>1. E \in 1..Len(out) /\ out[E] = "LF" /\ Len(out) \in Nat
  BY <1>0, EndOfHeader DEF CgiType
<1>2. /\ LineEnd \in Nat /\ req <= LineEnd /\ LineEnd <= E
      /\ LineEnd <= Len(out) /\ out[LineEnd] \in LineEnds
      /\ \A i \in req..(LineEnd - 1) : out[i] \notin LineEnds
      /\ \A i \in req..Len(out) : out[i] \in LineEnds => LineEnd <= i
  BY <1>0, LineEndIs
<1>3. PICK c \in req..(LineEnd - 1) : out[c] \in Fields
  BY DEF IsHeaderLine
<1>4. IsCRLF(out, LineEnd) \/ IsLF(out, LineEnd)
  BY DEF IsHeaderLine
<1>5. HasCRLF(out, LineEnd) \/ HasLF(out, LineEnd)
  BY <1>2, <1>4, PatternsOccur DEF CgiType
<1> HIDE DEF E
<1>6. /\ NextLine \in Nat /\ req < NextLine - 1 /\ out[NextLine - 1] = "LF"
      /\ \/ NextLine = LineEnd + 1 /\ out[LineEnd] = "LF"
         \/ NextLine = LineEnd + 2 /\ out[LineEnd] = "CR" /\ out[LineEnd + 1] = "LF"
  <2>1. CASE HasLF(out, LineEnd)
    <3>1. NextLine = LineEnd + 1 /\ out[LineEnd] = "LF"
      BY <2>1 DEF NextLine, HasLF
    <3>2. NextLine - 1 = LineEnd /\ NextLine \in Nat /\ req < NextLine - 1
      BY <1>0, <1>2, <1>3, <3>1
    <3> QED BY <3>1, <3>2
  <2>2. CASE HasCRLF(out, LineEnd)
    <3>1. NextLine = LineEnd + 2 /\ out[LineEnd] = "CR" /\ out[LineEnd + 1] = "LF"
      BY <2>2 DEF NextLine, HasCRLF
    <3>2. NextLine - 1 = LineEnd + 1 /\ NextLine \in Nat /\ req < NextLine - 1
      BY <1>0, <1>2, <1>3, <3>1
    <3> QED BY <3>1, <3>2
  <2> QED BY <1>5, <2>1, <2>2
<1>7. NextLine <= E
  <2>1. PICK i \in Nat : EndsCRLF(out, i) \/ EndsLF(out, i)
    BY <1>0, EndOfHeader DEF E
  <2>2. ~ IsBlank(req)
    BY BlankIs
  <2>3. CASE EndsCRLF(out, i)
    <3>1. /\ E = i + 3 /\ HasCRLF(out, i) /\ HasCRLF(out, i + 2)
          /\ HasLF(out, i + 1) /\ HasLF(out, i + 3)
      <4>1. (i + 2) + 1 = i + 3
        OBVIOUS
      <4> QED BY <1>1, <2>3, <4>1 DEF EndsCRLF, HasCRLF, HasLF, E
    <3>2. req # i + 1 /\ req # i + 2 /\ req # i + 3 /\ req # i
      BY <2>2, <3>1 DEF IsBlank
    <3>3. req < i
      BY <1>0, <2>1, <3>1, <3>2
    <3>4. i \in req..Len(out) /\ out[i] = "CR"
      BY <1>0, <1>1, <3>1, <3>3 DEF HasCRLF
    <3>5. LineEnd <= i
      BY <1>2, <3>4 DEF LineEnds
    <3> QED BY <1>2, <1>6, <2>1, <3>1, <3>5
  <2>4. CASE EndsLF(out, i)
    <3>1. E = i + 1 /\ HasLF(out, i) /\ HasLF(out, i + 1)
      BY <2>4 DEF EndsLF, E
    <3>2. req # i /\ req # i + 1
      BY <2>2, <3>1 DEF IsBlank
    <3>3. req < i
      BY <1>0, <2>1, <3>1, <3>2
    <3>4. i \in req..Len(out) /\ out[i] = "LF"
      BY <1>0, <1>1, <3>1, <3>3 DEF HasLF
    <3>5. LineEnd <= i
      BY <1>2, <3>4 DEF LineEnds
    <3>6. LineEnd = i => out[LineEnd] # "CR"
      BY <3>4
    <3> QED BY <1>2, <1>6, <2>1, <3>1, <3>5, <3>6
  <2> QED BY <2>1, <2>3, <2>4
<1>8. ASSUME NEW i \in (req + 1)..(NextLine - 1) PROVE ~ StartsLine(i)
  <2>1. i # 1 /\ i - 1 \in req..LineEnd /\ i - 1 \in Nat
    BY <1>0, <1>2, <1>6
  <2>2. out[i - 1] # "LF"
    <3>1. CASE i - 1 = LineEnd
      BY <1>0, <1>2, <1>6, <3>1
    <3>2. CASE i - 1 # LineEnd
      <4>1. i - 1 \in req..(LineEnd - 1)
        BY <1>0, <1>2, <2>1, <3>2
      <4> QED BY <1>2, <4>1 DEF LineEnds
    <3> QED BY <3>1, <3>2
  <2> QED BY <2>1, <2>2 DEF StartsLine
<1>9. /\ Colon \in Nat /\ req <= Colon /\ Colon <= Len(out) /\ out[Colon] \in Fields
      /\ out[req] \in Fields => Colon = req
  <2> DEFINE T == {i \in req..Len(out) : out[i] \in Fields}
  <2>1. c \in T /\ T \in SUBSET Nat
    BY <1>0, <1>1, <1>2, <1>3
  <2>2. Colon = First(T)
    BY DEF Colon
  <2>3. Colon \in T /\ \A j \in T : Colon <= j
    <3> HIDE DEF T
    <3> QED BY <2>1, <2>2, FirstIs
  <2>4. out[req] \in Fields => req \in T
    BY <1>0, <1>1
  <2>5. out[req] \in Fields => Colon <= req
    BY <2>3, <2>4
  <2> QED BY <1>0, <2>1, <2>3, <2>5
<1>10. req <= Len(out)
  BY <1>0, <1>1
<1> QED BY <1>6, <1>7, <1>8, <1>9, <1>10 DEF E

-----------------------------------------------------------------------------
(***************************************************************************)
(* What a header line does to the response.                                *)
(***************************************************************************)
LEMMA FieldFacts ==
    /\ DOMAIN StatusOf = {"Status_404", "Status_200"}
    /\ StatusOf["Status_404"] = 404 /\ StatusOf["Status_200"] = 200
    /\ DOMAIN StatusOf \subseteq Fields /\ "Location" \in Fields /\ "Location" \notin DOMAIN StatusOf
    /\ "Content_Type" \in Fields /\ "Content_Type" \notin DOMAIN StatusOf
    /\ FieldName["Content_Type"] = "content-type"
    /\ "other" \notin Fields /\ "LF" \notin Fields /\ "CR" \notin Fields
    /\ "connection" \notin HeaderNames
<1>1. Fields = {"Content_Type", "Status_404", "Status_200", "Location", "location",
                "Content_Length_1", "Transfer_Encoding"}
  BY DEF Fields, FieldName
<1>2. DOMAIN StatusOf = {"Status_404", "Status_200"}
  BY DEF StatusOf
<1>3. StatusOf["Status_404"] = 404 /\ StatusOf["Status_200"] = 200
  BY DEF StatusOf
<1>4. FieldName["Content_Type"] = "content-type"
  BY DEF FieldName
<1>5. \A f \in Fields : FieldName[f] # "connection"
  BY <1>1 DEF FieldName
<1> QED BY <1>1, <1>2, <1>3, <1>4, <1>5 DEF HeaderNames

LEMMA KeyIs ==
    ASSUME CgiType, LoopInv, point = "header", ~ AtBlankLine, IsHeaderLine
    PROVE  /\ out[req] \in Fields => Key = out[req] /\ Name = FieldName[out[req]]
           /\ out[req] \notin Fields => Key = "other" /\ Name = "other"
           /\ Name \in HeaderNames
<1>1. out[Colon] \in Fields /\ (out[req] \in Fields => Colon = req)
  BY LineIs
<1>2. CASE out[req] \in Fields
  BY <1>1, <1>2 DEF Key, Name, HeaderNames
<1>3. CASE out[req] \notin Fields
  BY <1>1, <1>3 DEF Key, Name, HeaderNames
<1> QED BY <1>2, <1>3

\* The status after the line at position r.
NextStatus(status, r) ==
    IF out[r] \in DOMAIN StatusOf THEN StatusOf[out[r]]
    ELSE IF out[r] = "Location" /\ status = 200 THEN 302
    ELSE status

LEMMA StoreHeaderIs ==
    ASSUME CgiType, LoopInv, point = "header", ~ AtBlankLine, IsHeaderLine
    PROVE  /\ IsResponse(StoreHeader)
           /\ StoreHeader.status = NextStatus(res.status, req)
           /\ \A n : HasHeader(res, n) => HasHeader(StoreHeader, n)
           /\ \A n : HasHeader(StoreHeader, n) => HasHeader(res, n) \/ n \in HeaderNames
           /\ out[req] = "Content_Type" => HasHeader(StoreHeader, "content-type")
<1>1. /\ out[req] \in Fields => Key = out[req] /\ Name = FieldName[out[req]]
      /\ out[req] \notin Fields => Key = "other" /\ Name = "other"
      /\ Name \in HeaderNames
  BY KeyIs
<1>2. IsResponse(res)
  BY DEF CgiType
<1>3. CASE Key \in DOMAIN StatusOf
  <2>1. StoreHeader = SetStatus(res, StatusOf[Key])
    BY <1>3 DEF StoreHeader
  <2>2. /\ IsResponse(SetStatus(res, StatusOf[Key])) /\ SetStatus(res, StatusOf[Key]).status = StatusOf[Key]
        /\ SetStatus(res, StatusOf[Key]).headers = res.headers
    BY <1>2, SetStatusIs
  <2>3. out[req] = Key
    BY <1>1, <1>3, FieldFacts
  <2>4. NextStatus(res.status, req) = StatusOf[Key] /\ out[req] # "Content_Type"
    BY <1>3, <2>3, FieldFacts DEF NextStatus
  <2> QED BY <2>1, <2>2, <2>4 DEF HasHeader
<1>4. CASE Key \notin DOMAIN StatusOf
  <2>0. out[req] \notin DOMAIN StatusOf /\ (Key = "Location" <=> out[req] = "Location")
    BY <1>1, <1>4, FieldFacts
  <2>1. PICK r : /\ IsResponse(r) /\ r.status = NextStatus(res.status, req) /\ r.headers = res.headers
                 /\ StoreHeader = AddHeader(r, Name, Value)
    <3>1. CASE Key = "Location" /\ res.status = 200
      <4>1. StoreHeader = AddHeader(SetStatus(res, 302), Name, Value)
        BY <1>4, <3>1 DEF StoreHeader
      <4>2. NextStatus(res.status, req) = 302
        BY <2>0, <3>1 DEF NextStatus
      <4> QED BY <1>2, <4>1, <4>2, SetStatusIs
    <3>2. CASE ~ (Key = "Location" /\ res.status = 200)
      <4>1. StoreHeader = AddHeader(res, Name, Value)
        BY <1>4, <3>2 DEF StoreHeader
      <4>2. NextStatus(res.status, req) = res.status
        BY <2>0, <3>2 DEF NextStatus
      <4> QED BY <1>2, <4>1, <4>2
    <3> QED BY <3>1, <3>2
  <2>2. /\ IsResponse(AddHeader(r, Name, Value)) /\ AddHeader(r, Name, Value).status = r.status
        /\ \A n : HasHeader(AddHeader(r, Name, Value), n) <=> n = Name \/ HasHeader(r, n)
    BY <2>1, AddHeaderIs
  <2>3. \A n : HasHeader(r, n) <=> HasHeader(res, n)
    BY <2>1 DEF HasHeader
  <2>4. out[req] = "Content_Type" => Name = "content-type"
    BY <1>1, FieldFacts
  <2> QED BY <1>1, <2>1, <2>2, <2>3, <2>4
<1> QED BY <1>3, <1>4

LEMMA NextStatusType ==
    ASSUME NEW status \in {200, 302, 404}, NEW r
    PROVE  NextStatus(status, r) \in {200, 302, 404}
  BY FieldFacts DEF NextStatus

-----------------------------------------------------------------------------
(***************************************************************************)
(* The types.                                                              *)
(***************************************************************************)
LEMMA RefuseIs ==
    ASSUME Refuse
    PROVE  /\ point' = "sent" /\ UNCHANGED <<script, parts, out, req, res>>
           /\ sent'.status = 500
           /\ HasHeader(sent', "content-length")
           /\ sent'.headers["content-length"] = Len(sent'.body)
<1> DEFINE r1 == AddHeader(NewResponse(500), "connection", <<"text">>)
           r2 == AddHeader(r1, "content-type", <<"text">>)
           r3 == EnsureDefaultErrorContent(r2)
<1>1. /\ point' = "sent" /\ sent' = ToHttpString(r3)
      /\ UNCHANGED <<script, parts, out, req, res>>
  BY DEF Refuse, Send
<1>2. /\ IsResponse(NewResponse(500)) /\ NewResponse(500).status = 500
      /\ \A n : ~ HasHeader(NewResponse(500), n)
  BY NewResponseIs
<1>3. /\ IsResponse(r1) /\ r1.status = 500 /\ \A n : HasHeader(r1, n) <=> n = "connection"
  <2> HIDE DEF r1
  <2>1. /\ IsResponse(r1) /\ r1.status = NewResponse(500).status
        /\ \A n : HasHeader(r1, n) <=> n = "connection" \/ HasHeader(NewResponse(500), n)
    BY <1>2, AddHeaderIs DEF r1
  <2> QED BY <1>2, <2>1
<1>4. /\ IsResponse(r2) /\ r2.status = 500
      /\ \A n : HasHeader(r2, n) <=> n = "content-type" \/ n = "connection"
  <2> HIDE DEF r1, r2
  <2>1. /\ IsResponse(r2) /\ r2.status = r1.status
        /\ \A n : HasHeader(r2, n) <=> n = "content-type" \/ HasHeader(r1, n)
    BY <1>3, AddHeaderIs DEF r2
  <2> QED BY <1>3, <2>1
<1> HIDE DEF r1, r2
<1>5. IsResponse(r3) /\ r3.status = 500 /\ r3.headers = r2.headers
  BY <1>4 DEF EnsureDefaultErrorContent, IsResponse
<1>6. ~ HasHeader(r3, "content-length") /\ ~ HasHeader(r3, "transfer-encoding")
  BY <1>4, <1>5 DEF HasHeader
<1> HIDE DEF r3
<1> QED BY <1>1, <1>5, <1>6, ToHttpStringIs

LEMMA TypeInit ==
    ASSUME Init
    PROVE  CgiType
<1>1. IsResponse(NewResponse(200)) /\ NewResponse(200).status = 200
  BY NewResponseIs
<1>2. \A n : n \notin DOMAIN NewResponse(200).headers
  BY NewResponseIs DEF HasHeader
<1>3. /\ point = "read" /\ script \in Scripts /\ out = <<>> /\ req = 1 /\ res = NewResponse(200)
  BY DEF Init
<1> QED BY <1>1, <1>2, <1>3 DEF CgiType

LEMMA TypeStep ==
    ASSUME CgiType, LoopInv, [Next]_vars
    PROVE  CgiType'
<1>1. CASE CgiRead
  <2>1. PICK part \in script.parts : out' = out \o part
    BY <1>1 DEF CgiRead
  <2>2. out \in Seq(Symbols) /\ part \in Seq(Symbols)
    BY <2>1, SizesAssumption DEF CgiType
  <2>3. out' \in Seq(Symbols)
    BY <2>1, <2>2
  <2>4. UNCHANGED <<point, script, req, res>>
    BY <1>1 DEF CgiRead
  <2> QED BY <2>3, <2>4 DEF CgiType
<1>2. CASE OnCgiExecutionError
  BY <1>2 DEF OnCgiExecutionError, Send, CgiType
<1>3. CASE OnCgiExecutionFinished
  BY <1>3 DEF OnCgiExecutionFinished, CgiType
<1>4. CASE NoEndOfHeader \/ BadHeaderLine \/ NoContentType
  <2>1. Refuse
    BY <1>4 DEF NoEndOfHeader, BadHeaderLine, NoContentType
  <2> QED BY <2>1, RefuseIs DEF CgiType
<1>5. CASE ReadHeaderLine
  <2>1. /\ point = "header" /\ ~ AtBlankLine /\ IsHeaderLine
        /\ res' = StoreHeader /\ req' = NextLine
        /\ UNCHANGED <<point, script, parts, out, sent>>
    BY <1>5 DEF ReadHeaderLine, IsGoodLine
  <2>2. /\ IsResponse(res') /\ res'.status = NextStatus(res.status, req)
        /\ \A n : HasHeader(res', n) => HasHeader(res, n) \/ n \in HeaderNames
    BY <2>1, StoreHeaderIs
  <2>3. res'.status \in {200, 302, 404}
    BY <2>2, NextStatusType DEF CgiType
  <2>4. DOMAIN res'.headers \subseteq HeaderNames
    BY <2>2 DEF HasHeader, CgiType
  <2>5. req' \in Nat /\ req' >= 1
    <3>1. NextLine \in Nat /\ req < NextLine - 1 /\ req \in Nat
      BY <2>1, LineIs DEF CgiType
    <3> QED BY <2>1, <3>1
  <2>6. /\ point' # "read" /\ point' \in {"read", "header", "sent"}
        /\ script' \in Scripts /\ out' \in Seq(Symbols)
    BY <2>1 DEF CgiType
  <2>7. IsResponse(res)'
    BY <2>2 DEF IsResponse
  <2> QED BY <2>3, <2>4, <2>5, <2>6, <2>7 DEF CgiType
<1>6. CASE AdvanceBody
  <2>1. /\ point' = "sent" /\ UNCHANGED <<script, parts, out, req>>
        /\ res' = [res EXCEPT !.body = SubSeq(out, FindEndOfHeader(out) + 1, Len(out))]
    BY <1>6 DEF AdvanceBody, Send
  <2>2. IsResponse(res') /\ res'.status = res.status /\ res'.headers = res.headers
    BY <2>1 DEF CgiType, IsResponse
  <2>3. IsResponse(res)'
    BY <2>2 DEF IsResponse
  <2> QED BY <2>1, <2>2, <2>3 DEF CgiType
<1>7. CASE UNCHANGED vars
  BY <1>7 DEF vars, CgiType, IsResponse
<1> QED BY <1>1, <1>2, <1>3, <1>4, <1>5, <1>6, <1>7 DEF Next

-----------------------------------------------------------------------------
(***************************************************************************)
(* The header loop.                                                        *)
(***************************************************************************)
LEMMA StatusStep ==
    ASSUME NEW status, NEW r \in Nat, r >= 1, NEW q \in Nat, r < q,
           StartsLine(r), \A i \in (r + 1)..(q - 1) : ~ StartsLine(i),
           StatusBefore(status, r)
    PROVE  StatusBefore(NextStatus(status, r), q)
<1> DEFINE S == DOMAIN StatusOf
           locations(i, p) == \E k \in i..(p - 1) : FieldLine(k, {"Location"})
<1>1. \A F : \A i \in (r + 1)..(q - 1) : ~ FieldLine(i, F)
  BY DEF FieldLine
<1>2. \A F : FieldLine(r, F) <=> out[r] \in F
  BY DEF FieldLine
<1>3. CASE out[r] \in S
  <2>1. NextStatus(status, r) = StatusOf[out[r]]
    BY <1>3 DEF NextStatus
  <2>2. r \in 1..(q - 1) /\ FieldLine(r, S) /\ ~ locations(r + 1, q)
    BY <1>1, <1>2, <1>3
  <2> QED BY <1>1, <2>1, <2>2 DEF StatusBefore
<1>4. CASE out[r] \notin S
  <2>1. NextStatus(status, r) = IF out[r] = "Location" /\ status = 200 THEN 302 ELSE status
    BY <1>4 DEF NextStatus
  <2>2. \A k \in r..(q - 1) : ~ FieldLine(k, S)
    BY <1>1, <1>2, <1>4
  <2>3. ASSUME NEW i \in 1..r
        PROVE  locations(i, q) <=> locations(i, r) \/ out[r] = "Location"
    <3>1. ASSUME locations(i, q) PROVE locations(i, r) \/ out[r] = "Location"
      <4>1. PICK k \in i..(q - 1) : FieldLine(k, {"Location"})
        BY <3>1
      <4>2. k <= r
        BY <1>1, <4>1
      <4>3. CASE k = r
        BY <1>2, <4>1, <4>3
      <4>4. CASE k # r
        <5>1. k \in i..(r - 1)
          BY <4>2, <4>4
        <5> QED BY <4>1, <5>1
      <4> QED BY <4>3, <4>4
    <3>2. ASSUME locations(i, r) PROVE locations(i, q)
      <4>1. PICK k \in i..(r - 1) : FieldLine(k, {"Location"})
        BY <3>2
      <4>2. k \in i..(q - 1)
        OBVIOUS
      <4> QED BY <4>1, <4>2
    <3>3. ASSUME out[r] = "Location" PROVE locations(i, q)
      <4>1. r \in i..(q - 1) /\ FieldLine(r, {"Location"})
        BY <1>2, <3>3
      <4> QED BY <4>1
    <3> QED BY <3>1, <3>2, <3>3
  <2>4. CASE /\ \A k \in 1..(r - 1) : ~ FieldLine(k, S)
             /\ status = IF locations(1, r) THEN 302 ELSE 200
    <3>1. \A k \in 1..(q - 1) : ~ FieldLine(k, S)
      <4> SUFFICES ASSUME NEW k \in 1..(q - 1) PROVE ~ FieldLine(k, S)
        OBVIOUS
      <4>1. k \in 1..(r - 1) \/ k \in r..(q - 1)
        OBVIOUS
      <4> QED BY <2>2, <2>4, <4>1
    <3>2. locations(1, q) <=> locations(1, r) \/ out[r] = "Location"
      BY <2>3
    <3>3. NextStatus(status, r) = IF locations(1, q) THEN 302 ELSE 200
      <4> HIDE DEF locations
      <4> QED BY <2>1, <2>4, <3>2
    <3> QED BY <3>1, <3>3 DEF StatusBefore
  <2>5. CASE \E i \in 1..(r - 1) :
                /\ FieldLine(i, S)
                /\ \A k \in (i + 1)..(r - 1) : ~ FieldLine(k, S)
                /\ status = IF StatusOf[out[i]] = 200 /\ locations(i + 1, r) THEN 302 ELSE StatusOf[out[i]]
    <3>1. PICK i \in 1..(r - 1) :
             /\ FieldLine(i, S)
             /\ \A k \in (i + 1)..(r - 1) : ~ FieldLine(k, S)
             /\ status = IF StatusOf[out[i]] = 200 /\ locations(i + 1, r) THEN 302 ELSE StatusOf[out[i]]
      BY <2>5
    <3>2. \A k \in (i + 1)..(q - 1) : ~ FieldLine(k, S)
      <4> SUFFICES ASSUME NEW k \in (i + 1)..(q - 1) PROVE ~ FieldLine(k, S)
        OBVIOUS
      <4>1. k \in (i + 1)..(r - 1) \/ k \in r..(q - 1)
        OBVIOUS
      <4> QED BY <2>2, <3>1, <4>1
    <3>3. locations(i + 1, q) <=> locations(i + 1, r) \/ out[r] = "Location"
      <4>1. i + 1 \in 1..r
        OBVIOUS
      <4> QED BY <2>3, <4>1
    <3>4. NextStatus(status, r) = IF StatusOf[out[i]] = 200 /\ locations(i + 1, q) THEN 302
                                  ELSE StatusOf[out[i]]
      <4>1. StatusOf[out[i]] \in {200, 404}
        BY <3>1, FieldFacts DEF FieldLine
      <4> HIDE DEF locations
      <4> QED BY <2>1, <3>1, <3>3, <4>1
    <3>5. i \in 1..(q - 1)
      OBVIOUS
    <3> QED BY <3>1, <3>2, <3>4, <3>5 DEF StatusBefore
  <2> QED BY <2>4, <2>5 DEF StatusBefore
<1> QED BY <1>3, <1>4

LEMMA ShortLine ==
    ASSUME CgiType, LoopInv, point = "header", req = 1, ShortHeader
    PROVE  LineEnd = 2 /\ NextLine \in {3, 4} /\ IsBlank(NextLine) /\ out[1] \notin LineEnds
<1>1. FindEndOfHeader(out) # 0 /\ req <= FindEndOfHeader(out)
  BY DEF LoopInv, LoopStaysInHeader, CgiType
<1>2. /\ LineEnd \in Nat /\ req <= LineEnd /\ out[LineEnd] \in LineEnds
      /\ \A i \in req..Len(out) : out[i] \in LineEnds => LineEnd <= i
  BY <1>1, LineEndIs
<1>3. out[1] = "Content_Type" /\ Len(out) \in Nat /\ Len(out) >= 3
  BY DEF ShortHeader, CgiType
<1>4. out[1] \notin LineEnds
  BY <1>3 DEF LineEnds
<1>5. out[2] \in LineEnds
  BY DEF ShortHeader, HasCRLF, HasLF, LineEnds
<1>6. LineEnd = 2
  <2>1. 2 \in req..Len(out)
    BY <1>3
  <2>2. LineEnd <= 2 /\ LineEnd # 1
    BY <1>2, <1>4, <1>5, <2>1
  <2> QED BY <1>2, <2>2
<1>7. NextLine \in {3, 4} /\ IsBlank(NextLine)
  <2>1. CASE HasCRLF(out, 2) /\ HasCRLF(out, 4)
    <3>1. NextLine = 4
      BY <1>6, <2>1 DEF NextLine, HasCRLF
    <3> QED BY <2>1, <3>1 DEF IsBlank
  <2>2. CASE HasLF(out, 2) /\ HasLF(out, 3)
    <3>1. NextLine = 3
      BY <1>6, <2>2 DEF NextLine, HasLF
    <3> QED BY <2>2, <3>1 DEF IsBlank
  <2> QED BY <2>1, <2>2 DEF ShortHeader
<1> QED BY <1>4, <1>6, <1>7

LEMMA LoopStep ==
    ASSUME CgiType, LoopInv, [Next]_vars
    PROVE  LoopInv'
<1>1. CASE CgiRead \/ OnCgiExecutionError \/ NoEndOfHeader \/ BadHeaderLine \/ AdvanceBody \/ NoContentType
  <2>1. point' # "header"
    BY <1>1 DEF CgiRead, OnCgiExecutionError, NoEndOfHeader, BadHeaderLine, AdvanceBody, NoContentType,
                Refuse, Send
  <2> QED BY <2>1 DEF LoopInv
<1>2. CASE OnCgiExecutionFinished
  <2>1. /\ req = 1 /\ res = NewResponse(200) /\ req' = 1 /\ res' = NewResponse(200) /\ out' = out
        /\ FindEndOfHeader(out) # 0
    BY <1>2 DEF OnCgiExecutionFinished, CgiType
  <2>2. FindEndOfHeader(out) \in 1..Len(out)
    BY <2>1, EndOfHeader
  <2>3. LoopStaysInHeader' /\ StartsLine(req)'
    BY <2>1, <2>2 DEF LoopStaysInHeader, StartsLine
  <2>4. NewResponse(200).status = 200 /\ ~ HasHeader(NewResponse(200), "content-type")
    BY NewResponseIs
  <2>5. res'.status = 200 /\ ~ HasHeader(res, "content-type")'
    BY <2>1, <2>4 DEF HasHeader
  <2>6. StatusBefore(res.status, req)'
    BY <2>1, <2>5 DEF StatusBefore
  <2>7. \A i \in 1..(req' - 1) : FALSE
    BY <2>1
  <2> QED BY <2>1, <2>3, <2>5, <2>6, <2>7 DEF LoopInv
<1>3. CASE ReadHeaderLine
  <2>1. /\ point = "header" /\ ~ AtBlankLine /\ IsHeaderLine
        /\ res' = StoreHeader /\ req' = NextLine
        /\ UNCHANGED <<point, script, parts, out, sent>>
    BY <1>3 DEF ReadHeaderLine, IsGoodLine
  <2>2. /\ LoopStaysInHeader /\ StartsLine(req)
        /\ \A i \in 1..(req - 1) : StartsLine(i) => ~ IsBlank(i)
        /\ StatusBefore(res.status, req)
        /\ ShortHeader => req = 1 \/ (HasHeader(res, "content-type") /\ IsBlank(req))
    BY <2>1 DEF LoopInv
  <2>3. ~ IsBlank(req) /\ req \in Nat /\ req >= 1
    BY <2>1, BlankIs DEF CgiType
  <2>4. /\ NextLine \in Nat /\ req < NextLine - 1 /\ NextLine <= FindEndOfHeader(out)
        /\ out[NextLine - 1] = "LF"
        /\ \A i \in (req + 1)..(NextLine - 1) : ~ StartsLine(i)
    BY <2>1, LineIs
  <2>5. /\ res'.status = NextStatus(res.status, req)
        /\ \A n : HasHeader(res, n) => HasHeader(res', n)
        /\ out[req] = "Content_Type" => HasHeader(res', "content-type")
    BY <2>1, StoreHeaderIs
  <2>6. FindEndOfHeader(out) \in 1..Len(out)
    BY <2>2, <2>1, EndOfHeader DEF LoopStaysInHeader, CgiType
  <2>7. LoopStaysInHeader'
    BY <2>1, <2>3, <2>4, <2>6 DEF LoopStaysInHeader
  <2>8. StartsLine(req)'
    BY <2>1, <2>4 DEF StartsLine
  <2>9. (\A i \in 1..(req - 1) : StartsLine(i) => ~ IsBlank(i))'
    <3>1. ASSUME NEW i \in 1..(NextLine - 1), StartsLine(i) PROVE ~ IsBlank(i)
      <4>1. i \in 1..(req - 1) \/ i = req \/ i \in (req + 1)..(NextLine - 1)
        BY <2>3, <2>4
      <4> QED BY <2>2, <2>3, <2>4, <3>1, <4>1
    <3>2. \A i \in 1..(NextLine - 1) : StartsLine(i) => ~ IsBlank(i)
      BY <3>1
    <3> QED BY <2>1, <3>2 DEF StartsLine, IsBlank, HasLF, HasCRLF
  <2>10. req' > 1
    BY <2>1, <2>3, <2>4
  <2>11. StatusBefore(res.status, req)'
    <3>1. StatusBefore(NextStatus(res.status, req), NextLine)
      BY <2>2, <2>3, <2>4, StatusStep
    <3>2. StatusBefore(res'.status, req')
      BY <2>1, <2>5, <3>1
    <3> QED BY <2>1, <3>2 DEF StatusBefore, FieldLine, StartsLine
  <2>12. ASSUME ShortHeader PROVE HasHeader(res', "content-type") /\ IsBlank(NextLine)
    <3>1. req = 1
      BY <2>2, <2>3, <2>12
    <3>2. out[req] = "Content_Type"
      BY <2>12, <3>1 DEF ShortHeader
    <3> QED BY <2>1, <2>5, <2>12, <3>1, <3>2, ShortLine
  <2>13. ShortHeader' => HasHeader(res, "content-type")' /\ IsBlank(req)'
    BY <2>1, <2>12 DEF ShortHeader, IsBlank, HasLF, HasCRLF, HasHeader
  <2> QED BY <2>7, <2>8, <2>9, <2>10, <2>11, <2>13 DEF LoopInv
<1>4. CASE UNCHANGED vars
  <2>1. point' = point /\ out' = out /\ req' = req /\ res' = res
    BY <1>4 DEF vars
  <2> QED BY <2>1 DEF LoopInv, LoopStaysInHeader, StartsLine, IsBlank, HasLF, HasCRLF, HasHeader,
                      StatusBefore, FieldLine, ShortHeader
<1> QED BY <1>1, <1>2, <1>3, <1>4 DEF Next

-----------------------------------------------------------------------------
(***************************************************************************)
(* The response that is sent.                                              *)
(***************************************************************************)
\* The loop stops at the first blank line of the output.
LEMMA BlankLineIs ==
    ASSUME CgiType, LoopInv, point = "header", AtBlankLine
    PROVE  BlankLine = req /\ req \in 1..Len(out) /\ IsBlank(req)
<1> DEFINE T == {i \in DOMAIN out : StartsLine(i) /\ (IsCRLF(out, i) \/ IsLF(out, i))}
<1>1. IsBlank(req) /\ req \in Nat /\ Len(out) \in Nat
  BY BlankIs DEF CgiType
<1>2. req \in 1..Len(out)
  BY <1>1 DEF IsBlank, HasLF, HasCRLF
<1>3. StartsLine(req) /\ \A i \in 1..(req - 1) : StartsLine(i) => ~ IsBlank(i)
  BY DEF LoopInv
<1>4. DOMAIN out = 1..Len(out)
  BY DEF CgiType
<1>5. \A i \in 1..Len(out) : IsCRLF(out, i) \/ IsLF(out, i) <=> IsBlank(i)
  BY PatternsOccur DEF CgiType, IsBlank
<1>6. req \in T /\ \A j \in T : req <= j
  BY <1>1, <1>2, <1>3, <1>4, <1>5
<1>7. T \in SUBSET Nat
  BY <1>4
<1>8. BlankLine = First(T)
  BY DEF BlankLine
<1>9. First(T) = req
  <2> HIDE DEF T
  <2>1. First(T) \in T /\ \A j \in T : First(T) <= j
    BY <1>6, <1>7, FirstIs
  <2>2. First(T) <= req /\ req <= First(T) /\ First(T) \in Nat
    BY <1>6, <1>7, <2>1
  <2> QED BY <1>1, <2>2
<1> QED BY <1>1, <1>2, <1>8, <1>9

\* The body that AdvanceBody takes.
ParsedBody == SubSeq(out, FindEndOfHeader(out) + 1, Len(out))

\* The outputs of which it loses a part.
EndIsLater ==
    /\ BlankLine - 2 \notin Occurrences(out, CRLF \o CRLF)
    /\ \/ Occurrences(Rest, CRLF \o CRLF) # {}
       \/ IsCRLF(out, BlankLine)

LEMMA BodyIs ==
    ASSUME CgiType, LoopInv, point = "header", AtBlankLine, HasHeader(res, "content-type")
    PROVE  ParsedBody = Rest \/ EndIsLater
<1> DEFINE B == BlankLine
           E == FindEndOfHeader(out)
<1>1. B = req /\ B \in 1..Len(out) /\ IsBlank(B) /\ Len(out) \in Nat
  BY BlankLineIs DEF CgiType
<1>2. B > 1 /\ out[B - 1] = "LF"
  BY <1>1 DEF LoopInv, StartsLine
<1>3. \A j \in 1..(B - 1) : StartsLine(j) => ~ IsBlank(j)
  BY <1>1 DEF LoopInv
<1>4. PICK i \in Nat : EndsCRLF(out, i) \/ EndsLF(out, i)
  BY EndOfHeader DEF LoopInv, LoopStaysInHeader, CgiType
<1>5. /\ IsLF(out, B) <=> HasLF(out, B)
      /\ IsCRLF(out, B) <=> HasCRLF(out, B)
      /\ B - 2 \in Occurrences(out, CRLF \o CRLF) <=> HasCRLF(out, B - 2) /\ HasCRLF(out, B)
  <2>1. B \in Int /\ B - 2 \in Int /\ (B - 2) + 2 = B
    BY <1>1
  <2> QED BY <2>1, PatternsOccur DEF CgiType
<1> HIDE DEF B, E
<1>6. HasCRLF(out, i) /\ HasCRLF(out, i + 2) => B <= i + 2
  <2> SUFFICES ASSUME HasCRLF(out, i), HasCRLF(out, i + 2), ~ (B <= i + 2) PROVE FALSE
    OBVIOUS
  <2>1. (i + 2) - 1 = i + 1 /\ i + 2 \in 1..(B - 1)
    BY <1>1, <1>4
  <2>2. StartsLine(i + 2) /\ IsBlank(i + 2)
    BY <2>1 DEF StartsLine, IsBlank, HasCRLF
  <2> QED BY <1>3, <2>1, <2>2
<1>7. CASE HasCRLF(out, B) /\ HasCRLF(out, B - 2)
  <2>1. EndsCRLF(out, i)
    <3>1. B - 2 \in Int /\ (B - 2) + 2 = B
      BY <1>1
    <3> QED BY <1>4, <1>7, <3>1 DEF EndsLF
  <2>2. i <= B - 2
    <3>1. B - 2 \in Int /\ (B - 2) + 2 = B
      BY <1>1
    <3> QED BY <1>7, <2>1, <3>1 DEF EndsCRLF
  <2>3. i = B - 2
    BY <1>1, <1>4, <1>6, <2>1, <2>2 DEF EndsCRLF
  <2>4. E + 1 = B + 2
    BY <1>1, <2>1, <2>3 DEF EndsCRLF, E
  <2>5. ~ IsLF(out, B)
    BY <1>5, <1>7 DEF HasLF, HasCRLF
  <2>6. Rest = SubSeq(out, B + 2, Len(out))
    BY <2>5 DEF Rest, B
  <2> QED BY <2>4, <2>6 DEF ParsedBody, E
<1>8. CASE HasCRLF(out, B) /\ ~ HasCRLF(out, B - 2)
  BY <1>5, <1>8 DEF EndIsLater, B
<1>9. CASE HasLF(out, B)
  <2>1. Rest = SubSeq(out, B + 1, Len(out))
    BY <1>5, <1>9 DEF Rest, B
  <2>2. B - 2 \notin Occurrences(out, CRLF \o CRLF)
    BY <1>5, <1>9 DEF HasLF, HasCRLF
  <2>3. CASE EndsLF(out, i)
    <3>1. HasLF(out, i) /\ HasLF(out, i + 1) /\ E = i + 1
      BY <2>3 DEF EndsLF, E
    <3>2. HasLF(out, B - 1) /\ (B - 1) + 1 = B /\ B - 1 \in Int
      BY <1>1, <1>2 DEF HasLF
    <3>3. i <= B - 1
      BY <1>9, <2>3, <3>2 DEF EndsLF
    <3>4. B <= i + 1
      <4> SUFFICES ASSUME ~ (B <= i + 1) PROVE FALSE
        OBVIOUS
      <4>1. (i + 1) - 1 = i /\ i + 1 \in 1..(B - 1)
        BY <1>1, <1>4
      <4>2. StartsLine(i + 1) /\ IsBlank(i + 1)
        BY <3>1, <4>1 DEF StartsLine, IsBlank, HasLF
      <4> QED BY <1>3, <4>1, <4>2
    <3>5. E + 1 = B + 1
      BY <1>1, <1>4, <3>1, <3>3, <3>4
    <3> QED BY <2>1, <3>5 DEF ParsedBody, E
  <2>4. CASE EndsCRLF(out, i)
    <3>1. HasCRLF(out, i) /\ HasCRLF(out, i + 2)
      BY <2>4 DEF EndsCRLF
    <3>2. out[i] = "CR" /\ out[i + 2] = "CR" /\ out[B] = "LF"
      BY <1>9, <3>1 DEF HasCRLF, HasLF
    <3>3. i # B /\ i + 2 # B /\ i # B - 1
      BY <1>2, <3>2
    <3>4. i > B
      BY <1>1, <1>4, <1>6, <3>1, <3>3
    <3> DEFINE rest == SubSeq(out, B + 1, Len(out))
    <3>5. /\ rest \in Seq(Symbols) /\ Len(rest) = Len(out) - B
          /\ \A k \in 1..(Len(out) - B) : rest[k] = out[B + k]
      <4>1. out \in Seq(Symbols)
        BY DEF CgiType
      <4> QED BY <1>1, <4>1
    <3> HIDE DEF rest
    <3> DEFINE k == i - B
    <3>6. /\ k \in Int /\ k >= 1 /\ B + k = i /\ B + (k + 1) = i + 1 /\ B + (k + 2) = i + 2
          /\ B + (k + 3) = i + 3 /\ (k + 2) + 1 = k + 3 /\ (i + 2) + 1 = i + 3
          /\ Len(out) - B \in Nat
      BY <1>1, <1>4, <3>4
    <3>7. i + 3 <= Len(out) /\ out[i] = "CR" /\ out[i + 1] = "LF" /\ out[i + 2] = "CR" /\ out[i + 3] = "LF"
      BY <3>1, <3>6 DEF HasCRLF
    <3>8. k + 3 <= Len(out) - B
      BY <1>1, <1>4, <3>6, <3>7
    <3> HIDE DEF k
    <3>9. HasCRLF(rest, k) /\ HasCRLF(rest, k + 2)
      <4>1. /\ k \in 1..(Len(out) - B) /\ k + 1 \in 1..(Len(out) - B)
            /\ k + 2 \in 1..(Len(out) - B) /\ k + 3 \in 1..(Len(out) - B)
        BY <3>6, <3>8
      <4>2. rest[k] = "CR" /\ rest[k + 1] = "LF" /\ rest[k + 2] = "CR" /\ rest[k + 3] = "LF"
        BY <3>5, <3>6, <3>7, <4>1
      <4> QED BY <3>5, <3>6, <4>1, <4>2 DEF HasCRLF
    <3>10. k \in Occurrences(rest, CRLF \o CRLF)
      BY <3>5, <3>6, <3>9, PatternsOccur
    <3>11. Occurrences(Rest, CRLF \o CRLF) # {}
      BY <2>1, <3>10 DEF rest
    <3> QED BY <2>2, <3>11 DEF EndIsLater, B
  <2> QED BY <1>4, <2>3, <2>4
<1> QED BY <1>1, <1>7, <1>8, <1>9 DEF IsBlank

\* The status that the header asks for, as StatusFromScript reads it.
HeaderLines(fields) == {i \in 1..BlankLine : StartsLine(i) /\ out[i] \in fields}
LastStatusLine ==
    {i \in HeaderLines(DOMAIN StatusOf) : \A j \in HeaderLines(DOMAIN StatusOf) : j <= i}
ScriptStatus ==
    LET status == IF LastStatusLine = {} THEN 200 ELSE StatusOf[out[First(LastStatusLine)]]
        redirects == \E i \in HeaderLines({"Location"}) : \A j \in LastStatusLine : j < i
    IN  IF status = 200 /\ redirects THEN 302 ELSE status

LEMMA ScriptStatusIs ==
    ASSUME BlankLine \in Nat, IsBlank(BlankLine), NEW status, StatusBefore(status, BlankLine)
    PROVE  status = ScriptStatus
<1> DEFINE B == BlankLine
           S == DOMAIN StatusOf
           locations(i) == \E k \in i..(B - 1) : FieldLine(k, {"Location"})
           redirects == \E i \in HeaderLines({"Location"}) : \A j \in LastStatusLine : j < i
<1>1. out[B] \notin S /\ out[B] # "Location"
  BY FieldFacts DEF IsBlank, HasLF, HasCRLF
<1>2. \A k : k \in HeaderLines(S) <=> k \in 1..(B - 1) /\ FieldLine(k, S)
  BY <1>1 DEF HeaderLines, FieldLine
<1>3. \A k : k \in HeaderLines({"Location"}) <=> k \in 1..(B - 1) /\ FieldLine(k, {"Location"})
  BY <1>1 DEF HeaderLines, FieldLine
<1>4. ScriptStatus = IF LastStatusLine = {} THEN (IF redirects THEN 302 ELSE 200)
                     ELSE IF StatusOf[out[First(LastStatusLine)]] = 200 /\ redirects THEN 302
                     ELSE StatusOf[out[First(LastStatusLine)]]
  BY DEF ScriptStatus
<1> HIDE DEF B
<1>5. CASE /\ \A k \in 1..(B - 1) : ~ FieldLine(k, S)
           /\ status = IF locations(1) THEN 302 ELSE 200
  <2>1. LastStatusLine = {}
    BY <1>2, <1>5 DEF LastStatusLine
  <2>2. redirects <=> locations(1)
    BY <1>3, <2>1
  <2> HIDE DEF redirects, locations
  <2> QED BY <1>4, <1>5, <2>1, <2>2
<1>6. CASE \E i \in 1..(B - 1) :
              /\ FieldLine(i, S)
              /\ \A k \in (i + 1)..(B - 1) : ~ FieldLine(k, S)
              /\ status = IF StatusOf[out[i]] = 200 /\ locations(i + 1) THEN 302 ELSE StatusOf[out[i]]
  <2>1. PICK i \in 1..(B - 1) :
           /\ FieldLine(i, S)
           /\ \A k \in (i + 1)..(B - 1) : ~ FieldLine(k, S)
           /\ status = IF StatusOf[out[i]] = 200 /\ locations(i + 1) THEN 302 ELSE StatusOf[out[i]]
    BY <1>6
  <2>2. B \in Nat
    BY DEF B
  <2>3. i \in LastStatusLine
    <3>1. i \in HeaderLines(S)
      BY <1>2, <2>1
    <3>2. ASSUME NEW j \in HeaderLines(S) PROVE j <= i
      <4>1. j \in 1..(B - 1) /\ FieldLine(j, S)
        BY <1>2
      <4>2. j \notin (i + 1)..(B - 1)
        BY <2>1, <4>1
      <4> QED BY <2>2, <4>1, <4>2
    <3> QED BY <3>1, <3>2 DEF LastStatusLine
  <2>4. LastStatusLine \in SUBSET Nat
    BY <1>2 DEF LastStatusLine
  <2>5. \A j \in LastStatusLine : j = i
    <3>1. ASSUME NEW j \in LastStatusLine PROVE j = i
      <4>1. i <= j /\ j <= i
        BY <2>3 DEF LastStatusLine
      <4> QED BY <2>4, <4>1
    <3> QED BY <3>1
  <2>6. First(LastStatusLine) = i
    BY <2>3, <2>4, <2>5, FirstIs
  <2>7. redirects <=> locations(i + 1)
    <3>1. redirects <=> \E k \in HeaderLines({"Location"}) : i < k
      BY <2>3, <2>5
    <3>2. (\E k \in HeaderLines({"Location"}) : i < k) <=> locations(i + 1)
      BY <1>3, <2>2
    <3> HIDE DEF redirects, locations
    <3> QED BY <3>1, <3>2
  <2> HIDE DEF redirects, locations
  <2> QED BY <1>4, <2>1, <2>3, <2>6, <2>7
<1> QED BY <1>5, <1>6 DEF StatusBefore, B

\* The shortest good output, as BodyIsRest reads it.
Shortest(end) == <<"Content_Type">> \o end \o end

LEMMA ShortestIs ==
    ASSUME NEW S, NEW f \in S, NEW end \in Seq(S)
    PROVE  /\ (<<f>> \o end \o end) \in Seq(S)
           /\ Len(<<f>> \o end \o end) = 1 + Len(end) + Len(end)
           /\ (<<f>> \o end \o end)[1] = f
           /\ \A k \in 1..Len(end) :
                /\ (<<f>> \o end \o end)[1 + k] = end[k]
                /\ (<<f>> \o end \o end)[1 + Len(end) + k] = end[k]
  OBVIOUS

LEMMA ShortOutput ==
    ASSUME out \in Seq(Symbols),
           \E end \in {CRLF, LF} : IsPrefix(Shortest(end), out)
    PROVE  ShortHeader
<1>0. Len(out) \in Nat /\ "Content_Type" \in Symbols
  BY FieldFacts DEF Symbols
<1>1. CASE IsPrefix(Shortest(CRLF), out)
  <2> DEFINE p == Shortest(CRLF)
  <2>1. /\ p \in Seq(Symbols) /\ Len(p) = 1 + Len(CRLF) + Len(CRLF) /\ p[1] = "Content_Type"
        /\ \A k \in 1..Len(CRLF) : p[1 + k] = CRLF[k] /\ p[1 + Len(CRLF) + k] = CRLF[k]
    BY <1>0, ShortestIs, PatternTypes DEF Shortest
  <2> HIDE DEF p
  <2>2. /\ Len(p) = 5 /\ p[1] = "Content_Type" /\ p[2] = "CR" /\ p[3] = "LF"
        /\ p[4] = "CR" /\ p[5] = "LF"
    BY <2>1, PatternTypes
  <2>3. Len(p) <= Len(out) /\ \A k \in 1..Len(p) : out[k] = p[k]
    BY <1>1, <2>1, PrefixIs DEF p
  <2>4. /\ Len(out) >= 5 /\ out[1] = "Content_Type" /\ out[2] = "CR" /\ out[3] = "LF"
        /\ out[4] = "CR" /\ out[5] = "LF"
    BY <2>2, <2>3
  <2> QED BY <1>0, <2>4 DEF ShortHeader, HasCRLF
<1>2. CASE IsPrefix(Shortest(LF), out)
  <2> DEFINE p == Shortest(LF)
  <2>1. /\ p \in Seq(Symbols) /\ Len(p) = 1 + Len(LF) + Len(LF) /\ p[1] = "Content_Type"
        /\ \A k \in 1..Len(LF) : p[1 + k] = LF[k] /\ p[1 + Len(LF) + k] = LF[k]
    BY <1>0, ShortestIs, PatternTypes DEF Shortest
  <2> HIDE DEF p
  <2>2. Len(p) = 3 /\ p[1] = "Content_Type" /\ p[2] = "LF" /\ p[3] = "LF"
    BY <2>1, PatternTypes
  <2>3. Len(p) <= Len(out) /\ \A k \in 1..Len(p) : out[k] = p[k]
    BY <1>2, <2>1, PrefixIs DEF p
  <2>4. Len(out) >= 3 /\ out[1] = "Content_Type" /\ out[2] = "LF" /\ out[3] = "LF"
    BY <2>2, <2>3
  <2> QED BY <1>0, <2>4 DEF ShortHeader, HasLF
<1> QED BY <1>1, <1>2

\* Refuse never answers an output that begins with a short header.
LEMMA ShortEnds ==
    ASSUME CgiType, ShortHeader
    PROVE  FindEndOfHeader(out) # 0
<1> DEFINE T == Occurrences(out, CRLF \o CRLF)
           U == Occurrences(out, LF \o LF)
<1>1. 2 \in T \/ 2 \in U
  <2>1. 2 + 2 = 4 /\ 2 + 1 = 3
    OBVIOUS
  <2> QED BY <2>1, PatternsOccur DEF CgiType, ShortHeader
<1>2. T \in SUBSET Nat /\ U \in SUBSET Nat
  BY DEF Occurrences, CgiType
<1>3. FindEndOfHeader(out) = IF T # {} THEN First(T) + 3 ELSE IF U # {} THEN First(U) + 1 ELSE 0
  BY DEF FindEndOfHeader
<1> HIDE DEF T, U
<1>4. (T # {} => First(T) \in Nat) /\ (U # {} => First(U) \in Nat)
  BY <1>2, FirstIs
<1> QED BY <1>1, <1>3, <1>4

LEMMA ShortGood ==
    ASSUME CgiType, LoopInv, point = "header", ~ AtBlankLine, ShortHeader
    PROVE  IsGoodLine
<1>1. ~ IsBlank(req)
  BY BlankIs
<1>2. req = 1
  BY <1>1 DEF LoopInv
<1>3. LineEnd = 2 /\ NextLine \in {3, 4}
  BY <1>2, ShortLine
<1>4. out[1] \in Fields /\ out[req] = "Content_Type"
  BY <1>2, FieldFacts DEF ShortHeader
<1>5. IsCRLF(out, 2) \/ IsLF(out, 2)
  BY PatternsOccur DEF CgiType, ShortHeader
<1>6. NextLine - 1 <= MaxHeaderSize
  BY <1>3, SizesAssumption
<1>7. 1 \in req..(LineEnd - 1)
  BY <1>2, <1>3
<1>8. IsHeaderLine
  BY <1>3, <1>4, <1>5, <1>6, <1>7 DEF IsHeaderLine
<1>9. Key = out[req]
  BY <1>2, <1>4, <1>8, KeyIs
<1> QED BY <1>4, <1>8, <1>9, FieldFacts DEF IsGoodLine

LEMMA RefusedIsLong ==
    ASSUME CgiType, LoopInv, NoEndOfHeader \/ BadHeaderLine \/ NoContentType
    PROVE  ~ ShortHeader
<1> SUFFICES ASSUME ShortHeader PROVE FALSE
  OBVIOUS
<1>1. CASE NoEndOfHeader
  BY <1>1, ShortEnds DEF NoEndOfHeader
<1>2. CASE BadHeaderLine
  BY <1>2, ShortGood DEF BadHeaderLine
<1>3. CASE NoContentType
  <2>1. point = "header" /\ IsBlank(req) /\ ~ HasHeader(res, "content-type")
    BY <1>3, BlankIs DEF NoContentType
  <2>2. req = 1
    BY <2>1 DEF LoopInv
  <2>3. out[1] = "Content_Type"
    BY DEF ShortHeader
  <2> QED BY <2>1, <2>2, <2>3 DEF IsBlank, HasLF, HasCRLF
<1> QED BY <1>1, <1>2, <1>3

\* The three properties of a response, in terms of the output.
LEMMA SentIs ==
    ASSUME CgiType, out' = out, point' = "sent",
           sent'.status # 500 =>
             /\ sent'.body = Rest \/ EndIsLater
             /\ sent'.status = ScriptStatus,
           ShortHeader => ~ HasHeader(sent', "connection")
    PROVE  BodyIsRest' /\ StatusFromScript'
<1>1. BlankLine' = BlankLine
  BY DEF BlankLine, StartsLine
<1>2. Rest' = Rest
  BY <1>1 DEF Rest
<1>3. EndIsLater' <=> EndIsLater
  BY <1>1, <1>2 DEF EndIsLater
<1>4. ScriptStatus' = ScriptStatus
  BY <1>1 DEF ScriptStatus, LastStatusLine, HeaderLines, StartsLine
<1>5. (\E end \in {CRLF, LF} : IsPrefix(<<"Content_Type">> \o end \o end, out')) => ShortHeader
  BY ShortOutput DEF Shortest, CgiType
<1>6. BodyIsRest'
  <2>1. IsAccepted' => sent'.body = Rest' \/ EndIsLater'
    BY <1>2, <1>3 DEF IsAccepted
  <2>2. ShortHeader => ~ HasHeader(sent, "connection")'
    BY DEF HasHeader
  <2> QED BY <1>5, <2>1, <2>2 DEF BodyIsRest, EndIsLater
<1>7. StatusFromScript'
  <2>1. IsAccepted' => sent'.status = ScriptStatus'
    BY <1>4 DEF IsAccepted
  <2> QED BY <2>1 DEF StatusFromScript, ScriptStatus, LastStatusLine, HeaderLines
<1> QED BY <1>6, <1>7

LEMMA SentStep ==
    ASSUME CgiType, LoopInv, SentInv, [Next]_vars
    PROVE  SentInv'
<1>1. CASE CgiRead \/ OnCgiExecutionFinished \/ ReadHeaderLine
  <2>1. point' # "sent"
    BY <1>1 DEF CgiRead, OnCgiExecutionFinished, ReadHeaderLine
  <2> QED BY <2>1 DEF SentInv, BodyIsRest, StatusFromScript, IsDelimited, IsAccepted
<1>2. CASE OnCgiExecutionError
  <2>1. point' = "sent" /\ out' = out /\ sent' = ToHttpString(NewResponse(500))
    BY <1>2 DEF OnCgiExecutionError, Send
  <2>2. /\ IsResponse(NewResponse(500)) /\ NewResponse(500).status = 500
        /\ \A n : ~ HasHeader(NewResponse(500), n)
    BY NewResponseIs
  <2>3. /\ sent'.status = 500
        /\ \A n : HasHeader(sent', n) => n = "content-length"
        /\ HasHeader(sent', "content-length")
        /\ sent'.headers["content-length"] = Len(sent'.body)
    BY <2>1, <2>2, ToHttpStringIs
  <2>4. BodyIsRest' /\ StatusFromScript'
    BY <2>1, <2>3, SentIs
  <2>5. IsDelimited'
    BY <2>3 DEF IsDelimited, HasHeader
  <2> QED BY <2>4, <2>5 DEF SentInv
<1>3. CASE NoEndOfHeader \/ BadHeaderLine \/ NoContentType
  <2>1. Refuse
    BY <1>3 DEF NoEndOfHeader, BadHeaderLine, NoContentType
  <2>2. /\ point' = "sent" /\ out' = out /\ sent'.status = 500
        /\ HasHeader(sent', "content-length")
        /\ sent'.headers["content-length"] = Len(sent'.body)
    BY <2>1, RefuseIs
  <2>3. ~ ShortHeader
    BY <1>3, RefusedIsLong
  <2>4. BodyIsRest' /\ StatusFromScript'
    BY <2>2, <2>3, SentIs
  <2>5. IsDelimited'
    BY <2>2 DEF IsDelimited, HasHeader
  <2> QED BY <2>4, <2>5 DEF SentInv
<1>4. CASE AdvanceBody
  <2>1. /\ point = "header" /\ AtBlankLine /\ HasHeader(res, "content-type")
        /\ res' = [res EXCEPT !.body = ParsedBody]
        /\ point' = "sent" /\ sent' = ToHttpString(res') /\ out' = out
    BY <1>4 DEF AdvanceBody, Send, ParsedBody
  <2>2. /\ IsResponse(res') /\ res'.status = res.status /\ res'.headers = res.headers
        /\ res'.body = ParsedBody
    BY <2>1 DEF CgiType, IsResponse
  <2>3. /\ sent'.status = res.status /\ sent'.body = ParsedBody
        /\ \A n : HasHeader(res', n) => HasHeader(sent', n)
        /\ \A n : HasHeader(sent', n) => HasHeader(res', n) \/ n = "content-length"
        /\ ~ HasHeader(res', "content-length") /\ ~ HasHeader(res', "transfer-encoding") =>
             /\ HasHeader(sent', "content-length")
             /\ sent'.headers["content-length"] = Len(sent'.body)
    BY <2>1, <2>2, ToHttpStringIs
  <2>4. ParsedBody = Rest \/ EndIsLater
    BY <2>1, BodyIs
  <2>5. res.status = ScriptStatus
    <3>1. BlankLine = req /\ IsBlank(req) /\ BlankLine \in Nat
      BY <2>1, BlankLineIs DEF CgiType
    <3>2. StatusBefore(res.status, BlankLine)
      BY <2>1, <3>1 DEF LoopInv
    <3> QED BY <3>1, <3>2, ScriptStatusIs
  <2>6. ~ HasHeader(sent', "connection")
    BY <2>2, <2>3, FieldFacts DEF HasHeader, CgiType
  <2>7. BodyIsRest' /\ StatusFromScript'
    BY <2>1, <2>3, <2>4, <2>5, <2>6, SentIs
  <2>8. sent'.status # 500
    BY <2>3 DEF CgiType
  <2>9. IsDelimited'
    <3>1. IsAccepted'
      BY <2>1, <2>8 DEF IsAccepted
    <3> QED BY <2>3, <3>1 DEF IsDelimited, HasHeader
  <2> QED BY <2>7, <2>9 DEF SentInv
<1>5. CASE UNCHANGED vars
  <2>1. point' = point /\ out' = out /\ res' = res /\ sent' = sent
    BY <1>5 DEF vars
  <2>2. BlankLine' = BlankLine
    BY <2>1 DEF BlankLine, StartsLine
  <2>3. Rest' = Rest
    BY <2>1, <2>2 DEF Rest
  <2>4. BodyIsRest'
    BY <2>1, <2>2, <2>3 DEF SentInv, BodyIsRest, IsAccepted, HasHeader
  <2>5. StatusFromScript'
    BY <2>1, <2>2 DEF SentInv, StatusFromScript, StartsLine, IsAccepted
  <2>6. IsDelimited'
    BY <2>1 DEF SentInv, IsDelimited, IsAccepted, HasHeader
  <2> QED BY <2>4, <2>5, <2>6 DEF SentInv
<1> QED BY <1>1, <1>2, <1>3, <1>4, <1>5 DEF Next

-----------------------------------------------------------------------------
\* The inductive invariant holds.
THEOREM AlwaysCgiInv == Spec => []CgiInv
<1>1. Init => CgiInv
  <2> SUFFICES ASSUME Init PROVE CgiInv
    OBVIOUS
  <2>1. point = "read"
    BY DEF Init
  <2> QED BY <2>1, TypeInit
        DEF CgiInv, LoopInv, SentInv, BodyIsRest, StatusFromScript, IsDelimited, IsAccepted
<1>2. CgiInv /\ [Next]_vars => CgiInv'
  BY TypeStep, LoopStep, SentStep DEF CgiInv
<1> QED BY <1>1, <1>2, PTL DEF Spec

\* The header loop of AdvanceHeader never reads past the end of the header that
\* FindEndOfHeader found, so no byte of the body becomes a header.
THEOREM LoopAlwaysInHeader == Spec => []LoopStaysInHeader
<1>1. CgiInv => LoopStaysInHeader
  BY DEF CgiInv, LoopInv, LoopStaysInHeader
<1> QED BY <1>1, AlwaysCgiInv, PTL

\* The body that is sent is what follows the first blank line (but for the outputs
\* that BodyIsRest names), and the shortest good output is never refused.
THEOREM BodyAlwaysRest == Spec => []BodyIsRest
<1>1. CgiInv => BodyIsRest
  BY DEF CgiInv, SentInv
<1> QED BY <1>1, AlwaysCgiInv, PTL

\* The status that is sent is that of the script's last Status line, or 302 where a
\* Location line follows a 200, for every number and order of header lines.
THEOREM StatusAlwaysFromScript == Spec => []StatusFromScript
<1>1. CgiInv => StatusFromScript
  BY DEF CgiInv, SentInv
<1> QED BY <1>1, AlwaysCgiInv, PTL

\* Every response, an error page too, says where its body ends.
THEOREM AlwaysDelimited == Spec => []IsDelimited
<1>1. CgiInv => IsDelimited
  BY DEF CgiInv, SentInv
<1> QED BY <1>1, AlwaysCgiInv, PTL
=============================================================================
