------------------------- MODULE HttpRequestProofs -------------------------
(***************************************************************************)
(* The request parser, for every stream, every way it is split, and every  *)
(* limit: the parser stays inside its buffer and its limits, and a body    *)
(* with a Content-Length is exactly the bytes announced.  Then the chunked *)
(* body parser: AdvanceChunkedBody is abreast of the reference decoder at  *)
(* every step, a body it accepts is the decoder's, and a stream the        *)
(* decoder refuses is never accepted.                                      *)
(***************************************************************************)
EXTENDS ChunkedDecoder, Induction

(***************************************************************************)
(* The checks of the header block.  A list of checks is a sequence of      *)
(* conditions with the status of each; it passes if no condition holds.    *)
(***************************************************************************)
Codes == {400, 413, 414, 431, 500, 501}

CheckList(s) == (\E T : s \in Seq(T)) /\ \A i \in DOMAIN s : s[i][2] \in Codes
Passes(s) == \A i \in DOMAIN s : ~ s[i][1]

LEMMA ConcatCheckLists ==
    ASSUME NEW s, NEW t, CheckList(s), CheckList(t)
    PROVE  CheckList(s \o t) /\ (Passes(s \o t) => Passes(s) /\ Passes(t))
<1>1. PICK T : s \in Seq(T) /\ t \in Seq(T)
  <2>1. PICK S : s \in Seq(S)
    BY DEF CheckList
  <2>2. PICK U : t \in Seq(U)
    BY DEF CheckList
  <2>3. s \in Seq(S \cup U) /\ t \in Seq(S \cup U)
    BY <2>1, <2>2
  <2> QED BY <2>3
<1>2. s \o t \in Seq(T)
  BY <1>1
<1>3. \A i \in DOMAIN (s \o t) : \/ i \in DOMAIN s /\ (s \o t)[i] = s[i]
                                 \/ i - Len(s) \in DOMAIN t /\ (s \o t)[i] = t[i - Len(s)]
  BY <1>1
<1>4. \A i \in DOMAIN s : i \in DOMAIN (s \o t) /\ (s \o t)[i] = s[i]
  BY <1>1
<1>5. \A i \in DOMAIN t : Len(s) + i \in DOMAIN (s \o t) /\ (s \o t)[Len(s) + i] = t[i]
  BY <1>1
<1>6. CheckList(s \o t)
  BY <1>2, <1>3 DEF CheckList
<1> QED BY <1>4, <1>5, <1>6 DEF Passes

LEMMA HeadLists ==
    ASSUME NEW h
    PROVE  /\ CheckList(ConsumeMethod(h)) /\ CheckList(ConsumeUri(h))
           /\ CheckList(ConsumeVersion(h)) /\ CheckList(ReadHeaderLines(h))
           /\ CheckList(ValidateAndExtractHost(h)) /\ CheckList(ParseContentLength(h))
           /\ CheckList(ParseTransferEncoding(h)) /\ CheckList(ParseConnectionDirective(h))
<1>1. CheckList(ConsumeMethod(h))
  <2>1. ConsumeMethod(h) \in Seq({ConsumeMethod(h)[i] : i \in 1..1})
    BY DEF ConsumeMethod
  <2>2. \A i \in DOMAIN ConsumeMethod(h) : ConsumeMethod(h)[i][2] \in Codes
    BY DEF ConsumeMethod, Codes
  <2> QED BY <2>1, <2>2 DEF CheckList
<1>2. CheckList(ConsumeUri(h))
  <2>1. ConsumeUri(h) \in Seq({ConsumeUri(h)[i] : i \in 1..3})
    BY DEF ConsumeUri
  <2>2. \A i \in DOMAIN ConsumeUri(h) : ConsumeUri(h)[i][2] \in Codes
    BY DEF ConsumeUri, Codes
  <2> QED BY <2>1, <2>2 DEF CheckList
<1>3. CheckList(ConsumeVersion(h))
  <2>1. ConsumeVersion(h) \in Seq({ConsumeVersion(h)[i] : i \in 1..1})
    BY DEF ConsumeVersion
  <2>2. \A i \in DOMAIN ConsumeVersion(h) : ConsumeVersion(h)[i][2] \in Codes
    BY DEF ConsumeVersion, Codes
  <2> QED BY <2>1, <2>2 DEF CheckList
<1>4. CheckList(ReadHeaderLines(h))
  <2>1. ReadHeaderLines(h) \in Seq({ReadHeaderLines(h)[i] : i \in 1..3})
    BY DEF ReadHeaderLines
  <2>2. \A i \in DOMAIN ReadHeaderLines(h) : ReadHeaderLines(h)[i][2] \in Codes
    BY DEF ReadHeaderLines, Codes
  <2> QED BY <2>1, <2>2 DEF CheckList
<1>5. CheckList(ValidateAndExtractHost(h))
  <2>1. ValidateAndExtractHost(h) \in Seq({ValidateAndExtractHost(h)[i] : i \in 1..2})
    BY DEF ValidateAndExtractHost
  <2>2. \A i \in DOMAIN ValidateAndExtractHost(h) : ValidateAndExtractHost(h)[i][2] \in Codes
    BY DEF ValidateAndExtractHost, Codes
  <2> QED BY <2>1, <2>2 DEF CheckList
<1>6. CheckList(ParseContentLength(h))
  <2>1. ParseContentLength(h) \in Seq({ParseContentLength(h)[i] : i \in 1..2})
    BY DEF ParseContentLength
  <2>2. \A i \in DOMAIN ParseContentLength(h) : ParseContentLength(h)[i][2] \in Codes
    BY DEF ParseContentLength, Codes
  <2> QED BY <2>1, <2>2 DEF CheckList
<1>7. CheckList(ParseTransferEncoding(h))
  <2>1. ParseTransferEncoding(h) \in Seq({ParseTransferEncoding(h)[i] : i \in 1..1})
    BY DEF ParseTransferEncoding
  <2>2. \A i \in DOMAIN ParseTransferEncoding(h) : ParseTransferEncoding(h)[i][2] \in Codes
    BY DEF ParseTransferEncoding, Codes
  <2> QED BY <2>1, <2>2 DEF CheckList
<1>8. CheckList(ParseConnectionDirective(h))
  <2>1. ParseConnectionDirective(h) \in Seq({ParseConnectionDirective(h)[i] : i \in 1..1})
    BY DEF ParseConnectionDirective
  <2>2. \A i \in DOMAIN ParseConnectionDirective(h) : ParseConnectionDirective(h)[i][2] \in Codes
    BY DEF ParseConnectionDirective, Codes
  <2> QED BY <2>1, <2>2 DEF CheckList
<1> QED BY <1>1, <1>2, <1>3, <1>4, <1>5, <1>6, <1>7, <1>8

\* A header block that HeadStatus lets through has passed every check of
\* ValidateBodyHeaders, wherever they stand in the list.
LEMMA HeadPasses ==
    ASSUME NEW h
    PROVE  /\ HeadStatus(h) \in Codes \cup {0}
           /\ HeadStatus(h) = 0 =>
                /\ h.cl = "absent" \/ h.te = "absent"
                /\ h.cl = "number" => /\ ~ (h.length < 0) /\ ~ (h.length > MaxPayloadSize)
                                      /\ ~ (h.length > Limit)
                /\ h.te # "other"
<1> DEFINE both == << <<h.cl # "absent" /\ h.te # "absent", 400>> >>
           large == << <<h.cl = "number" /\ h.length > Limit, 413>> >>
           first == both \o ParseContentLength(h)
           second == first \o large
           front == ConsumeMethod(h) \o ConsumeUri(h)
           request == front \o ConsumeVersion(h)
           lines == ReadHeaderLines(h) \o ValidateAndExtractHost(h)
           fields == lines \o ValidateBodyHeaders(h)
           checks == request \o ConsumeHeader(h)
<1>1. CheckList(both) /\ CheckList(large)
  <2>1. both \in Seq({both[i] : i \in 1..1}) /\ large \in Seq({large[i] : i \in 1..1})
    OBVIOUS
  <2>2. /\ \A i \in DOMAIN both : both[i][2] \in Codes
        /\ \A i \in DOMAIN large : large[i][2] \in Codes
    BY DEF Codes
  <2> HIDE DEF both, large
  <2> QED BY <2>1, <2>2 DEF CheckList
<1>2. ValidateBodyHeaders(h) = second \o ParseTransferEncoding(h)
  BY DEF ValidateBodyHeaders
<1>3. ConsumeHeader(h) = fields \o ParseConnectionDirective(h)
  BY DEF ConsumeHeader
<1>4. HeadStatus(h) = LET failed == {i \in DOMAIN checks : checks[i][1]}
                 IN  IF failed = {} THEN 0
                     ELSE checks[CHOOSE i \in failed : \A j \in failed : i <= j][2]
  BY DEF HeadStatus
<1>5. Passes(both) => h.cl = "absent" \/ h.te = "absent"
  <2>1. 1 \in DOMAIN both
    OBVIOUS
  <2>2. both[1][1] <=> h.cl # "absent" /\ h.te # "absent"
    OBVIOUS
  <2> HIDE DEF both
  <2> QED BY <2>1, <2>2 DEF Passes
<1>6. Passes(ParseContentLength(h)) /\ h.cl = "number"
         => ~ (h.length < 0) /\ ~ (h.length > MaxPayloadSize)
  <2>1. 2 \in DOMAIN ParseContentLength(h)
    BY DEF ParseContentLength
  <2>2. ParseContentLength(h)[2][1] <=>
          h.cl = "number" /\ (h.length < 0 \/ h.length > MaxPayloadSize)
    BY DEF ParseContentLength
  <2> QED BY <2>1, <2>2 DEF Passes
<1>7. Passes(large) /\ h.cl = "number" => ~ (h.length > Limit)
  <2>1. 1 \in DOMAIN large
    OBVIOUS
  <2>2. large[1][1] <=> h.cl = "number" /\ h.length > Limit
    OBVIOUS
  <2> HIDE DEF large
  <2> QED BY <2>1, <2>2 DEF Passes
<1>8. Passes(ParseTransferEncoding(h)) => h.te # "other"
  <2>1. 1 \in DOMAIN ParseTransferEncoding(h)
    BY DEF ParseTransferEncoding
  <2>2. ParseTransferEncoding(h)[1][1] <=> h.te = "other"
    BY DEF ParseTransferEncoding
  <2> QED BY <2>1, <2>2 DEF Passes
<1>9. /\ CheckList(checks)
      /\ Passes(checks) => /\ Passes(both) /\ Passes(ParseContentLength(h))
                           /\ Passes(large) /\ Passes(ParseTransferEncoding(h))
  <2> HIDE DEF both, large
  <2>1. CheckList(first) /\ (Passes(first) => Passes(both) /\ Passes(ParseContentLength(h)))
    BY <1>1, HeadLists, ConcatCheckLists
  <2> HIDE DEF first
  <2>2. CheckList(second) /\ (Passes(second) => Passes(first) /\ Passes(large))
    BY <1>1, <2>1, ConcatCheckLists
  <2> HIDE DEF second
  <2>3. /\ CheckList(ValidateBodyHeaders(h))
        /\ Passes(ValidateBodyHeaders(h)) => Passes(second) /\ Passes(ParseTransferEncoding(h))
    BY <1>2, <2>2, HeadLists, ConcatCheckLists
  <2>4. CheckList(front)
    BY HeadLists, ConcatCheckLists
  <2> HIDE DEF front
  <2>5. CheckList(request)
    BY <2>4, HeadLists, ConcatCheckLists
  <2> HIDE DEF request
  <2>6. CheckList(lines)
    BY HeadLists, ConcatCheckLists
  <2> HIDE DEF lines
  <2>7. CheckList(fields) /\ (Passes(fields) => Passes(ValidateBodyHeaders(h)))
    BY <2>3, <2>6, ConcatCheckLists
  <2> HIDE DEF fields
  <2>8. CheckList(ConsumeHeader(h)) /\ (Passes(ConsumeHeader(h)) => Passes(fields))
    BY <1>3, <2>7, HeadLists, ConcatCheckLists
  <2>9. CheckList(checks) /\ (Passes(checks) => Passes(ConsumeHeader(h)))
    BY <2>5, <2>8, ConcatCheckLists
  <2> QED BY <2>1, <2>2, <2>3, <2>7, <2>8, <2>9
<1> HIDE DEF checks, both, large
<1>10. CASE Passes(checks)
  <2>1. HeadStatus(h) = 0
    BY <1>10, <1>4 DEF Passes
  <2> QED BY <1>9, <1>10, <2>1, <1>5, <1>6, <1>7, <1>8
<1>11. CASE ~ Passes(checks)
  <2> DEFINE failed == {i \in DOMAIN checks : checks[i][1]}
  <2>1. failed # {} /\ failed \in SUBSET Nat
    BY <1>9, <1>11 DEF Passes, CheckList
  <2>2. \E i \in failed : \A j \in failed : i <= j
    BY <2>1, LeastNatural
  <2>3. HeadStatus(h) = checks[CHOOSE i \in failed : \A j \in failed : i <= j][2]
    BY <1>4, <2>1
  <2>4. \A i \in failed : checks[i][2] \in Codes
    BY <1>9 DEF CheckList
  <2> HIDE DEF failed
  <2>5. HeadStatus(h) \in Codes
    BY <2>2, <2>3, <2>4
  <2> QED BY <2>5 DEF Codes
<1> QED BY <1>10, <1>11

-----------------------------------------------------------------------------
(***************************************************************************)
(* The inductive invariant.  Up to the end of the header block the buffer  *)
(* is all that was received; from then on, while the body is parsed, it is *)
(* what was received of the body, and a chunked body moves buffer_read_pos *)
(* over it.                                                                *)
(***************************************************************************)
HeaderInv ==
    state = "header" =>
        /\ buffer = stream /\ body = <<>>
        /\ buffer_read_pos = 0 /\ next_chunk_size = -1

BodyInv ==
    /\ state # "header" => Len(stream) >= 2 /\ buffer \in Seq(BodyBytes[client])
    /\ state = "body" => buffer = BodyFed
    /\ state # "header" /\ content_length >= 0 => buffer_read_pos = 0
    /\ state = "body" /\ content_length >= 0 => status = 0 /\ body = <<>>

ParserInv ==
    /\ TypeOK
    /\ WellFormed(stream)
    /\ HeaderInv /\ BodyInv
    /\ busy => status = 0
    /\ next_chunk_size \in -1..Limit
    /\ ReadPosInBuffer /\ BodyWithinLimit /\ BodyHeadersEnsured

LEMMA ParserInit == Init => ParserInv
<1> SUFFICES ASSUME Init PROVE ParserInv
  OBVIOUS
<1>1. TypeOK
  <2>1. busy \in BOOLEAN
    BY DEF Init
  <2> QED BY <2>1 DEF Init, TypeOK
<1>2. WellFormed(stream) /\ HeaderInv /\ BodyInv
  BY DEF Init, WellFormed, HeaderInv, BodyInv
<1>3. next_chunk_size \in -1..Limit /\ ReadPosInBuffer /\ BodyWithinLimit
  BY ParserAssumption DEF Init, ReadPosInBuffer, BodyWithinLimit
<1> QED BY <1>1, <1>2, <1>3 DEF Init, ParserInv, BodyHeadersEnsured

\* Pieces of a sequence, and a sequence over fewer elements.
LEMMA Piece ==
    ASSUME NEW S, NEW s \in Seq(S), NEW m \in Nat, NEW n \in Nat,
           1 <= m, m <= n + 1, n <= Len(s)
    PROVE  /\ SubSeq(s, m, n) \in Seq(S)
           /\ Len(SubSeq(s, m, n)) = n - m + 1
           /\ \A i \in 1..(n - m + 1) : SubSeq(s, m, n)[i] = s[m + i - 1]
  OBVIOUS

LEMMA Joined ==
    ASSUME NEW S, NEW s \in Seq(S), NEW t \in Seq(S)
    PROVE  s \o t \in Seq(S) /\ Len(s \o t) = Len(s) + Len(t)
  OBVIOUS

LEMMA Prefix ==
    ASSUME NEW S, NEW s \in Seq(S), NEW n \in Nat, n <= Len(s)
    PROVE  SubSeq(s, 1, n) \in Seq(S) /\ Len(SubSeq(s, 1, n)) = n
  OBVIOUS

LEMMA Suffix ==
    ASSUME NEW S, NEW s \in Seq(S), NEW n \in Nat, n <= Len(s)
    PROVE  SubSeq(s, n + 1, Len(s)) \in Seq(S)
  OBVIOUS

LEMMA SeqOver ==
    ASSUME NEW S, NEW T, NEW s \in Seq(S), \A i \in 1..Len(s) : s[i] \in T
    PROVE  s \in Seq(T)
  OBVIOUS

\* What one recv returns.
LEMMA SegmentType ==
    ASSUME NEW segment \in Segments
    PROVE  segment \in Seq(BodyBytes[client] \cup {"h", "E"}) /\ Len(segment) >= 1
<1>1. PICK n \in 1..MaxSegment : segment \in [1..n -> BodyBytes[client] \cup {"h", "E"}]
  BY DEF Segments
<1> QED BY <1>1, ParserAssumption

\* What follows the header block, and how it grows with the stream.
LEMMA Rest ==
    ASSUME NEW S, NEW s \in Seq(S), Len(s) >= 2
    PROVE  /\ SubSeq(s, 3, Len(s)) \in Seq(S)
           /\ Len(SubSeq(s, 3, Len(s))) = Len(s) - 2
           /\ \A i \in 1..(Len(s) - 2) : SubSeq(s, 3, Len(s))[i] = s[i + 2]
<1>1. \A n \in Nat : n = Len(s) => Len(SubSeq(s, 3, n)) = n - 2
  BY Piece
<1>2. Len(s) \in Nat
  OBVIOUS
<1>3. Len(SubSeq(s, 3, Len(s))) = Len(s) - 2
  BY <1>1, <1>2, Zenon
<1>4. SubSeq(s, 3, Len(s)) \in Seq(S)
  OBVIOUS
<1>5. \A i \in 1..(Len(s) - 2) : SubSeq(s, 3, Len(s))[i] = s[i + 2]
  OBVIOUS
<1> QED BY <1>3, <1>4, <1>5

LEMMA FedGrows ==
    ASSUME NEW S, NEW s \in Seq(S), NEW t \in Seq(S), Len(s) >= 2
    PROVE  SubSeq(s \o t, 3, Len(s \o t)) = SubSeq(s, 3, Len(s)) \o t
<1> DEFINE left == SubSeq(s \o t, 3, Len(s \o t))
           right == SubSeq(s, 3, Len(s)) \o t
<1>1. left \in Seq(S) /\ right \in Seq(S)
  OBVIOUS
<1>2. Len(left) = Len(right)
  OBVIOUS
<1>3. \A i \in 1..Len(left) : left[i] = right[i]
  OBVIOUS
<1> QED BY <1>1, <1>2, <1>3

\* The header block is exactly the first two bytes of a stream.
LEMMA HeadEnds ==
    ASSUME TypeOK, WellFormed(stream), NEW i \in DOMAIN stream, stream[i] = "E"
    PROVE  i = 2
  BY ParserAssumption DEF TypeOK, WellFormed

LEMMA FedBytes ==
    ASSUME TypeOK, WellFormed(stream), Len(stream) >= 2
    PROVE  /\ BodyFed \in Seq(BodyBytes[client])
           /\ Len(BodyFed) = Len(stream) - 2
<1>1. \A i \in 3..Len(stream) : stream[i] \in BodyBytes[client]
  BY DEF WellFormed, TypeOK
<1>2. stream \in Seq(BodyBytes[client] \cup {"h", "E"})
  BY DEF TypeOK
<1>3. /\ BodyFed \in Seq(BodyBytes[client] \cup {"h", "E"})
      /\ Len(BodyFed) = Len(stream) - 2
      /\ \A i \in 1..(Len(stream) - 2) : BodyFed[i] = stream[i + 2]
  BY <1>2, Rest DEF BodyFed
<1>4. \A i \in 1..Len(BodyFed) : BodyFed[i] \in BodyBytes[client]
  BY <1>1, <1>2, <1>3
<1> QED BY <1>3, <1>4, SeqOver

\* What recv adds after the header block.
LEMMA RecvFeeds ==
    ASSUME ParserInv, Recv, state # "header"
    PROVE  \E segment \in Seq(BodyBytes[client]) :
             /\ Len(segment) >= 1
             /\ buffer' = buffer \o segment /\ BodyFed' = BodyFed \o segment
<1>1. PICK segment \in Segments :
        /\ WellFormed(stream \o segment)
        /\ stream' = stream \o segment /\ buffer' = buffer \o segment
  BY DEF Recv
<1>2. segment \in Seq(BodyBytes[client] \cup {"h", "E"}) /\ Len(segment) >= 1
  BY SegmentType
<1>3. stream \in Seq(BodyBytes[client] \cup {"h", "E"}) /\ Len(stream) >= 2
  BY DEF ParserInv, BodyInv, TypeOK
<1>4. BodyFed' = BodyFed \o segment
  BY <1>1, <1>2, <1>3, FedGrows DEF BodyFed
<1>5. ASSUME NEW i \in 1..Len(segment) PROVE segment[i] \in BodyBytes[client]
  <2>1. /\ Len(stream) + i \in DOMAIN (stream \o segment)
        /\ (stream \o segment)[Len(stream) + i] = segment[i]
        /\ Len(stream) + i # 1 /\ Len(stream) + i # 2
    BY <1>2, <1>3
  <2> QED BY <1>1, <2>1 DEF WellFormed
<1>6. segment \in Seq(BodyBytes[client])
  BY <1>2, <1>5, SeqOver
<1> QED BY <1>1, <1>2, <1>4, <1>6

LEMMA RecvInv == ASSUME ParserInv, Recv PROVE ParserInv'
<1>1. PICK segment \in Segments :
        /\ WellFormed(stream \o segment)
        /\ stream' = stream \o segment /\ buffer' = buffer \o segment
  BY DEF Recv
<1>2. /\ ~ busy /\ status = 0 /\ busy' = TRUE
      /\ UNCHANGED <<client, head, state, content_length, bodyVars, status>>
  BY DEF Recv
<1>3. segment \in Seq(BodyBytes[client] \cup {"h", "E"}) /\ Len(segment) >= 1
  BY SegmentType
<1>4. /\ stream \in Seq(BodyBytes[client] \cup {"h", "E"})
      /\ buffer \in Seq(BodyBytes[client] \cup {"h", "E"})
  BY DEF ParserInv, TypeOK
<1>5. TypeOK'
  <2>1. /\ stream' \in Seq(BodyBytes[client] \cup {"h", "E"})
        /\ buffer' \in Seq(BodyBytes[client] \cup {"h", "E"})
    BY <1>1, <1>3, <1>4
  <2>2. busy' \in BOOLEAN
    BY <1>2
  <2> QED BY <1>2, <2>1, <2>2 DEF ParserInv, TypeOK, bodyVars
<1>6. WellFormed(stream)'
  BY <1>1, <1>2 DEF WellFormed
<1>7. HeaderInv'
  BY <1>1, <1>2 DEF ParserInv, HeaderInv, bodyVars
<1>8. ReadPosInBuffer'
  BY <1>1, <1>2, <1>3, <1>4 DEF ParserInv, TypeOK, ReadPosInBuffer, bodyVars
<1>9. BodyInv'
  <2>1. CASE state = "header"
    BY <1>2, <2>1 DEF BodyInv
  <2>2. CASE state # "header"
    <3>1. Len(stream) >= 2 /\ Len(stream') >= 2
      BY <1>1, <1>3, <1>4, <2>2 DEF ParserInv, BodyInv
    <3>2. PICK more \in Seq(BodyBytes[client]) :
            buffer' = buffer \o more /\ BodyFed' = BodyFed \o more
      BY <2>2, RecvFeeds
    <3>3. buffer' \in Seq(BodyBytes[client])
      BY <2>2, <3>2, Joined DEF ParserInv, BodyInv
    <3> HIDE DEF BodyFed
    <3> QED BY <1>2, <2>2, <3>1, <3>2, <3>3 DEF ParserInv, BodyInv, bodyVars
  <2> QED BY <2>1, <2>2
<1> QED BY <1>2, <1>5, <1>6, <1>7, <1>8, <1>9
        DEF ParserInv, BodyWithinLimit, BodyHeadersEnsured, bodyVars

\* Parse returns, to wait or with an exception.
LEMMA ReturnInv ==
    ASSUME ParserInv, busy' = FALSE, status' \in Codes \cup {0},
           UNCHANGED <<client, head, stream, buffer, state, content_length, bodyVars>>,
           state = "body" /\ content_length >= 0 => status' = 0
    PROVE  ParserInv'
<1>1. TypeOK'
  <2>1. busy' \in BOOLEAN
    OBVIOUS
  <2> QED BY <2>1 DEF ParserInv, TypeOK, Codes, bodyVars
<1>2. WellFormed(stream)' /\ HeaderInv' /\ BodyInv'
  BY DEF ParserInv, WellFormed, HeaderInv, BodyInv, BodyFed, bodyVars
<1> QED BY <1>1, <1>2 DEF ParserInv, ReadPosInBuffer, BodyWithinLimit, BodyHeadersEnsured, bodyVars

LEMMA WaitInv ==
    ASSUME ParserInv, Wait, UNCHANGED <<client, head, stream, content_length>>
    PROVE  ParserInv'
<1>1. status' \in Codes \cup {0} /\ (state = "body" /\ content_length >= 0 => status' = 0)
  BY DEF ParserInv, TypeOK, BodyInv, Wait, Codes
<1> QED BY <1>1, ReturnInv DEF Wait

LEMMA ThrowInv ==
    ASSUME ParserInv, NEW code \in Codes, Throw(code),
           UNCHANGED <<client, head, stream, content_length>>,
           ~ (state = "body" /\ content_length >= 0)
    PROVE  ParserInv'
  BY ReturnInv DEF Throw

LEMMA AdvanceHeaderInv == ASSUME ParserInv, AdvanceHeader PROVE ParserInv'
<1> DEFINE ends == {i \in DOMAIN buffer : buffer[i] = "E"}
<1>0. state = "header" /\ UNCHANGED <<client, head, stream>>
  BY DEF AdvanceHeader
<1>1. CASE Wait /\ UNCHANGED content_length
  BY <1>0, <1>1, WaitInv
<1>2. CASE HeadStatus(head) # 0 /\ Throw(HeadStatus(head)) /\ UNCHANGED content_length
  <2>1. HeadStatus(head) \in Codes
    BY <1>2, HeadPasses
  <2> QED BY <1>0, <1>2, <2>1, ThrowInv
<1>3. CASE /\ HeadStatus(head) = 0
           /\ \E i \in ends : EraseHead(i)
           /\ state' = "body"
           /\ content_length' = ContentLength(head)
           /\ UNCHANGED <<busy, bodyVars, status>>
  <2>1. PICK i \in DOMAIN stream : stream[i] = "E" /\ buffer' = SubSeq(stream, i + 1, Len(stream))
    BY <1>0, <1>3 DEF ParserInv, HeaderInv, EraseHead
  <2>2. i = 2 /\ Len(stream) >= 2
    BY <2>1, HeadEnds DEF ParserInv, TypeOK
  <2>3. buffer' = BodyFed
    BY <2>1, <2>2 DEF BodyFed
  <2>4. BodyFed \in Seq(BodyBytes[client]) /\ Len(BodyFed) = Len(stream) - 2
    BY <2>2, FedBytes DEF ParserInv
  <2>5. BodyFed' = BodyFed
    BY <1>0 DEF BodyFed
  <2>6. BodyHeadersEnsured'
    <3>1. head \in Heads[client] /\ client \in Clients
      BY DEF ParserInv, TypeOK
    <3>2. head.length \in Int /\ head.te \in {"absent", "chunked", "other"}
      BY <3>1, ParserAssumption
    <3>3. \/ ContentLength(head) = -1 /\ head.te = "chunked" /\ head.cl = "absent"
          \/ ContentLength(head) \in 0..Limit /\ head.te = "absent"
      BY <1>3, <3>2, HeadPasses, ParserAssumption DEF ContentLength
    <3> QED BY <1>0, <1>3, <3>3 DEF BodyHeadersEnsured
  <2>7. content_length' \in Int
    BY <1>3, <2>6, ParserAssumption DEF BodyHeadersEnsured
  <2> HIDE DEF BodyFed
  <2>8. TypeOK'
    <3>1. BodyFed \in Seq(BodyBytes[client] \cup {"h", "E"})
      BY <2>4
    <3> QED BY <1>0, <1>3, <2>3, <2>7, <3>1 DEF ParserInv, TypeOK, bodyVars
  <2>9. BodyInv'
    <3>1. status = 0
      BY DEF ParserInv, AdvanceHeader
    <3> QED BY <1>0, <1>3, <2>2, <2>3, <2>4, <2>5, <3>1 DEF ParserInv, HeaderInv, BodyInv, bodyVars
  <2>10. WellFormed(stream)' /\ HeaderInv'
    BY <1>0, <1>3 DEF ParserInv, WellFormed, HeaderInv
  <2>11. ReadPosInBuffer' /\ BodyWithinLimit' /\ next_chunk_size' \in -1..Limit
    BY <1>0, <1>3, <2>2, <2>3, <2>4 DEF ParserInv, TypeOK, HeaderInv, ReadPosInBuffer, BodyWithinLimit, bodyVars
  <2> QED BY <1>3, <2>6, <2>8, <2>9, <2>10, <2>11 DEF ParserInv
<1> QED BY <1>1, <1>2, <1>3 DEF AdvanceHeader

LEMMA AdvanceContentLengthBodyInv ==
    ASSUME ParserInv, AdvanceContentLengthBody PROVE ParserInv'
<1>0. /\ busy /\ state = "body" /\ content_length >= 0
      /\ UNCHANGED <<client, head, stream, content_length>>
  BY DEF AdvanceContentLengthBody
<1>1. CASE Wait
  BY <1>0, <1>1, WaitInv
<1>2. CASE /\ Len(buffer) >= content_length
           /\ TakeBody
           /\ state' = "done"
           /\ busy' = FALSE
           /\ UNCHANGED <<buffer_read_pos, next_chunk_size, status>>
  <2>1. content_length \in 0..Limit /\ content_length \in Nat
    BY <1>0, ParserAssumption DEF ParserInv, BodyHeadersEnsured
  <2>2. buffer \in Seq(BodyBytes[client])
    BY <1>0 DEF ParserInv, BodyInv
  <2>3. body' \in Seq(BodyBytes[client]) /\ Len(body') = content_length
    <3>1. body' = SubSeq(buffer, 1, content_length) /\ content_length <= Len(buffer)
      BY <1>2, <2>1, <2>2 DEF TakeBody
    <3> QED BY <2>1, <2>2, <3>1, Prefix
  <2>4. buffer' \in Seq(BodyBytes[client])
    <3>1. /\ buffer' = SubSeq(buffer, content_length + 1, Len(buffer))
          /\ content_length <= Len(buffer)
      BY <1>2, <2>1, <2>2 DEF TakeBody
    <3> QED BY <2>1, <2>2, <3>1, Suffix
  <2>5. TypeOK'
    <3>1. buffer' \in Seq(BodyBytes[client] \cup {"h", "E"})
      BY <2>4
    <3>2. busy' \in BOOLEAN
      BY <1>2
    <3> QED BY <1>0, <1>2, <2>3, <3>1, <3>2 DEF ParserInv, TypeOK
  <2>6. WellFormed(stream)' /\ HeaderInv' /\ BodyInv'
    BY <1>0, <1>2, <2>4 DEF ParserInv, WellFormed, HeaderInv, BodyInv
  <2>7. ReadPosInBuffer' /\ BodyWithinLimit'
    BY <1>0, <1>2, <2>1, <2>3, <2>4, ParserAssumption
       DEF ParserInv, BodyInv, ReadPosInBuffer, BodyWithinLimit
  <2>8. BodyHeadersEnsured'
    BY <1>0, <1>2 DEF ParserInv, BodyHeadersEnsured
  <2> QED BY <1>2, <2>5, <2>6, <2>7, <2>8 DEF ParserInv
<1> QED BY <1>1, <1>2 DEF AdvanceContentLengthBody

(***************************************************************************)
(* The size line of a chunk.                                               *)
(***************************************************************************)
\* DigitRun is the number of hex digits at buffer_read_pos: there is one.
LEMMA DigitRunIs ==
    ASSUME ParserInv
    PROVE  /\ DigitRun \in 0..(Len(buffer) - buffer_read_pos)
           /\ \A k \in 1..DigitRun : buffer[buffer_read_pos + k] \in HexDigits
           /\ \/ buffer_read_pos + DigitRun = Len(buffer)
              \/ buffer[buffer_read_pos + DigitRun + 1] \notin HexDigits
<1> DEFINE last == Len(buffer) - buffer_read_pos
           T == {n \in 0..last : \/ buffer_read_pos + n = Len(buffer)
                                 \/ buffer[buffer_read_pos + n + 1] \notin HexDigits}
           P(n) == /\ \A k \in 1..n : buffer[buffer_read_pos + k] \in HexDigits
                   /\ \/ buffer_read_pos + n = Len(buffer)
                      \/ buffer[buffer_read_pos + n + 1] \notin HexDigits
<1>1. last \in Nat /\ buffer_read_pos \in Nat /\ Len(buffer) \in Nat
  BY DEF ParserInv, TypeOK, ReadPosInBuffer
<1>2. last \in T /\ T \in SUBSET Nat
  BY <1>1
<1>3. PICK n \in T : \A m \in T : n <= m
  BY <1>2, LeastNatural
<1>4. P(n)
  <2>1. ASSUME NEW k \in 1..n, buffer[buffer_read_pos + k] \notin HexDigits PROVE FALSE
    <3>1. k - 1 \in 0..last /\ buffer_read_pos + (k - 1) + 1 = buffer_read_pos + k
      BY <1>1, <1>3, <2>1
    <3>2. k - 1 \in T
      BY <2>1, <3>1
    <3> QED BY <1>2, <1>3, <2>1, <3>2
  <2> QED BY <1>3, <2>1
<1>5. \E m \in 0..last : P(m)
  BY <1>4, <1>3
<1>6. DigitRun = CHOOSE m \in 0..last : P(m)
  BY DEF DigitRun
<1> HIDE DEF P, last
<1>7. DigitRun \in 0..last /\ P(DigitRun)
  BY <1>5, <1>6
<1> QED BY <1>7 DEF P, last

LEMMA HexValueIs ==
    ASSUME NEW b \in HexDigits PROVE HexValue(b) \in 0..2
  BY DEF HexDigits, HexValue

\* What ChunkValue computes, digit by digit.
LEMMA ChunkValueIs ==
    ASSUME ParserInv
    PROVE  /\ ChunkValue[0] = 0
           /\ \A k \in 1..DigitRun :
                ChunkValue[k] = ChunkValue[k - 1] * 16 + HexValue(buffer[buffer_read_pos + k])
           /\ \A k \in 0..DigitRun : ChunkValue[k] \in Nat
<1> DEFINE digit(k) == HexValue(buffer[buffer_read_pos + k])
           Run(f, n) == f = [k \in 0..n |-> IF k = 0 THEN 0 ELSE f[k - 1] * 16 + digit(k)]
           S == {n \in Nat : \E f : Run(f, n)}
<1>0. DigitRun \in Nat /\ \A k \in 1..DigitRun : digit(k) \in Nat
  <2>1. Len(buffer) - buffer_read_pos \in Nat
    BY DEF ParserInv, TypeOK, ReadPosInBuffer
  <2> QED BY <2>1, DigitRunIs, HexValueIs
<1>1. ChunkValue = CHOOSE f : Run(f, DigitRun)
  BY DEF ChunkValue
<1>2. 0 \in S
  <2>1. Run([k \in 0..0 |-> 0], 0)
    <3> HIDE DEF digit
    <3> QED OBVIOUS
  <2> QED BY <2>1
<1>3. \A n \in Nat : n \in S => n + 1 \in S
  <2> SUFFICES ASSUME NEW n \in Nat, n \in S PROVE \E g : Run(g, n + 1)
    OBVIOUS
  <2>0. PICK f : Run(f, n)
    OBVIOUS
  <2> HIDE DEF digit
  <2> DEFINE g == [k \in 0..(n + 1) |-> IF k = n + 1 THEN f[n] * 16 + digit(n + 1) ELSE f[k]]
  <2>1. Run(g, n + 1)
    BY <2>0
  <2> QED BY <2>1
<1>4. \E f : Run(f, DigitRun)
  <2> HIDE DEF Run
  <2> QED BY <1>0, <1>2, <1>3, NaturalInduction
<1>5. Run(ChunkValue, DigitRun)
  <2> HIDE DEF Run
  <2> QED BY <1>1, <1>4
<1> HIDE DEF digit
<1>6. ChunkValue[0] = 0 /\ \A k \in 1..DigitRun : ChunkValue[k] = ChunkValue[k - 1] * 16 + digit(k)
  BY <1>0, <1>5
<1>7. \A k \in 0..DigitRun : ChunkValue[k] \in Nat
  <2> DEFINE N == {n \in Nat : n <= DigitRun => ChunkValue[n] \in Nat}
  <2>1. 0 \in N
    BY <1>6
  <2>2. \A n \in Nat : n \in N => n + 1 \in N
    <3> SUFFICES ASSUME NEW n \in Nat, n \in N, n + 1 <= DigitRun PROVE ChunkValue[n + 1] \in Nat
      OBVIOUS
    <3>1. ChunkValue[n] \in Nat /\ n + 1 \in 1..DigitRun
      BY <1>0
    <3>2. ChunkValue[n + 1] = ChunkValue[n] * 16 + digit(n + 1)
      BY <1>6, <3>1
    <3> QED BY <1>0, <3>1, <3>2
  <2>3. Nat \subseteq N
    <3> HIDE DEF N
    <3> QED BY <2>1, <2>2, NaturalInduction
  <2> QED BY <1>0, <2>3
<1> QED BY <1>6, <1>7 DEF digit

\* A step of the chunked body that goes on, with the buffer as it is.
LEMMA ChunkStepInv ==
    ASSUME ParserInv, Chunked, buffer_read_pos' \in Nat, buffer_read_pos' <= Len(buffer),
           next_chunk_size' \in -1..Limit,
           body' \in Seq(BodyBytes[client]), Len(body') <= Limit,
           UNCHANGED <<busy, buffer, state, status>>
    PROVE  ParserInv'
<1>0. state = "body" /\ content_length < 0 /\ UNCHANGED <<client, head, stream, content_length>>
  BY DEF Chunked
<1>1. next_chunk_size' \in Int /\ content_length \in Int
  BY ParserAssumption DEF ParserInv, TypeOK
<1>2. TypeOK'
  BY <1>0, <1>1 DEF ParserInv, TypeOK
<1>3. WellFormed(stream)' /\ HeaderInv'
  BY <1>0 DEF ParserInv, WellFormed, HeaderInv
<1>4. BodyInv'
  BY <1>0, <1>1 DEF ParserInv, BodyInv, BodyFed
<1> QED BY <1>0, <1>2, <1>3, <1>4
        DEF ParserInv, ReadPosInBuffer, BodyWithinLimit, BodyHeadersEnsured

LEMMA ChunkedKeeps ==
    Chunked => /\ UNCHANGED <<client, head, stream, content_length>>
               /\ busy /\ state = "body" /\ content_length < 0
  BY DEF Chunked

LEMMA ChunkReturnInv ==
    ASSUME ParserInv, Chunked, Wait \/ Throw(400) \/ Throw(413)
    PROVE  ParserInv'
<1>1. content_length \in Int
  BY DEF ParserInv, TypeOK
<1>2. ~ (state = "body" /\ content_length >= 0)
  BY <1>1 DEF Chunked
<1>3. 400 \in Codes /\ 413 \in Codes
  BY DEF Codes
<1> QED BY <1>2, <1>3, WaitInv, ThrowInv, ChunkedKeeps

LEMMA ParseChunkSizeInv == ASSUME ParserInv, ParseChunkSize PROVE ParserInv'
<1>0. Chunked
  BY DEF ParseChunkSize
<1>1. CASE Wait \/ Throw(400) \/ Throw(413)
  BY <1>0, <1>1, ChunkReturnInv
<1>2. CASE /\ DigitRun > 0 /\ HasTwo(buffer_read_pos + DigitRun)
           /\ ChunkValue[DigitRun] <= Limit
           /\ buffer_read_pos' = buffer_read_pos + DigitRun + 2
           /\ next_chunk_size' = ChunkValue[DigitRun]
           /\ UNCHANGED <<busy, buffer, state, body, status>>
  <2>1. Len(buffer) \in Nat /\ buffer_read_pos \in Nat /\ buffer_read_pos <= Len(buffer)
    BY DEF ParserInv, TypeOK, ReadPosInBuffer
  <2>2. DigitRun \in Nat
    BY <2>1, DigitRunIs
  <2>3. buffer_read_pos' \in Nat /\ buffer_read_pos' <= Len(buffer)
    BY <1>2, <2>1, <2>2 DEF HasTwo
  <2>4. DigitRun \in 0..DigitRun
    BY <2>2
  <2>5. ChunkValue[DigitRun] \in Nat
    BY <2>4, ChunkValueIs
  <2>6. next_chunk_size' \in -1..Limit
    BY <1>2, <2>5, ParserAssumption
  <2>7. body' \in Seq(BodyBytes[client]) /\ Len(body') <= Limit
    BY <1>2 DEF ParserInv, TypeOK, BodyWithinLimit
  <2> QED BY <1>0, <1>2, <2>3, <2>6, <2>7, ChunkStepInv
<1> QED BY <1>1, <1>2 DEF ParseChunkSize

LEMMA AppendChunkDataInv == ASSUME ParserInv, AppendChunkData PROVE ParserInv'
<1> DEFINE end == buffer_read_pos + next_chunk_size
<1>0. Chunked /\ next_chunk_size \notin {-1, 0}
  BY DEF AppendChunkData
<1>1. CASE Wait \/ Throw(400) \/ Throw(413)
  BY <1>0, <1>1, ChunkReturnInv
<1>2. CASE /\ ~ BodyTooLarge /\ HasTwo(end)
           /\ body' = body \o SubSeq(buffer, buffer_read_pos + 1, end)
           /\ buffer_read_pos' = end + 2
           /\ next_chunk_size' = -1
           /\ UNCHANGED <<busy, buffer, state, status>>
  <2>1. Len(buffer) \in Nat /\ buffer_read_pos \in Nat /\ next_chunk_size \in Nat /\ Limit \in Nat
    BY <1>0, ParserAssumption DEF ParserInv, TypeOK
  <2>2. buffer_read_pos' \in Nat /\ buffer_read_pos' <= Len(buffer) /\ end <= Len(buffer) /\ end \in Nat
    BY <1>2, <2>1 DEF HasTwo
  <2>3. buffer \in Seq(BodyBytes[client]) /\ body \in Seq(BodyBytes[client])
    BY <1>0 DEF Chunked, ParserInv, BodyInv, TypeOK
  <2> DEFINE chunk == SubSeq(buffer, buffer_read_pos + 1, end)
  <2>4. chunk \in Seq(BodyBytes[client]) /\ Len(chunk) = next_chunk_size
    <3>1. buffer_read_pos + 1 \in Nat /\ 1 <= buffer_read_pos + 1 /\ buffer_read_pos + 1 <= end + 1
      BY <2>1
    <3>2. chunk \in Seq(BodyBytes[client]) /\ Len(chunk) = end - (buffer_read_pos + 1) + 1
      <4> HIDE DEF end
      <4> QED BY <2>2, <2>3, <3>1, Piece
    <3> QED BY <2>1, <3>2
  <2>5. body' \in Seq(BodyBytes[client]) /\ Len(body') = Len(body) + next_chunk_size
    <3>1. body' = body \o chunk
      BY <1>2
    <3> HIDE DEF chunk
    <3> QED BY <2>3, <2>4, <3>1, Joined
  <2>6. Len(body') <= Limit
    BY <1>2, <2>1, <2>3, <2>5 DEF BodyTooLarge
  <2>7. next_chunk_size' \in -1..Limit
    BY <1>2, <2>1
  <2> QED BY <1>0, <1>2, <2>2, <2>5, <2>6, <2>7, ChunkStepInv
<1> QED BY <1>1, <1>2 DEF AppendChunkData

LEMMA ValidateFinalCRLFInv == ASSUME ParserInv, ValidateFinalCRLF PROVE ParserInv'
<1>0. Chunked
  BY DEF ValidateFinalCRLF
<1>1. CASE Wait \/ Throw(400) \/ Throw(413)
  BY <1>0, <1>1, ChunkReturnInv
<1>2. CASE ClearBuffer /\ state' = "done" /\ busy' = FALSE /\ UNCHANGED <<body, status>>
  <2>1. TypeOK'
    <3>1. busy' \in BOOLEAN
      BY <1>2
    <3>2. next_chunk_size' \in Int
      BY <1>2 DEF ClearBuffer
    <3> QED BY <1>0, <1>2, <3>1, <3>2, ChunkedKeeps DEF ParserInv, TypeOK, ClearBuffer
  <2>2. WellFormed(stream)' /\ HeaderInv'
    BY <1>0, <1>2, ChunkedKeeps DEF ParserInv, WellFormed, HeaderInv
  <2>3. BodyInv'
    <3>1. buffer' \in Seq(BodyBytes[client]) /\ buffer_read_pos' = 0
      BY <1>2 DEF ClearBuffer
    <3> QED BY <1>0, <1>2, <3>1, ChunkedKeeps DEF ParserInv, BodyInv
  <2>4. ReadPosInBuffer' /\ BodyWithinLimit' /\ next_chunk_size' \in -1..Limit
    BY <1>2, ParserAssumption DEF ParserInv, ReadPosInBuffer, BodyWithinLimit, ClearBuffer
  <2>5. BodyHeadersEnsured'
    BY <1>0, <1>2, ChunkedKeeps DEF ParserInv, BodyHeadersEnsured
  <2> QED BY <1>2, <2>1, <2>2, <2>3, <2>4, <2>5 DEF ParserInv
<1> QED BY <1>1, <1>2 DEF ValidateFinalCRLF

LEMMA ParserStep == ParserInv /\ [Next]_vars => ParserInv'
<1> SUFFICES ASSUME ParserInv, [Next]_vars PROVE ParserInv'
  OBVIOUS
<1>1. CASE OnExtraDataAfterDone
  <2>1. 400 \in Codes
    BY DEF Codes
  <2> QED BY <1>1, <2>1, ThrowInv DEF OnExtraDataAfterDone
<1>2. CASE UNCHANGED vars
  <2>1. TypeOK' /\ WellFormed(stream)' /\ HeaderInv' /\ BodyInv'
    BY <1>2 DEF ParserInv, TypeOK, WellFormed, HeaderInv, BodyInv, BodyFed, vars, bodyVars
  <2> QED BY <1>2, <2>1
          DEF ParserInv, ReadPosInBuffer, BodyWithinLimit, BodyHeadersEnsured, vars, bodyVars
<1> QED BY <1>1, <1>2, RecvInv, AdvanceHeaderInv, AdvanceContentLengthBodyInv, ParseChunkSizeInv,
           ValidateFinalCRLFInv, AppendChunkDataInv DEF Next, Advance

LEMMA ParserInvAlways == Spec => []ParserInv
  BY ParserInit, ParserStep, PTL DEF Spec

-----------------------------------------------------------------------------
(***************************************************************************)
(* The theorems on both kinds of bodies.                                   *)
(***************************************************************************)
\* The types of the state of the parser.
THEOREM TypeCorrect == Spec => []TypeOK
  BY ParserInvAlways, PTL DEF ParserInv

\* AdvanceChunkedBody never passes the end of its buffer, for any stream and any
\* way it is split.
THEOREM AlwaysInBuffer == Spec => []ReadPosInBuffer
  BY ParserInvAlways, PTL DEF ParserInv

\* No body that is put together, from one piece or from chunks, is larger than
\* client_max_body_size.
THEOREM BodyAlwaysWithinLimit == Spec => []BodyWithinLimit
  BY ParserInvAlways, PTL DEF ParserInv

\* A request that gets to its body has passed ValidateBodyHeaders: AdvanceBody
\* finds a length within the limit, or a chunked body.
THEOREM BodyHeadersAlwaysEnsured == Spec => []BodyHeadersEnsured
  BY ParserInvAlways, PTL DEF ParserInv

(***************************************************************************)
(* A body with a Content-Length: while Parse waits for it too few bytes    *)
(* are there, and once it is complete it does not change any more.         *)
(***************************************************************************)
LengthInv ==
    content_length >= 0 =>
        /\ state = "body" /\ ~ busy => Len(BodyFed) < content_length
        /\ state = "done" =>
             /\ Len(BodyFed) >= content_length
             /\ body = SubSeq(BodyFed, 1, content_length)
             /\ busy \/ status # 0 => Len(BodyFed) > content_length
             /\ status # 0 => status = 400

\* The first bytes of a sequence stay when it grows.
LEMMA PrefixStays ==
    ASSUME NEW S, NEW s \in Seq(S), NEW t \in Seq(S), NEW n \in Nat, n <= Len(s)
    PROVE  SubSeq(s \o t, 1, n) = SubSeq(s, 1, n) /\ Len(s \o t) = Len(s) + Len(t)
<1>1. /\ SubSeq(s \o t, 1, n) \in Seq(S) /\ SubSeq(s, 1, n) \in Seq(S)
      /\ Len(SubSeq(s \o t, 1, n)) = n /\ Len(SubSeq(s, 1, n)) = n
  OBVIOUS
<1>2. \A i \in 1..n : SubSeq(s \o t, 1, n)[i] = SubSeq(s, 1, n)[i]
  OBVIOUS
<1>3. SubSeq(s \o t, 1, n) = SubSeq(s, 1, n)
  BY <1>1, <1>2
<1> QED BY <1>3

LEMMA LengthStep == ParserInv /\ LengthInv /\ [Next]_vars => LengthInv'
<1> SUFFICES ASSUME ParserInv, LengthInv, [Next]_vars, content_length' >= 0,
                    state' # "header"
             PROVE  LengthInv'
  BY DEF LengthInv
<1>1. CASE Recv
  <2>1. /\ ~ busy /\ status = 0 /\ busy' = TRUE
        /\ UNCHANGED <<client, state, content_length, body, status>>
    BY <1>1 DEF Recv, bodyVars
  <2>2. PICK segment \in Seq(BodyBytes[client]) :
          Len(segment) >= 1 /\ BodyFed' = BodyFed \o segment
    BY <1>1, <2>1, RecvFeeds
  <2>3. BodyFed \in Seq(BodyBytes[client]) /\ Len(stream) >= 2
    BY <2>1, FedBytes DEF ParserInv, BodyInv
  <2>4. content_length \in Nat
    BY <2>1, ParserAssumption DEF ParserInv, BodyHeadersEnsured
  <2> HIDE DEF BodyFed
  <2>5. ASSUME state = "done"
        PROVE  /\ Len(BodyFed') > content_length
               /\ SubSeq(BodyFed', 1, content_length) = SubSeq(BodyFed, 1, content_length)
    <3>1. Len(BodyFed) >= content_length
      BY <2>1, <2>5 DEF LengthInv
    <3>2. Len(BodyFed') = Len(BodyFed) + Len(segment)
      BY <2>2, <2>3, Joined
    <3>3. SubSeq(BodyFed', 1, content_length) = SubSeq(BodyFed, 1, content_length)
      BY <2>2, <2>3, <2>4, <3>1, PrefixStays
    <3>4. Len(BodyFed) \in Nat /\ Len(segment) \in Nat
      BY <2>2, <2>3
    <3> QED BY <2>2, <2>4, <3>1, <3>2, <3>3, <3>4
  <2>6. state = "done" =>
          /\ Len(BodyFed') >= content_length'
          /\ body' = SubSeq(BodyFed', 1, content_length')
          /\ Len(BodyFed') > content_length'
          /\ status' = 0
    <3>1. state = "done" => Len(BodyFed') >= content_length'
      <4>1. Len(BodyFed') \in Nat
        BY <2>2, <2>3, Joined
      <4> QED BY <2>1, <2>4, <2>5, <4>1
    <3> QED BY <2>1, <2>5, <3>1 DEF LengthInv
  <2> QED BY <2>1, <2>6 DEF LengthInv
<1>2. CASE AdvanceHeader
  <2>1. state' = "body" /\ busy' = busy /\ busy
    BY <1>2 DEF AdvanceHeader, Wait, Throw
  <2> QED BY <2>1 DEF LengthInv
<1>3. CASE AdvanceContentLengthBody
  <2>1. /\ busy /\ state = "body" /\ content_length >= 0
        /\ UNCHANGED <<client, stream, content_length>>
    BY <1>3 DEF AdvanceContentLengthBody
  <2>2. buffer = BodyFed /\ BodyFed' = BodyFed /\ status = 0
    BY <2>1 DEF ParserInv, BodyInv, BodyFed
  <2> HIDE DEF BodyFed
  <2>3. CASE Len(buffer) < content_length /\ Wait
    BY <2>1, <2>2, <2>3 DEF Wait, LengthInv
  <2>4. CASE /\ Len(buffer) >= content_length /\ TakeBody
             /\ state' = "done" /\ busy' = FALSE /\ UNCHANGED status
    BY <2>1, <2>2, <2>4 DEF TakeBody, LengthInv
  <2> QED BY <1>3, <2>3, <2>4 DEF AdvanceContentLengthBody
<1>4. CASE ParseChunkSize \/ ValidateFinalCRLF \/ AppendChunkData
  <2>1. content_length < 0 /\ content_length' = content_length
    BY <1>4, ChunkedKeeps DEF ParseChunkSize, ValidateFinalCRLF, AppendChunkData
  <2>2. content_length \in Int
    BY DEF ParserInv, TypeOK
  <2> QED BY <2>1, <2>2
<1>5. CASE OnExtraDataAfterDone
  <2>1. /\ busy /\ state = "done" /\ busy' = FALSE /\ status' = 400
        /\ UNCHANGED <<stream, state, content_length, body>>
    BY <1>5 DEF OnExtraDataAfterDone, Throw, bodyVars
  <2>2. BodyFed' = BodyFed
    BY <2>1 DEF BodyFed
  <2> HIDE DEF BodyFed
  <2> QED BY <2>1, <2>2 DEF LengthInv
<1>6. CASE UNCHANGED vars
  BY <1>6 DEF vars, bodyVars, LengthInv, BodyFed
<1> QED BY <1>1, <1>2, <1>3, <1>4, <1>5, <1>6 DEF Next, Advance

\* A body with a Content-Length is complete with its last byte and is exactly the
\* bytes announced, for every length and every way the stream is split, and only
\* bytes of a later recv are refused.
THEOREM AlwaysContentLengthExact == Spec => []ContentLengthExact
<1>1. Init => LengthInv
  BY DEF Init, LengthInv
<1>2. ParserInv /\ LengthInv => ContentLengthExact
  <2> SUFFICES ASSUME ParserInv, LengthInv, ~ busy, state # "header", content_length >= 0
               PROVE  /\ state = "done" <=> Len(BodyFed) >= content_length
                      /\ state = "done" => body = SubSeq(BodyFed, 1, content_length)
                      /\ status # 0 => status = 400 /\ Len(BodyFed) > content_length
    BY DEF ContentLengthExact
  <2>1. Len(BodyFed) \in Nat /\ content_length \in Int /\ state \in {"body", "done"}
    BY FedBytes DEF ParserInv, BodyInv, TypeOK
  <2>2. state = "body" => status = 0
    BY DEF ParserInv, BodyInv
  <2> HIDE DEF BodyFed
  <2> QED BY <2>1, <2>2 DEF LengthInv
<1> QED BY <1>1, <1>2, LengthStep, ParserInvAlways, PTL DEF Spec

-----------------------------------------------------------------------------
(***************************************************************************)
(* The reference decoder: what one byte does, and what its states are      *)
(* along a sequence of bytes.                                              *)
(***************************************************************************)
Phases == {"start", "size", "sizeLF", "data", "dataCR", "dataLF", "lastCR", "lastLF",
           "done", "bad", "large"}
Stopped == {"bad", "large"}

DecoderState(S) ==
    {d \in [phase : Phases, size : Nat, body : Seq(S), late : {0, 1}, empty : BOOLEAN] :
       /\ d.phase = "data" => d.size >= 1
       /\ d.phase \notin Stopped => d.late = 0}

LEMMA BadIs ==
    ASSUME NEW S, NEW d \in DecoderState(S), NEW b \in S
    PROVE  /\ Bad(d, b) \in DecoderState(S)
           /\ Bad(d, b).phase = "bad" /\ Bad(d, b).late = d.late
           /\ Bad(d, b).body = d.body /\ Bad(d, b).size = d.size
           /\ Bad(d, b).empty <=> d.phase = "start" /\ b = "CR"
  BY DEF DecoderState, Bad, Phases, Stopped

LEMMA ExpectIs ==
    ASSUME NEW S, NEW d \in DecoderState(S), NEW b \in S, NEW byte, NEW next \in Phases,
           next = "data" => d.size >= 1, d.late = 0
    PROVE  /\ Expect(d, b, byte, next) \in DecoderState(S)
           /\ Expect(d, b, byte, next).body = d.body
           /\ Expect(d, b, byte, next).size = d.size
           /\ Expect(d, b, byte, next).late = 0
           /\ Expect(d, b, byte, next).phase = IF b = byte THEN next ELSE "bad"
<1>1. CASE b = byte
  BY <1>1 DEF DecoderState, Expect, Phases, Stopped
<1>2. CASE b # byte
  <2>1. Expect(d, b, byte, next) = Bad(d, b)
    BY <1>2 DEF Expect
  <2> QED BY <1>2, <2>1, BadIs
<1> QED BY <1>1, <1>2

LEMMA DecodeDigitIs ==
    ASSUME NEW S, NEW d \in DecoderState(S), NEW b \in S, b \in HexDigits, d.late = 0
    PROVE  /\ DecodeDigit(d, b) \in DecoderState(S)
           /\ DecodeDigit(d, b).late = 0
           /\ IF d.size * 16 + HexValue(b) >= 2^SizeBits
              THEN DecodeDigit(d, b).phase = "bad"
              ELSE /\ DecodeDigit(d, b).phase = "size"
                   /\ DecodeDigit(d, b).size = d.size * 16 + HexValue(b)
                   /\ DecodeDigit(d, b).body = d.body
<1>1. HexValue(b) \in Nat /\ d.size \in Nat
  BY HexValueIs DEF DecoderState
<1>2. CASE d.size * 16 + HexValue(b) >= 2^SizeBits
  <2>1. DecodeDigit(d, b) = Bad(d, b)
    BY <1>2 DEF DecodeDigit
  <2> QED BY <1>2, <2>1, BadIs
<1>3. CASE ~ (d.size * 16 + HexValue(b) >= 2^SizeBits)
  <2> DEFINE size == d.size * 16 + HexValue(b)
  <2>1. size \in Nat
    BY <1>1
  <2>2. DecodeDigit(d, b) = [d EXCEPT !.phase = "size", !.size = size]
    BY <1>3 DEF DecodeDigit
  <2> HIDE DEF size
  <2>3. /\ DecodeDigit(d, b) \in DecoderState(S) /\ DecodeDigit(d, b).late = 0
        /\ DecodeDigit(d, b).phase = "size" /\ DecodeDigit(d, b).size = size
        /\ DecodeDigit(d, b).body = d.body
    BY <2>1, <2>2 DEF DecoderState, Phases, Stopped
  <2> QED BY <1>3, <2>3 DEF size
<1> QED BY <1>2, <1>3

\* What each phase makes of a byte.
LEMMA DecodeStart ==
    ASSUME NEW S, NEW d \in DecoderState(S), NEW b \in S, d.phase = "start"
    PROVE  /\ DecodeByte(d, b) \in DecoderState(S)
           /\ IF b \notin HexDigits
              THEN DecodeByte(d, b).phase = "bad" /\ (b = "CR" => DecodeByte(d, b).empty)
              ELSE IF HexValue(b) >= 2^SizeBits
              THEN DecodeByte(d, b).phase = "bad"
              ELSE /\ DecodeByte(d, b).phase = "size" /\ DecodeByte(d, b).size = HexValue(b)
                   /\ DecodeByte(d, b).body = d.body
<1>1. CASE b \in HexDigits
  <2> DEFINE zero == [d EXCEPT !.size = 0]
  <2>1. DecodeByte(d, b) = DecodeDigit(zero, b)
    BY <1>1 DEF DecodeByte
  <2>2. zero \in DecoderState(S) /\ zero.late = 0 /\ zero.size = 0 /\ zero.body = d.body
    BY DEF DecoderState, Stopped
  <2>3. HexValue(b) \in Nat /\ 0 * 16 + HexValue(b) = HexValue(b)
    BY <1>1, HexValueIs
  <2> HIDE DEF zero
  <2> QED BY <1>1, <2>1, <2>2, <2>3, DecodeDigitIs
<1>2. CASE b \notin HexDigits
  <2>1. DecodeByte(d, b) = Bad(d, b)
    BY <1>2 DEF DecodeByte
  <2> QED BY <1>2, <2>1, BadIs
<1> QED BY <1>1, <1>2

LEMMA DecodeSize ==
    ASSUME NEW S, NEW d \in DecoderState(S), NEW b \in S, d.phase = "size"
    PROVE  /\ DecodeByte(d, b) \in DecoderState(S)
           /\ IF b \notin HexDigits
              THEN /\ DecodeByte(d, b).phase = IF b = "CR" THEN "sizeLF" ELSE "bad"
                   /\ DecodeByte(d, b).size = d.size /\ DecodeByte(d, b).body = d.body
                   /\ DecodeByte(d, b).late = 0
              ELSE IF d.size * 16 + HexValue(b) >= 2^SizeBits
              THEN DecodeByte(d, b).phase = "bad"
              ELSE /\ DecodeByte(d, b).phase = "size"
                   /\ DecodeByte(d, b).size = d.size * 16 + HexValue(b)
                   /\ DecodeByte(d, b).body = d.body
<1>1. d.late = 0
  BY DEF DecoderState, Stopped
<1>2. CASE b \in HexDigits
  <2>1. DecodeByte(d, b) = DecodeDigit(d, b)
    BY <1>2 DEF DecodeByte
  <2> QED BY <1>1, <1>2, <2>1, DecodeDigitIs
<1>3. CASE b \notin HexDigits
  <2>1. DecodeByte(d, b) = Expect(d, b, "CR", "sizeLF")
    BY <1>3 DEF DecodeByte
  <2> QED BY <1>1, <1>3, <2>1, ExpectIs DEF Phases
<1> QED BY <1>2, <1>3

\* The phase a complete size line leads to.
AfterSize(d) == IF d.size = 0 THEN "lastCR"
                ELSE IF Len(d.body) + d.size > Limit THEN "large" ELSE "data"

LEMMA DecodeLine ==
    ASSUME NEW S, NEW d \in DecoderState(S), NEW b \in S,
           d.phase \in {"sizeLF", "dataCR", "dataLF", "lastCR", "lastLF"}
    PROVE  /\ DecodeByte(d, b) \in DecoderState(S)
           /\ DecodeByte(d, b).body = d.body /\ DecodeByte(d, b).size = d.size
           /\ DecodeByte(d, b).late = 0
           /\ d.phase = "sizeLF" =>
                DecodeByte(d, b).phase = IF b = "LF" THEN AfterSize(d) ELSE "bad"
           /\ d.phase = "dataCR" =>
                DecodeByte(d, b).phase = IF b = "CR" THEN "dataLF" ELSE "bad"
           /\ d.phase = "dataLF" =>
                DecodeByte(d, b).phase = IF b = "LF" THEN "start" ELSE "bad"
           /\ d.phase = "lastCR" =>
                DecodeByte(d, b).phase = IF b = "CR" THEN "lastLF" ELSE "bad"
           /\ d.phase = "lastLF" =>
                DecodeByte(d, b).phase = IF b = "LF" THEN "done" ELSE "bad"
<1>1. d.late = 0
  BY DEF DecoderState, Stopped
<1>2. CASE d.phase = "sizeLF"
  <2>1. DecodeByte(d, b) = Expect(d, b, "LF", AfterSize(d))
    BY <1>2 DEF DecodeByte, AfterSize
  <2>2. AfterSize(d) \in Phases /\ (AfterSize(d) = "data" => d.size >= 1)
    BY DEF AfterSize, DecoderState, Phases
  <2> QED BY <1>1, <1>2, <2>1, <2>2, ExpectIs
<1>3. CASE d.phase = "dataCR"
  <2>1. DecodeByte(d, b) = Expect(d, b, "CR", "dataLF")
    BY <1>3 DEF DecodeByte
  <2> QED BY <1>1, <1>3, <2>1, ExpectIs DEF Phases
<1>4. CASE d.phase = "dataLF"
  <2>1. DecodeByte(d, b) = Expect(d, b, "LF", "start")
    BY <1>4 DEF DecodeByte
  <2> QED BY <1>1, <1>4, <2>1, ExpectIs DEF Phases
<1>5. CASE d.phase = "lastCR"
  <2>1. DecodeByte(d, b) = Expect(d, b, "CR", "lastLF")
    BY <1>5 DEF DecodeByte
  <2> QED BY <1>1, <1>5, <2>1, ExpectIs DEF Phases
<1>6. CASE d.phase = "lastLF"
  <2>1. DecodeByte(d, b) = Expect(d, b, "LF", "done")
    BY <1>6 DEF DecodeByte
  <2> QED BY <1>1, <1>6, <2>1, ExpectIs DEF Phases
<1> QED BY <1>2, <1>3, <1>4, <1>5, <1>6

LEMMA DecodeData ==
    ASSUME NEW S, NEW d \in DecoderState(S), NEW b \in S, d.phase = "data"
    PROVE  /\ DecodeByte(d, b) \in DecoderState(S)
           /\ DecodeByte(d, b).body = Append(d.body, b)
           /\ DecodeByte(d, b).size = d.size - 1
           /\ DecodeByte(d, b).phase = IF d.size = 1 THEN "dataCR" ELSE "data"
<1> DEFINE bytes == Append(d.body, b)
           size == d.size - 1
           phase == IF d.size = 1 THEN "dataCR" ELSE "data"
<1>1. DecodeByte(d, b) = [d EXCEPT !.body = bytes, !.size = size, !.phase = phase]
  BY DEF DecodeByte
<1>2. d.late = 0 /\ bytes \in Seq(S) /\ size \in Nat
  BY DEF DecoderState, Stopped
<1>3. phase \in Phases /\ (phase = "data" => size >= 1)
  BY DEF DecoderState, Phases
<1>4. /\ DecodeByte(d, b) \in DecoderState(S) /\ DecodeByte(d, b).body = bytes
      /\ DecodeByte(d, b).size = size /\ DecodeByte(d, b).phase = phase
  <2> HIDE DEF bytes, size, phase
  <2>1. LET e == [d EXCEPT !.body = bytes, !.size = size, !.phase = phase]
        IN  /\ e \in DecoderState(S)
            /\ e.body = bytes /\ e.size = size /\ e.phase = phase
    BY <1>2, <1>3 DEF DecoderState
  <2> QED BY <1>1, <2>1
<1> QED BY <1>4

LEMMA DecodeAfterEnd ==
    ASSUME NEW S, NEW d \in DecoderState(S), NEW b \in S
    PROVE  /\ d.phase \in Stopped \cup {"done"} => DecodeByte(d, b) \in DecoderState(S)
           /\ d.phase \in Stopped => /\ DecodeByte(d, b).phase = d.phase
                                     /\ DecodeByte(d, b).empty = d.empty
           /\ d.phase = "done" => DecodeByte(d, b).phase = "bad"
<1>1. CASE d.phase \in Stopped
  <2>1. DecodeByte(d, b) = [d EXCEPT !.late = 1]
    BY <1>1 DEF DecodeByte, Stopped
  <2>2. DecodeByte(d, b) \in DecoderState(S)
    BY <1>1, <2>1 DEF DecoderState, Stopped
  <2>3. DecodeByte(d, b).phase = d.phase /\ DecodeByte(d, b).empty = d.empty
    BY <2>1 DEF DecoderState
  <2> QED BY <1>1, <2>2, <2>3 DEF Stopped
<1>2. CASE d.phase = "done"
  <2>1. DecodeByte(d, b) = Bad(d, b)
    BY <1>2 DEF DecodeByte
  <2> QED BY <1>2, <2>1, BadIs DEF Stopped
<1> QED BY <1>1, <1>2

LEMMA DecodeByteType ==
    ASSUME NEW S, NEW d \in DecoderState(S), NEW b \in S
    PROVE  DecodeByte(d, b) \in DecoderState(S)
<1>1. d.phase \in Phases
  BY DEF DecoderState
<1> QED BY <1>1, DecodeStart, DecodeSize, DecodeLine, DecodeData, DecodeAfterEnd
        DEF Phases, Stopped

\* Decoder(s) really runs DecodeByte over s.
LEMMA DecoderIs ==
    ASSUME NEW S, NEW s \in Seq(S)
    PROVE  /\ Decoder(s)[0] = Start
           /\ \A n \in 1..Len(s) : Decoder(s)[n] = DecodeByte(Decoder(s)[n - 1], s[n])
<1> DEFINE Run(f, m) == f = [n \in 0..m |-> IF n = 0 THEN Start ELSE DecodeByte(f[n - 1], s[n])]
           N == {m \in Nat : \E f : Run(f, m)}
<1>1. Decoder(s) = CHOOSE f : Run(f, Len(s))
  BY DEF Decoder
<1>2. 0 \in N
  <2>1. Run([n \in 0..0 |-> Start], 0)
    OBVIOUS
  <2> QED BY <2>1
<1>3. \A m \in Nat : m \in N => m + 1 \in N
  <2> SUFFICES ASSUME NEW m \in Nat, m \in N PROVE \E g : Run(g, m + 1)
    <3> HIDE DEF Run
    <3> QED OBVIOUS
  <2>0. PICK f : Run(f, m)
    <3> HIDE DEF Run
    <3> QED OBVIOUS
  <2> DEFINE g == [n \in 0..(m + 1) |-> IF n = m + 1 THEN DecodeByte(f[m], s[m + 1]) ELSE f[n]]
  <2>1. Run(g, m + 1)
    BY <2>0
  <2> QED BY <2>1
<1>4. Len(s) \in Nat
  OBVIOUS
<1>5. \E f : Run(f, Len(s))
  <2> HIDE DEF Run
  <2> QED BY <1>2, <1>3, <1>4, NaturalInduction
<1>6. Run(Decoder(s), Len(s))
  <2> HIDE DEF Run
  <2> QED BY <1>1, <1>5
<1> QED BY <1>4, <1>6

LEMMA DecoderType ==
    ASSUME NEW S, NEW s \in Seq(S)
    PROVE  \A n \in 0..Len(s) : Decoder(s)[n] \in DecoderState(S)
<1> DEFINE N == {n \in Nat : n <= Len(s) => Decoder(s)[n] \in DecoderState(S)}
<1>1. 0 \in N
  <2>1. Start \in DecoderState(S)
    BY DEF Start, DecoderState, Phases, Stopped
  <2> QED BY <2>1, DecoderIs
<1>2. \A n \in Nat : n \in N => n + 1 \in N
  <2> SUFFICES ASSUME NEW n \in Nat, n \in N, n + 1 <= Len(s)
               PROVE  Decoder(s)[n + 1] \in DecoderState(S)
    OBVIOUS
  <2>1. Decoder(s)[n] \in DecoderState(S) /\ n + 1 \in 1..Len(s) /\ s[n + 1] \in S /\ (n + 1) - 1 = n
    OBVIOUS
  <2>2. Decoder(s)[n + 1] = DecodeByte(Decoder(s)[n], s[n + 1])
    BY <2>1, DecoderIs
  <2> QED BY <2>1, <2>2, DecodeByteType
<1>3. Nat \subseteq N
  <2> HIDE DEF N
  <2> QED BY <1>1, <1>2, NaturalInduction
<1> QED BY <1>3

\* One step of the decoder, as the lemmas below use it.
LEMMA DecoderStep ==
    ASSUME NEW S, NEW s \in Seq(S), NEW n \in Nat, n < Len(s)
    PROVE  /\ Decoder(s)[n] \in DecoderState(S) /\ s[n + 1] \in S
           /\ Decoder(s)[n + 1] = DecodeByte(Decoder(s)[n], s[n + 1])
           /\ Decoder(s)[n + 1] \in DecoderState(S)
<1>1. n + 1 \in 1..Len(s) /\ (n + 1) - 1 = n /\ s[n + 1] \in S /\ n \in 0..Len(s) /\ n + 1 \in 0..Len(s)
  OBVIOUS
<1> QED BY <1>1, DecoderIs, DecoderType

\* The states reached do not depend on what comes later.
LEMMA DecoderGrows ==
    ASSUME NEW S, NEW s \in Seq(S), NEW t \in Seq(S)
    PROVE  \A n \in 0..Len(s) : Decoder(s \o t)[n] = Decoder(s)[n]
<1> DEFINE N == {n \in Nat : n <= Len(s) => Decoder(s \o t)[n] = Decoder(s)[n]}
<1>0. s \o t \in Seq(S) /\ Len(s \o t) = Len(s) + Len(t) /\ Len(s) \in Nat /\ Len(t) \in Nat
  BY Joined
<1>1. 0 \in N
  BY <1>0, DecoderIs
<1>2. \A n \in Nat : n \in N => n + 1 \in N
  <2> SUFFICES ASSUME NEW n \in Nat, n \in N, n + 1 <= Len(s)
               PROVE  Decoder(s \o t)[n + 1] = Decoder(s)[n + 1]
    OBVIOUS
  <2>1. n < Len(s) /\ n < Len(s \o t) /\ (s \o t)[n + 1] = s[n + 1]
    BY <1>0
  <2>2. Decoder(s)[n + 1] = DecodeByte(Decoder(s)[n], s[n + 1])
    BY <2>1, DecoderStep
  <2>3. Decoder(s \o t)[n + 1] = DecodeByte(Decoder(s \o t)[n], (s \o t)[n + 1])
    BY <1>0, <2>1, DecoderStep
  <2>4. Decoder(s \o t)[n] = Decoder(s)[n]
    BY <1>0, <2>1
  <2> QED BY <2>1, <2>2, <2>3, <2>4
<1>3. Nat \subseteq N
  <2> HIDE DEF N
  <2> QED BY <1>1, <1>2, NaturalInduction
<1> QED BY <1>0, <1>3

\* A decoder that has stopped stays as it is; one that is done takes nothing more.
LEMMA DecoderStays ==
    ASSUME NEW S, NEW s \in Seq(S), NEW m \in 0..Len(s), NEW n \in m..Len(s)
    PROVE  /\ Decoder(s)[m].phase \in Stopped =>
                /\ Decoder(s)[n].phase = Decoder(s)[m].phase
                /\ Decoder(s)[n].empty = Decoder(s)[m].empty
           /\ Decoder(s)[m].phase = "done" /\ m < n => Decoder(s)[n].phase = "bad"
<1> DEFINE D(k) == Decoder(s)[k]
<1>1. ASSUME NEW k \in 0..Len(s), D(k).phase \in Stopped
      PROVE  \A i \in k..Len(s) : D(i).phase = D(k).phase /\ D(i).empty = D(k).empty
  <2> DEFINE N == {i \in Nat : k + i <= Len(s) => /\ D(k + i).phase = D(k).phase
                                                  /\ D(k + i).empty = D(k).empty}
  <2>1. 0 \in N
    OBVIOUS
  <2>2. \A i \in Nat : i \in N => i + 1 \in N
    <3> SUFFICES ASSUME NEW i \in Nat, i \in N, k + (i + 1) <= Len(s)
                 PROVE  D(k + (i + 1)).phase = D(k).phase /\ D(k + (i + 1)).empty = D(k).empty
      OBVIOUS
    <3>1. k + i \in Nat /\ k + i < Len(s) /\ k + (i + 1) = (k + i) + 1 /\ k + i <= Len(s)
      OBVIOUS
    <3>2. D(k + i).phase = D(k).phase /\ D(k + i).empty = D(k).empty
      BY <3>1
    <3>3. /\ D(k + i) \in DecoderState(S) /\ s[(k + i) + 1] \in S
          /\ D((k + i) + 1) = DecodeByte(D(k + i), s[(k + i) + 1])
      BY <3>1, DecoderStep
    <3> HIDE DEF D
    <3>4. D((k + i) + 1).phase = D(k + i).phase /\ D((k + i) + 1).empty = D(k + i).empty
      BY <1>1, <3>2, <3>3, DecodeAfterEnd
    <3> QED BY <3>1, <3>2, <3>4
  <2>3. Nat \subseteq N
    <3> HIDE DEF N
    <3> QED BY <2>1, <2>2, NaturalInduction
  <2>4. \A i \in k..Len(s) : i - k \in N /\ k + (i - k) = i
    BY <2>3
  <2> HIDE DEF D
  <2> QED BY <2>4
<1>2. ASSUME D(m).phase = "done", m < n PROVE D(n).phase = "bad"
  <2>1. m \in Nat /\ m < Len(s) /\ m + 1 \in 0..Len(s) /\ n \in (m + 1)..Len(s)
    BY <1>2
  <2>2. /\ D(m) \in DecoderState(S) /\ s[m + 1] \in S
        /\ D(m + 1) = DecodeByte(D(m), s[m + 1])
    BY <2>1, DecoderStep
  <2> HIDE DEF D
  <2>3. D(m + 1).phase = "bad"
    BY <1>2, <2>2, DecodeAfterEnd
  <2> QED BY <1>1, <2>1, <2>3 DEF Stopped
<1> QED BY <1>1, <1>2

\* Two bytes that should be CRLF: after the digits of a size, after the data of
\* a chunk, and after the last chunk.
AwaitLF == {"sizeLF", "dataLF", "lastLF"}

AfterCRLF(d) == CASE d.phase = "size" -> AfterSize(d)
                  [] d.phase = "dataCR" -> "start"
                  [] d.phase = "lastCR" -> "done"

LEMMA DecodeCRLF ==
    ASSUME NEW S, NEW s \in Seq(S), NEW n \in Nat, n < Len(s),
           Decoder(s)[n].phase \in {"size", "dataCR", "lastCR"},
           Decoder(s)[n].phase = "size" => s[n + 1] \notin HexDigits
    PROVE  /\ IF s[n + 1] = "CR" THEN Decoder(s)[n + 1].phase \in AwaitLF
              ELSE Decoder(s)[n + 1].phase = "bad" /\ Decoder(s)[n + 1].late = 0
           /\ n + 1 < Len(s) =>
                IF s[n + 1] = "CR" /\ s[n + 2] = "LF"
                THEN /\ Decoder(s)[n + 2].phase = AfterCRLF(Decoder(s)[n])
                     /\ Decoder(s)[n + 2].body = Decoder(s)[n].body
                     /\ Decoder(s)[n + 2].size = Decoder(s)[n].size
                ELSE Decoder(s)[n + 2].phase = "bad"
<1> DEFINE d == Decoder(s)[n]
           e == Decoder(s)[n + 1]
           f == Decoder(s)[n + 2]
<1>1. d \in DecoderState(S) /\ s[n + 1] \in S /\ e = DecodeByte(d, s[n + 1]) /\ e \in DecoderState(S)
  BY DecoderStep
<1>2. n + 1 < Len(s) => s[n + 2] \in S /\ f = DecodeByte(e, s[n + 2])
  <2>1. n + 1 \in Nat /\ (n + 1) + 1 = n + 2
    OBVIOUS
  <2> QED BY <2>1, DecoderStep
<1> HIDE DEF d, e, f
<1>3. /\ e.body = d.body /\ e.size = d.size /\ e.late = 0
      /\ d.phase = "size" => e.phase = IF s[n + 1] = "CR" THEN "sizeLF" ELSE "bad"
      /\ d.phase = "dataCR" => e.phase = IF s[n + 1] = "CR" THEN "dataLF" ELSE "bad"
      /\ d.phase = "lastCR" => e.phase = IF s[n + 1] = "CR" THEN "lastLF" ELSE "bad"
  BY <1>1, DecodeSize, DecodeLine DEF d
<1>4. CASE s[n + 1] # "CR"
  <2>1. e.phase = "bad"
    BY <1>3, <1>4 DEF d
  <2>2. n + 1 < Len(s) => f.phase = "bad"
    BY <1>1, <1>2, <2>1, DecodeAfterEnd DEF Stopped
  <2> QED BY <1>3, <1>4, <2>1, <2>2 DEF e, f
<1>5. CASE s[n + 1] = "CR"
  <2>1. e.phase \in AwaitLF
    BY <1>3, <1>5 DEF d, AwaitLF
  <2>2. AfterSize(e) = AfterSize(d)
    BY <1>3 DEF AfterSize
  <2>3. n + 1 < Len(s) =>
           /\ f.body = e.body /\ f.size = e.size
           /\ e.phase = "sizeLF" => f.phase = IF s[n + 2] = "LF" THEN AfterSize(e) ELSE "bad"
           /\ e.phase = "dataLF" => f.phase = IF s[n + 2] = "LF" THEN "start" ELSE "bad"
           /\ e.phase = "lastLF" => f.phase = IF s[n + 2] = "LF" THEN "done" ELSE "bad"
    BY <1>1, <1>2, <2>1, DecodeLine DEF AwaitLF
  <2>4. /\ d.phase = "size" => AfterCRLF(d) = AfterSize(d)
        /\ d.phase = "dataCR" => AfterCRLF(d) = "start"
        /\ d.phase = "lastCR" => AfterCRLF(d) = "done"
    BY DEF AfterCRLF
  <2>5. d.phase \in {"size", "dataCR", "lastCR"}
    BY DEF d
  <2>6. n + 1 < Len(s) =>
          IF s[n + 2] = "LF" THEN f.phase = AfterCRLF(d) /\ f.body = d.body /\ f.size = d.size
          ELSE f.phase = "bad"
    BY <1>3, <1>5, <2>2, <2>3, <2>4, <2>5
  <2> QED BY <1>5, <2>1, <2>6 DEF d, e, f
<1> QED BY <1>4, <1>5

\* A shift loses bits of a size_t exactly if the value does not fit in one.
LEMMA ShiftOverflows ==
    ASSUME NEW v \in Nat, NEW h \in 0..2
    PROVE  v > (2^SizeBits - 1) \div 16 <=> v * 16 + h >= 2^SizeBits
<1> DEFINE w == 2^SizeBits
<1>1. w \in Nat /\ w % 16 = 0
  BY ParserAssumption
<1> SUFFICES v > (w - 1) \div 16 <=> v * 16 + h >= w
  OBVIOUS
<1> HIDE DEF w
<1>2. PICK q \in Nat : w = 16 * q
  BY <1>1
<1>3. (w - 1) \div 16 = q - 1
  BY <1>2
<1> QED BY <1>2, <1>3

\* A run of digits from the start of a chunk on, with its value digit by digit.
Digits(s, p, r, v) ==
    /\ p + r <= Len(s)
    /\ Decoder(s)[p].phase = "start"
    /\ \A k \in 1..r : s[p + k] \in HexDigits
    /\ v[0] = 0 /\ \A k \in 0..r : v[k] \in Nat
    /\ \A k \in 1..r : v[k] = v[k - 1] * 16 + HexValue(s[p + k])

Lossless(v, r) == \A k \in 1..r : ~ (v[k - 1] > (2^SizeBits - 1) \div 16)

LEMMA DecodeOneDigit ==
    ASSUME NEW S, NEW s \in Seq(S), NEW p \in Nat, NEW r \in Nat, NEW v,
           Digits(s, p, r, v),
           NEW k \in Nat, k < r,
           k > 0 => /\ Decoder(s)[p + k].phase = "size" /\ Decoder(s)[p + k].size = v[k]
                    /\ Decoder(s)[p + k].body = Decoder(s)[p].body
    PROVE  IF v[k] > (2^SizeBits - 1) \div 16
           THEN Decoder(s)[p + (k + 1)].phase = "bad"
           ELSE /\ Decoder(s)[p + (k + 1)].phase = "size"
                /\ Decoder(s)[p + (k + 1)].size = v[k + 1]
                /\ Decoder(s)[p + (k + 1)].body = Decoder(s)[p].body
<1> DEFINE d == Decoder(s)[p + k]
           b == s[(p + k) + 1]
           e == Decoder(s)[(p + k) + 1]
<1>0. p + r <= Len(s) /\ Len(s) \in Nat
  BY DEF Digits
<1>1. /\ p + k \in Nat /\ p + k < Len(s) /\ p + (k + 1) = (p + k) + 1
      /\ k \in 0..r /\ k + 1 \in 1..r /\ (k + 1) - 1 = k
  BY <1>0
<1>2. d \in DecoderState(S) /\ b \in S /\ e = DecodeByte(d, b)
  BY <1>1, DecoderStep
<1>3. b \in HexDigits /\ v[k + 1] = v[k] * 16 + HexValue(b)
  BY <1>1 DEF Digits
<1>4. HexValue(b) \in 0..2
  BY <1>3, HexValueIs
<1>5. v[k] > (2^SizeBits - 1) \div 16 <=> v[k + 1] >= 2^SizeBits
  <2>1. v[k] \in Nat
    BY <1>1 DEF Digits
  <2> HIDE DEF b
  <2> QED BY <2>1, <1>3, <1>4, ShiftOverflows
<1>6. CASE k = 0
  <2>0. p + k = p
    BY <1>6
  <2>1. v[0] = 0 /\ d.phase = "start" /\ d = Decoder(s)[p]
    BY <2>0 DEF Digits
  <2>2. v[k + 1] = HexValue(b)
    BY <1>3, <1>4, <1>6, <2>1
  <2> HIDE DEF d, b, e
  <2>3. IF HexValue(b) >= 2^SizeBits THEN e.phase = "bad"
        ELSE e.phase = "size" /\ e.size = HexValue(b) /\ e.body = d.body
    BY <1>2, <1>3, <2>1, DecodeStart
  <2> QED BY <1>1, <1>5, <2>1, <2>2, <2>3 DEF e
<1>7. CASE k > 0
  <2>1. d.phase = "size" /\ d.size = v[k] /\ d.body = Decoder(s)[p].body
    BY <1>7
  <2> HIDE DEF d, b, e
  <2>2. IF v[k + 1] >= 2^SizeBits THEN e.phase = "bad"
        ELSE e.phase = "size" /\ e.size = v[k + 1] /\ e.body = d.body
    BY <1>2, <1>3, <2>1, DecodeSize
  <2> QED BY <1>1, <1>5, <2>1, <2>2 DEF e
<1> QED BY <1>6, <1>7

LEMMA DecodeDigits ==
    ASSUME NEW S, NEW s \in Seq(S), NEW p \in Nat, NEW r \in Nat, NEW v,
           Digits(s, p, r, v)
    PROVE  /\ Lossless(v, r) /\ r > 0 =>
                /\ Decoder(s)[p + r].phase = "size" /\ Decoder(s)[p + r].size = v[r]
                /\ Decoder(s)[p + r].body = Decoder(s)[p].body
           /\ ~ Lossless(v, r) => Decoder(s)[Len(s)].phase = "bad"
<1> DEFINE Lost(k) == v[k - 1] > (2^SizeBits - 1) \div 16
           Sized(k) == /\ Decoder(s)[p + k].phase = "size" /\ Decoder(s)[p + k].size = v[k]
                       /\ Decoder(s)[p + k].body = Decoder(s)[p].body
           N == {k \in Nat : k > 0 /\ k <= r /\ (\A j \in 1..k : ~ Lost(j)) => Sized(k)}
<1>0. p \in Nat /\ r \in Nat /\ p + r <= Len(s) /\ Len(s) \in Nat
  BY DEF Digits
<1>1. \A k \in Nat : k < r /\ (k > 0 => Sized(k)) =>
          IF Lost(k + 1) THEN Decoder(s)[p + (k + 1)].phase = "bad" ELSE Sized(k + 1)
  <2> SUFFICES ASSUME NEW k \in Nat, k < r, k > 0 => Sized(k)
               PROVE  IF Lost(k + 1) THEN Decoder(s)[p + (k + 1)].phase = "bad" ELSE Sized(k + 1)
    OBVIOUS
  <2>1. (k + 1) - 1 = k
    OBVIOUS
  <2> QED BY <2>1, DecodeOneDigit
<1> HIDE DEF Lost, Sized
<1>2. 0 \in N
  OBVIOUS
<1>3. \A k \in Nat : k \in N => k + 1 \in N
  BY <1>0, <1>1
<1>4. Nat \subseteq N
  <2> HIDE DEF N
  <2> QED BY <1>2, <1>3, NaturalInduction
<1>5. ASSUME Lossless(v, r), r > 0 PROVE Sized(r)
  BY <1>0, <1>4, <1>5 DEF Lossless, Lost
<1>6. ASSUME ~ Lossless(v, r) PROVE Decoder(s)[Len(s)].phase = "bad"
  <2> DEFINE T == {k \in 1..r : Lost(k)}
  <2>1. T # {} /\ T \in SUBSET Nat
    <3>1. PICK k \in 1..r : Lost(k)
      BY <1>6 DEF Lossless, Lost
    <3> QED BY <1>0, <3>1
  <2>2. PICK k \in T : \A j \in T : k <= j
    BY <2>1, LeastNatural
  <2>3. k - 1 \in Nat /\ k - 1 < r /\ (k - 1) + 1 = k /\ Lost(k)
    BY <1>0, <2>2
  <2>4. k - 1 > 0 => Sized(k - 1)
    <3> SUFFICES ASSUME k - 1 > 0 PROVE Sized(k - 1)
      OBVIOUS
    <3>1. \A j \in 1..(k - 1) : ~ Lost(j)
      BY <1>0, <2>2
    <3>2. k - 1 \in N
      BY <1>4, <2>3
    <3> QED BY <1>0, <2>3, <3>1, <3>2
  <2>5. Decoder(s)[p + k].phase = "bad"
    BY <1>1, <2>3, <2>4
  <2>6. p + k \in 0..Len(s) /\ Len(s) \in (p + k)..Len(s)
    BY <1>0, <2>2
  <2> QED BY <2>5, <2>6, DecoderStays DEF Stopped
<1> QED BY <1>5, <1>6 DEF Sized

\* The data of a chunk.
LEMMA OneMore ==
    ASSUME NEW S, NEW s \in Seq(S), NEW c \in Seq(S), NEW m \in Nat, NEW n \in Nat,
           1 <= m, m <= n + 1, n < Len(s)
    PROVE  Append(c \o SubSeq(s, m, n), s[n + 1]) = c \o SubSeq(s, m, n + 1)
  OBVIOUS

Copied(c, s, m, n) == c \o SubSeq(s, m + 1, n)

DataRun(s, p, n) ==
    \A k \in Nat : k <= n /\ p + k <= Len(s) =>
        /\ Decoder(s)[p + k].phase = IF k = n THEN "dataCR" ELSE "data"
        /\ Decoder(s)[p + k].body = Copied(Decoder(s)[p].body, s, p, p + k)

LEMMA DecodeDataRun ==
    ASSUME NEW S, NEW s \in Seq(S), NEW p \in Nat, p <= Len(s), NEW n \in Nat, n > 0,
           Decoder(s)[p].phase = "data", Decoder(s)[p].size = n
    PROVE  DataRun(s, p, n)
<1> DEFINE c == Decoder(s)[p].body
           CopiedTo(i) == /\ Decoder(s)[p + i].phase = IF i = n THEN "dataCR" ELSE "data"
                        /\ Decoder(s)[p + i].size = n - i
                        /\ Decoder(s)[p + i].body = c \o SubSeq(s, p + 1, p + i)
           N == {i \in Nat : i <= n /\ p + i <= Len(s) => CopiedTo(i)}
<1>0. c \in Seq(S)
  <2>1. Decoder(s)[p] \in DecoderState(S)
    BY DecoderType
  <2> QED BY <2>1 DEF DecoderState
<1>1. 0 \in N
  <2>1. c \o SubSeq(s, p + 1, p + 0) = c
    BY <1>0
  <2>2. p + 0 = p /\ n - 0 = n
    OBVIOUS
  <2>3. CopiedTo(0)
    BY <2>1, <2>2
  <2> HIDE DEF CopiedTo
  <2> QED BY <2>3
<1>2. \A i \in Nat : i \in N => i + 1 \in N
  <2> SUFFICES ASSUME NEW i \in Nat, i \in N, i + 1 <= n, p + (i + 1) <= Len(s)
               PROVE  CopiedTo(i + 1)
    <3> HIDE DEF CopiedTo
    <3> QED OBVIOUS
  <2> DEFINE d == Decoder(s)[p + i]
             b == s[(p + i) + 1]
             e == Decoder(s)[(p + i) + 1]
  <2>1. p + i \in Nat /\ p + i < Len(s) /\ p + (i + 1) = (p + i) + 1 /\ i # n /\ i <= n /\ p + i <= Len(s)
    OBVIOUS
  <2>2. d.phase = "data" /\ d.size = n - i /\ d.body = c \o SubSeq(s, p + 1, p + i)
    BY <2>1
  <2>3. d \in DecoderState(S) /\ b \in S /\ e = DecodeByte(d, b)
    BY <2>1, DecoderStep
  <2>4. Append(c \o SubSeq(s, p + 1, p + i), b) = c \o SubSeq(s, p + 1, p + (i + 1))
    <3> DEFINE m == p + 1
               l == p + i
    <3>1. m \in Nat /\ l \in Nat /\ 1 <= m /\ m <= l + 1 /\ l < Len(s)
      BY <2>1
    <3> HIDE DEF c, m, l, CopiedTo, N, d, e
    <3>2. Append(c \o SubSeq(s, m, l), s[l + 1]) = c \o SubSeq(s, m, l + 1)
      BY <1>0, <3>1, OneMore, Zenon
    <3> QED BY <2>1, <3>2 DEF m, l
  <2> HIDE DEF d, b, e, c
  <2>5. e.body = Append(d.body, b) /\ e.size = d.size - 1
        /\ e.phase = IF d.size = 1 THEN "dataCR" ELSE "data"
    BY <2>2, <2>3, DecodeData
  <2>6. d.size - 1 = n - (i + 1) /\ (d.size = 1 <=> i + 1 = n)
    BY <2>1, <2>2
  <2>7. e.body = c \o SubSeq(s, p + 1, p + (i + 1))
    BY <2>2, <2>4, <2>5
  <2> QED BY <2>1, <2>5, <2>6, <2>7 DEF e
<1>3. Nat \subseteq N
  <2> HIDE DEF N
  <2> QED BY <1>1, <1>2, NaturalInduction
<1>4. \A k \in Nat : k <= n /\ p + k <= Len(s) => CopiedTo(k)
  <2> HIDE DEF CopiedTo
  <2> QED BY <1>3
<1> QED BY <1>4 DEF DataRun, Copied

-----------------------------------------------------------------------------
(***************************************************************************)
(* The parser of a chunked body and the decoder.  While Parse runs, the    *)
(* decoder fed with the bytes up to buffer_read_pos is where the parser is;*)
(* when it returns, what the bytes after that lead the decoder to is never *)
(* something the parser should have told.                                  *)
(***************************************************************************)
Abreast ==
    LET d == Decoder(BodyFed)[buffer_read_pos]
    IN  /\ d.body = body
        /\ next_chunk_size = -1 => d.phase = "start"
        /\ next_chunk_size = 0 => d.phase = "lastCR"
        /\ next_chunk_size > 0 =>
             IF BodyTooLarge THEN d.phase = "large"
             ELSE d.phase = "data" /\ d.size = next_chunk_size

Unsettled ==
    /\ Decoded.phase \notin {"done", "large"}
    /\ Decoded.phase = "bad" => Decoded.late = 0 \/ Decoded.empty

ChunkInv ==
    content_length = -1 =>
        /\ state = "body" /\ status = 0 => Abreast /\ (~ busy => Unsettled)
        /\ state = "body" /\ status # 0 => \/ status = 413 /\ Decoded.phase = "large"
                                           \/ status = 400 /\ Decoded.phase = "bad"
        /\ state = "done" /\ busy =>
             \E n \in 0..Len(BodyFed) : n < Len(BodyFed) /\ Decoder(BodyFed)[n].phase = "done"
        /\ state = "done" /\ ~ busy /\ status = 0 =>
             Decoded.phase = "done" /\ body = Decoded.body
        /\ state = "done" /\ status # 0 => status = 400 /\ Decoded.phase = "bad"

LEMMA ChunkFacts ==
    ASSUME ParserInv, ChunkInv, Chunked
    PROVE  /\ busy /\ state = "body" /\ status = 0 /\ content_length = -1 /\ Abreast
           /\ buffer = BodyFed /\ buffer \in Seq(BodyBytes[client]) /\ Len(buffer) \in Nat
           /\ buffer_read_pos \in Nat /\ buffer_read_pos <= Len(buffer)
           /\ Decoded = Decoder(buffer)[Len(buffer)] /\ Limit \in Nat
           /\ BodyFed' = BodyFed /\ Decoded' = Decoded /\ content_length' = content_length
<1>1. busy /\ state = "body" /\ content_length < 0 /\ UNCHANGED <<stream, content_length>>
  BY DEF Chunked
<1>2. content_length = -1 /\ status = 0
  <2>1. content_length = -1 \/ content_length \in 0..Limit
    BY <1>1 DEF ParserInv, BodyHeadersEnsured
  <2> QED BY <1>1, <2>1, ParserAssumption DEF ParserInv
<1>3. buffer = BodyFed /\ buffer \in Seq(BodyBytes[client])
  BY <1>1 DEF ParserInv, BodyInv
<1>4. BodyFed' = BodyFed /\ Decoded' = Decoded
  BY <1>1 DEF BodyFed, Decoded
<1>5. Len(buffer) \in Nat
  BY <1>3
<1>6. buffer_read_pos \in Nat /\ buffer_read_pos <= Len(buffer)
  BY DEF ParserInv, TypeOK, ReadPosInBuffer
<1>7. Decoded = Decoder(buffer)[Len(buffer)]
  BY <1>3 DEF Decoded
<1>8. Abreast
  BY <1>1, <1>2 DEF ChunkInv
<1>9. Limit \in Nat
  BY ParserAssumption
<1> QED BY <1>1, <1>2, <1>3, <1>4, <1>5, <1>6, <1>7, <1>8, <1>9

\* A step after which Parse returns.
LEMMA ChunkReturns ==
    ASSUME ParserInv, ChunkInv, Chunked,
           \/ Wait /\ Unsettled
           \/ Throw(400) /\ Decoded.phase = "bad"
           \/ Throw(413) /\ Decoded.phase = "large"
    PROVE  ChunkInv'
<1>1. /\ state = "body" /\ status = 0 /\ content_length = -1 /\ Abreast
      /\ BodyFed' = BodyFed /\ Decoded' = Decoded /\ content_length' = content_length
  BY ChunkFacts
<1>2. UNCHANGED <<buffer, state, buffer_read_pos, next_chunk_size, body>> /\ busy' = FALSE
  BY DEF Wait, Throw, bodyVars
<1>3. CASE Wait /\ Unsettled
  <2>1. status' = status
    BY <1>3 DEF Wait
  <2>2. Abreast'
    BY <1>1, <1>2 DEF Abreast, BodyTooLarge
  <2>3. Unsettled'
    BY <1>1, <1>3 DEF Unsettled
  <2> QED BY <1>1, <1>2, <2>1, <2>2, <2>3 DEF ChunkInv
<1>4. CASE Throw(400) /\ Decoded.phase = "bad"
  <2>1. status' = 400
    BY <1>4 DEF Throw
  <2> QED BY <1>1, <1>2, <1>4, <2>1 DEF ChunkInv
<1>5. CASE Throw(413) /\ Decoded.phase = "large"
  <2>1. status' = 413
    BY <1>5 DEF Throw
  <2> QED BY <1>1, <1>2, <1>5, <2>1 DEF ChunkInv
<1> QED BY <1>3, <1>4, <1>5

\* A step after which the loop goes on.
LEMMA ChunkGoesOn ==
    ASSUME ParserInv, ChunkInv, Chunked, Abreast', UNCHANGED <<busy, state, status>>
    PROVE  ChunkInv'
<1>1. busy /\ state = "body" /\ status = 0
  BY ChunkFacts
<1> QED BY <1>1 DEF ChunkInv

LEMMA ValidateFinalCRLFAgrees ==
    ASSUME ParserInv, ChunkInv, ValidateFinalCRLF PROVE ChunkInv'
<1> DEFINE p == buffer_read_pos
           D(n) == Decoder(buffer)[n]
<1>0. Chunked /\ next_chunk_size = 0
  BY DEF ValidateFinalCRLF
<1>1. /\ buffer \in Seq(BodyBytes[client]) /\ Len(buffer) \in Nat
      /\ p \in Nat /\ p <= Len(buffer) /\ Decoded = D(Len(buffer)) /\ buffer = BodyFed
  BY <1>0, ChunkFacts
<1>2. D(p).phase = "lastCR" /\ D(p).body = body
  BY <1>0, <1>1, ChunkFacts DEF Abreast
<1>3. p < Len(buffer) =>
        /\ IF buffer[p + 1] = "CR" THEN D(p + 1).phase \in AwaitLF
           ELSE D(p + 1).phase = "bad" /\ D(p + 1).late = 0
        /\ p + 1 < Len(buffer) =>
             IF IsCRLF(p) THEN D(p + 2).phase = "done" /\ D(p + 2).body = body
             ELSE D(p + 2).phase = "bad"
  <2> SUFFICES ASSUME p < Len(buffer)
               PROVE  /\ IF buffer[p + 1] = "CR" THEN D(p + 1).phase \in AwaitLF
                         ELSE D(p + 1).phase = "bad" /\ D(p + 1).late = 0
                      /\ p + 1 < Len(buffer) =>
                           IF IsCRLF(p) THEN D(p + 2).phase = "done" /\ D(p + 2).body = body
                           ELSE D(p + 2).phase = "bad"
    OBVIOUS
  <2>1. AfterCRLF(D(p)) = "done"
    BY <1>2 DEF AfterCRLF
  <2>2. /\ IF buffer[p + 1] = "CR" THEN D(p + 1).phase \in AwaitLF
           ELSE D(p + 1).phase = "bad" /\ D(p + 1).late = 0
        /\ p + 1 < Len(buffer) =>
             IF buffer[p + 1] = "CR" /\ buffer[p + 2] = "LF"
             THEN D(p + 2).phase = AfterCRLF(D(p)) /\ D(p + 2).body = D(p).body
             ELSE D(p + 2).phase = "bad"
    BY <1>1, <1>2, DecodeCRLF
  <2> QED BY <1>2, <2>1, <2>2 DEF IsCRLF
<1> HIDE DEF D
<1>4. CASE ~ HasTwo(p) /\ Wait
  <2>1. Len(buffer) = p \/ Len(buffer) = p + 1
    BY <1>1, <1>4 DEF HasTwo
  <2>2. Unsettled
    BY <1>1, <1>2, <1>3, <2>1 DEF Unsettled, AwaitLF
  <2> QED BY <1>0, <1>4, <2>2, ChunkReturns
<1>5. CASE HasTwo(p) /\ (~ IsCRLF(p) \/ p + 2 # Len(buffer)) /\ Throw(400)
  <2>1. p + 2 \in 0..Len(buffer) /\ Len(buffer) \in (p + 2)..Len(buffer) /\ p < Len(buffer)
        /\ p + 1 < Len(buffer)
    BY <1>1, <1>5 DEF HasTwo
  <2>2. D(Len(buffer)).phase = "bad"
    <3>1. /\ D(p + 2).phase \in Stopped => D(Len(buffer)).phase = D(p + 2).phase
          /\ D(p + 2).phase = "done" /\ p + 2 < Len(buffer) => D(Len(buffer)).phase = "bad"
      BY <1>1, <2>1, DecoderStays DEF D
    <3>2. CASE IsCRLF(p)
      <4>1. p + 2 < Len(buffer)
        BY <1>1, <1>5, <2>1, <3>2
      <4> QED BY <1>3, <2>1, <3>1, <3>2, <4>1
    <3>3. CASE ~ IsCRLF(p)
      BY <1>3, <2>1, <3>1, <3>3 DEF Stopped
    <3> QED BY <3>2, <3>3
  <2> QED BY <1>0, <1>1, <1>5, <2>2, ChunkReturns
<1>6. CASE /\ HasTwo(p) /\ IsCRLF(p) /\ p + 2 = Len(buffer)
           /\ state' = "done" /\ busy' = FALSE /\ UNCHANGED <<body, status>>
  <2>1. p < Len(buffer) /\ p + 1 < Len(buffer)
    BY <1>1, <1>6
  <2>2. Decoded.phase = "done" /\ Decoded.body = body
    BY <1>1, <1>3, <1>6, <2>1
  <2>3. Decoded' = Decoded /\ status = 0
    BY <1>0, ChunkFacts
  <2> QED BY <1>6, <2>2, <2>3 DEF ChunkInv
<1> QED BY <1>4, <1>5, <1>6 DEF ValidateFinalCRLF

LEMMA AppendChunkDataAgrees ==
    ASSUME ParserInv, ChunkInv, AppendChunkData PROVE ChunkInv'
<1> DEFINE p == buffer_read_pos
           n == next_chunk_size
           end == p + n
           D(k) == Decoder(buffer)[k]
<1>0. Chunked /\ next_chunk_size \notin {-1, 0}
  BY DEF AppendChunkData
<1>1. /\ buffer \in Seq(BodyBytes[client]) /\ Len(buffer) \in Nat
      /\ p \in Nat /\ p <= Len(buffer) /\ Decoded = D(Len(buffer)) /\ buffer = BodyFed
      /\ BodyFed' = BodyFed
  BY <1>0, ChunkFacts
<1>2. n \in Nat /\ n > 0
  BY <1>0, ParserAssumption DEF ParserInv
<1>3. /\ D(p).body = body
      /\ IF BodyTooLarge THEN D(p).phase = "large"
         ELSE D(p).phase = "data" /\ D(p).size = n
  BY <1>0, <1>1, <1>2, ChunkFacts DEF Abreast
<1>4. CASE BodyTooLarge /\ Throw(413)
  <2>1. p \in 0..Len(buffer) /\ Len(buffer) \in p..Len(buffer)
    BY <1>1
  <2>2. Decoded.phase = "large"
    BY <1>1, <1>3, <1>4, <2>1, DecoderStays DEF Stopped
  <2> QED BY <1>0, <1>4, <2>2, ChunkReturns
<1>5. ASSUME ~ BodyTooLarge
      PROVE  \A k \in Nat : k <= n /\ p + k <= Len(buffer) =>
               /\ D(p + k).phase = IF k = n THEN "dataCR" ELSE "data"
               /\ D(p + k).body = Copied(body, buffer, p, p + k)
  <2>1. D(p).phase = "data" /\ D(p).size = n /\ D(p).body = body
    BY <1>3, <1>5
  <2>2. buffer \in Seq(BodyBytes[client]) /\ p \in Nat /\ n \in Nat /\ n > 0 /\ p <= Len(buffer)
    BY <1>1, <1>2
  <2> HIDE DEF n, p
  <2>3. DataRun(buffer, p, n)
    BY <2>1, <2>2, DecodeDataRun
  <2> QED BY <2>1, <2>3 DEF DataRun
<1>6. ASSUME ~ BodyTooLarge, end < Len(buffer)
      PROVE  /\ IF buffer[end + 1] = "CR" THEN D(end + 1).phase \in AwaitLF
                ELSE D(end + 1).phase = "bad" /\ D(end + 1).late = 0
             /\ end + 1 < Len(buffer) =>
                  IF IsCRLF(end) THEN /\ D(end + 2).phase = "start"
                                      /\ D(end + 2).body = D(end).body
                  ELSE D(end + 2).phase = "bad"
  <2>1. end \in Nat /\ end <= Len(buffer) /\ n <= n
    BY <1>1, <1>2, <1>6
  <2>2. D(end).phase = "dataCR"
    BY <1>2, <1>5, <1>6, <2>1
  <2>3. AfterCRLF(D(end)) = "start"
    BY <2>2 DEF AfterCRLF
  <2> HIDE DEF end
  <2>4. /\ IF buffer[end + 1] = "CR" THEN D(end + 1).phase \in AwaitLF
           ELSE D(end + 1).phase = "bad" /\ D(end + 1).late = 0
        /\ end + 1 < Len(buffer) =>
             IF buffer[end + 1] = "CR" /\ buffer[end + 2] = "LF"
             THEN D(end + 2).phase = AfterCRLF(D(end)) /\ D(end + 2).body = D(end).body
             ELSE D(end + 2).phase = "bad"
    BY <1>1, <1>6, <2>1, <2>2, DecodeCRLF
  <2> QED BY <2>3, <2>4 DEF IsCRLF
<1> HIDE DEF D
<1>7. CASE ~ BodyTooLarge /\ ~ HasTwo(end) /\ Wait
  <2>1. Unsettled
    <3>1. CASE Len(buffer) = end + 1
      <4>1. end < Len(buffer)
        BY <1>1, <1>2, <3>1
      <4> QED BY <1>1, <1>6, <1>7, <3>1, <4>1 DEF Unsettled, AwaitLF
    <3>2. CASE Len(buffer) # end + 1
      <4>1. Len(buffer) - p \in Nat /\ Len(buffer) - p <= n /\ p + (Len(buffer) - p) = Len(buffer)
        BY <1>1, <1>2, <1>7, <3>2 DEF HasTwo
      <4>2. D(Len(buffer)).phase \in {"dataCR", "data"}
        BY <1>1, <1>5, <1>7, <4>1
      <4> QED BY <1>1, <4>2 DEF Unsettled
    <3> QED BY <3>1, <3>2
  <2> QED BY <1>0, <1>7, <2>1, ChunkReturns
<1>8. CASE ~ BodyTooLarge /\ HasTwo(end) /\ ~ IsCRLF(end) /\ Throw(400)
  <2>1. end < Len(buffer) /\ end + 1 < Len(buffer) /\ end + 2 \in 0..Len(buffer)
        /\ Len(buffer) \in (end + 2)..Len(buffer)
    BY <1>1, <1>2, <1>8 DEF HasTwo
  <2>2. D(end + 2).phase = "bad"
    BY <1>6, <1>8, <2>1
  <2>3. Decoded.phase = "bad"
    BY <1>1, <2>1, <2>2, DecoderStays DEF Stopped, D
  <2> QED BY <1>0, <1>8, <2>3, ChunkReturns
<1>9. CASE /\ ~ BodyTooLarge /\ HasTwo(end) /\ IsCRLF(end)
           /\ body' = body \o SubSeq(buffer, buffer_read_pos + 1, end)
           /\ buffer_read_pos' = end + 2
           /\ next_chunk_size' = -1
           /\ UNCHANGED <<busy, buffer, state, status>>
  <2>1. end < Len(buffer) /\ end + 1 < Len(buffer) /\ end <= Len(buffer) /\ n <= n
    BY <1>1, <1>2, <1>9 DEF HasTwo
  <2>2. D(end + 2).phase = "start" /\ D(end + 2).body = D(end).body
    BY <1>6, <1>9, <2>1
  <2>3. D(end).body = body'
    BY <1>2, <1>5, <1>9, <2>1 DEF Copied
  <2>4. Decoder(BodyFed')[buffer_read_pos'] = D(end + 2)
    BY <1>1, <1>9 DEF D
  <2>5. Abreast'
    <3>1. ~ (next_chunk_size' > 0) /\ next_chunk_size' # 0
      BY <1>9
    <3>2. D(end + 2).body = body' /\ D(end + 2).phase = "start"
      BY <2>2, <2>3
    <3> HIDE DEF end
    <3> QED BY <3>1, <3>2, <2>4 DEF Abreast
  <2> QED BY <1>0, <1>9, <2>5, ChunkGoesOn
<1> QED BY <1>4, <1>7, <1>8, <1>9 DEF AppendChunkData

LEMMA ParseChunkSizeAgrees ==
    ASSUME ParserInv, ChunkInv, ParseChunkSize PROVE ChunkInv'
<1> DEFINE p == buffer_read_pos
           r == DigitRun
           v == ChunkValue
           stop == p + r
           D(k) == Decoder(buffer)[k]
<1>0. Chunked /\ next_chunk_size = -1
  BY DEF ParseChunkSize
<1>1. /\ buffer \in Seq(BodyBytes[client]) /\ Len(buffer) \in Nat
      /\ p \in Nat /\ p <= Len(buffer) /\ Decoded = D(Len(buffer)) /\ buffer = BodyFed
      /\ BodyFed' = BodyFed /\ Limit \in Nat
  BY <1>0, ChunkFacts
<1>2. D(p).phase = "start" /\ D(p).body = body
  BY <1>0, <1>1, ChunkFacts DEF Abreast
<1>3. /\ r \in Nat /\ stop \in Nat /\ stop <= Len(buffer)
      /\ stop < Len(buffer) => buffer[stop + 1] \notin HexDigits
  <2>1. r \in 0..(Len(buffer) - p) /\ (stop = Len(buffer) \/ buffer[stop + 1] \notin HexDigits)
    BY DigitRunIs
  <2> QED BY <1>1, <2>1
<1>4. Digits(buffer, p, r, v) /\ v[r] \in Nat
  <2>1. \A k \in 1..r : buffer[p + k] \in HexDigits
    BY DigitRunIs
  <2>2. /\ v[0] = 0 /\ \A k \in 0..r : v[k] \in Nat
        /\ \A k \in 1..r : v[k] = v[k - 1] * 16 + HexValue(buffer[p + k])
    BY ChunkValueIs
  <2>3. v[r] \in Nat
    BY <1>3, <2>2
  <2> QED BY <1>2, <1>3, <2>1, <2>2, <2>3 DEF Digits
<1>5. Overflows <=> ~ Lossless(v, r)
  BY DEF Overflows, Lossless
<1>6. /\ ~ Overflows /\ r > 0 => D(stop).phase = "size" /\ D(stop).size = v[r] /\ D(stop).body = body
      /\ Overflows => Decoded.phase = "bad"
  <2> HIDE DEF p, r, v
  <2> QED BY <1>1, <1>2, <1>3, <1>4, <1>5, DecodeDigits
\* A line with digits.
<1>7. ASSUME ~ Overflows, r > 0, stop < Len(buffer)
      PROVE  /\ IF buffer[stop + 1] = "CR" THEN D(stop + 1).phase \in AwaitLF
                ELSE D(stop + 1).phase = "bad"
             /\ stop + 1 < Len(buffer) =>
                  IF IsCRLF(stop)
                  THEN D(stop + 2).phase = AfterSize(D(stop)) /\ D(stop + 2).body = body
                       /\ D(stop + 2).size = v[r]
                  ELSE D(stop + 2).phase = "bad"
  <2>1. D(stop).phase = "size" /\ D(stop).body = body /\ D(stop).size = v[r]
    BY <1>6, <1>7
  <2>2. AfterCRLF(D(stop)) = AfterSize(D(stop))
    BY <2>1 DEF AfterCRLF
  <2> HIDE DEF stop, v, r
  <2>3. /\ IF buffer[stop + 1] = "CR" THEN D(stop + 1).phase \in AwaitLF
           ELSE D(stop + 1).phase = "bad"
        /\ stop + 1 < Len(buffer) =>
             IF buffer[stop + 1] = "CR" /\ buffer[stop + 2] = "LF"
             THEN D(stop + 2).phase = AfterCRLF(D(stop)) /\ D(stop + 2).body = D(stop).body
                  /\ D(stop + 2).size = D(stop).size
             ELSE D(stop + 2).phase = "bad"
    BY <1>1, <1>3, <1>7, <2>1, DecodeCRLF
  <2> QED BY <2>1, <2>2, <2>3 DEF IsCRLF
\* A line without.
<1>8. ASSUME r = 0, stop < Len(buffer)
      PROVE  D(stop + 1).phase = "bad" /\ (buffer[stop + 1] = "CR" => D(stop + 1).empty)
  <2>1. stop = p /\ p < Len(buffer) /\ buffer[p + 1] \notin HexDigits
    BY <1>1, <1>3, <1>8
  <2>2. D(p) \in DecoderState(BodyBytes[client]) /\ buffer[p + 1] \in BodyBytes[client]
        /\ D(p + 1) = DecodeByte(D(p), buffer[p + 1])
    BY <1>1, <2>1, DecoderStep
  <2> HIDE DEF D, p
  <2>3. D(p + 1).phase = "bad" /\ (buffer[p + 1] = "CR" => D(p + 1).empty)
    BY <1>2, <2>1, <2>2, DecodeStart
  <2> QED BY <2>1, <2>3
<1>9. \A m \in 0..Len(buffer) :
        /\ D(m).phase = "bad" => Decoded.phase = "bad" /\ (D(m).empty => Decoded.empty)
        /\ D(m).phase = "large" => Decoded.phase = "large"
  <2> SUFFICES ASSUME NEW m \in 0..Len(buffer), D(m).phase \in Stopped
               PROVE  Decoded.phase = D(m).phase /\ Decoded.empty = D(m).empty
    BY DEF Stopped
  <2>1. Len(buffer) \in m..Len(buffer)
    BY <1>1
  <2> QED BY <1>1, <2>1, DecoderStays
<1> HIDE DEF D
<1>10. CASE /\ \/ Overflows
               \/ stop < Len(buffer) /\ buffer[stop + 1] # "CR"
               \/ r > 0 /\ HasTwo(stop) /\ ~ IsCRLF(stop)
            /\ Throw(400)
  <2>1. CASE Overflows
    BY <1>0, <1>6, <1>10, <2>1, ChunkReturns
  <2>2. CASE ~ Overflows /\ stop < Len(buffer) /\ buffer[stop + 1] # "CR"
    <3>1. stop + 1 \in 0..Len(buffer) /\ (r > 0 \/ r = 0)
      BY <1>1, <1>3, <2>2
    <3>2. D(stop + 1).phase = "bad"
      BY <1>7, <1>8, <2>2, <3>1
    <3> QED BY <1>0, <1>9, <1>10, <3>1, <3>2, ChunkReturns
  <2>3. CASE ~ Overflows /\ r > 0 /\ HasTwo(stop) /\ ~ IsCRLF(stop)
    <3>1. stop + 2 \in 0..Len(buffer) /\ stop < Len(buffer) /\ stop + 1 < Len(buffer)
      BY <1>1, <1>3, <2>3 DEF HasTwo
    <3>2. D(stop + 2).phase = "bad"
      BY <1>7, <2>3, <3>1
    <3> QED BY <1>0, <1>9, <1>10, <3>1, <3>2, ChunkReturns
  <2> QED BY <1>10, <2>1, <2>2, <2>3
<1>11. CASE /\ ~ Overflows
            /\ stop < Len(buffer) => buffer[stop + 1] = "CR"
            /\ r = 0 \/ ~ HasTwo(stop)
            /\ Wait
  <2>1. CASE stop = Len(buffer)
    <3>1. Decoded.phase \in {"start", "size"}
      <4>1. CASE r = 0
        <5>1. stop = p
          BY <1>1, <4>1
        <5> QED BY <1>1, <1>2, <2>1, <5>1
      <4>2. CASE r > 0
        BY <1>1, <1>6, <1>11, <2>1, <4>2
      <4> QED BY <1>3, <4>1, <4>2
    <3>2. Unsettled
      BY <3>1 DEF Unsettled
    <3> QED BY <1>0, <1>11, <3>2, ChunkReturns
  <2>2. CASE stop < Len(buffer) /\ r = 0
    <3>1. D(stop + 1).phase = "bad" /\ D(stop + 1).empty /\ stop + 1 \in 0..Len(buffer)
      BY <1>1, <1>3, <1>8, <1>11, <2>2
    <3>2. Unsettled
      BY <1>9, <3>1 DEF Unsettled
    <3> QED BY <1>0, <1>11, <3>2, ChunkReturns
  <2>3. CASE stop < Len(buffer) /\ r > 0
    <3>1. Len(buffer) = stop + 1
      BY <1>1, <1>3, <1>11, <2>3 DEF HasTwo
    <3>2. Decoded.phase \in AwaitLF
      BY <1>1, <1>7, <1>11, <2>3, <3>1
    <3>3. Unsettled
      BY <3>2 DEF Unsettled, AwaitLF
    <3> QED BY <1>0, <1>11, <3>3, ChunkReturns
  <2> QED BY <1>1, <1>3, <2>1, <2>2, <2>3
<1>12. ASSUME ~ Overflows, r > 0, HasTwo(stop), IsCRLF(stop)
       PROVE  /\ stop + 2 \in 0..Len(buffer) /\ D(stop + 2).body = body /\ D(stop + 2).size = v[r]
              /\ D(stop + 2).phase = IF v[r] = 0 THEN "lastCR"
                                     ELSE IF Len(body) + v[r] > Limit THEN "large" ELSE "data"
  <2>1. stop + 2 \in 0..Len(buffer) /\ stop < Len(buffer) /\ stop + 1 < Len(buffer)
    BY <1>1, <1>3, <1>12 DEF HasTwo
  <2>2. AfterSize(D(stop)) = IF v[r] = 0 THEN "lastCR"
                             ELSE IF Len(body) + v[r] > Limit THEN "large" ELSE "data"
    BY <1>6, <1>12 DEF AfterSize
  <2> QED BY <1>7, <1>12, <2>1, <2>2
<1>13. Len(body) \in Nat
  BY DEF ParserInv, TypeOK
<1>14. CASE /\ ~ Overflows /\ r > 0 /\ HasTwo(stop) /\ IsCRLF(stop)
            /\ v[r] > Limit /\ Throw(413)
  <2>1. D(stop + 2).phase = "large"
    BY <1>1, <1>4, <1>12, <1>13, <1>14
  <2> QED BY <1>0, <1>9, <1>12, <1>14, <2>1, ChunkReturns
<1>15. CASE /\ ~ Overflows /\ r > 0 /\ HasTwo(stop) /\ IsCRLF(stop)
            /\ v[r] <= Limit
            /\ buffer_read_pos' = stop + 2
            /\ next_chunk_size' = v[r]
            /\ UNCHANGED <<busy, buffer, state, body, status>>
  <2>1. Decoder(BodyFed')[buffer_read_pos'] = D(stop + 2)
    BY <1>1, <1>15 DEF D
  <2>2. BodyTooLarge' <=> Len(body) + v[r] > Limit
    BY <1>1, <1>4, <1>13, <1>15 DEF BodyTooLarge
  <2>3. /\ D(stop + 2).body = body' /\ D(stop + 2).size = next_chunk_size'
        /\ next_chunk_size' \in Nat
        /\ D(stop + 2).phase = IF next_chunk_size' = 0 THEN "lastCR"
                               ELSE IF BodyTooLarge' THEN "large" ELSE "data"
    BY <1>4, <1>12, <1>15, <2>2
  <2>4. Abreast'
    <3> HIDE DEF stop
    <3> QED BY <2>1, <2>3 DEF Abreast
  <2> QED BY <1>0, <1>15, <2>4, ChunkGoesOn
<1> QED BY <1>10, <1>11, <1>14, <1>15 DEF ParseChunkSize

LEMMA RecvAgrees ==
    ASSUME ParserInv, ChunkInv, Recv PROVE ChunkInv'
<1>1. /\ ~ busy /\ status = 0 /\ busy' = TRUE
      /\ UNCHANGED <<client, state, content_length, buffer_read_pos, next_chunk_size, body, status>>
  BY DEF Recv, bodyVars
<1> SUFFICES ASSUME state # "header", content_length = -1 PROVE ChunkInv'
  BY <1>1 DEF ChunkInv, ParserInv, TypeOK
<1>2. PICK segment \in Seq(BodyBytes[client]) : Len(segment) >= 1 /\ BodyFed' = BodyFed \o segment
  BY RecvFeeds
<1>3. BodyFed \in Seq(BodyBytes[client]) /\ Len(BodyFed) \in Nat
  <2>1. BodyFed \in Seq(BodyBytes[client])
    BY FedBytes DEF ParserInv, BodyInv
  <2> QED BY <2>1
<1> HIDE DEF BodyFed
<1>4. Len(BodyFed') \in Nat /\ Len(BodyFed') > Len(BodyFed)
  <2>1. Len(BodyFed') = Len(BodyFed) + Len(segment)
    BY <1>2, <1>3, Joined
  <2> QED BY <1>2, <1>3, <2>1
<1>5. \A n \in 0..Len(BodyFed) : Decoder(BodyFed')[n] = Decoder(BodyFed)[n]
  BY <1>2, <1>3, DecoderGrows
<1>6. CASE state = "body"
  <2>1. buffer_read_pos \in 0..Len(BodyFed)
    BY <1>3, <1>6 DEF ParserInv, BodyInv, TypeOK, ReadPosInBuffer
  <2>2. Decoder(BodyFed')[buffer_read_pos'] = Decoder(BodyFed)[buffer_read_pos]
    BY <1>1, <1>5, <2>1
  <2>3. Abreast
    BY <1>1, <1>6 DEF ChunkInv
  <2>4. Abreast'
    BY <1>1, <2>2, <2>3 DEF Abreast, BodyTooLarge
  <2> QED BY <1>1, <1>6, <2>4 DEF ChunkInv
<1>7. CASE state = "done"
  <2>1. Decoder(BodyFed)[Len(BodyFed)].phase = "done"
    BY <1>1, <1>7 DEF ChunkInv, Decoded
  <2>2. Len(BodyFed) \in 0..Len(BodyFed) /\ Len(BodyFed) \in 0..Len(BodyFed')
    BY <1>3, <1>4
  <2>3. \E n \in 0..Len(BodyFed') : n < Len(BodyFed') /\ Decoder(BodyFed')[n].phase = "done"
    BY <1>4, <1>5, <2>1, <2>2
  <2> QED BY <1>1, <1>7, <2>3 DEF ChunkInv
<1> QED BY <1>6, <1>7 DEF ParserInv, TypeOK

LEMMA AdvanceHeaderAgrees ==
    ASSUME ParserInv, AdvanceHeader PROVE ChunkInv'
<1>0. ParserInv'
  BY AdvanceHeaderInv
<1>1. state = "header" /\ busy /\ status = 0
  BY DEF AdvanceHeader, ParserInv
<1>2. CASE state' = "header"
  BY <1>2 DEF ChunkInv
<1>3. CASE state' # "header"
  <2>1. /\ state' = "body" /\ UNCHANGED <<busy, status, buffer_read_pos, next_chunk_size, body>>
    BY <1>1, <1>3 DEF AdvanceHeader, Wait, Throw, bodyVars
  <2>2. buffer_read_pos = 0 /\ next_chunk_size = -1 /\ body = <<>>
    BY <1>1 DEF ParserInv, HeaderInv
  <2>3. BodyFed' \in Seq(BodyBytes[client]')
    BY <1>0, <2>1 DEF ParserInv, BodyInv
  <2> HIDE DEF BodyFed
  <2>4. Decoder(BodyFed')[0] = Start
    BY <2>3, DecoderIs
  <2>5. Abreast'
    BY <2>1, <2>2, <2>4 DEF Abreast, Start
  <2> QED BY <1>1, <2>1, <2>5 DEF ChunkInv
<1> QED BY <1>2, <1>3

LEMMA ChunkStep == ParserInv /\ ChunkInv /\ [Next]_vars => ChunkInv'
<1> SUFFICES ASSUME ParserInv, ChunkInv, [Next]_vars PROVE ChunkInv'
  OBVIOUS
<1>1. CASE AdvanceContentLengthBody
  <2>1. content_length >= 0 /\ content_length' = content_length
    BY <1>1 DEF AdvanceContentLengthBody
  <2> QED BY <2>1 DEF ChunkInv
<1>2. CASE OnExtraDataAfterDone
  <2>1. /\ busy /\ state = "done" /\ busy' = FALSE /\ status' = 400
        /\ UNCHANGED <<stream, state, content_length>>
    BY <1>2 DEF OnExtraDataAfterDone, Throw
  <2> SUFFICES ASSUME content_length = -1 PROVE Decoded.phase = "bad" /\ Decoded' = Decoded
    BY <2>1 DEF ChunkInv
  <2>2. Decoded' = Decoded
    BY <2>1 DEF Decoded, BodyFed
  <2>3. BodyFed \in Seq(BodyBytes[client]) /\ Len(BodyFed) \in Nat
    <3>1. BodyFed \in Seq(BodyBytes[client])
      BY <2>1, FedBytes DEF ParserInv, BodyInv
    <3> QED BY <3>1
  <2> HIDE DEF BodyFed
  <2>4. PICK n \in 0..Len(BodyFed) : n < Len(BodyFed) /\ Decoder(BodyFed)[n].phase = "done"
    BY <2>1 DEF ChunkInv
  <2>5. Len(BodyFed) \in n..Len(BodyFed)
    BY <2>3, <2>4
  <2>6. Decoded.phase = "bad"
    BY <2>3, <2>4, <2>5, DecoderStays DEF Decoded
  <2> QED BY <2>2, <2>6
<1>3. CASE UNCHANGED vars
  BY <1>3 DEF vars, bodyVars, ChunkInv, Abreast, Unsettled, BodyTooLarge, Decoded, BodyFed
<1> QED BY <1>1, <1>2, <1>3, RecvAgrees, AdvanceHeaderAgrees, ParseChunkSizeAgrees,
           ValidateFinalCRLFAgrees, AppendChunkDataAgrees DEF Next, Advance

LEMMA ChunkInvAlways == Spec => []ChunkInv
<1>1. Init => ChunkInv
  BY DEF Init, ChunkInv
<1> QED BY <1>1, ChunkStep, ParserInvAlways, PTL DEF Spec

\* The parser of a chunked body accepts exactly the bodies that the reference
\* decoder accepts, with the same bytes, refuses with 413 exactly the ones that
\* grow past client_max_body_size, and with 400 only malformed ones: for every
\* stream, every way it is split into segments, and every width of a size_t.
THEOREM AlwaysChunkedAgrees == Spec => []ChunkedAgrees
<1>1. ParserInv /\ ChunkInv => ChunkedAgrees
  <2> SUFFICES ASSUME ParserInv, ChunkInv, InChunkedBody
               PROVE  /\ state = "done" /\ status = 0 <=> Decoded.phase = "done"
                      /\ Decoded.phase = "done" => body = Decoded.body
                      /\ status = 413 <=> Decoded.phase = "large"
                      /\ status \notin {0, 413} => status = 400 /\ Decoded.phase = "bad"
    BY DEF ChunkedAgrees
  <2>1. ~ busy /\ content_length = -1 /\ state \in {"body", "done"}
    BY DEF InChunkedBody, ParserInv, TypeOK
  <2> QED BY <2>1 DEF ChunkInv, Unsettled
<1> QED BY <1>1, ParserInvAlways, ChunkInvAlways, PTL

\* A malformed chunked body is refused at the latest with the byte after the one
\* that makes it malformed, for every stream and every way it is split; only a
\* size line without digits is kept waiting.
THEOREM AlwaysMalformedNoticed == Spec => []MalformedNoticed
<1>1. ParserInv /\ ChunkInv => MalformedNoticed
  <2> SUFFICES ASSUME ParserInv, ChunkInv, InChunkedBody, status = 0, Decoded.phase = "bad"
               PROVE  Decoded.late = 0 \/ Decoded.empty
    BY DEF MalformedNoticed
  <2>1. ~ busy /\ content_length = -1 /\ state \in {"body", "done"}
    BY DEF InChunkedBody, ParserInv, TypeOK
  <2> QED BY <2>1 DEF ChunkInv, Unsettled
<1> QED BY <1>1, ParserInvAlways, ChunkInvAlways, PTL
=============================================================================
