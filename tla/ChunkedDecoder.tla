-------------------------- MODULE ChunkedDecoder ---------------------------
(***************************************************************************)
(* A reference decoder of the chunked encoding "size CRLF data CRLF ... 0  *)
(* CRLF CRLF" that takes one byte at a time and never looks back, and what *)
(* it has to do with the parser of HttpRequest, which buffers, rescans and *)
(* is called with arbitrary segments.                                      *)
(***************************************************************************)
EXTENDS HttpRequest

Start == [phase |-> "start", size |-> 0, body |-> <<>>, late |-> 0,
          empty |-> FALSE]

\* A malformed byte; `empty` if it is the end of a size line without digits.
Bad(d, b) == [d EXCEPT !.phase = "bad", !.empty = (d.phase = "start" /\ b = "CR")]

Expect(d, b, byte, next) == IF b = byte THEN [d EXCEPT !.phase = next] ELSE Bad(d, b)

DecodeDigit(d, b) ==
    LET size == d.size * 16 + HexValue(b)
    IN  IF size >= 2^SizeBits THEN Bad(d, b)
        ELSE [d EXCEPT !.phase = "size", !.size = size]

DecodeByte(d, b) ==
    CASE d.phase = "start" ->
           IF b \in HexDigits THEN DecodeDigit([d EXCEPT !.size = 0], b) ELSE Bad(d, b)
      [] d.phase = "size" ->
           IF b \in HexDigits THEN DecodeDigit(d, b) ELSE Expect(d, b, "CR", "sizeLF")
      [] d.phase = "sizeLF" ->
           Expect(d, b, "LF", IF d.size = 0 THEN "lastCR"
                              ELSE IF Len(d.body) + d.size > Limit THEN "large"
                              ELSE "data")
      [] d.phase = "data" ->
           [d EXCEPT !.body = Append(@, b), !.size = @ - 1,
                     !.phase = IF d.size = 1 THEN "dataCR" ELSE "data"]
      [] d.phase = "dataCR" -> Expect(d, b, "CR", "dataLF")
      [] d.phase = "dataLF" -> Expect(d, b, "LF", "start")
      [] d.phase = "lastCR" -> Expect(d, b, "CR", "lastLF")
      [] d.phase = "lastLF" -> Expect(d, b, "LF", "done")
      [] d.phase = "done" -> Bad(d, b)
      [] d.phase \in {"bad", "large"} -> [d EXCEPT !.late = 1]

\* The states of the decoder before and after each byte of s.
Decoder(s) ==
    LET run[n \in 0..Len(s)] ==
          IF n = 0 THEN Start ELSE DecodeByte(run[n - 1], s[n])
    IN  run

Decoded == Decoder(BodyFed)[Len(BodyFed)]

InChunkedBody == ~ busy /\ state # "header" /\ content_length = -1

\* However the stream is split, the parser accepts the same bodies as the
\* reference decoder and gives the same bytes, refuses with 413 exactly the ones
\* that grow too large, and with 400 only malformed ones.
ChunkedAgrees ==
    InChunkedBody =>
        /\ state = "done" /\ status = 0 <=> Decoded.phase = "done"
        /\ Decoded.phase = "done" => body = Decoded.body
        /\ status = 413 <=> Decoded.phase = "large"
        /\ status \notin {0, 413} => status = 400 /\ Decoded.phase = "bad"

\* A malformed chunked body is refused at the latest with the byte after the
\* one that makes it malformed, unless that is a size line without digits.
MalformedNoticed ==
    InChunkedBody /\ status = 0 /\ Decoded.phase = "bad" =>
        Decoded.late = 0 \/ Decoded.empty

\* AdvanceBody: "BAD_REQUEST: malformed chunked encoding".
MalformedIsRefused ==
    InChunkedBody /\ status = 0 /\ Decoded.phase = "bad" => Decoded.late = 0
=============================================================================
