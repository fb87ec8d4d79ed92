---------------------------- MODULE HttpRequest ----------------------------
(***************************************************************************)
(* The incremental request parser: StreamParser::Parse and the HttpRequest *)
(* steps it drives.  recv hands over the byte stream in arbitrary segments;*)
(* each Parse call advances as far as the buffered bytes allow.            *)
(*                                                                         *)
(* The header block is parsed as a whole once its blank line is there, so  *)
(* it is a record of the fields the checks look at, and its bytes are "h"  *)
(* with "E" for the last one.  The body is kept byte by byte: where a      *)
(* segment ends inside a chunk is what matters.                            *)
(***************************************************************************)
EXTENDS Integers, Sequences

CONSTANTS
    Clients,         \* kinds of clients
    Heads,           \* Heads[c]: header blocks a client of kind c may send
    BodyBytes,       \* BodyBytes[c]: the bytes its body is made of
    MaxStream,       \* MaxStream[c]: bound on the bytes it sends
    Limit,           \* max_body_size_limit_, from client_max_body_size
    MaxPayloadSize,  \* kMaxPayloadSize
    MaxUriSize,      \* kMaxUriSize
    MaxHeaderSize,   \* kMaxHeaderSize
    SizeBits,        \* width of size_t
    MaxPending,      \* bound on the received bytes not consumed yet
    MaxSegment       \* bound on the bytes one recv returns

\* Sample digits: values 0 to 2 and, with more digits, any overflow.
HexDigits == {"0", "1", "2"}

HexValue(b) == CASE b = "0" -> 0 [] b = "1" -> 1 [] b = "2" -> 2

ASSUME ParserAssumption ==
    /\ \A c \in Clients :
         /\ BodyBytes[c] \cap {"h", "E"} = {} /\ MaxStream[c] \in Nat
         /\ \A h \in Heads[c] : h.length \in Int /\ h.te \in {"absent", "chunked", "other"}
    /\ Limit \in Nat
    /\ MaxPayloadSize \in Nat
    /\ MaxUriSize \in Nat
    /\ MaxHeaderSize \in Nat
    /\ SizeBits \in Nat \ {0}
    /\ 2^SizeBits \in Nat /\ 2^SizeBits % 16 = 0 \* a size_t is whole hex digits
    /\ Limit < 2^(SizeBits - 1)
    /\ MaxPending \in Nat
    /\ MaxSegment \in Nat

VARIABLES
    client,           \* the client of this connection
    head,             \* the header block the client sends
    stream,           \* every byte received so far
    busy,             \* inside Parse
    buffer,           \* buffer_
    buffer_read_pos,  \* bytes of buffer_ a chunked body has consumed
    state,            \* state_: "header", "body", "done"
    content_length,   \* content_length_, -1 for chunked
    next_chunk_size,  \* next_chunk_size_, -1: waiting for a size line
    body,             \* body_
    status            \* status of the exception thrown, 0 for none

bodyVars == <<buffer_read_pos, next_chunk_size, body>>
vars == <<client, head, stream, busy, buffer, state, content_length, bodyVars, status>>

-----------------------------------------------------------------------------
(***************************************************************************)
(* The header block.  Each operator lists the checks of the function it is *)
(* named after, in order, with the status thrown when the check fails.     *)
(***************************************************************************)
ConsumeMethod(h) == <<
    <<h.method \notin {"GET", "HEAD", "POST", "DELETE"}, 501>> >>

\* BumpOrThrow counts a character before it is looked at.
ConsumeUri(h) == <<
    <<h.uri = "relative", 400>>,
    <<h.uri_len >= MaxUriSize, 414>>,
    <<h.uri = "bad_char", 400>> >>

ConsumeVersion(h) == << <<h.version \notin {"HTTP/1.0", "HTTP/1.1"}, 400>> >>

\* ReadHeaderLine and StoreHeader over all lines; the closing CRLF counts too.
ReadHeaderLines(h) == <<
    <<h.lines = "malformed", 400>>,
    <<h.lines = "duplicate", 400>>,
    <<h.size > MaxHeaderSize, 431>> >>

\* A port that is no number is an empty Optional: its Value() throws a plain
\* exception, which AdvanceHeader turns into 500.
ValidateAndExtractHost(h) == <<
    <<h.host \in {"absent", "empty", "no_name"}, 400>>,
    <<h.host = "bad_port", 500>> >>

\* Mutant: a negative length is let through.
ParseContentLengthSigned(h) == <<
    <<h.cl = "junk", 400>>,
    <<h.cl = "number" /\ h.length > MaxPayloadSize, 400>> >>

ParseContentLength(h) == <<
    <<h.cl = "junk", 400>>,
    <<h.cl = "number" /\ (h.length < 0 \/ h.length > MaxPayloadSize), 400>> >>

ParseTransferEncoding(h) == << <<h.te = "other", 501>> >>

ValidateBodyHeaders(h) ==
    << <<h.cl # "absent" /\ h.te # "absent", 400>> >>
    \o ParseContentLength(h)
    \o << <<h.cl = "number" /\ h.length > Limit, 413>> >>
    \o ParseTransferEncoding(h)

ParseConnectionDirective(h) == << <<h.connection = "other", 400>> >>

ConsumeHeader(h) ==
    ReadHeaderLines(h) \o ValidateAndExtractHost(h) \o ValidateBodyHeaders(h)
    \o ParseConnectionDirective(h)

\* The status of the first check that fails, 0 if none does.
HeadStatus(h) ==
    LET checks == ConsumeMethod(h) \o ConsumeUri(h) \o ConsumeVersion(h)
                  \o ConsumeHeader(h)
        failed == {i \in DOMAIN checks : checks[i][1]}
    IN  IF failed = {} THEN 0
        ELSE checks[CHOOSE i \in failed : \A j \in failed : i <= j][2]

\* content_length_ after ValidateBodyHeaders.
ContentLength(h) ==
    IF h.cl = "number" THEN h.length ELSE IF h.te = "chunked" THEN -1 ELSE 0

-----------------------------------------------------------------------------
TypeOK ==
    /\ client \in Clients
    /\ head \in Heads[client]
    /\ stream \in Seq(BodyBytes[client] \cup {"h", "E"})
    /\ busy \in BOOLEAN
    /\ buffer \in Seq(BodyBytes[client] \cup {"h", "E"})
    /\ buffer_read_pos \in Nat
    /\ state \in {"header", "body", "done"}
    /\ content_length \in Int
    /\ next_chunk_size \in Int
    /\ body \in Seq(BodyBytes[client])
    /\ status \in {0, 400, 413, 414, 431, 500, 501}

Init ==
    /\ client \in Clients
    /\ head \in Heads[client]
    /\ stream = <<>>
    /\ busy = FALSE
    /\ buffer = <<>>
    /\ buffer_read_pos = 0
    /\ state = "header"
    /\ content_length = -1
    /\ next_chunk_size = -1
    /\ body = <<>>
    /\ status = 0

\* A client sends the header block, here two bytes, and then its body.
WellFormed(s) ==
    \A i \in DOMAIN s : s[i] \in IF i = 1 THEN {"h"}
                                   ELSE IF i = 2 THEN {"E"} ELSE BodyBytes[client]

Segments == UNION {[1..n -> BodyBytes[client] \cup {"h", "E"}] : n \in 1..MaxSegment}

\* ClientSocket calls Parse with what recv returned.  After an exception it
\* only sends the answer.
Recv ==
    /\ ~ busy /\ status = 0
    /\ \E segment \in Segments :
         /\ WellFormed(stream \o segment)
         /\ Len(stream \o segment) <= MaxStream[client]
         /\ Len(buffer \o segment) - buffer_read_pos <= MaxPending
         /\ stream' = stream \o segment
         /\ buffer' = buffer \o segment
    /\ busy' = TRUE
    /\ UNCHANGED <<client, head, state, content_length, bodyVars, status>>

\* An Advance step returns false: Parse waits for more data.
Wait == busy' = FALSE /\ UNCHANGED <<buffer, state, bodyVars, status>>

\* A ResponseStatusException leaves Parse.  The client only gets its answer from
\* then on: what the step had already changed is never looked at again.
Throw(code) ==
    /\ busy' = FALSE
    /\ status' = code
    /\ UNCHANGED <<buffer, state, bodyVars>>

-----------------------------------------------------------------------------
(***************************************************************************)
(* AdvanceHeader.                                                          *)
(***************************************************************************)
\* Mutant: the last byte of the header block stays in the buffer.
HeadKeepsEnd(i) == buffer' = SubSeq(buffer, i, Len(buffer))

\* The header block, which ends at byte i, leaves the buffer.
EraseHead(i) == buffer' = SubSeq(buffer, i + 1, Len(buffer))

AdvanceHeader ==
    /\ busy /\ state = "header"
    /\ LET ends == {i \in DOMAIN buffer : buffer[i] = "E"}
       IN  \/ ends = {} /\ Wait /\ UNCHANGED content_length
           \/ /\ ends # {} /\ HeadStatus(head) # 0
              /\ Throw(HeadStatus(head)) /\ UNCHANGED content_length
           \/ /\ HeadStatus(head) = 0
              /\ \E i \in ends : EraseHead(i)
              /\ state' = "body"
              /\ content_length' = ContentLength(head)
              /\ UNCHANGED <<busy, bodyVars, status>>
    /\ UNCHANGED <<client, head, stream>>

(***************************************************************************)
(* AdvanceBody.                                                            *)
(***************************************************************************)

\* Mutant: the body is all that is buffered.
TakeAll == body' = buffer /\ buffer' = <<>>

\* The announced bytes leave the buffer for the body.
TakeBody ==
    /\ body' = SubSeq(buffer, 1, content_length)
    /\ buffer' = SubSeq(buffer, content_length + 1, Len(buffer))

\* AdvanceContentLengthBody, and AdvanceBody's shortcut for no body at all.
\* What follows the body stays in the buffer.
AdvanceContentLengthBody ==
    /\ busy /\ state = "body" /\ content_length >= 0
    /\ \/ Len(buffer) < content_length /\ Wait
       \/ /\ Len(buffer) >= content_length
          /\ TakeBody
          /\ state' = "done"
          /\ busy' = FALSE
          /\ UNCHANGED <<buffer_read_pos, next_chunk_size, status>>
    /\ UNCHANGED <<client, head, stream, content_length>>

\* AdvanceChunkedBody, one iteration of its loop.
Chunked ==
    /\ busy /\ state = "body" /\ content_length < 0
    /\ UNCHANGED <<client, head, stream, content_length>>

\* ValidateAndSkipCRLF: are both bytes there, and are they CRLF.
HasTwo(pos) == pos + 2 <= Len(buffer)
\* Mutant: the second byte is not looked at.
IsCR(pos) == buffer[pos + 1] = "CR"

IsCRLF(pos) == buffer[pos + 1] = "CR" /\ buffer[pos + 2] = "LF"

\* The hex digits from buffer_read_pos_ on, and their value digit by digit.
DigitRun == CHOOSE n \in 0..(Len(buffer) - buffer_read_pos) :
    /\ \A k \in 1..n : buffer[buffer_read_pos + k] \in HexDigits
    /\ \/ buffer_read_pos + n = Len(buffer)
       \/ buffer[buffer_read_pos + n + 1] \notin HexDigits
ChunkValue ==
    LET value[k \in 0..DigitRun] ==
          IF k = 0 THEN 0
          ELSE value[k - 1] * 16 + HexValue(buffer[buffer_read_pos + k])
    IN  value

\* Mutant: no overflow check.
NoOverflowCheck == FALSE

\* A shift that would lose bits of a size_t.
Overflows == \E k \in 1..DigitRun : ChunkValue[k - 1] > (2^SizeBits - 1) \div 16

\* ParseChunkSize.  A line that has no digit is taken for an incomplete one.
\* After a complete line the iteration goes on to AppendChunkData, where a size
\* above the limit is refused at once: next_chunk_size_, a ptrdiff_t, never
\* keeps a size that would be negative in it.
ParseChunkSize ==
    /\ Chunked /\ next_chunk_size = -1
    /\ LET stop == buffer_read_pos + DigitRun
       IN  \/ /\ \/ Overflows
                 \/ stop < Len(buffer) /\ buffer[stop + 1] # "CR"
                 \/ DigitRun > 0 /\ HasTwo(stop) /\ ~ IsCRLF(stop)
              /\ Throw(400)
           \/ /\ ~ Overflows
              /\ stop < Len(buffer) => buffer[stop + 1] = "CR"
              /\ DigitRun = 0 \/ ~ HasTwo(stop)
              /\ Wait
           \/ /\ ~ Overflows
              /\ DigitRun > 0 /\ HasTwo(stop) /\ IsCRLF(stop)
              /\ \/ ChunkValue[DigitRun] > Limit /\ Throw(413)
                 \/ /\ ChunkValue[DigitRun] <= Limit
                    /\ buffer_read_pos' = stop + 2
                    /\ next_chunk_size' = ChunkValue[DigitRun]
                    /\ UNCHANGED <<busy, buffer, state, body, status>>

\* Mutant: the position is not reset with the buffer.
ClearBufferOnly == buffer' = <<>> /\ next_chunk_size' = -1 /\ UNCHANGED buffer_read_pos

\* The chunked body is complete: the buffer and the decoder's state are reset.
ClearBuffer == buffer' = <<>> /\ next_chunk_size' = -1 /\ buffer_read_pos' = 0

\* ValidateFinalCRLF: nothing may follow the CRLF after the last chunk.
ValidateFinalCRLF ==
    /\ Chunked /\ next_chunk_size = 0
    /\ \/ ~ HasTwo(buffer_read_pos) /\ Wait
       \/ /\ HasTwo(buffer_read_pos)
          /\ ~ IsCRLF(buffer_read_pos) \/ buffer_read_pos + 2 # Len(buffer)
          /\ Throw(400)
       \/ /\ HasTwo(buffer_read_pos) /\ IsCRLF(buffer_read_pos)
          /\ buffer_read_pos + 2 = Len(buffer)
          /\ ClearBuffer
          /\ state' = "done"
          /\ busy' = FALSE
          /\ UNCHANGED <<body, status>>

\* Mutant: the limit is applied to each chunk, not to the body so far.
ChunkTooLarge == next_chunk_size > Limit

BodyTooLarge == Len(body) > Limit - next_chunk_size

\* AppendChunkData waits for the chunk and its CRLF together.
AppendChunkData ==
    /\ Chunked /\ next_chunk_size \notin {-1, 0}
    /\ LET end == buffer_read_pos + next_chunk_size
       IN  \/ BodyTooLarge /\ Throw(413)
           \/ /\ ~ BodyTooLarge
              /\ \/ ~ HasTwo(end) /\ Wait
                 \/ HasTwo(end) /\ ~ IsCRLF(end) /\ Throw(400)
                 \/ /\ HasTwo(end) /\ IsCRLF(end)
                    /\ body' = body \o SubSeq(buffer, buffer_read_pos + 1, end)
                    /\ buffer_read_pos' = end + 2
                    /\ next_chunk_size' = -1
                    /\ UNCHANGED <<busy, buffer, state, status>>

\* Mutant: data after the request is ignored, and Parse goes round again.
IgnoreExtraDataAfterDone == busy /\ state = "done" /\ UNCHANGED vars

\* Parse in state kDone: OnExtraDataAfterDone.
OnExtraDataAfterDone ==
    /\ busy /\ state = "done"
    /\ Throw(400)
    /\ UNCHANGED <<client, head, stream, content_length>>

Advance ==
    \/ AdvanceHeader \/ AdvanceContentLengthBody \/ ParseChunkSize
    \/ ValidateFinalCRLF \/ AppendChunkData \/ OnExtraDataAfterDone

Next == Recv \/ Advance

\* Parse is a plain call: it runs on while it can.
Spec == Init /\ [][Next]_vars /\ WF_vars(Advance)

-----------------------------------------------------------------------------
(***************************************************************************)
(* Properties.                                                             *)
(***************************************************************************)

\* buffer_read_pos_ never passes the end of buffer_ (the "should not happen" of
\* AdvanceChunkedBody), and so no byte outside it is read.
ReadPosInBuffer == buffer_read_pos <= Len(buffer)

\* No body larger than client_max_body_size is ever put together, whatever sizes
\* its chunks announce.
BodyWithinLimit == Len(body) <= Limit

\* What ValidateBodyHeaders ensures for AdvanceBody: a request that gets as far
\* as its body is chunked, or has a length within the limit, and never both.
BodyHeadersEnsured ==
    state # "header" =>
        \/ content_length = -1 /\ head.te = "chunked" /\ head.cl = "absent"
        \/ content_length \in 0..Limit /\ head.te = "absent"

\* The bytes of the body received so far.
BodyFed == SubSeq(stream, 3, Len(stream))

\* A body with a Content-Length is complete with its last byte and is exactly
\* the bytes announced, however they were split; bytes after it are refused only
\* if they come with a later recv.
ContentLengthExact ==
    ~ busy /\ state # "header" /\ content_length >= 0 =>
        /\ state = "done" <=> Len(BodyFed) >= content_length
        /\ state = "done" => body = SubSeq(BodyFed, 1, content_length)
        /\ status # 0 => status = 400 /\ Len(BodyFed) > content_length

\* Parse always returns: the state machine never turns round without progress.
ParseReturns == busy ~> ~ busy
=============================================================================
