---------------------------- MODULE CgiResponse ----------------------------
(***************************************************************************)
(* From the output of a CGI script to the response that is sent:           *)
(* CgiSocket::HandleEvent collects the output, CgiResponseParser takes it  *)
(* apart, HttpResponse puts the response together, and ClientSocket turns  *)
(* an exception into a 500.                                                *)
(*                                                                         *)
(* The output is a sequence of symbols: CR and LF, "text", which has no    *)
(* colon and no line end, and fields, which stand for a name, ": " and a   *)
(* value.                                                                  *)
(***************************************************************************)
EXTENDS Integers, Sequences, SequencesExt

CONSTANTS
    Scripts,      \* kinds of scripts: the sequences of symbols one may write at a
                  \* time, and a bound on their number
    MaxHeaderSize \* kMaxHeaderSize, in symbols

VARIABLES
    point,  \* what is running: reading, the header loop, or nothing more
    script, \* the script that runs
    parts,  \* parts it has written so far
    out,    \* read_buffer_, then buffer_
    req,    \* position of the header loop
    res,    \* res_ of the parser
    sent    \* the response that is sent

vars == <<point, script, parts, out, req, res, sent>>

-----------------------------------------------------------------------------
\* Each field and its name in lower case.  "location" is written in lower case,
\* the others as the parser compares them.
FieldName ==
    [Content_Type      |-> "content-type",
     Status_404        |-> "status",
     Status_200        |-> "status",
     Location          |-> "location",
     location          |-> "location",
     Content_Length_1  |-> "content-length",
     Transfer_Encoding |-> "transfer-encoding"]

Fields == DOMAIN FieldName
LineEnds == {"CR", "LF"}
StatusOf == [Status_404 |-> 404, Status_200 |-> 200]
Symbols == Fields \cup LineEnds \cup {"text"}

\* A line with a field and its line end fits into kMaxHeaderSize.
ASSUME SizesAssumption ==
    /\ MaxHeaderSize \in Nat /\ MaxHeaderSize >= 3
    /\ \A s \in Scripts : s.max \in Nat /\ s.parts \subseteq Seq(Symbols)

\* The positions at which pattern occurs in s.
Occurrences(s, pattern) ==
    {i \in DOMAIN s : IsPrefix(pattern, SubSeq(s, i, Len(s)))}

First(S) == CHOOSE i \in S : \A j \in S : i <= j

CRLF == <<"CR", "LF">>
LF == <<"LF">>

IsCRLF(s, i) == i \in Occurrences(s, CRLF)
IsLF(s, i) == i \in Occurrences(s, LF)

\* Mutant: the shorter pattern is looked for first.
FindEitherEnd(s) ==
    IF Occurrences(s, LF \o LF) # {} THEN First(Occurrences(s, LF \o LF)) + 1
    ELSE IF Occurrences(s, CRLF \o CRLF) # {} THEN First(Occurrences(s, CRLF \o CRLF)) + 3
    ELSE 0

\* The last position of the header, 0 if its end is not there.
FindEndOfHeader(s) ==
    IF Occurrences(s, CRLF \o CRLF) # {} THEN First(Occurrences(s, CRLF \o CRLF)) + 3
    ELSE IF Occurrences(s, LF \o LF) # {} THEN First(Occurrences(s, LF \o LF)) + 1
    ELSE 0

-----------------------------------------------------------------------------
(***************************************************************************)
(* HttpResponse.                                                           *)
(***************************************************************************)
NewResponse(status) == [status |-> status, headers |-> <<>>, body |-> <<>>]

SetStatus(r, status) == [r EXCEPT !.status = status]

\* A later header of the same name replaces an earlier one.
AddHeader(r, name, value) ==
    [r EXCEPT !.headers = [n \in DOMAIN @ \cup {name} |->
                             IF n = name THEN value ELSE @[n]]]

HasHeader(r, name) == name \in DOMAIN r.headers

ErrorPage == <<"text">>

EnsureDefaultErrorContent(r) ==
    IF r.body # <<>> \/ r.status < 400 THEN r ELSE [r EXCEPT !.body = ErrorPage]

\* Mutant: an empty body needs no length.
ToHttpStringOfBody(r) ==
    IF HasHeader(r, "content-length") \/ HasHeader(r, "transfer-encoding") \/ r.body = <<>> THEN r
    ELSE AddHeader(r, "content-length", Len(r.body))

\* The date is left out.
ToHttpString(r) ==
    IF HasHeader(r, "content-length") \/ HasHeader(r, "transfer-encoding") THEN r
    ELSE AddHeader(r, "content-length", Len(r.body))

-----------------------------------------------------------------------------
Init ==
    /\ point = "read" /\ script \in Scripts /\ parts = 0
    /\ out = <<>> /\ req = 1
    /\ res = NewResponse(200) /\ sent = NewResponse(0)

\* CgiSocket::HandleEvent: read returns some of the output.
CgiRead ==
    /\ point = "read" /\ parts < script.max
    /\ \E part \in script.parts : out' = out \o part
    /\ parts' = parts + 1
    /\ UNCHANGED <<point, script, req, res, sent>>

Send(r) ==
    /\ point' = "sent" /\ sent' = ToHttpString(r)
    /\ UNCHANGED <<script, parts, out, req>>

\* read returns 0, and the script did not exit with 0.
OnCgiExecutionError ==
    /\ point = "read" /\ Send(NewResponse(500))
    /\ UNCHANGED res

\* The exception of ParseCgiResponse, whatever its status.
Refuse ==
    LET error == AddHeader(AddHeader(NewResponse(500), "connection", <<"text">>),
                           "content-type", <<"text">>)
    IN  Send(EnsureDefaultErrorContent(error)) /\ UNCHANGED res

\* ParseCgiResponse.
OnCgiExecutionFinished ==
    /\ point = "read" /\ FindEndOfHeader(out) # 0
    /\ point' = "header"
    /\ UNCHANGED <<script, parts, out, req, res, sent>>

\* AdvanceHeader returns false: no header was read, and Content-Type is missing.
NoEndOfHeader == point = "read" /\ FindEndOfHeader(out) = 0 /\ Refuse

AtBlankLine == IsCRLF(out, req) \/ IsLF(out, req)

\* ReadHeaderLine: the positions of the first colon and of the first line end.
Colon == First({i \in req..Len(out) : out[i] \in Fields})
LineEnd == First({i \in req..Len(out) : out[i] \in LineEnds})

\* Mutant: every line end is taken for two bytes.
NextLineCRLF == LineEnd + 2

NextLine == IF out[LineEnd] = "LF" THEN LineEnd + 1 ELSE LineEnd + 2

IsHeaderLine ==
    /\ \E i \in req..(LineEnd - 1) : out[i] \in Fields
    /\ IsCRLF(out, LineEnd) \/ IsLF(out, LineEnd)
    /\ NextLine - 1 <= MaxHeaderSize

\* A name that begins with other text is another name.
Key == IF Colon = req THEN out[req] ELSE "other"
Name == IF Colon = req THEN FieldName[out[req]] ELSE "other"
Value == SubSeq(out, Colon, LineEnd - 1)

\* A status followed by more text is no number.
IsGoodLine == IsHeaderLine /\ (Key \in DOMAIN StatusOf => Len(Value) = 1)

\* Mutant: a Location makes a redirect of any answer.
StoreHeaderRedirects ==
    IF Key \in DOMAIN StatusOf THEN SetStatus(res, StatusOf[Key])
    ELSE AddHeader(IF Key = "Location" THEN SetStatus(res, 302) ELSE res, Name, Value)

StoreHeader ==
    IF Key \in DOMAIN StatusOf THEN SetStatus(res, StatusOf[Key])
    ELSE IF Key = "Location" /\ res.status = 200
         THEN AddHeader(SetStatus(res, 302), Name, Value)
    ELSE AddHeader(res, Name, Value)

ReadHeaderLine ==
    /\ point = "header" /\ ~ AtBlankLine
    /\ IsGoodLine
    /\ res' = StoreHeader /\ req' = NextLine
    /\ UNCHANGED <<point, script, parts, out, sent>>

BadHeaderLine ==
    /\ point = "header" /\ ~ AtBlankLine
    /\ ~ IsGoodLine
    /\ Refuse

\* The header is erased up to the end that was found before the loop; the rest
\* is the body.
AdvanceBody ==
    /\ point = "header" /\ AtBlankLine
    /\ HasHeader(res, "content-type")
    /\ res' = [res EXCEPT !.body = SubSeq(out, FindEndOfHeader(out) + 1, Len(out))]
    /\ Send(res')

NoContentType ==
    /\ point = "header" /\ AtBlankLine
    /\ ~ HasHeader(res, "content-type")
    /\ Refuse

Next ==
    \/ CgiRead \/ OnCgiExecutionError \/ OnCgiExecutionFinished \/ NoEndOfHeader
    \/ ReadHeaderLine \/ BadHeaderLine \/ AdvanceBody \/ NoContentType

Spec == Init /\ [][Next]_vars /\ WF_vars(Next)

-----------------------------------------------------------------------------
(***************************************************************************)
(* Properties.                                                             *)
(***************************************************************************)
\* The header loop, which does not look at the end that FindEndOfHeader found,
\* never reads past it: no byte of the body is taken for a header.
LoopStaysInHeader == point = "header" => req \in 1..FindEndOfHeader(out)

\* Reading the output: the first blank line, whatever ends it, and what follows.
StartsLine(i) == i = 1 \/ out[i - 1] = "LF"
BlankLine == First({i \in DOMAIN out : StartsLine(i) /\ (IsCRLF(out, i) \/ IsLF(out, i))})
Rest == SubSeq(out, BlankLine + (IF IsLF(out, BlankLine) THEN 1 ELSE 2), Len(out))

IsAccepted == point = "sent" /\ sent.status # 500

\* What follows the blank line reaches the client, no byte more or less.  If the
\* line before the blank one ends with a bare LF, this needs a blank line that is
\* a bare LF too, and a body without CR LF CR LF: otherwise FindEndOfHeader finds
\* a later end, and the body loses what is before it.
\* The shortest good output, with either line end, is never refused, whatever
\* bytes follow ("connection" is in the responses of Refuse only).
BodyIsRest ==
    /\ IsAccepted =>
        \/ sent.body = Rest
        \/ /\ BlankLine - 2 \notin Occurrences(out, CRLF \o CRLF)
           /\ \/ Occurrences(Rest, CRLF \o CRLF) # {}
              \/ IsCRLF(out, BlankLine)
    /\ /\ point = "sent"
       /\ \E end \in {CRLF, LF} : IsPrefix(<<"Content_Type">> \o end \o end, out)
       => ~ HasHeader(sent, "connection")

\* The client sees the status of the script: that of its last Status line, and
\* 302 instead of 200 if a Location line follows it (StoreHeader works line by
\* line and keeps no more than the response).
StatusFromScript ==
    LET Lines(fields) == {i \in 1..BlankLine : StartsLine(i) /\ out[i] \in fields}
        after == {i \in Lines(DOMAIN StatusOf) :
                    \A j \in Lines(DOMAIN StatusOf) : j <= i}
        status == IF after = {} THEN 200 ELSE StatusOf[out[First(after)]]
        redirects == \E i \in Lines({"Location"}) : \A j \in after : j < i
    IN  IsAccepted => sent.status = IF status = 200 /\ redirects THEN 302 ELSE status

\* Every response tells its recipient where it ends, also an empty one: by
\* Transfer-Encoding or Content-Length of the script, else by its own length.
IsDelimited ==
    point = "sent" =>
        \/ IsAccepted /\ HasHeader(res, "content-length")
        \/ IsAccepted /\ HasHeader(sent, "transfer-encoding")
        \/ HasHeader(sent, "content-length") /\ sent.headers["content-length"] = Len(sent.body)

\* No response has both Content-Length and Transfer-Encoding: the rule that
\* ToHttpString quotes.
OneFraming ==
    ~ (HasHeader(sent, "content-length") /\ HasHeader(sent, "transfer-encoding"))
=============================================================================
