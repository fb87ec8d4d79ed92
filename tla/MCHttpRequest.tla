--------------------------- MODULE MCHttpRequest ---------------------------
(***************************************************************************)
(* Instances of HttpRequest for TLC.                                       *)
(***************************************************************************)
EXTENDS ChunkedDecoder

PlainHead == [method |-> "POST", uri |-> "path", uri_len |-> 1,
              version |-> "HTTP/1.1", lines |-> "well_formed", size |-> 1,
              host |-> "name", cl |-> "absent", length |-> 0,
              te |-> "absent", connection |-> "absent"]

ChunkedHeads == {[PlainHead EXCEPT !.te = "chunked"]}

\* Every way a body can be announced and accepted.
BodyHeads ==
    ChunkedHeads \cup {PlainHead}
    \cup {[PlainHead EXCEPT !.cl = "number", !.length = n] : n \in 0..Limit}

\* Header blocks that pass and fail each check, at the limits and past them.
AllHeads ==
    {h \in
    [method : {"POST", "other"},
     uri : {"path", "relative", "bad_char"},
     uri_len : {MaxUriSize - 1, MaxUriSize},
     version : {"HTTP/1.0", "other"},
     lines : {"well_formed", "duplicate"},
     size : {MaxHeaderSize, MaxHeaderSize + 1},
     host : {"absent", "name", "bad_port"},
     cl : {"absent", "junk", "number"},
     length : {-1, 0, Limit, Limit + 1, MaxPayloadSize, MaxPayloadSize + 1},
     te : {"absent", "chunked", "other"},
     connection : {"close", "other"}] :
     h.cl # "number" => h.length = 0}

\* One client varies the header block, one the bytes of a body, and one sends
\* long chunked bodies whose data are digits too.
MCClients == {"head", "body", "chunks"}
MCHeads == [head |-> AllHeads, body |-> BodyHeads, chunks |-> ChunkedHeads]
MCBodyBytes == [head |-> {"x"}, body |-> {"0", "1", "2", "CR", "LF", "x"},
                chunks |-> {"1", "2", "CR", "LF"}]
MCMaxStream == [head |-> 3, body |-> 13, chunks |-> 18]
=============================================================================
