--------------------------- MODULE MCCgiResponse ---------------------------
(***************************************************************************)
(* What scripts write, for CgiResponse.                                    *)
(***************************************************************************)
EXTENDS CgiResponse

\* Line ends of both kinds, in the header and in the body.
LineParts == {<<"Content_Type">>, <<"text">>, CRLF, LF}

\* Fields, one to a line.
FieldParts == {<<f>> \o LF : f \in Fields} \cup {LF, <<"text">>}

MCScripts == {[parts |-> LineParts, max |-> 8], [parts |-> FieldParts, max |-> 5]}
FieldScripts == {[parts |-> FieldParts, max |-> 4]}
=============================================================================
