------------------------------ MODULE MCConfig -----------------------------
(***************************************************************************)
(* Vocabularies for Config, and hosts for HostValidation.                  *)
(***************************************************************************)
EXTENDS Config

\* Words whose characters no conversion can take apart.
Plain(ws) == [w \in ws |-> <<"_">>]

Structure == {"server", "location", "{", "}", ";"}

MCCwd == <<"/", "a">>

\* Blocks, ports and lists: few values.
BlockSpelling ==
    ("80" :> <<"8", "0">>) @@ ("/a" :> <<"/", "a">>) @@ ("/a/" :> <<"/", "a", "/">>)
    @@ ("127.0.0.1:81" :> <<"1", "2", "7", ".", "0", ".", "0", ".", "1", ":", "8", "1">>)
    @@ Plain(Structure \cup {"listen", "cgi_allowed_extensions"})

\* Directives of a server block.
ServerSpelling ==
    ("80" :> <<"8", "0">>) @@ ("0" :> <<"0">>) @@ ("-1" :> <<"-", "1">>)
    @@ ("404" :> <<"4", "0", "4">>) @@ ("x" :> <<"a">>) @@ ("./x" :> <<".", "/", "a">>)
    @@ ("a.b:80" :> <<"a", ".", "b", ":", "8", "0">>)
    @@ Plain(Structure \cup {"listen", "server_name", "client_max_body_size", "error_page"})

\* Directives of a location.
LocationSpelling ==
    ("/a" :> <<"/", "a">>) @@ ("a/../b" :> <<"a", "/", ".", ".", "/", "b">>)
    @@ ("./b" :> <<".", "/", "b">>) @@ ("/^" :> <<"/", "^">>) @@ ("b.h" :> <<"b", ".", "h">>)
    @@ Plain(Structure \cup LocationValues
             \cup {"on", "off", "allowed_methods", "GET", "POST"})

MCSpelling == BlockSpelling @@ ServerSpelling @@ LocationSpelling

MCFiles == {[words |-> DOMAIN BlockSpelling, max |-> 15],
            [words |-> DOMAIN ServerSpelling, max |-> 12],
            [words |-> DOMAIN LocationSpelling, max |-> 14]}

\* Hosts made of up to MaxParts parts; "_" is a character that no host has.
MaxParts == 6
HostParts == {<<"0">>, <<"0", ".">>, <<"2", "5">>, <<"2", "5", "6">>, <<".">>, <<"a">>, <<"-">>}
UpTo(n, parts) == {FlattenSeq(ps) : ps \in UNION {[1..m -> parts] : m \in 0..n}}
MCHosts == UpTo(MaxParts, HostParts) \cup UpTo(MaxParts - 2, HostParts \cup {<<"_">>})
=============================================================================
