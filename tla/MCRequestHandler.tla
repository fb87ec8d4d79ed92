------------------------- MODULE MCRequestHandler --------------------------
(***************************************************************************)
(* Instances of RequestHandler for TLC: "a" stands for any character of a  *)
(* name, "/" and "." are the ones the code looks at.                       *)
(***************************************************************************)
EXTENDS RequestHandler

CONSTANT MaxUriLen

MCCharacters == {"/", ".", "a"}

MCUris == {<<"/">> \o s : s \in UNION {[1..n -> Characters] : n \in 0..(MaxUriLen - 1)}}

MCMethods == {"GET", "POST", "DELETE", "HEAD"}

Names == {<<"/">>, <<"/", "a">>, <<"/", "a", "/">>, <<"/", "a", "a">>,
          <<"/", "a", "/", "a">>}

Plain(name) ==
    [name |-> name, root |-> <<"/", "a">>, index |-> <<"a">>, redirect |-> FALSE,
     methods |-> MCMethods, cgi |-> FALSE, extensions |-> <<>>]

\* One location with every kind of handler, or two that compete for a path.
Variants(name) ==
    {Plain(name),
     [Plain(name) EXCEPT !.root = <<"/">>],
     [Plain(name) EXCEPT !.root = <<".", "/">>],
     [Plain(name) EXCEPT !.root = <<"/", "a", "/">>],
     [Plain(name) EXCEPT !.root = <<"/", "a", "/", ".", ".">>],
     [Plain(name) EXCEPT !.root = <<"/", "a", "/", "a">>, !.index = <<>>],
     [Plain(name) EXCEPT !.index = <<".", ".", "/", "a", "a">>],
     [Plain(name) EXCEPT !.redirect = TRUE],
     [Plain(name) EXCEPT !.methods = {"GET"}],
     [Plain(name) EXCEPT !.cgi = TRUE, !.extensions = <<<<"a">>>>],
     [Plain(name) EXCEPT !.cgi = TRUE, !.extensions = <<<<"a">>>>, !.root = <<"/", "a", "a">>]}

MCConfs ==
    {<<l>> : l \in UNION {Variants(name) : name \in {<<"/">>, <<"/", "a">>}}}
    \cup {<<Plain(m), Plain(n)>> :
            <<m, n>> \in {p \in Names \X Names :
              TrimTrailingSlashExceptRoot(p[1]) # TrimTrailingSlashExceptRoot(p[2])}}
=============================================================================
