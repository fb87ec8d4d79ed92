--------------------------- MODULE MCCgiExecutor ---------------------------
(***************************************************************************)
(* Instances of CgiExecutor for TLC.  A path is made of "/", ".", a letter *)
(* that ends the extension ".p" and one that does not.                     *)
(***************************************************************************)
EXTENDS CgiExecutor

CONSTANT MaxUriLen

MCCharacters == {"/", ".", "p", "a"}

MCUris(n) == {<<"/">> \o s : s \in UNION {[1..k -> Characters] : k \in 0..(n - 1)}}

\* "/", a name without and one with a slash at its end, and one that looks like a
\* script.
MCNames == {<<"/">>, <<"/", "a">>, <<"/", "p", "/">>, <<"/", "a", ".", "p">>}

\* "/", "/a", and a root whose own name has the extension.
MCRoots == {<<"/">>, <<"/", "a">>, <<"/", "a", ".", "p">>}

DotP == <<".", "p">>
P == <<"p">>
A == <<"a">>
PSlashA == <<"p", "/", "a">>

\* One extension or two, in both orders, apart or one a suffix of the other; and
\* one that reaches over a slash.
MCExtensions ==
    {<<DotP>>, <<DotP, P>>, <<P, DotP>>, <<A, DotP>>, <<DotP, A>>, <<PSlashA, DotP>>}

\* Those of a set of requests whose location fits.
Fitting(requests) == {r \in requests : IsPathPrefix(UriKey(r.uri), LocKey(r))}

\* Every path of a file, without a body.
FileRequests ==
    Fitting([uri : {u \in MCUris(MaxUriLen) : Last(u) # "/"}, name : MCNames,
             root : MCRoots, index : {<<>>}, extensions : MCExtensions,
             method : {"GET"}, body : {0}, directory : {FALSE}])

\* Paths of directories, with and without a slash at their end, whose index is a
\* script, no script, the directory itself or the one above.
DirectoryRequests ==
    Fitting([uri : MCUris(MaxUriLen - 1), name : MCNames, root : MCRoots,
             index : {<<"a", ".", "p">>, <<"a">>, Dot, DotDot},
             extensions : {<<DotP>>, <<P, DotP>>, <<PSlashA, DotP>>},
             method : {"GET"}, body : {0}, directory : {TRUE}])

\* A script, with and without a PATH_INFO, and a file that is none; bodies up to
\* twice the capacity of the pair.
BodyRequests ==
    [uri : {<<"/", "a", ".", "p">>, <<"/", "a", ".", "p", "/", "a">>, <<"/", "a">>},
     name : {<<"/">>}, root : {<<"/", "a">>}, index : {<<>>}, extensions : {<<DotP>>},
     method : {"GET", "POST"}, body : 0..(2 * Capacity), directory : {FALSE}]

MCRequests == FileRequests \cup DirectoryRequests \cup BodyRequests
=============================================================================
