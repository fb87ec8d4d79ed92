------------------------------- MODULE Paths -------------------------------
(***************************************************************************)
(* Paths as sequences of characters: the operations on them that the       *)
(* configuration parser, the request handler and the CGI executor share.   *)
(* A loop over a sequence is a function from the number of elements taken  *)
(* to the state of the loop.                                               *)
(***************************************************************************)
EXTENDS Integers, Sequences, SequencesExt

\* "/path////" is taken for "/path".
TrimTrailingSlashExceptRoot(s) ==
    IF Len(s) <= 1 THEN s
    ELSE LET ends == {n \in 1..Len(s) : n = 1 \/ s[n] # "/"}
         IN  SubSeq(s, 1, CHOOSE n \in ends : \A m \in ends : m <= n)

\* The segments complete so far, and the characters of the one that follows: an
\* empty one is ignored.
EndSegment(acc) ==
    IF acc.segment = <<>> THEN acc.segments ELSE Append(acc.segments, acc.segment)

TakeChar(acc, ch) ==
    IF ch = "/" THEN [segments |-> EndSegment(acc), segment |-> <<>>]
    ELSE [segments |-> acc.segments, segment |-> Append(acc.segment, ch)]

Scan(p) ==
    LET run[n \in 0..Len(p)] ==
          IF n = 0 THEN [segments |-> <<>>, segment |-> <<>>]
          ELSE TakeChar(run[n - 1], p[n])
    IN  run

SplitPathSegments(p) == EndSegment(Scan(p)[Len(p)])

Dot == <<".">>
DotDot == <<".", ".">>

\* The stack of segments, with ok = FALSE once ".." finds it empty.
PushSegment(acc, s) ==
    IF s = Dot THEN acc
    ELSE IF s # DotDot THEN [ok |-> acc.ok, stack |-> Append(acc.stack, s)]
    ELSE IF acc.stack = <<>> THEN [ok |-> FALSE, stack |-> <<>>]
    ELSE [ok |-> acc.ok, stack |-> Front(acc.stack)]

Stacked(segments) ==
    LET run[n \in 0..Len(segments)] ==
          IF n = 0 THEN [ok |-> TRUE, stack |-> <<>>]
          ELSE PushSegment(run[n - 1], segments[n])
    IN  run

SegmentStack(p) ==
    LET segments == SplitPathSegments(p) IN Stacked(segments)[Len(segments)]

\* "/a/b" for <<a, b>>.
Join(segments) ==
    LET run[n \in 0..Len(segments)] ==
          IF n = 0 THEN <<>> ELSE run[n - 1] \o (<<"/">> \o segments[n])
    IN  run

NormalizePathBySegments(p) ==
    LET stack == SegmentStack(p).stack
        rebuilt == IF stack = <<>> THEN <<"/">> ELSE Join(stack)[Len(stack)]
    IN  IF Last(p) = "/" /\ Last(rebuilt) # "/" THEN Append(rebuilt, "/")
        ELSE rebuilt

-----------------------------------------------------------------------------
(***************************************************************************)
(* ServerConfig: a location fits a request path, both without the slashes  *)
(* they end in, and leaves a remainder of it.                              *)
(***************************************************************************)
IsPathPrefix(uri_key, loc_key) ==
    \/ loc_key = <<"/">>
    \/ /\ IsPrefix(loc_key, uri_key)
       /\ Len(uri_key) = Len(loc_key) \/ uri_key[Len(loc_key) + 1] = "/"

\* Mutant: no slash is put before the remainder.
BareRemainder(uri_key, loc_key) == SubSeq(uri_key, Len(loc_key) + 1, Len(uri_key))

RemainderOf(uri_key, loc_key) ==
    LET rest == SubSeq(uri_key, Len(loc_key) + 1, Len(uri_key))
    IN  IF rest = <<>> \/ rest[1] # "/" THEN <<"/">> \o rest ELSE rest

(***************************************************************************)
(* FileValidator.                                                          *)
(***************************************************************************)
\* Mutant: a prefix that need not end at a segment boundary.
IsPrefixOfPath(p, root) == IsPrefix(root, p)

IsPathUnderDocumentRoot(p, root) ==
    \/ root = <<"/">>
    \/ /\ root # <<>> /\ IsPrefix(root, p)
       /\ Len(p) = Len(root) \/ p[Len(root) + 1] = "/"

\* The status thrown by ValidateAndNormalizePath, 0 if the path is good.
PathStatus(p, root) ==
    IF p[1] # "/" \/ ~ SegmentStack(p).ok THEN 400
    ELSE IF ~ IsPathUnderDocumentRoot(NormalizePathBySegments(p), root) THEN 404
    ELSE 0

\* AppendIndexFileIfDirectoryOrThrow, for a directory.
WithIndex(p, index) == (IF Last(p) = "/" THEN p ELSE Append(p, "/")) \o index
=============================================================================
