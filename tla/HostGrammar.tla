---------------------------- MODULE HostGrammar ----------------------------
(***************************************************************************)
(* A reference for HostValidation: the grammars that the comment on        *)
(* IsValidHost names, read without taking a host apart piece by piece.     *)
(***************************************************************************)
EXTENDS HostValidation

\* The numerals of 0..255: dec-octet of RFC 3986.
Octets ==
    LET NonZero == Digits \ {"0"}
        UpTo4 == {"0", "1", "2", "3", "4"}
    IN  {<<a>> : a \in Digits}
        \cup {<<a, b>> : a \in NonZero, b \in Digits}
        \cup {<<"1", a, b>> : a, b \in Digits}
        \cup {<<"2", a, b>> : a \in UpTo4, b \in Digits}
        \cup {<<"2", "5", a>> : a \in UpTo4 \cup {"5"}}

\* Four numerals of 0..255 without leading zeros, separated by single dots.
IsIPv4Address(s) ==
    LET dots == {i \in DOMAIN s : s[i] = "."}
    IN  /\ \A i \in DOMAIN s : s[i] \in Digits \cup {"."}
        /\ \E i, j, k \in dots :
             /\ i < j /\ j < k /\ dots = {i, j, k}
             /\ {SubSeq(s, 1, i - 1), SubSeq(s, i + 1, j - 1),
                 SubSeq(s, j + 1, k - 1), SubSeq(s, k + 1, Len(s))} \subseteq Octets

\* Two labels or more, of letters, digits and hyphens.  No label is empty, longer
\* than MaxLabel, or begins or ends with a hyphen: said by the characters next to
\* a dot or an end.
IsDomain(s) ==
    LET Outside(i) == i \notin DOMAIN s \/ s[i] = "."
    IN  /\ All(s, Letters \cup Digits \cup {"-", "."})
        /\ \E i \in DOMAIN s : s[i] = "."
        /\ \A i \in DOMAIN s :
             /\ s[i] = "." => ~ Outside(i - 1) /\ ~ Outside(i + 1)
             /\ s[i] = "-" => ~ Outside(i - 1) /\ ~ Outside(i + 1)
             /\ i + MaxLabel \in DOMAIN s => \E j \in i..(i + MaxLabel) : s[j] = "."

\* A host of digits, dots and hyphens is an IPv4 address, any other one localhost
\* or a domain name.
IsHost(host) ==
    IF All(host, Digits \cup {".", "-"}) THEN IsIPv4Address(host)
    ELSE host = Localhost \/ IsDomain(host)

\* An address and one more dot: no host of the grammar.
IsAddressAndDot(host) ==
    host # <<>> /\ Last(host) = "." /\ IsIPv4Address(Front(host))
=============================================================================
