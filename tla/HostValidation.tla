--------------------------- MODULE HostValidation --------------------------
(***************************************************************************)
(* host_validation::IsValidHost, which decides what "listen" accepts as an *)
(* address.  A host is a sequence of characters.                           *)
(***************************************************************************)
EXTENDS Integers, Sequences, SequencesExt

CONSTANTS
    MaxLabel \* length of a label of a domain name; 63 in the code

ASSUME MaxLabelAssumption == MaxLabel \in Nat \ {0}

Digits == {"0", "1", "2", "3", "4", "5", "6", "7", "8", "9"}
Letters == {"a", "b", "c", "e", "g", "h", "l", "m", "n", "o", "p", "s", "t"}

Digit(ch) == CHOOSE d \in 0..9 :
    ch = <<"0", "1", "2", "3", "4", "5", "6", "7", "8", "9">>[d + 1]

All(s, chars) == \A i \in DOMAIN s : s[i] \in chars

Localhost == <<"l", "o", "c", "a", "l", "h", "o", "s", "t">>

\* The pieces between dots, the empty one at the end included.  A loop over a
\* sequence is a function from the number of elements taken to its state.
AddChar(acc, ch) ==
    IF ch = "." THEN Append(acc, <<>>)
    ELSE [acc EXCEPT ![Len(acc)] = Append(@, ch)]

SplitAtDots(s) ==
    LET run[n \in 0..Len(s)] ==
          IF n = 0 THEN << <<>> >> ELSE AddChar(run[n - 1], s[n])
    IN  run

Pieces(s) == SplitAtDots(s)[Len(s)]

\* std::getline(ss, segment, '.') until it fails: no empty piece at the end.
Getline(s) == IF Last(Pieces(s)) = <<>> THEN Front(Pieces(s)) ELSE Pieces(s)

-----------------------------------------------------------------------------
LooksLikeIPv4(host) == All(host, Digits \cup {".", "-"})

\* Mutant: a segment of three digits is not compared with 255.
IsShortNumber(segment) ==
    /\ Len(segment) \in 1..3 /\ All(segment, Digits)
    /\ Len(segment) > 1 => segment[1] # "0"

ValueOf(segment) ==
    LET value[n \in 0..Len(segment)] ==
          IF n = 0 THEN 0 ELSE value[n - 1] * 10 + Digit(segment[n])
    IN  value

IsValidIPv4Segment(segment) ==
    /\ Len(segment) \in 1..3 /\ All(segment, Digits)
    /\ Len(segment) > 1 => segment[1] # "0"
    /\ ValueOf(segment)[Len(segment)] <= 255

IsValidIPv4(host) ==
    /\ All(host, Digits \cup {"."})
    /\ Len(Getline(host)) = 4
    /\ \A i \in DOMAIN Getline(host) : IsValidIPv4Segment(Getline(host)[i])

IsValidDomainLabel(label) ==
    /\ Len(label) \in 1..MaxLabel
    /\ label[1] # "-" /\ Last(label) # "-"
    /\ All(label, Letters \cup Digits \cup {"-"})

IsValidDomainName(host) ==
    /\ host # <<>> /\ host[1] # "." /\ Last(host) # "."
    /\ Len(Getline(host)) >= 2
    /\ \A i \in DOMAIN Getline(host) : IsValidDomainLabel(Getline(host)[i])

ContainsInvalidChars(host) == ~ All(host, Letters \cup Digits \cup {"-", "."})

IsValidHost(host) ==
    /\ host # <<>>
    /\ \/ host = Localhost
       \/ LooksLikeIPv4(host) /\ IsValidIPv4(host)
       \/ ~ LooksLikeIPv4(host) /\ ~ ContainsInvalidChars(host) /\ IsValidDomainName(host)
=============================================================================
