----------------------------- MODULE MCWebserv -----------------------------
(***************************************************************************)
(* Instances of Webserv for TLC.                                           *)
(***************************************************************************)
EXTENDS Webserv, TLC

\* Objects of a class are interchangeable; descriptors are not.
Symmetry == Permutations(Clients) \cup Permutations(Cgis)
=============================================================================
