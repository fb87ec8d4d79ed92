------------------------------ MODULE CgiPath ------------------------------
(***************************************************************************)
(* How the path of a request is split into a script and its PATH_INFO, by  *)
(* the extensions that the location lists.  Paths and extensions are       *)
(* sequences of characters; an extension is a word of the configuration    *)
(* and is never empty.                                                     *)
(***************************************************************************)
EXTENDS Integers, Sequences, SequencesExt

\* Where ext ends the name of a file in path: before "/" or at the end.
ExtensionAt(path, ext) ==
    {p \in 1..(Len(path) - Len(ext) + 1) :
        LET after == p + Len(ext)
        IN  /\ SubSeq(path, p, after - 1) = ext
            /\ after = Len(path) + 1 \/ path[after] = "/"
            /\ p = 1 \/ path[p - 1] # "/"}

\* rfind: the last such place, 0 if there is none.
LastExtension(path, ext) ==
    LET places == ExtensionAt(path, ext)
    IN  IF places = {} THEN 0 ELSE CHOOSE p \in places : \A q \in places : q <= p

\* Mutant: the extension that comes last in the list decides.
LastListed(path, extensions) ==
    LET Found(end, ext) ==
          LET p == LastExtension(path, ext)
          IN  IF p = 0 THEN end ELSE p + Len(ext) - 1
    IN  FoldLeft(Found, 0, extensions)

\* CreatePathInfo: where the name of the script ends, 0 if no extension fits.
\* PATH_INFO is what follows.  The loop keeps the leftmost place (min_pos) that
\* the first n extensions have.
BetterPlace(best, p, ext) ==
    IF p # 0 /\ (best.pos = 0 \/ p < best.pos)
    THEN [pos |-> p, end |-> p + Len(ext) - 1] ELSE best

Leftmost(path, extensions) ==
    LET run[n \in 0..Len(extensions)] ==
          IF n = 0 THEN [pos |-> 0, end |-> 0]
          ELSE BetterPlace(run[n - 1], LastExtension(path, extensions[n]), extensions[n])
    IN  run

ScriptEnd(path, extensions) == Leftmost(path, extensions)[Len(extensions)].end

\* The file that is executed: script_path_ after InitializeMetaVars.
ExecutablePath(path, extensions) ==
    LET n == ScriptEnd(path, extensions)
    IN  IF n = 0 THEN path ELSE SubSeq(path, 1, n)

IsScriptExtensionAllowed(file, extensions) ==
    \E i \in DOMAIN extensions : IsSuffix(extensions[i], file)
=============================================================================
