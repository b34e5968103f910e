---------------------------- MODULE ContentStore ----------------------------
(***************************************************************************)
(* What the users are promised about the content of their files, without   *)
(* physical files and counts: every entry behaves as if it had a content   *)
(* of its own.  An entry loses its content only when it is itself being    *)
(* deleted, whatever happens to the copies of it.                          *)
(*                                                                         *)
(* careful is FALSE where the program does not keep this promise: requests *)
(* that overlap on one file, and the administration's deletion.            *)
(***************************************************************************)
CONSTANT Entries

VARIABLES
    files,      \* the entries there are
    readable,   \* those whose content is there
    doomed,     \* those a deletion in progress covers
    careful     \* the promise is kept (fixed)

vars == <<files, readable, doomed, careful>>

Init ==
    /\ files = {}
    /\ readable = {}
    /\ doomed = {}
    /\ careful \in BOOLEAN

\* A new file, or a copy; the copy of a file that an interrupted deletion has
\* left without content is without content too.
Add(e) ==
    /\ e \notin files
    /\ files' = files \union {e}
    /\ readable' \in {readable, readable \union {e}}
    /\ UNCHANGED <<doomed, careful>>

Replace(e) ==
    /\ e \in files
    /\ readable' = readable \union {e}
    /\ UNCHANGED <<files, doomed, careful>>

Doom(S) ==
    /\ S \subseteq files
    /\ doomed' = doomed \union S
    /\ UNCHANGED <<files, readable, careful>>

\* Entries that may be without content after a deletion's step.
Losable(S) == S \subseteq files /\ (careful => S \subseteq doomed)

Lose(S) ==
    /\ Losable(S)
    /\ readable' = readable \ S
    /\ UNCHANGED <<files, doomed, careful>>

Remove(S, T) ==
    /\ S \subseteq doomed
    /\ Losable(T)
    /\ files' = files \ S
    /\ readable' = readable \ (S \union T)
    /\ doomed' = doomed \ S
    /\ UNCHANGED careful

\* A deletion stops before its commit.
Spare(S) ==
    /\ S \subseteq doomed
    /\ doomed' = doomed \ S
    /\ UNCHANGED <<files, readable, careful>>

Next ==
    \/ \E e \in Entries : Add(e) \/ Replace(e)
    \/ \E S \in SUBSET Entries : Doom(S) \/ Lose(S) \/ Spare(S)
    \/ \E S, T \in SUBSET Entries : Remove(S, T)

Spec == Init /\ [][Next]_vars
=============================================================================
