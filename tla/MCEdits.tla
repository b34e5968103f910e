------------------------------- MODULE MCEdits -------------------------------
(* Two requests at a time on two entries and up to two physical files. *)
EXTENDS Edits, TLC

Symmetry == Permutations(Entries) \union Permutations(Files) \union Permutations(Reqs)
=============================================================================
