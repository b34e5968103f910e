----------------------------- MODULE MCBlobRefs -----------------------------
(* Two requests at a time over a few files and entries. *)
EXTENDS BlobRefs, TLC

Symmetry == Permutations(Entries) \union Permutations(Files) \union Permutations(Reqs)
=============================================================================
