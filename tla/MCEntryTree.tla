---------------------------- MODULE MCEntryTree ----------------------------
(***************************************************************************)
(* A root and a few more rows.  One row is enough for a cycle, two for a   *)
(* trashed folder with a trashed child, three for a subtree of depth two,  *)
(* or for name conflicts between two restores.                             *)
(***************************************************************************)
EXTENDS EntryTree, TLC

\* One stem, plain and with one number: what a user can type to get in the way
\* of the names that restoring makes up.
MCRequestNames == {[stem |-> "a", copies |-> <<>>], [stem |-> "a", copies |-> <<1>>]}

Symmetry == Permutations(Ids \ {Root})
=============================================================================
