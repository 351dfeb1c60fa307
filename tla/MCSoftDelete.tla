---------------------------- MODULE MCSoftDelete ----------------------------
(* Small instances of SoftDelete for TLC. *)
EXTENDS SoftDelete, TLC

\* Documents differ only in their fields, and callers in what they run.
Symmetry == Permutations(Docs) \union Permutations(Callers)
=============================================================================
