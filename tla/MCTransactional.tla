--------------------------- MODULE MCTransactional ---------------------------
(* Small instances of Transactional for TLC. *)
EXTENDS Transactional, TLC

\* Frames that do not write are interchangeable: they differ only in when they are
\* called.
FrameSymmetry == Permutations(Frames \ Writers)
=============================================================================
