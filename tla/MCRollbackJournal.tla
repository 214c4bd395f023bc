--------------------------- MODULE MCRollbackJournal ---------------------------
(* A small instance of RollbackJournal for TLC. *)
EXTENDS RollbackJournal

CONSTANTS c1, c2

Symmetry == Permutations(Conns)
=============================================================================
