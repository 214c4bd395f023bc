--------------------------- MODULE MCWriteAheadLog ---------------------------
(* Small instances of WriteAheadLog for TLC. *)
EXTENDS WriteAheadLog

CONSTANTS c1, c2, c3

Symmetry == Permutations(Conns)
=============================================================================
