---------------------------- MODULE MCSQLiteSession ----------------------------
(* Small instances of SQLiteSession for TLC. *)
EXTENDS SQLiteSession, TLC

CONSTANTS t1, t2, c1

\* Sessions are alike.
Alike == Permutations(Sessions)
=============================================================================
