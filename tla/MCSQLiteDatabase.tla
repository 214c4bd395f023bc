--------------------------- MODULE MCSQLiteDatabase ---------------------------
(* Small instances of SQLiteDatabase for TLC. *)
EXTENDS SQLiteDatabase, TLC

CONSTANTS t1, t2, t3

ReadOnlyConfig == [readOnly |-> TRUE, wal |-> FALSE, foreignKeys |-> FALSE]

Alike == Permutations(Threads)
=============================================================================
