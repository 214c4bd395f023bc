--------------------------- MODULE MCConnectionPool ---------------------------
(* Small instances of SQLiteConnectionPool for TLC. *)
EXTENDS SQLiteConnectionPool

CONSTANTS t1, t2, t3, c1, c2, c3, c4, c5, w1, w2, w3

PlainConfig == [readOnly |-> FALSE, wal |-> FALSE, foreignKeys |-> FALSE,
                parameters |-> 0]
WalConfig == [PlainConfig EXCEPT !.wal = TRUE]
ReadOnlyWalConfig == [WalConfig EXCEPT !.readOnly = TRUE]

\* Waiters are alike, and so are the threads without a role.
Alike == Permutations(Waiters)
             \cup Permutations(Threads \ (Interactive \cup Cancelable \cup Impatient))
=============================================================================
