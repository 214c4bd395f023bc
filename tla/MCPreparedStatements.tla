------------------------- MODULE MCPreparedStatements -------------------------
(* Small instances of PreparedStatements for TLC. *)
EXTENDS PreparedStatements

CONSTANTS select, insert, update, pragma, s1, s2, s3, s4, p1, p2, p3, p4
=============================================================================
