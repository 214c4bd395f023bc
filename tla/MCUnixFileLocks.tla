---------------------------- MODULE MCUnixFileLocks ----------------------------
(* A small instance of UnixFileLocks for TLC. *)
EXTENDS UnixFileLocks, TLC

CONSTANTS p1, p2, c1, c2, c3, c4

\* Two connections in each of two processes.
TwoAndTwo == c1 :> p1 @@ c2 :> p1 @@ c3 :> p2 @@ c4 :> p2
=============================================================================
