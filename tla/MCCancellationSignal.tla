------------------------- MODULE MCCancellationSignal -------------------------
(* Small instances of CancellationSignal for TLC. *)
EXTENDS CancellationSignal

CONSTANTS t1, t2, s1, s2

\* The first thread has a signal of its own; all share the other one.
OwnAndShared == [t \in Threads |-> IF t = t1 THEN {s1, s2} ELSE {s2}]
=============================================================================
