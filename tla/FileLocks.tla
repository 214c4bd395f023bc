------------------------------- MODULE FileLocks -------------------------------
(***************************************************************************)
(* What the five lock levels of a database file promise to the pager       *)
(* (sqlite3.c, "unixLock" and its callers), whatever implements them: a    *)
(* connection reads with SHARED or more, intends to write with RESERVED,   *)
(* keeps others from finishing a write with PENDING and writes the file    *)
(* with EXCLUSIVE.  A hot journal is rolled back by a connection that goes *)
(* from SHARED to EXCLUSIVE without RESERVED, so that PENDING of one       *)
(* connection and RESERVED of another can be held together.                *)
(***************************************************************************)
EXTENDS Integers

CONSTANT Conns              \* connections to one database file

VARIABLES
    lock,                   \* the level each connection holds
    reserved                \* who has had RESERVED and not given it up

locks == <<lock, reserved>>

NO_LOCK == 0
SHARED_LOCK == 1
RESERVED_LOCK == 2
PENDING_LOCK == 3
EXCLUSIVE_LOCK == 4
Levels == NO_LOCK..EXCLUSIVE_LOCK

TypeOK == lock \in [Conns -> Levels] /\ reserved \subseteq Conns

SetLock(c, level) == lock' = [lock EXCEPT ![c] = level]

LockShared(c) ==
    /\ lock[c] = NO_LOCK
    /\ \A d \in Conns \ {c} : lock[d] # EXCLUSIVE_LOCK
    /\ SetLock(c, SHARED_LOCK)
    /\ UNCHANGED reserved

LockReserved(c) ==
    /\ lock[c] = SHARED_LOCK
    /\ reserved = {}
    /\ SetLock(c, RESERVED_LOCK)
    /\ reserved' = {c}

\* An attempt to get EXCLUSIVE that stops half way.
LockPending(c) ==
    /\ lock[c] \in {SHARED_LOCK, RESERVED_LOCK}
    /\ \A d \in Conns \ {c} : lock[d] < PENDING_LOCK
    /\ SetLock(c, PENDING_LOCK)
    /\ UNCHANGED reserved

LockExclusive(c) ==
    /\ lock[c] \in SHARED_LOCK..PENDING_LOCK
    /\ \A d \in Conns \ {c} : lock[d] = NO_LOCK
    /\ SetLock(c, EXCLUSIVE_LOCK)
    /\ UNCHANGED reserved

Unlock(c, level) ==
    /\ level < lock[c]
    /\ SetLock(c, level)
    /\ reserved' = reserved \ {c}

\* The connections of a process that dies.
Drop(dead) ==
    /\ lock' = [c \in Conns |-> IF c \in dead THEN NO_LOCK ELSE lock[c]]
    /\ reserved' = reserved \ dead

Init == lock = [c \in Conns |-> NO_LOCK] /\ reserved = {}

Next ==
    \/ \E c \in Conns :
           \/ LockShared(c) \/ LockReserved(c) \/ LockPending(c) \/ LockExclusive(c)
           \/ \E level \in {NO_LOCK, SHARED_LOCK} : Unlock(c, level)
    \/ \E dead \in SUBSET Conns : Drop(dead)

Spec == Init /\ [][Next]_locks

\* What the pager builds on: who may write the file is alone with it, one
\* connection at a time prepares changes, and one at a time waits for readers.
Exclusion ==
    \A c, d \in Conns : c # d =>
        /\ lock[c] = EXCLUSIVE_LOCK => lock[d] = NO_LOCK
        /\ ~(c \in reserved /\ d \in reserved)
        /\ ~(lock[c] >= PENDING_LOCK /\ lock[d] >= PENDING_LOCK)
=============================================================================
