----------------------------- MODULE UnixFileLocks -----------------------------
(***************************************************************************)
(* The locks of a database file on POSIX (sqlite3.c, unixLock, posixUnlock *)
(* and unixClose).  POSIX locks belong to a process: the connections of a  *)
(* process share them through its unixInodeInfo, under a mutex, and lose   *)
(* all of them when any descriptor of the file is closed.  A level is made *)
(* of locks on the pending byte, the reserved byte and the shared range.   *)
(*                                                                         *)
(* A call runs under the mutex of its process; between two fcntl calls     *)
(* other processes run, so every fcntl is a step and op says where the     *)
(* call of a process is.  A call that returns without changing anything    *)
(* (SQLITE_OK because the level is held, SQLITE_BUSY) is no step.          *)
(***************************************************************************)
EXTENDS Integers, FiniteSets

CONSTANTS
    Processes,      \* processes that use the database file
    Conns,          \* the connections, that is the unixFile handles
    ProcessOf,      \* the process of a connection
    None,           \* no connection
    MaxErrors       \* bound: fcntl calls that fail for another reason than a lock

ASSUME LocksAssumption ==
    /\ ProcessOf \in [Conns -> Processes]
    /\ IsFiniteSet(Conns)
    /\ None \notin Conns
    /\ MaxErrors \in Nat

VARIABLES
    eFileLock,      \* unixFile.eFileLock of a connection
    isOpen,         \* whether the connection has the file open
    pInode,         \* unixInodeInfo of a process
    os,             \* the POSIX locks of a process
    op,             \* the call in progress in a process
    errors

vars == <<eFileLock, isOpen, pInode, os, op, errors>>

NO_LOCK == 0
SHARED_LOCK == 1
RESERVED_LOCK == 2
PENDING_LOCK == 3
EXCLUSIVE_LOCK == 4
Levels == NO_LOCK..EXCLUSIVE_LOCK

Modes == {"none", "read", "write"}
Steps == {"idle",
          "sharedRange",      \* unixLock(SHARED) has read-locked the pending byte
          "dropPending",      \* ... and has tried to read-lock the shared range
          "exclusiveRange",   \* unixLock(EXCLUSIVE) has the pending byte
          "unlockPending",    \* posixUnlock(SHARED) has a read lock on the range
          "unlockShared"}     \* posixUnlock(NO) has released the first two bytes

TypeOK ==
    /\ eFileLock \in [Conns -> Levels]
    /\ isOpen \in [Conns -> BOOLEAN]
    /\ pInode \in [Processes -> [eFileLock : Levels, nShared : Nat, nLock : Nat,
                                 pUnused : Nat]]
    /\ os \in [Processes -> [pending : Modes, reserved : Modes, shared : Modes]]
    /\ op \in [Processes -> [at : Steps, conn : Conns \cup {None}, ok : BOOLEAN]]
    /\ errors \in 0..MaxErrors

NoLocks == [pending |-> "none", reserved |-> "none", shared |-> "none"]

-----------------------------------------------------------------------------
(***************************************************************************)
(* fcntl                                                                   *)
(***************************************************************************)
\* F_SETLK by process p conflicts with no other process.
MaySet(p, byte, mode) ==
    \A q \in Processes \ {p} :
        IF mode = "write" THEN os[q][byte] = "none" ELSE os[q][byte] # "write"

\* It fails with an error such as EIO.
IoError == errors < MaxErrors /\ errors' = errors + 1

NoCall == [at |-> "idle", conn |-> None, ok |-> TRUE]
Idle(c) == isOpen[c] /\ op[ProcessOf[c]].at = "idle"

Goto(p, step, c, ok) == op' = [op EXCEPT ![p] = [at |-> step, conn |-> c, ok |-> ok]]
Return(p) == op' = [op EXCEPT ![p] = NoCall]

-----------------------------------------------------------------------------
(***************************************************************************)
(* unixLock(SHARED_LOCK)                                                   *)
(***************************************************************************)
\* Mutant: whatever level the other connection has.
LockSharedAnyway(c) ==
    LET p == ProcessOf[c] IN
    /\ Idle(c) /\ eFileLock[c] = NO_LOCK
    /\ pInode[p].eFileLock # NO_LOCK
    /\ eFileLock' = [eFileLock EXCEPT ![c] = SHARED_LOCK]
    /\ pInode' = [pInode EXCEPT ![p].nShared = @ + 1, ![p].nLock = @ + 1]
    /\ UNCHANGED <<isOpen, os, op, errors>>

\* Another connection of the process has the locks already.
LockSharedCounted(c) ==
    LET p == ProcessOf[c] IN
    /\ Idle(c) /\ eFileLock[c] = NO_LOCK
    /\ pInode[p].eFileLock \in {SHARED_LOCK, RESERVED_LOCK}
    /\ eFileLock' = [eFileLock EXCEPT ![c] = SHARED_LOCK]
    /\ pInode' = [pInode EXCEPT ![p].nShared = @ + 1, ![p].nLock = @ + 1]
    /\ UNCHANGED <<isOpen, os, op, errors>>

\* Read-locks the pending byte first.
LockShared(c) ==
    LET p == ProcessOf[c] IN
    /\ Idle(c) /\ eFileLock[c] = NO_LOCK
    /\ pInode[p].eFileLock = NO_LOCK
    /\ MaySet(p, "pending", "read")
    /\ os' = [os EXCEPT ![p].pending = "read"]
    /\ Goto(p, "sharedRange", c, TRUE)
    /\ UNCHANGED <<eFileLock, isOpen, pInode, errors>>

SharedRange(p) ==
    /\ op[p].at = "sharedRange"
    /\ \/ /\ MaySet(p, "shared", "read")
          /\ os' = [os EXCEPT ![p].shared = "read"]
          /\ Goto(p, "dropPending", op[p].conn, TRUE)
          /\ UNCHANGED errors
       \/ /\ \/ ~MaySet(p, "shared", "read") /\ UNCHANGED errors
             \/ IoError
          /\ Goto(p, "dropPending", op[p].conn, FALSE)
          /\ UNCHANGED os
    /\ UNCHANGED <<eFileLock, isOpen, pInode>>

\* Mutant: the first reader of the process is not counted.
DropPendingUncounted(p) ==
    /\ op[p].at = "dropPending"
    /\ os' = [os EXCEPT ![p].pending = "none"]
    /\ IF op[p].ok
       THEN /\ eFileLock' = [eFileLock EXCEPT ![op[p].conn] = SHARED_LOCK]
            /\ pInode' = [pInode EXCEPT ![p].eFileLock = SHARED_LOCK]
       ELSE UNCHANGED <<eFileLock, pInode>>
    /\ Return(p)
    /\ UNCHANGED <<errors, isOpen>>

DropPending(p) ==
    /\ op[p].at = "dropPending"
    /\ \/ /\ os' = [os EXCEPT ![p].pending = "none"]
          /\ IF op[p].ok
             THEN /\ eFileLock' = [eFileLock EXCEPT ![op[p].conn] = SHARED_LOCK]
                  /\ pInode' = [pInode EXCEPT ![p].eFileLock = SHARED_LOCK,
                                              ![p].nShared = 1, ![p].nLock = @ + 1]
             ELSE UNCHANGED <<eFileLock, pInode>>
          /\ UNCHANGED errors
       \/ IoError /\ UNCHANGED <<os, eFileLock, pInode>>
    /\ Return(p)
    /\ UNCHANGED isOpen

-----------------------------------------------------------------------------
(***************************************************************************)
(* unixLock(RESERVED_LOCK) and unixLock(EXCLUSIVE_LOCK)                    *)
(***************************************************************************)
SetLevel(c, level) ==
    /\ eFileLock' = [eFileLock EXCEPT ![c] = level]
    /\ pInode' = [pInode EXCEPT ![ProcessOf[c]].eFileLock = level]

LockReserved(c) ==
    LET p == ProcessOf[c] IN
    /\ Idle(c)
    /\ eFileLock[c] = SHARED_LOCK /\ pInode[p].eFileLock = SHARED_LOCK
    /\ MaySet(p, "reserved", "write")
    /\ os' = [os EXCEPT ![p].reserved = "write"]
    /\ SetLevel(c, RESERVED_LOCK)
    /\ UNCHANGED <<isOpen, op, errors>>

\* The pending byte first; readers of the same process make the call stop there.
LockExclusive(c) ==
    LET p == ProcessOf[c] IN
    /\ Idle(c)
    /\ eFileLock[c] \in {SHARED_LOCK, RESERVED_LOCK}
    /\ pInode[p].eFileLock = eFileLock[c]
    /\ MaySet(p, "pending", "write")
    /\ os' = [os EXCEPT ![p].pending = "write"]
    /\ \/ /\ pInode[p].nShared > 1
          /\ SetLevel(c, PENDING_LOCK)
          /\ UNCHANGED op
       \/ /\ pInode[p].nShared <= 1
          /\ Goto(p, "exclusiveRange", c, TRUE)
          /\ UNCHANGED <<eFileLock, pInode>>
    /\ UNCHANGED <<isOpen, errors>>

\* The shared range; a connection keeps PENDING when it cannot have it.
TakeRange(p, c) ==
    \/ /\ MaySet(p, "shared", "write")
       /\ os' = [os EXCEPT ![p].shared = "write"]
       /\ SetLevel(c, EXCLUSIVE_LOCK)
       /\ UNCHANGED errors
    \/ /\ \/ ~MaySet(p, "shared", "write") /\ UNCHANGED errors
          \/ IoError
       /\ SetLevel(c, PENDING_LOCK)
       /\ UNCHANGED os

ExclusiveRange(p) ==
    /\ op[p].at = "exclusiveRange"
    /\ TakeRange(p, op[p].conn)
    /\ Return(p)
    /\ UNCHANGED isOpen

\* Another attempt of a connection that has PENDING.
RetryExclusive(c) ==
    LET p == ProcessOf[c] IN
    /\ Idle(c)
    /\ eFileLock[c] = PENDING_LOCK /\ pInode[p].eFileLock = PENDING_LOCK
    /\ pInode[p].nShared <= 1
    /\ TakeRange(p, c)
    /\ UNCHANGED <<isOpen, op>>

-----------------------------------------------------------------------------
(***************************************************************************)
(* posixUnlock and unixClose                                               *)
(***************************************************************************)
\* To SHARED: a read lock on the range, which no other process prevents ...
Downgrade(c) ==
    LET p == ProcessOf[c] IN
    /\ Idle(c) /\ eFileLock[c] > SHARED_LOCK
    /\ MaySet(p, "shared", "read")
    /\ os' = [os EXCEPT ![p].shared = "read"]
    /\ Goto(p, "unlockPending", c, TRUE)
    /\ UNCHANGED <<eFileLock, isOpen, pInode, errors>>

\* ... and then the first two bytes.
UnlockPending(p) ==
    /\ op[p].at = "unlockPending"
    /\ \/ /\ os' = [os EXCEPT ![p].pending = "none", ![p].reserved = "none"]
          /\ SetLevel(op[p].conn, SHARED_LOCK)
          /\ UNCHANGED errors
       \/ IoError /\ UNCHANGED <<os, eFileLock, pInode>>
    /\ Return(p)
    /\ UNCHANGED isOpen

\* To NO_LOCK: the first two bytes, if the level is above SHARED ...
Unlock(c) ==
    LET p == ProcessOf[c] IN
    /\ Idle(c) /\ eFileLock[c] > SHARED_LOCK
    /\ os' = [os EXCEPT ![p].pending = "none", ![p].reserved = "none"]
    /\ pInode' = [pInode EXCEPT ![p].eFileLock = SHARED_LOCK]
    /\ Goto(p, "unlockShared", c, TRUE)
    /\ UNCHANGED <<eFileLock, isOpen, errors>>

\* ... and everything, if no other connection of the process reads.  With the last
\* lock gone the descriptors whose close was deferred are closed, which releases
\* whatever an fcntl that failed has left.
Uncount(p) ==
    pInode' = [pInode EXCEPT ![p].nShared = @ - 1, ![p].nLock = @ - 1,
                             ![p].eFileLock = IF pInode[p].nShared = 1 THEN NO_LOCK ELSE @,
                             ![p].pUnused = IF pInode[p].nLock = 1 THEN 0 ELSE @]
ReleaseShared(p, c) ==
    /\ eFileLock' = [eFileLock EXCEPT ![c] = NO_LOCK]
    /\ Uncount(p)
    /\ \/ /\ os' = [os EXCEPT ![p] = IF pInode[p].nShared = 1 THEN NoLocks ELSE @]
          /\ UNCHANGED errors
       \/ /\ pInode[p].nShared = 1 /\ IoError
          /\ os' = [os EXCEPT ![p] = IF pInode[p].pUnused > 0 THEN NoLocks ELSE @]

UnlockShared(p) ==
    /\ op[p].at = "unlockShared"
    /\ ReleaseShared(p, op[p].conn)
    /\ Return(p)
    /\ UNCHANGED isOpen

UnlockReader(c) ==
    /\ Idle(c) /\ eFileLock[c] = SHARED_LOCK
    /\ ReleaseShared(ProcessOf[c], c)
    /\ UNCHANGED <<isOpen, op>>

FreshInode == [eFileLock |-> NO_LOCK, nShared |-> 0, nLock |-> 0, pUnused |-> 0]

\* The last connection of a process to the file: releaseInodeInfo frees the
\* unixInodeInfo and closes the descriptors it still has.
LastOpen(c) == \A d \in Conns \ {c} : ProcessOf[d] = ProcessOf[c] => ~isOpen[d]

\* Mutant: the descriptor is closed whatever the process has locked.
CloseAtOnce(c) ==
    LET p == ProcessOf[c] IN
    /\ Idle(c) /\ eFileLock[c] = NO_LOCK
    /\ isOpen' = [isOpen EXCEPT ![c] = FALSE]
    /\ os' = [os EXCEPT ![p] = NoLocks]
    /\ UNCHANGED <<eFileLock, pInode, op, errors>>

\* unixClose.  The connection has been unlocked, or the call that releases its first
\* two bytes fails: that is ignored, the handle is cleared, and what the inode has
\* counted for it stays.  Closing a descriptor releases every lock of the process, so
\* it is put aside while there are any.
Close(c) ==
    LET p == ProcessOf[c] IN
    /\ Idle(c)
    /\ \/ eFileLock[c] = NO_LOCK /\ UNCHANGED errors
       \/ eFileLock[c] > SHARED_LOCK /\ IoError
    /\ eFileLock' = [eFileLock EXCEPT ![c] = NO_LOCK]
    /\ isOpen' = [isOpen EXCEPT ![c] = FALSE]
    /\ \/ /\ LastOpen(c)
          /\ os' = [os EXCEPT ![p] = NoLocks]
          /\ pInode' = [pInode EXCEPT ![p] = FreshInode]
       \/ /\ ~LastOpen(c) /\ pInode[p].nLock > 0
          /\ pInode' = [pInode EXCEPT ![p].pUnused = @ + 1]
          /\ UNCHANGED os
       \/ /\ ~LastOpen(c) /\ pInode[p].nLock = 0
          /\ os' = [os EXCEPT ![p] = NoLocks]
          /\ UNCHANGED pInode
    /\ UNCHANGED op

\* unixOpen uses a descriptor that was put aside again (findReusableFd).
Open(c) ==
    LET p == ProcessOf[c] IN
    /\ ~isOpen[c]
    /\ op[p].at = "idle"
    /\ isOpen' = [isOpen EXCEPT ![c] = TRUE]
    /\ pInode' = [pInode EXCEPT ![p].pUnused = IF @ > 0 THEN @ - 1 ELSE 0]
    /\ UNCHANGED <<eFileLock, os, op, errors>>

\* The process dies and its locks with it; a new one takes its place.
Crash(p) ==
    /\ eFileLock' = [c \in Conns |-> IF ProcessOf[c] = p THEN NO_LOCK ELSE eFileLock[c]]
    /\ isOpen' = [c \in Conns |-> isOpen[c] /\ ProcessOf[c] # p]
    /\ pInode' = [pInode EXCEPT ![p] = FreshInode]
    /\ os' = [os EXCEPT ![p] = NoLocks]
    /\ Return(p)
    /\ UNCHANGED errors

-----------------------------------------------------------------------------
Init ==
    /\ eFileLock = [c \in Conns |-> NO_LOCK]
    /\ isOpen = [c \in Conns |-> FALSE]
    /\ pInode = [p \in Processes |-> FreshInode]
    /\ os = [p \in Processes |-> NoLocks]
    /\ op = [p \in Processes |-> NoCall]
    /\ errors = 0

Next ==
    \/ \E c \in Conns :
           \/ LockSharedCounted(c) \/ LockShared(c) \/ LockReserved(c)
           \/ LockExclusive(c) \/ RetryExclusive(c)
           \/ Downgrade(c) \/ Unlock(c) \/ UnlockReader(c)
           \/ Close(c) \/ Open(c)
    \/ \E p \in Processes :
           \/ SharedRange(p) \/ DropPending(p) \/ ExclusiveRange(p)
           \/ UnlockPending(p) \/ UnlockShared(p) \/ Crash(p)

Spec == Init /\ [][Next]_vars

-----------------------------------------------------------------------------
(***************************************************************************)
(* Properties                                                              *)
(***************************************************************************)
\* What a connection can count on: while posixUnlock takes it from a level above
\* SHARED to NO_LOCK, nothing but SHARED once the first two bytes are free.
Lock == [c \in Conns |->
            IF op[ProcessOf[c]].at = "unlockShared" /\ op[ProcessOf[c]].conn = c
            THEN SHARED_LOCK ELSE eFileLock[c]]

\* "Additional lock states are inserted in between": whatever the order of fcntl
\* calls of several processes, errors, closes and crashes, the levels connections
\* believe to hold are those of the abstract lock.
Reserved == {c \in Conns : Lock[c] > SHARED_LOCK /\ os[ProcessOf[c]].reserved = "write"}
Abstract == INSTANCE FileLocks WITH lock <- Lock, reserved <- Reserved
ImplementsFileLocks == Abstract!Spec

Readers(p) == {c \in Conns : ProcessOf[c] = p /\ eFileLock[c] # NO_LOCK}

\* fcntl grants conflicting locks to no two processes.
PosixExclusion ==
    \A p, q \in Processes : p # q =>
        \A byte \in {"pending", "reserved", "shared"} :
            os[p][byte] = "write" => os[q][byte] = "none"

\* A connection was closed although its unlock had failed: the inode counts one more
\* than there are.
Orphaned(p) == pInode[p].nShared = Cardinality(Readers(p)) + 1

\* The inode information agrees with the connections of the process, or counts one
\* that is gone: then its level is above SHARED and stays, the shared range stays
\* locked, and the other connections of the process can do nothing but read.
InodeCounts ==
    \A p \in Processes :
        /\ pInode[p].nShared = Cardinality(Readers(p)) \/ Orphaned(p)
        /\ pInode[p].nLock = pInode[p].nShared
        /\ pInode[p].eFileLock = NO_LOCK <=> pInode[p].nShared = 0
        /\ pInode[p].eFileLock = EXCLUSIVE_LOCK => pInode[p].nShared = 1
        /\ pInode[p].eFileLock > SHARED_LOCK =>
               Orphaned(p) \/ \E c \in Readers(p) : Lock[c] = pInode[p].eFileLock
        /\ Orphaned(p) =>
               /\ pInode[p].eFileLock > SHARED_LOCK /\ os[p].shared # "none"
               /\ \A c \in Readers(p) : eFileLock[c] = SHARED_LOCK
InodeLevels ==
    \A c \in Conns :
        /\ Lock[c] > SHARED_LOCK => Lock[c] = pInode[ProcessOf[c]].eFileLock
        /\ \A d \in Conns : c # d /\ ProcessOf[c] = ProcessOf[d] =>
               ~(eFileLock[c] > SHARED_LOCK /\ eFileLock[d] > SHARED_LOCK)

\* "If there are outstanding locks, do not actually close the file just yet because
\* that would clear those locks": every level is backed by the locks of the process,
\* although connections of the process are opened, closed and unlocked meanwhile.
LocksBacked ==
    \A c \in Conns : LET p == ProcessOf[c] IN
        /\ eFileLock[c] # NO_LOCK => isOpen[c] /\ os[p].shared # "none"
        /\ Lock[c] = RESERVED_LOCK => os[p].reserved = "write"
        /\ Lock[c] >= PENDING_LOCK => os[p].pending = "write"
        /\ Lock[c] = EXCLUSIVE_LOCK =>
               \A q \in Processes \ {p} : os[q].shared = "none"

\* The reserved byte is locked for a connection above SHARED, however calls failed.
ReservedHeld ==
    \A p \in Processes : os[p].reserved = "write" => pInode[p].eFileLock > SHARED_LOCK

\* What a call in progress has done so far.
CallsInProgress ==
    \A p \in Processes : op[p].at # "idle" => LET c == op[p].conn IN
        /\ c \in Conns /\ ProcessOf[c] = p /\ isOpen[c]
        /\ op[p].at \in {"sharedRange", "dropPending"} =>
               /\ os[p].pending = "read" /\ pInode[p].eFileLock = NO_LOCK
               /\ op[p].at = "dropPending" /\ op[p].ok => os[p].shared = "read"
        /\ op[p].at = "exclusiveRange" =>
               /\ os[p].pending = "write" /\ pInode[p].nShared = 1
               /\ eFileLock[c] \in {SHARED_LOCK, RESERVED_LOCK}
               /\ pInode[p].eFileLock = eFileLock[c]
        /\ op[p].at = "unlockPending" =>
               eFileLock[c] > SHARED_LOCK /\ pInode[p].eFileLock = eFileLock[c]
        /\ op[p].at = "unlockShared" =>
               eFileLock[c] > SHARED_LOCK /\ pInode[p].eFileLock = SHARED_LOCK

\* Who may write the file is alone with it, one connection at a time prepares changes,
\* and one at a time waits for readers (FileLocks).
Exclusion == Abstract!Exclusion

\* All of this holds between any two fcntl calls of any processes, whatever fails.
LockInv == /\ TypeOK /\ PosixExclusion /\ InodeCounts /\ InodeLevels /\ LocksBacked
           /\ ReservedHeld /\ CallsInProgress /\ Exclusion

\* "In theory, the call to unixFileLock() cannot fail because another process is
\* holding an incompatible lock": a downgrade to SHARED never meets one.
DowngradeUnobstructed ==
    \A c \in Conns : eFileLock[c] > SHARED_LOCK => MaySet(ProcessOf[c], "shared", "read")
=============================================================================
