-------------------------- MODULE UnixFileLocksProofs --------------------------
(***************************************************************************)
(* Proofs about UnixFileLocks, for any number of processes and connections *)
(* and any number of failing fcntl calls: the POSIX locks of the processes *)
(* back the levels of their connections (LockInv, which is inductive), and *)
(* the specification implements FileLocks, whose connections exclude each  *)
(* other.                                                                  *)
(***************************************************************************)
EXTENDS UnixFileLocks, FiniteSetTheorems, TLAPS

USE DEF NO_LOCK, SHARED_LOCK, RESERVED_LOCK, PENDING_LOCK, EXCLUSIVE_LOCK, Levels

-----------------------------------------------------------------------------
(***************************************************************************)
(* Readers of a process                                                    *)
(***************************************************************************)
\* The readers of a process are finitely many.
LEMMA ReadersFinite ==
    ASSUME LocksAssumption, NEW p \in Processes
    PROVE  IsFiniteSet(Readers(p)) /\ Cardinality(Readers(p)) \in Nat
<1>1. Readers(p) \subseteq Conns
  BY DEF Readers
<1>2. IsFiniteSet(Readers(p))
  BY <1>1, FS_Subset DEF LocksAssumption
<1> QED
  BY <1>2, FS_CardinalityType

\* A process with one reader has that reader only.
LEMMA LoneReader ==
    ASSUME LocksAssumption, NEW p \in Processes, NEW c \in Readers(p),
           Cardinality(Readers(p)) = 1
    PROVE  Readers(p) = {c}
<1>1. PICK d : Readers(p) = {d}
  BY ReadersFinite, FS_Singleton
<1> QED
  BY <1>1

\* Counting a connection that starts to read.
LEMMA ReaderJoins ==
    ASSUME LocksAssumption, TypeOK, NEW c \in Conns, eFileLock[c] = NO_LOCK,
           eFileLock' = [eFileLock EXCEPT ![c] = SHARED_LOCK]
    PROVE  /\ Readers(ProcessOf[c])' = Readers(ProcessOf[c]) \cup {c}
           /\ Cardinality(Readers(ProcessOf[c]))' = Cardinality(Readers(ProcessOf[c])) + 1
           /\ \A q \in Processes \ {ProcessOf[c]} : Readers(q)' = Readers(q)
<1>1. Readers(ProcessOf[c])' = Readers(ProcessOf[c]) \cup {c}
  BY DEF TypeOK, Readers, LocksAssumption
<1>2. c \notin Readers(ProcessOf[c]) /\ ProcessOf[c] \in Processes
  BY DEF Readers, LocksAssumption
<1>3. Cardinality(Readers(ProcessOf[c]) \cup {c}) = Cardinality(Readers(ProcessOf[c])) + 1
  BY <1>2, ReadersFinite, FS_AddElement
<1>4. \A q \in Processes \ {ProcessOf[c]} : Readers(q)' = Readers(q)
  BY DEF TypeOK, Readers, LocksAssumption
<1> QED
  BY <1>1, <1>3, <1>4

\* Counting a connection that stops to read.
LEMMA ReaderLeaves ==
    ASSUME LocksAssumption, TypeOK, NEW c \in Conns, eFileLock[c] # NO_LOCK,
           eFileLock' = [eFileLock EXCEPT ![c] = NO_LOCK]
    PROVE  /\ Readers(ProcessOf[c])' = Readers(ProcessOf[c]) \ {c}
           /\ Cardinality(Readers(ProcessOf[c]))' = Cardinality(Readers(ProcessOf[c])) - 1
           /\ Readers(ProcessOf[c])' = {} <=> Cardinality(Readers(ProcessOf[c])) = 1
           /\ \A q \in Processes \ {ProcessOf[c]} : Readers(q)' = Readers(q)
<1> DEFINE p == ProcessOf[c]
<1>1. Readers(p)' = Readers(p) \ {c}
  BY DEF TypeOK, Readers, LocksAssumption
<1>2. c \in Readers(p) /\ p \in Processes
  BY DEF Readers, LocksAssumption
<1>3. Cardinality(Readers(p) \ {c}) = Cardinality(Readers(p)) - 1
  BY <1>2, ReadersFinite, FS_RemoveElement
<1>4. Readers(p) \ {c} = {} => Cardinality(Readers(p)) = 1
  <2>1. HAVE Readers(p) \ {c} = {}
  <2>2. Readers(p) = {c}
    BY <1>2, <2>1
  <2> QED
    BY <2>2, FS_Singleton
<1>5. Cardinality(Readers(p)) = 1 => Readers(p) \ {c} = {}
  BY <1>2, LoneReader
<1>6. \A q \in Processes \ {p} : Readers(q)' = Readers(q)
  BY DEF TypeOK, Readers, LocksAssumption
<1> QED
  BY <1>1, <1>3, <1>4, <1>5, <1>6

\* Counting is not disturbed by a change between levels that read.
LEMMA ReadersStay ==
    ASSUME LocksAssumption, TypeOK,
           \/ UNCHANGED eFileLock
           \/ \E c \in Conns, level \in SHARED_LOCK..EXCLUSIVE_LOCK :
                  eFileLock[c] # NO_LOCK /\ eFileLock' = [eFileLock EXCEPT ![c] = level]
    PROVE  \A q \in Processes : Readers(q)' = Readers(q)
  BY DEF TypeOK, Readers, LocksAssumption

-----------------------------------------------------------------------------
(***************************************************************************)
(* The invariant by processes.  A step is one of a single process: what is *)
(* to be shown is that the invariant holds of it again, and that its locks *)
(* do not conflict with the others.                                        *)
(***************************************************************************)
Count(p) ==
    /\ pInode[p].nShared = Cardinality(Readers(p)) \/ Orphaned(p)
    /\ pInode[p].nLock = pInode[p].nShared
    /\ pInode[p].eFileLock = NO_LOCK <=> pInode[p].nShared = 0
    /\ pInode[p].eFileLock = EXCLUSIVE_LOCK => pInode[p].nShared = 1
    /\ pInode[p].eFileLock > SHARED_LOCK =>
           Orphaned(p) \/ \E c \in Readers(p) : Lock[c] = pInode[p].eFileLock
    /\ Orphaned(p) =>
           /\ pInode[p].eFileLock > SHARED_LOCK /\ os[p].shared # "none"
           /\ \A c \in Readers(p) : eFileLock[c] = SHARED_LOCK

Level(c) ==
    /\ Lock[c] > SHARED_LOCK => Lock[c] = pInode[ProcessOf[c]].eFileLock
    /\ \A d \in Conns : c # d /\ ProcessOf[c] = ProcessOf[d] =>
           ~(eFileLock[c] > SHARED_LOCK /\ eFileLock[d] > SHARED_LOCK)

Backed(c) ==
    /\ eFileLock[c] # NO_LOCK => isOpen[c] /\ os[ProcessOf[c]].shared # "none"
    /\ Lock[c] = RESERVED_LOCK => os[ProcessOf[c]].reserved = "write"
    /\ Lock[c] >= PENDING_LOCK => os[ProcessOf[c]].pending = "write"

Call(p) ==
    op[p].at # "idle" =>
        /\ op[p].conn \in Conns /\ ProcessOf[op[p].conn] = p /\ isOpen[op[p].conn]
        /\ op[p].at \in {"sharedRange", "dropPending"} =>
               /\ os[p].pending = "read" /\ pInode[p].eFileLock = NO_LOCK
               /\ op[p].at = "dropPending" /\ op[p].ok => os[p].shared = "read"
        /\ op[p].at = "exclusiveRange" =>
               /\ os[p].pending = "write" /\ pInode[p].nShared = 1
               /\ eFileLock[op[p].conn] \in {SHARED_LOCK, RESERVED_LOCK}
               /\ pInode[p].eFileLock = eFileLock[op[p].conn]
        /\ op[p].at = "unlockPending" =>
               /\ eFileLock[op[p].conn] > SHARED_LOCK
               /\ pInode[p].eFileLock = eFileLock[op[p].conn]
        /\ op[p].at = "unlockShared" =>
               /\ eFileLock[op[p].conn] > SHARED_LOCK
               /\ pInode[p].eFileLock = SHARED_LOCK

Reserving(p) == os[p].reserved = "write" => pInode[p].eFileLock > SHARED_LOCK

\* The process p and its connections.
Local(p) == /\ Count(p) /\ Call(p) /\ Reserving(p)
            /\ \A c \in Conns : ProcessOf[c] = p => Level(c) /\ Backed(c)

\* Two processes.
Compatible(p, q) ==
    /\ \A byte \in {"pending", "reserved", "shared"} :
           os[p][byte] = "write" => os[q][byte] = "none"
    /\ \A c \in Conns : ProcessOf[c] = p /\ Lock[c] = EXCLUSIVE_LOCK => os[q].shared = "none"

\* The conjuncts of LockInv, by processes.
LEMMA ByProcess ==
    ASSUME LocksAssumption
    PROVE  (/\ PosixExclusion /\ InodeCounts /\ InodeLevels /\ LocksBacked
            /\ ReservedHeld /\ CallsInProgress)
           <=> /\ \A p \in Processes : Local(p)
               /\ \A p, q \in Processes : p # q => Compatible(p, q)
  BY DEF LocksAssumption, PosixExclusion, InodeCounts, InodeLevels, LocksBacked, CallsInProgress,
         ReservedHeld, Reserving, Local, Count, Level, Backed, Call, Compatible

\* LockInv without Exclusion, which follows from it.
Core == /\ \A p \in Processes : Local(p)
        /\ \A p, q \in Processes : p # q => Compatible(p, q)

\* A step leaves the processes other than p alone.
Others(p) ==
    /\ \A q \in Processes : q # p =>
           os'[q] = os[q] /\ pInode'[q] = pInode[q] /\ op'[q] = op[q]
    /\ \A c \in Conns : ProcessOf[c] # p =>
           eFileLock'[c] = eFileLock[c] /\ isOpen'[c] = isOpen[c]

\* What a step of p has to re-establish.
LEMMA Frame ==
    ASSUME LocksAssumption, TypeOK, TypeOK', Core, NEW p \in Processes, Others(p),
           Local(p)',
           \A q \in Processes : q # p => Compatible(p, q)' /\ Compatible(q, p)'
    PROVE  Core'
<1>1. \A c \in Conns : ProcessOf[c] # p => Lock[c]' = Lock[c]
  BY DEF Others, Lock, LocksAssumption
<1>2. ASSUME NEW q \in Processes, q # p PROVE Local(q)'
  <2>1. Readers(q)' = Readers(q)
    BY <1>2 DEF Others, Readers
  <2>2. Local(q)
    BY DEF Core
  <2>3. os'[q] = os[q] /\ pInode'[q] = pInode[q] /\ op'[q] = op[q]
    BY <1>2 DEF Others
  <2>4. \A c \in Conns : ProcessOf[c] = q =>
            eFileLock'[c] = eFileLock[c] /\ isOpen'[c] = isOpen[c] /\ Lock[c]' = Lock[c]
    BY <1>1, <1>2 DEF Others
  <2>5. Count(q)'
    <3>1. Count(q)
      BY <2>2 DEF Local
    <3>2. \A c \in Readers(q) : c \in Conns /\ ProcessOf[c] = q
      BY DEF Readers
    <3> QED BY <2>1, <2>3, <2>4, <3>1, <3>2 DEF Count, Orphaned
  <2>6. Call(q)'
    BY <2>2, <2>3, <2>4 DEF Call, Local
  <2>7. ASSUME NEW c \in Conns, ProcessOf[c] = q PROVE Level(c)' /\ Backed(c)'
    BY <2>2, <2>3, <2>4, <2>7 DEF Level, Backed, Local
  <2>8. Reserving(q)'
    BY <2>2, <2>3 DEF Local, Reserving
  <2> QED
    BY <2>5, <2>6, <2>7, <2>8 DEF Local
<1>3. ASSUME NEW q \in Processes, NEW r \in Processes, q # r, q # p, r # p
      PROVE  Compatible(q, r)'
  <2>1. Compatible(q, r)
    BY <1>3 DEF Core
  <2>2. os'[q] = os[q] /\ os'[r] = os[r]
    BY <1>3 DEF Others
  <2> QED
    BY <1>1, <1>3, <2>1, <2>2 DEF Compatible
<1>4. \A q, r \in Processes : q # r => Compatible(q, r)'
  BY <1>3
<1>5. \A q \in Processes : Local(q)'
  BY <1>2
<1> QED
  BY <1>4, <1>5 DEF Core

-----------------------------------------------------------------------------
(***************************************************************************)
(* Effects of a step on the process p, field by field                      *)
(***************************************************************************)
InodeType == [eFileLock : Levels, nShared : Nat, nLock : Nat, pUnused : Nat]
OsType == [pending : Modes, reserved : Modes, shared : Modes]
CallType == [at : Steps, conn : Conns \cup {None}, ok : BOOLEAN]

\* The POSIX locks of p become these.
Holds(p, pending, reserved, shared) ==
    /\ os' \in [Processes -> OsType]
    /\ \A q \in Processes : q # p => os'[q] = os[q]
    /\ os'[p].pending = pending /\ os'[p].reserved = reserved /\ os'[p].shared = shared

\* Its inode information becomes this.
Counts(p, level, n) ==
    /\ pInode' \in [Processes -> InodeType]
    /\ \A q \in Processes : q # p => pInode'[q] = pInode[q]
    /\ pInode'[p].eFileLock = level /\ pInode'[p].nShared = n /\ pInode'[p].nLock = n

\* Its call in progress becomes this.
Calls(p, step, c, ok) ==
    /\ op' \in [Processes -> CallType]
    /\ \A q \in Processes : q # p => op'[q] = op[q]
    /\ op'[p].at = step /\ op'[p].conn = c /\ op'[p].ok = ok

\* Updating a lock byte.
LEMMA SetByte ==
    ASSUME TypeOK, NEW p \in Processes, NEW mode \in Modes
    PROVE  /\ os' = [os EXCEPT ![p].pending = mode] =>
                  Holds(p, mode, os[p].reserved, os[p].shared)
           /\ os' = [os EXCEPT ![p].reserved = mode] =>
                  Holds(p, os[p].pending, mode, os[p].shared)
           /\ os' = [os EXCEPT ![p].shared = mode] =>
                  Holds(p, os[p].pending, os[p].reserved, mode)
<1>1. os \in [Processes -> OsType] /\ os[p] \in OsType
  BY DEF TypeOK, OsType
<1>2. ASSUME NEW r \in OsType, os' = [os EXCEPT ![p] = r]
      PROVE  Holds(p, r.pending, r.reserved, r.shared)
  BY <1>1, <1>2 DEF Holds
<1>3. /\ [os[p] EXCEPT !.pending = mode] \in OsType
      /\ [os[p] EXCEPT !.reserved = mode] \in OsType
      /\ [os[p] EXCEPT !.shared = mode] \in OsType
  BY <1>1 DEF OsType
<1>4. ASSUME os' = [os EXCEPT ![p].pending = mode]
      PROVE  Holds(p, mode, os[p].reserved, os[p].shared)
  <2> DEFINE r == [os[p] EXCEPT !.pending = mode]
  <2>1. Holds(p, r.pending, r.reserved, r.shared)
    BY <1>2, <1>3, <1>4
  <2> QED BY <2>1, <1>1 DEF OsType
<1>5. ASSUME os' = [os EXCEPT ![p].reserved = mode]
      PROVE  Holds(p, os[p].pending, mode, os[p].shared)
  <2> DEFINE r == [os[p] EXCEPT !.reserved = mode]
  <2>1. Holds(p, r.pending, r.reserved, r.shared)
    BY <1>2, <1>3, <1>5
  <2> QED BY <2>1, <1>1 DEF OsType
<1>6. ASSUME os' = [os EXCEPT ![p].shared = mode]
      PROVE  Holds(p, os[p].pending, os[p].reserved, mode)
  <2> DEFINE r == [os[p] EXCEPT !.shared = mode]
  <2>1. Holds(p, r.pending, r.reserved, r.shared)
    BY <1>2, <1>3, <1>6
  <2> QED BY <2>1, <1>1 DEF OsType
<1> QED BY <1>4, <1>5, <1>6

\* Releasing the first two bytes, all locks, and none.
LEMMA Release ==
    ASSUME TypeOK, NEW p \in Processes
    PROVE  /\ os' = [os EXCEPT ![p].pending = "none", ![p].reserved = "none"] =>
                  Holds(p, "none", "none", os[p].shared)
           /\ os' = [os EXCEPT ![p] = NoLocks] => Holds(p, "none", "none", "none")
           /\ UNCHANGED os => Holds(p, os[p].pending, os[p].reserved, os[p].shared)
<1>1. os \in [Processes -> OsType] /\ os[p] \in OsType
  BY DEF TypeOK, OsType
<1>2. ASSUME os' = [os EXCEPT ![p].pending = "none", ![p].reserved = "none"]
      PROVE  Holds(p, "none", "none", os[p].shared)
  BY <1>1, <1>2 DEF Holds, OsType, Modes
<1>3. NoLocks \in OsType
  BY DEF NoLocks, OsType, Modes
<1>4. os' = [os EXCEPT ![p] = NoLocks] => Holds(p, "none", "none", "none")
  BY <1>1, <1>3 DEF NoLocks, Holds
<1>5. UNCHANGED os => Holds(p, os[p].pending, os[p].reserved, os[p].shared)
  BY <1>1 DEF Holds
<1> QED
  BY <1>2, <1>4, <1>5

\* Updating the inode information.
LEMMA SetInode ==
    ASSUME TypeOK, NEW p \in Processes, pInode[p].nLock = pInode[p].nShared
    PROVE  /\ pInode' = [pInode EXCEPT ![p].nShared = @ + 1, ![p].nLock = @ + 1] =>
                  Counts(p, pInode[p].eFileLock, pInode[p].nShared + 1)
           /\ pInode[p].nShared = 0
              /\ pInode' = [pInode EXCEPT ![p].eFileLock = SHARED_LOCK,
                                          ![p].nShared = 1, ![p].nLock = @ + 1] =>
                  Counts(p, SHARED_LOCK, 1)
           /\ \A level \in Levels : pInode' = [pInode EXCEPT ![p].eFileLock = level] =>
                  Counts(p, level, pInode[p].nShared)
           /\ \A n \in Nat : pInode' = [pInode EXCEPT ![p].pUnused = n] =>
                  Counts(p, pInode[p].eFileLock, pInode[p].nShared)
           /\ pInode' = [pInode EXCEPT ![p] = FreshInode] => Counts(p, NO_LOCK, 0)
           /\ UNCHANGED pInode => Counts(p, pInode[p].eFileLock, pInode[p].nShared)
           /\ pInode[p].nShared > 0 /\ Uncount(p) =>
                  Counts(p, IF pInode[p].nShared = 1 THEN NO_LOCK ELSE pInode[p].eFileLock,
                         pInode[p].nShared - 1)
<1>1. pInode \in [Processes -> InodeType] /\ pInode[p] \in InodeType
  BY DEF TypeOK, InodeType
<1>2. pInode' = [pInode EXCEPT ![p].nShared = @ + 1, ![p].nLock = @ + 1] =>
          Counts(p, pInode[p].eFileLock, pInode[p].nShared + 1)
  BY <1>1 DEF InodeType, Counts
<1>3. pInode[p].nShared = 0
      /\ pInode' = [pInode EXCEPT ![p].eFileLock = SHARED_LOCK,
                                  ![p].nShared = 1, ![p].nLock = @ + 1] =>
          Counts(p, SHARED_LOCK, 1)
  BY <1>1 DEF InodeType, Counts
<1>4. \A level \in Levels : pInode' = [pInode EXCEPT ![p].eFileLock = level] =>
          Counts(p, level, pInode[p].nShared)
  BY <1>1 DEF InodeType, Counts
<1>5. /\ \A n \in Nat : pInode' = [pInode EXCEPT ![p].pUnused = n] =>
             Counts(p, pInode[p].eFileLock, pInode[p].nShared)
      /\ pInode' = [pInode EXCEPT ![p] = FreshInode] => Counts(p, NO_LOCK, 0)
      /\ UNCHANGED pInode => Counts(p, pInode[p].eFileLock, pInode[p].nShared)
  <2>1. ASSUME NEW n \in Nat, pInode' = [pInode EXCEPT ![p].pUnused = n]
        PROVE  Counts(p, pInode[p].eFileLock, pInode[p].nShared)
    BY <1>1, <2>1 DEF InodeType, Counts
  <2>2. FreshInode \in InodeType
    BY DEF FreshInode, InodeType
  <2>3. pInode' = [pInode EXCEPT ![p] = FreshInode] => Counts(p, NO_LOCK, 0)
    BY <1>1, <2>2 DEF Counts, FreshInode
  <2>4. UNCHANGED pInode => Counts(p, pInode[p].eFileLock, pInode[p].nShared)
    BY <1>1 DEF Counts
  <2> QED BY <2>1, <2>3, <2>4
<1>6. ASSUME pInode[p].nShared > 0, Uncount(p)
      PROVE  Counts(p, IF pInode[p].nShared = 1 THEN NO_LOCK ELSE pInode[p].eFileLock,
                    pInode[p].nShared - 1)
  BY <1>1, <1>6 DEF InodeType, Counts, Uncount
<1> QED
  BY <1>2, <1>3, <1>4, <1>5, <1>6

\* Beginning, returning from and not touching a call.
LEMMA SetCall ==
    ASSUME TypeOK, NEW p \in Processes
    PROVE  /\ \A step \in Steps, c \in Conns \cup {None}, ok \in BOOLEAN :
                  Goto(p, step, c, ok) => Calls(p, step, c, ok)
           /\ Return(p) => Calls(p, "idle", None, TRUE)
           /\ UNCHANGED op => Calls(p, op[p].at, op[p].conn, op[p].ok)
<1>1. op \in [Processes -> CallType] /\ op[p] \in CallType
  BY DEF TypeOK, CallType
<1>2. ASSUME NEW r \in CallType, op' = [op EXCEPT ![p] = r] PROVE Calls(p, r.at, r.conn, r.ok)
  BY <1>1, <1>2 DEF Calls
<1>3. ASSUME NEW step \in Steps, NEW c \in Conns \cup {None}, NEW ok \in BOOLEAN,
             Goto(p, step, c, ok)
      PROVE  Calls(p, step, c, ok)
  <2> DEFINE r == [at |-> step, conn |-> c, ok |-> ok]
  <2>1. r \in CallType /\ r.at = step /\ r.conn = c /\ r.ok = ok
    BY DEF CallType
  <2>2. op' = [op EXCEPT ![p] = r]
    BY <1>3 DEF Goto
  <2> HIDE DEF r
  <2> QED
    BY <1>2, <2>1, <2>2
<1>4. ASSUME Return(p) PROVE Calls(p, "idle", None, TRUE)
  <2>1. NoCall \in CallType /\ NoCall.at = "idle" /\ NoCall.conn = None /\ NoCall.ok = TRUE
    BY DEF CallType, NoCall, Steps
  <2> QED
    BY <1>2, <1>4, <2>1 DEF Return
<1>5. UNCHANGED op => Calls(p, op[p].at, op[p].conn, op[p].ok)
  BY <1>1 DEF Calls
<1> QED
  BY <1>3, <1>4, <1>5

\* The effects make up a step of the process p alone, of the right types.
LEMMA Effect ==
    ASSUME LocksAssumption, TypeOK, NEW p \in Processes,
           NEW pending, NEW reserved, NEW shared, Holds(p, pending, reserved, shared),
           NEW level, NEW n, Counts(p, level, n),
           NEW step, NEW conn, NEW ok, Calls(p, step, conn, ok),
           eFileLock' \in [Conns -> Levels],
           \A c \in Conns : ProcessOf[c] # p =>
               eFileLock'[c] = eFileLock[c] /\ isOpen'[c] = isOpen[c],
           isOpen' \in [Conns -> BOOLEAN], errors' \in 0..MaxErrors
    PROVE  /\ TypeOK' /\ Others(p)
           /\ \A c \in Conns : ProcessOf[c] # p => Lock[c]' = Lock[c]
<1>1. TypeOK' /\ Others(p)
  BY DEF TypeOK, Others, Holds, Counts, Calls, OsType, InodeType, CallType
<1>2. \A c \in Conns : ProcessOf[c] # p => Lock[c]' = Lock[c]
  BY <1>1 DEF Lock, Others, LocksAssumption
<1> QED
  BY <1>1, <1>2

\* fcntl has been asked for what is new among the locks of a process, so they
\* are compatible with those of the others.
Granted(p, byte, mode) == mode = os[p][byte] \/ mode = "none" \/ MaySet(p, byte, mode)

\* A step of p keeps the invariant if its own part holds again, its locks are
\* granted, it reads the shared range while nobody else is EXCLUSIVE and
\* becomes EXCLUSIVE while nobody else reads it.
LEMMA Step ==
    ASSUME LocksAssumption, TypeOK, TypeOK', Core, NEW p \in Processes, Others(p),
           NEW pending, NEW reserved, NEW shared, Holds(p, pending, reserved, shared),
           NEW level, NEW n, Counts(p, level, n), reserved = "write" => level > SHARED_LOCK,
           \A c \in Conns : ProcessOf[c] # p => Lock[c]' = Lock[c],
           Count(p)', Call(p)', \A c \in Conns : ProcessOf[c] = p => Level(c)' /\ Backed(c)',
           Granted(p, "pending", pending), Granted(p, "reserved", reserved),
           Granted(p, "shared", shared),
           \/ shared = "none"
           \/ os[p].shared # "none"
           \/ \A c \in Conns : ProcessOf[c] # p => Lock[c] # EXCLUSIVE_LOCK,
           \A c \in Conns : ProcessOf[c] = p /\ Lock[c]' = EXCLUSIVE_LOCK =>
               \/ Lock[c] = EXCLUSIVE_LOCK
               \/ MaySet(p, "shared", "write")
    PROVE  Core'
<1>1. ASSUME NEW q \in Processes, q # p PROVE Compatible(p, q)' /\ Compatible(q, p)'
  <2>1. Compatible(p, q) /\ Compatible(q, p)
    BY <1>1 DEF Core
  <2>2. os'[q] = os[q]
    BY <1>1 DEF Others
  <2> pending \in Modes /\ reserved \in Modes /\ shared \in Modes
    BY DEF Holds, OsType
  <2>3. /\ pending = "write" => os[q].pending = "none"
        /\ os[q].pending = "write" => pending = "none"
    BY <1>1, <2>1 DEF Granted, MaySet, Compatible, Modes
  <2>4. /\ reserved = "write" => os[q].reserved = "none"
        /\ os[q].reserved = "write" => reserved = "none"
    BY <1>1, <2>1 DEF Granted, MaySet, Compatible, Modes
  <2>5. /\ shared = "write" => os[q].shared = "none"
        /\ os[q].shared = "write" => shared = "none"
    BY <1>1, <2>1 DEF Granted, MaySet, Compatible, Modes
  <2>6. ASSUME NEW byte \in {"pending", "reserved", "shared"}
        PROVE  /\ os'[p][byte] = "write" => os'[q][byte] = "none"
               /\ os'[q][byte] = "write" => os'[p][byte] = "none"
    BY <2>2, <2>3, <2>4, <2>5 DEF Holds
  <2>7. ASSUME NEW c \in Conns, ProcessOf[c] = p, Lock[c]' = EXCLUSIVE_LOCK
        PROVE  os'[q].shared = "none"
    BY <1>1, <2>1, <2>2, <2>7 DEF Compatible, MaySet
  <2>8. ASSUME NEW c \in Conns, ProcessOf[c] = q, Lock[c]' = EXCLUSIVE_LOCK
        PROVE  os'[p].shared = "none"
    BY <1>1, <2>1, <2>8 DEF Compatible, Holds
  <2> QED
    BY <2>6, <2>7, <2>8 DEF Compatible
<1>2. Local(p)'
  <2>1. Reserving(p)'
    BY DEF Reserving, Holds, Counts
  <2> QED BY <2>1 DEF Local
<1> QED
  BY <1>1, <1>2, Frame

\* What is known of a process.
LEMMA OfProcess ==
    ASSUME LocksAssumption, Core, NEW p \in Processes
    PROVE  /\ Count(p) /\ Call(p) /\ Reserving(p)
           /\ pInode[p].nLock = pInode[p].nShared
           /\ \A c \in Conns : ProcessOf[c] = p => Level(c) /\ Backed(c)
           /\ op[p].at # "unlockShared" =>
                  \A c \in Conns : ProcessOf[c] = p => Lock[c] = eFileLock[c]
  BY DEF Core, Local, Count, Lock

\* The inode counts the readers of the process when its level is at most SHARED, or
\* is that of a connection: no connection above SHARED was closed.
LEMMA NotOrphaned ==
    ASSUME LocksAssumption, TypeOK, Core, NEW p \in Processes,
           \/ pInode[p].eFileLock <= SHARED_LOCK
           \/ \E c \in Conns : ProcessOf[c] = p /\ eFileLock[c] > SHARED_LOCK
    PROVE  /\ ~Orphaned(p) /\ pInode[p].nShared = Cardinality(Readers(p))
           /\ pInode[p].eFileLock = NO_LOCK <=> Readers(p) = {}
<1>1. Count(p) /\ pInode[p].eFileLock \in Levels
  BY OfProcess DEF TypeOK
<1>2. ~Orphaned(p)
  <2>1. CASE pInode[p].eFileLock <= SHARED_LOCK
    BY <1>1, <2>1 DEF Count
  <2>2. CASE \E c \in Conns : ProcessOf[c] = p /\ eFileLock[c] > SHARED_LOCK
    BY <1>1, <2>2 DEF Count, Readers
  <2> QED BY <2>1, <2>2
<1>3. Cardinality(Readers(p)) = 0 <=> Readers(p) = {}
  BY ReadersFinite, FS_EmptySet
<1> QED
  BY <1>1, <1>2, <1>3 DEF Count

\* The inode counts a connection that reads.
LEMMA ReaderCounted ==
    ASSUME LocksAssumption, TypeOK, Core, NEW c \in Conns, eFileLock[c] # NO_LOCK
    PROVE  pInode[ProcessOf[c]].nShared >= 1 /\ pInode[ProcessOf[c]].eFileLock # NO_LOCK
<1> DEFINE p == ProcessOf[c]
<1>1. p \in Processes /\ c \in Readers(p)
  BY DEF LocksAssumption, Readers
<1>2. Count(p)
  BY <1>1, OfProcess
<1>3. Cardinality(Readers(p)) \in Nat /\ (Cardinality(Readers(p)) = 0 => Readers(p) = {})
  BY <1>1, ReadersFinite, FS_EmptySet
<1> QED
  BY <1>1, <1>2, <1>3 DEF Count, Orphaned

\* The only one that it counts reads, and was not closed.
LEMMA ReaderAlone ==
    ASSUME LocksAssumption, TypeOK, Core, NEW p \in Processes, pInode[p].nShared = 1,
           NEW c \in Conns, ProcessOf[c] = p, eFileLock[c] # NO_LOCK
    PROVE  c \in Readers(p) /\ Cardinality(Readers(p)) = 1 /\ ~Orphaned(p)
<1>1. c \in Readers(p)
  BY DEF Readers
<1>2. Cardinality(Readers(p)) \in Nat /\ (Cardinality(Readers(p)) = 0 => Readers(p) = {})
  BY ReadersFinite, FS_EmptySet
<1>3. Count(p)
  BY OfProcess
<1> QED
  BY <1>1, <1>2, <1>3 DEF Count, Orphaned

\* A step that leaves the inode, the readers and their levels alone.
LEMMA CountStays ==
    ASSUME NEW p \in Processes, Count(p), UNCHANGED eFileLock,
           Counts(p, pInode[p].eFileLock, pInode[p].nShared),
           \A d \in Conns : ProcessOf[d] = p => Lock[d]' = Lock[d],
           os[p].shared # "none" => os'[p].shared # "none"
    PROVE  Count(p)'
<1>1. Readers(p)' = Readers(p) /\ \A d \in Readers(p) : d \in Conns /\ ProcessOf[d] = p
  BY DEF Readers
<1> QED
  BY <1>1 DEF Count, Counts, Orphaned

\* The bound on failing calls.
LEMMA ErrorsBounded ==
    ASSUME LocksAssumption, TypeOK, UNCHANGED errors \/ IoError
    PROVE  errors' \in 0..MaxErrors
  BY DEF LocksAssumption, TypeOK, IoError

\* LockSharedCounted: another reader of the process.
LEMMA LockSharedCountedStep ==
    ASSUME LocksAssumption, TypeOK, Core, NEW c \in Conns, LockSharedCounted(c)
    PROVE  TypeOK' /\ Core'
<1> DEFINE p == ProcessOf[c]
<1>0. /\ p \in Processes /\ op[p].at = "idle" /\ isOpen[c]
      /\ eFileLock[c] = NO_LOCK /\ pInode[p].eFileLock \in {SHARED_LOCK, RESERVED_LOCK}
      /\ eFileLock' = [eFileLock EXCEPT ![c] = SHARED_LOCK]
      /\ pInode' = [pInode EXCEPT ![p].nShared = @ + 1, ![p].nLock = @ + 1]
      /\ UNCHANGED <<isOpen, os, op, errors>>
  BY DEF LockSharedCounted, LocksAssumption, Idle
<1> HIDE DEF p
<1>1. /\ Count(p) /\ Reserving(p) /\ pInode[p].nLock = pInode[p].nShared
      /\ \A d \in Conns : ProcessOf[d] = p => Lock[d] = eFileLock[d] /\ Level(d) /\ Backed(d)
  BY <1>0, OfProcess
<1>2. Counts(p, pInode[p].eFileLock, pInode[p].nShared + 1)
  BY <1>0, <1>1, SetInode
<1>3. Holds(p, os[p].pending, os[p].reserved, os[p].shared)
  BY <1>0, Release
<1>4. Calls(p, "idle", op[p].conn, op[p].ok)
  BY <1>0, SetCall
<1>5. TypeOK' /\ Others(p) /\ \A d \in Conns : ProcessOf[d] # p => Lock[d]' = Lock[d]
  <2>1. /\ eFileLock' \in [Conns -> Levels] /\ isOpen' \in [Conns -> BOOLEAN]
        /\ errors' \in 0..MaxErrors
        /\ \A d \in Conns : ProcessOf[d] # p =>
               eFileLock'[d] = eFileLock[d] /\ isOpen'[d] = isOpen[d]
    BY <1>0 DEF TypeOK, p
  <2>2. p \in Processes
    BY <1>0
  <2> QED BY <1>2, <1>3, <1>4, <2>1, <2>2, Effect
<1>6. /\ eFileLock'[c] = SHARED_LOCK /\ \A d \in Conns \ {c} : eFileLock'[d] = eFileLock[d]
      /\ \A d \in Conns : ProcessOf[d] = p => Lock[d]' = eFileLock'[d]
  BY <1>0, <1>4 DEF TypeOK, Lock, Calls
<1>7. Count(p)'
  <2>1. /\ Readers(p)' = Readers(p) \cup {c}
        /\ Cardinality(Readers(p))' = Cardinality(Readers(p)) + 1
    BY <1>0, ReaderJoins DEF p
  <2>2. Cardinality(Readers(p)) \in Nat
    BY <1>0, ReadersFinite
  <2>3. Orphaned(p)' <=> Orphaned(p)
    BY <1>2, <2>1, <2>2 DEF Orphaned, Counts, TypeOK
  <2>4. \A d \in Readers(p) : Lock[d]' = Lock[d] /\ eFileLock'[d] = eFileLock[d]
    BY <1>0, <1>1, <1>6 DEF Readers
  <2>5. pInode[p].nShared \in Nat /\ os' = os
    BY <1>0 DEF TypeOK
  <2> QED BY <1>0, <1>1, <1>2, <1>6, <2>1, <2>3, <2>4, <2>5 DEF Count, Counts
<1>8. Call(p)'
  BY <1>4 DEF Call, Calls
<1>9. ASSUME NEW d \in Conns, ProcessOf[d] = p PROVE Level(d)' /\ Backed(d)'
  <2>1. os[p].shared # "none"
    <3>1. CASE Orphaned(p)
      BY <1>1, <3>1 DEF Count
    <3>2. CASE ~Orphaned(p)
      <4>1. pInode[p].nShared = Cardinality(Readers(p)) /\ pInode[p].nShared # 0
        BY <1>0, <1>1, <3>2 DEF Count
      <4>a. Readers(p) # {}
        BY <4>1, FS_EmptySet
      <4>2. PICK r \in Conns : ProcessOf[r] = p /\ eFileLock[r] # NO_LOCK
        BY <4>a DEF Readers
      <4> QED BY <1>1, <4>2 DEF Backed
    <3> QED BY <3>1, <3>2
  <2>2. Level(d)'
    BY <1>1, <1>2, <1>6, <1>9 DEF Level, Counts
  <2>3. Backed(d)'
    BY <1>0, <1>1, <1>3, <1>6, <1>9, <2>1 DEF Backed, Holds
  <2> QED BY <2>2, <2>3
<1>10. \A d \in Conns : ProcessOf[d] = p /\ Lock[d]' = EXCLUSIVE_LOCK => Lock[d] = EXCLUSIVE_LOCK
  BY <1>1, <1>6
<1>11. /\ Granted(p, "pending", os[p].pending) /\ Granted(p, "reserved", os[p].reserved)
       /\ Granted(p, "shared", os[p].shared)
       /\ os[p].reserved = "write" => pInode[p].eFileLock > SHARED_LOCK
  BY <1>1 DEF Granted, Reserving
<1> QED
  BY <1>0, <1>2, <1>3, <1>5, <1>7, <1>8, <1>9, <1>10, <1>11, Step

\* LockShared: the pending byte before the shared range.
LEMMA LockSharedStep ==
    ASSUME LocksAssumption, TypeOK, Core, NEW c \in Conns, LockShared(c)
    PROVE  TypeOK' /\ Core'
<1> DEFINE p == ProcessOf[c]
<1>0. /\ p \in Processes /\ op[p].at = "idle" /\ isOpen[c]
      /\ eFileLock[c] = NO_LOCK /\ pInode[p].eFileLock = NO_LOCK
      /\ MaySet(p, "pending", "read")
      /\ os' = [os EXCEPT ![p].pending = "read"] /\ Goto(p, "sharedRange", c, TRUE)
      /\ UNCHANGED <<eFileLock, isOpen, pInode, errors>>
  BY DEF LockShared, LocksAssumption, Idle
<1> HIDE DEF p
<1>1. /\ Count(p) /\ Reserving(p) /\ pInode[p].nLock = pInode[p].nShared
      /\ \A d \in Conns : ProcessOf[d] = p => Lock[d] = eFileLock[d] /\ Level(d) /\ Backed(d)
  BY <1>0, OfProcess
<1>2. Counts(p, NO_LOCK, pInode[p].nShared)
  BY <1>0, <1>1, SetInode
<1>3. Holds(p, "read", os[p].reserved, os[p].shared)
  BY <1>0, SetByte DEF Modes
<1>4. Calls(p, "sharedRange", c, TRUE)
  BY <1>0, SetCall DEF Steps
<1>5. TypeOK' /\ Others(p) /\ \A d \in Conns : ProcessOf[d] # p => Lock[d]' = Lock[d]
  BY <1>0, <1>2, <1>3, <1>4, Effect DEF TypeOK
<1>6. \A d \in Conns : ProcessOf[d] = p => eFileLock[d] = NO_LOCK /\ Lock[d]' = NO_LOCK
  <2>1. Readers(p) = {}
    BY <1>0, NotOrphaned
  <2> QED BY <1>0, <1>1, <1>4, <2>1 DEF Lock, Calls, Readers
<1>7. Count(p)'
  BY <1>0, <1>1, <1>2, <1>3, <1>6, CountStays DEF Holds
<1>8. Call(p)'
  BY <1>0, <1>2, <1>3, <1>4 DEF Call, Calls, Holds, Counts, p
<1>9. ASSUME NEW d \in Conns, ProcessOf[d] = p PROVE Level(d)' /\ Backed(d)'
  BY <1>0, <1>6, <1>9 DEF Level, Backed
<1> QED
  BY <1>0, <1>1, <1>2, <1>3, <1>5, <1>6, <1>7, <1>8, <1>9, Step DEF Granted, Reserving

\* While a process has the pending byte locked, no other has a connection at
\* PENDING or EXCLUSIVE.
LEMMA PendingShutsOut ==
    ASSUME LocksAssumption, Core, NEW p \in Processes, os[p].pending # "none",
           NEW c \in Conns, ProcessOf[c] # p
    PROVE  ~(Lock[c] >= PENDING_LOCK)
<1>1. ProcessOf[c] \in Processes
  BY DEF LocksAssumption
<1>2. Lock[c] >= PENDING_LOCK => os[ProcessOf[c]].pending = "write"
  BY <1>1 DEF Core, Local, Backed
<1>3. Compatible(ProcessOf[c], p)
  BY <1>1 DEF Core
<1> QED
  BY <1>2, <1>3 DEF Compatible

\* SharedRange: the shared range, or not.
LEMMA SharedRangeStep ==
    ASSUME LocksAssumption, TypeOK, Core, NEW p \in Processes, SharedRange(p)
    PROVE  TypeOK' /\ Core'
<1> DEFINE c == op[p].conn
<1>0. /\ op[p].at = "sharedRange" /\ UNCHANGED <<eFileLock, isOpen, pInode>>
      /\ \/ /\ MaySet(p, "shared", "read") /\ os' = [os EXCEPT ![p].shared = "read"]
            /\ Goto(p, "dropPending", c, TRUE) /\ UNCHANGED errors
         \/ /\ UNCHANGED errors \/ IoError
            /\ Goto(p, "dropPending", c, FALSE) /\ UNCHANGED os
  BY DEF SharedRange
<1>1. /\ Count(p) /\ Reserving(p) /\ pInode[p].nLock = pInode[p].nShared
      /\ \A d \in Conns : ProcessOf[d] = p => Lock[d] = eFileLock[d] /\ Level(d) /\ Backed(d)
      /\ c \in Conns /\ ProcessOf[c] = p /\ isOpen[c]
      /\ os[p].pending = "read" /\ pInode[p].eFileLock = NO_LOCK
  BY <1>0, OfProcess DEF Call
<1> HIDE DEF c
<1>2. Counts(p, NO_LOCK, pInode[p].nShared)
  BY <1>0, <1>1, SetInode
<1>3. PICK ok \in BOOLEAN, shared \in Modes :
          /\ Holds(p, "read", os[p].reserved, shared) /\ Calls(p, "dropPending", c, ok)
          /\ shared = os[p].shared \/ MaySet(p, "shared", shared)
          /\ ok => shared = "read"
  <2>1. CASE /\ MaySet(p, "shared", "read") /\ os' = [os EXCEPT ![p].shared = "read"]
             /\ Goto(p, "dropPending", c, TRUE)
    BY <1>1, <2>1, SetByte, SetCall DEF Steps, Modes
  <2>2. CASE Goto(p, "dropPending", c, FALSE) /\ UNCHANGED os
    <3>1. os[p].shared \in Modes
      BY DEF TypeOK
    <3>2. Holds(p, "read", os[p].reserved, os[p].shared)
      BY <1>1, <2>2, Release
    <3>3. Calls(p, "dropPending", c, FALSE)
      BY <1>1, <2>2, SetCall DEF Steps
    <3> QED BY <3>1, <3>2, <3>3
  <2> QED BY <1>0, <2>1, <2>2
<1>4. errors' \in 0..MaxErrors
  BY <1>0, ErrorsBounded
<1>5. TypeOK' /\ Others(p) /\ \A d \in Conns : ProcessOf[d] # p => Lock[d]' = Lock[d]
  BY <1>0, <1>2, <1>3, <1>4, Effect DEF TypeOK
<1>6. \A d \in Conns : ProcessOf[d] = p => eFileLock[d] = NO_LOCK /\ Lock[d]' = NO_LOCK
  <2>1. Readers(p) = {}
    BY <1>1, NotOrphaned
  <2> QED BY <1>0, <1>1, <1>3, <2>1 DEF Lock, Calls, Readers
<1>7. Count(p)'
  <2>1. os[p].shared # "none" => os'[p].shared # "none"
    BY <1>0, SetByte DEF Holds, Modes
  <2> QED BY <1>0, <1>1, <1>2, <1>6, <2>1, CountStays
<1>8. Call(p)'
  BY <1>0, <1>1, <1>2, <1>3 DEF Call, Calls, Holds, Counts
<1>9. ASSUME NEW d \in Conns, ProcessOf[d] = p PROVE Level(d)' /\ Backed(d)'
  BY <1>0, <1>6, <1>9 DEF Level, Backed
<1>10. \A d \in Conns : ProcessOf[d] # p => Lock[d] # EXCLUSIVE_LOCK
  BY <1>1, PendingShutsOut
<1>11. /\ Granted(p, "pending", "read") /\ Granted(p, "reserved", os[p].reserved)
       /\ Granted(p, "shared", os'[p].shared)
  BY <1>1, <1>3 DEF Granted, Holds
<1> QED
  BY <1>1, <1>2, <1>3, <1>5, <1>6, <1>7, <1>8, <1>9, <1>10, <1>11, Step DEF Holds, Reserving

\* DropPending: the connection reads, or the call fails.
LEMMA DropPendingStep ==
    ASSUME LocksAssumption, TypeOK, Core, NEW p \in Processes, DropPending(p)
    PROVE  TypeOK' /\ Core'
<1> DEFINE c == op[p].conn
<1>1. /\ op[p].at = "dropPending"
      /\ Count(p) /\ Reserving(p) /\ pInode[p].nLock = pInode[p].nShared
      /\ \A d \in Conns : ProcessOf[d] = p => Lock[d] = eFileLock[d] /\ Level(d) /\ Backed(d)
      /\ c \in Conns /\ ProcessOf[c] = p /\ isOpen[c]
      /\ os[p].pending = "read" /\ pInode[p].eFileLock = NO_LOCK
      /\ op[p].ok => os[p].shared = "read"
      /\ Return(p) /\ UNCHANGED isOpen
  BY OfProcess DEF Call, DropPending
<1>2. \/ /\ op[p].ok /\ os' = [os EXCEPT ![p].pending = "none"]
         /\ eFileLock' = [eFileLock EXCEPT ![c] = SHARED_LOCK]
         /\ pInode' = [pInode EXCEPT ![p].eFileLock = SHARED_LOCK,
                                     ![p].nShared = 1, ![p].nLock = @ + 1]
         /\ UNCHANGED errors
      \/ /\ os' = [os EXCEPT ![p].pending = "none"] \/ UNCHANGED os
         /\ UNCHANGED errors \/ IoError
         /\ UNCHANGED <<eFileLock, pInode>>
  BY DEF DropPending
<1> HIDE DEF c
<1>3. Calls(p, "idle", None, TRUE)
  BY <1>1, SetCall
<1>4. errors' \in 0..MaxErrors
  BY <1>2, ErrorsBounded
<1>5. Readers(p) = {} /\ pInode[p].nShared = 0
  <2>1. pInode[p].eFileLock <= SHARED_LOCK
    BY <1>1
  <2>2. Readers(p) = {}
    BY <1>1, <2>1, NotOrphaned
  <2> QED BY <1>1, <2>2 DEF Count
<1>6. \A d \in Conns : ProcessOf[d] = p => eFileLock[d] = NO_LOCK
  BY <1>5 DEF Readers
<1>7. Call(p)'
  BY <1>3 DEF Call, Calls
<1>8. \A d \in Conns : ProcessOf[d] = p => Lock[d]' = eFileLock'[d]
  BY <1>3 DEF Lock, Calls
<1>9. PICK pending \in {"none", "read"} : Holds(p, pending, os[p].reserved, os[p].shared)
  BY <1>1, <1>2, SetByte, Release DEF Modes
<1>10. CASE /\ op[p].ok
            /\ eFileLock' = [eFileLock EXCEPT ![c] = SHARED_LOCK]
            /\ pInode' = [pInode EXCEPT ![p].eFileLock = SHARED_LOCK,
                                        ![p].nShared = 1, ![p].nLock = @ + 1]
  <2>1. Counts(p, SHARED_LOCK, 1)
    BY <1>1, <1>5, <1>10, SetInode
  <2>2. TypeOK' /\ Others(p) /\ \A d \in Conns : ProcessOf[d] # p => Lock[d]' = Lock[d]
    <3>1. /\ eFileLock' \in [Conns -> Levels] /\ isOpen' \in [Conns -> BOOLEAN]
          /\ \A d \in Conns : ProcessOf[d] # p =>
                 eFileLock'[d] = eFileLock[d] /\ isOpen'[d] = isOpen[d]
      BY <1>1, <1>10 DEF TypeOK
    <3> QED BY <1>3, <1>4, <1>9, <2>1, <3>1, Effect
  <2>3. \A d \in Conns : ProcessOf[d] = p => Lock[d]' = IF d = c THEN SHARED_LOCK ELSE NO_LOCK
    BY <1>1, <1>6, <1>8, <1>10 DEF TypeOK
  <2>4. Count(p)'
    <3>1. /\ Readers(p)' = Readers(p) \cup {c}
          /\ Cardinality(Readers(p))' = Cardinality(Readers(p)) + 1
      BY <1>1, <1>6, <1>10, ReaderJoins
    <3>2. Cardinality(Readers(p))' = 1
      BY <1>5, <3>1, FS_EmptySet
    <3> QED BY <2>1, <3>2 DEF Count, Counts, Orphaned
  <2>5. ASSUME NEW d \in Conns, ProcessOf[d] = p PROVE Level(d)' /\ Backed(d)'
    BY <1>1, <1>8, <1>9, <1>10, <2>3, <2>5 DEF Level, Backed, Holds
  <2> QED BY <1>1, <1>7, <1>9, <2>1, <2>2, <2>3, <2>4, <2>5, Step DEF Granted, Reserving
<1>11. CASE UNCHANGED <<eFileLock, pInode>>
  <2>1. Counts(p, NO_LOCK, pInode[p].nShared)
    BY <1>1, <1>11, SetInode
  <2>2. TypeOK' /\ Others(p) /\ \A d \in Conns : ProcessOf[d] # p => Lock[d]' = Lock[d]
    BY <1>1, <1>3, <1>4, <1>9, <1>11, <2>1, Effect DEF TypeOK
  <2>3. \A d \in Conns : ProcessOf[d] = p => Lock[d]' = NO_LOCK
    BY <1>6, <1>8, <1>11
  <2>4. Count(p)'
    BY <1>1, <1>6, <1>8, <1>9, <1>11, <2>1, CountStays DEF Holds
  <2>5. ASSUME NEW d \in Conns, ProcessOf[d] = p PROVE Level(d)' /\ Backed(d)'
    BY <1>6, <1>11, <2>3, <2>5 DEF Level, Backed
  <2> QED BY <1>1, <1>7, <1>9, <2>1, <2>2, <2>3, <2>4, <2>5, Step DEF Granted, Reserving
<1> QED
  BY <1>2, <1>10, <1>11

\* The connection whose level is that of the inode is the only one above SHARED.
LEMMA OneAboveShared ==
    ASSUME LocksAssumption, TypeOK, Core, NEW c \in Conns, op[ProcessOf[c]].at # "unlockShared",
           pInode[ProcessOf[c]].eFileLock = eFileLock[c]
    PROVE  \A d \in Conns \ {c} : ProcessOf[d] = ProcessOf[c] => eFileLock[d] <= SHARED_LOCK
<1>1. SUFFICES ASSUME NEW d \in Conns \ {c}, ProcessOf[d] = ProcessOf[c],
                      ~(eFileLock[d] <= SHARED_LOCK)
               PROVE  FALSE
  OBVIOUS
<1>2. ProcessOf[c] \in Processes /\ eFileLock[c] \in Levels /\ eFileLock[d] \in Levels
  BY DEF TypeOK, LocksAssumption
<1>3. Lock[d] = eFileLock[d] /\ Level(d)
  BY <1>1, <1>2, OfProcess
<1>4. eFileLock[d] > SHARED_LOCK
  BY <1>1, <1>2
<1> QED
  BY <1>1, <1>2, <1>3, <1>4 DEF Level

\* SetLevel by the only connection that is above SHARED, or is to be.
LEMMA SetLevelEffect ==
    ASSUME LocksAssumption, TypeOK, Core, NEW c \in Conns, NEW p \in Processes, ProcessOf[c] = p,
           NEW level \in SHARED_LOCK..EXCLUSIVE_LOCK, SetLevel(c, level),
           eFileLock[c] # NO_LOCK, op'[p].at = "idle",
           pInode[p].eFileLock <= SHARED_LOCK \/ eFileLock[c] > SHARED_LOCK,
           \A d \in Conns \ {c} : ProcessOf[d] = p => eFileLock[d] <= SHARED_LOCK,
           level = EXCLUSIVE_LOCK => pInode[p].nShared = 1
    PROVE  /\ Counts(p, level, pInode[p].nShared)
           /\ eFileLock' \in [Conns -> Levels]
           /\ eFileLock'[c] = level /\ \A d \in Conns \ {c} : eFileLock'[d] = eFileLock[d]
           /\ \A d \in Conns : ProcessOf[d] = p => Lock[d]' = eFileLock'[d]
           /\ Count(p)' /\ \A d \in Conns : ProcessOf[d] = p => Level(d)'
<1>0. /\ eFileLock' = [eFileLock EXCEPT ![c] = level]
      /\ pInode' = [pInode EXCEPT ![p].eFileLock = level]
  BY DEF SetLevel
<1>1. Counts(p, level, pInode[p].nShared)
  <2>1. pInode[p].nLock = pInode[p].nShared /\ level \in Levels
    BY OfProcess
  <2> QED BY <1>0, <2>1, SetInode
<1>2. /\ eFileLock' \in [Conns -> Levels]
      /\ eFileLock'[c] = level /\ \A d \in Conns \ {c} : eFileLock'[d] = eFileLock[d]
  BY <1>0 DEF TypeOK
<1>3. \A d \in Conns : ProcessOf[d] = p => Lock[d]' = eFileLock'[d]
  BY DEF Lock
<1>4. Count(p)'
  <2>1. Readers(p)' = Readers(p)
    BY <1>0, ReadersStay
  <2>2. c \in Readers(p)' /\ Lock[c]' = level
    BY <1>2, <1>3 DEF Readers
  <2>3. pInode[p].nShared = Cardinality(Readers(p)) /\ pInode[p].nShared \in Nat
    BY NotOrphaned DEF TypeOK
  <2>4. pInode[p].nShared >= 1
    BY ReaderCounted
  <2> QED BY <1>1, <2>1, <2>2, <2>3, <2>4 DEF Count, Counts, Orphaned
<1>5. ASSUME NEW d \in Conns, ProcessOf[d] = p PROVE Level(d)'
  <2>1. \A e \in Conns \ {c} : ProcessOf[e] = p => ~(eFileLock'[e] > SHARED_LOCK)
    BY <1>2
  <2> QED BY <1>1, <1>2, <1>3, <1>5, <2>1 DEF Level, Counts
<1> QED
  BY <1>1, <1>2, <1>3, <1>4, <1>5

\* LockReserved.
LEMMA LockReservedStep ==
    ASSUME LocksAssumption, TypeOK, Core, NEW c \in Conns, LockReserved(c)
    PROVE  TypeOK' /\ Core'
<1> DEFINE p == ProcessOf[c]
<1>0. /\ p \in Processes /\ op[p].at = "idle"
      /\ eFileLock[c] = SHARED_LOCK /\ pInode[p].eFileLock = SHARED_LOCK
      /\ MaySet(p, "reserved", "write")
      /\ os' = [os EXCEPT ![p].reserved = "write"] /\ SetLevel(c, RESERVED_LOCK)
      /\ UNCHANGED <<isOpen, op, errors>>
  BY DEF LockReserved, LocksAssumption, Idle
<1> HIDE DEF p
<1>1. \A d \in Conns : ProcessOf[d] = p => Lock[d] = eFileLock[d] /\ Level(d) /\ Backed(d)
  BY <1>0, OfProcess
<1>2. Holds(p, os[p].pending, "write", os[p].shared)
  BY <1>0, SetByte DEF Modes
<1>3. Calls(p, "idle", op[p].conn, op[p].ok)
  BY <1>0, SetCall
<1>4. \A d \in Conns \ {c} : ProcessOf[d] = p => eFileLock[d] <= SHARED_LOCK
  BY <1>0, OneAboveShared DEF p
<1>5. /\ Counts(p, RESERVED_LOCK, pInode[p].nShared)
      /\ eFileLock' \in [Conns -> Levels]
      /\ eFileLock'[c] = RESERVED_LOCK /\ \A d \in Conns \ {c} : eFileLock'[d] = eFileLock[d]
      /\ \A d \in Conns : ProcessOf[d] = p => Lock[d]' = eFileLock'[d]
      /\ Count(p)' /\ \A d \in Conns : ProcessOf[d] = p => Level(d)'
  BY <1>0, <1>3, <1>4, SetLevelEffect DEF Calls, p
<1>6. TypeOK' /\ Others(p) /\ \A d \in Conns : ProcessOf[d] # p => Lock[d]' = Lock[d]
  <2>1. \A d \in Conns : ProcessOf[d] # p => eFileLock'[d] = eFileLock[d] /\ isOpen'[d] = isOpen[d]
    BY <1>0, <1>5 DEF p
  <2>2. isOpen' \in [Conns -> BOOLEAN] /\ errors' \in 0..MaxErrors
    BY <1>0 DEF TypeOK
  <2> QED BY <1>0, <1>2, <1>3, <1>5, <2>1, <2>2, Effect
<1>7. Call(p)'
  BY <1>3 DEF Call, Calls
<1>8. ASSUME NEW d \in Conns, ProcessOf[d] = p PROVE Backed(d)'
  BY <1>0, <1>1, <1>2, <1>4, <1>5, <1>8 DEF Backed, Holds
<1> QED
  BY <1>0, <1>1, <1>2, <1>4, <1>5, <1>6, <1>7, <1>8, Step DEF Granted

\* LockExclusive: PENDING if the process has other readers, otherwise on to the range.
LEMMA LockExclusiveStep ==
    ASSUME LocksAssumption, TypeOK, Core, NEW c \in Conns, LockExclusive(c)
    PROVE  TypeOK' /\ Core'
<1> DEFINE p == ProcessOf[c]
<1>0. /\ p \in Processes /\ op[p].at = "idle" /\ isOpen[c]
      /\ eFileLock[c] \in {SHARED_LOCK, RESERVED_LOCK} /\ pInode[p].eFileLock = eFileLock[c]
      /\ MaySet(p, "pending", "write") /\ os' = [os EXCEPT ![p].pending = "write"]
      /\ UNCHANGED <<isOpen, errors>>
  BY DEF LockExclusive, LocksAssumption, Idle
<1>a. \/ SetLevel(c, PENDING_LOCK) /\ UNCHANGED op
      \/ /\ pInode[p].nShared <= 1 /\ Goto(p, "exclusiveRange", c, TRUE)
         /\ UNCHANGED <<eFileLock, pInode>>
  BY DEF LockExclusive
<1> HIDE DEF p
<1>1. /\ Count(p) /\ Reserving(p) /\ pInode[p].nLock = pInode[p].nShared
      /\ \A d \in Conns : ProcessOf[d] = p => Lock[d] = eFileLock[d] /\ Level(d) /\ Backed(d)
  BY <1>0, OfProcess
<1>2. Holds(p, "write", os[p].reserved, os[p].shared)
  BY <1>0, SetByte DEF Modes
<1>4. \A d \in Conns \ {c} : ProcessOf[d] = p => eFileLock[d] <= SHARED_LOCK
  BY <1>0, OneAboveShared DEF p
<1>5. CASE SetLevel(c, PENDING_LOCK) /\ UNCHANGED op
  <2>3. Calls(p, "idle", op[p].conn, op[p].ok)
    BY <1>0, <1>5, SetCall
  <2>5. /\ Counts(p, PENDING_LOCK, pInode[p].nShared)
        /\ eFileLock' \in [Conns -> Levels]
        /\ eFileLock'[c] = PENDING_LOCK /\ \A d \in Conns \ {c} : eFileLock'[d] = eFileLock[d]
        /\ \A d \in Conns : ProcessOf[d] = p => Lock[d]' = eFileLock'[d]
        /\ Count(p)' /\ \A d \in Conns : ProcessOf[d] = p => Level(d)'
    BY <1>0, <1>4, <1>5, <2>3, SetLevelEffect DEF Calls, p
  <2>6. TypeOK' /\ Others(p) /\ \A d \in Conns : ProcessOf[d] # p => Lock[d]' = Lock[d]
    <3>1. /\ isOpen' \in [Conns -> BOOLEAN] /\ errors' \in 0..MaxErrors
          /\ \A d \in Conns : ProcessOf[d] # p =>
                 eFileLock'[d] = eFileLock[d] /\ isOpen'[d] = isOpen[d]
      BY <1>0, <2>5 DEF TypeOK, p
    <3> QED BY <1>0, <1>2, <2>3, <2>5, <3>1, Effect
  <2>7. Call(p)'
    BY <2>3 DEF Call, Calls
  <2>8. ASSUME NEW d \in Conns, ProcessOf[d] = p PROVE Backed(d)'
    BY <1>0, <1>1, <1>2, <1>4, <2>5, <2>8 DEF Backed, Holds
  <2> QED
    BY <1>0, <1>1, <1>2, <1>4, <2>5, <2>6, <2>7, <2>8, Step DEF Granted
<1>6. CASE /\ pInode[p].nShared <= 1 /\ Goto(p, "exclusiveRange", c, TRUE)
           /\ UNCHANGED <<eFileLock, pInode>>
  <2>1. Calls(p, "exclusiveRange", c, TRUE)
    BY <1>0, <1>6, SetCall DEF Steps
  <2>2. Counts(p, eFileLock[c], pInode[p].nShared)
    BY <1>0, <1>1, <1>6, SetInode
  <2>3. TypeOK' /\ Others(p) /\ \A d \in Conns : ProcessOf[d] # p => Lock[d]' = Lock[d]
    BY <1>0, <1>2, <1>6, <2>1, <2>2, Effect DEF TypeOK
  <2>4. \A d \in Conns : ProcessOf[d] = p => Lock[d]' = Lock[d]
    BY <1>1, <1>6, <2>1 DEF Lock, Calls
  <2>5. Count(p)'
    BY <1>0, <1>1, <1>2, <1>6, <2>2, <2>4, CountStays DEF Holds
  <2>6. Call(p)'
    <3>1. pInode[p].nShared >= 1 /\ pInode[p].nShared \in Nat
      BY <1>0, ReaderCounted DEF TypeOK, p
    <3>2. pInode[p].nShared = 1
      BY <1>6, <3>1
    <3> QED BY <1>0, <1>2, <1>6, <2>1, <2>2, <3>2 DEF Call, Calls, Counts, Holds, p
  <2>7. ASSUME NEW d \in Conns, ProcessOf[d] = p PROVE Level(d)' /\ Backed(d)'
    BY <1>0, <1>1, <1>2, <1>6, <2>4, <2>7 DEF Level, Backed, Holds
  <2> QED
    BY <1>0, <1>1, <1>2, <2>2, <2>3, <2>4, <2>5, <2>6, <2>7, Step DEF Granted, Reserving
<1> QED
  BY <1>5, <1>6, <1>a

\* TakeRange: EXCLUSIVE, or PENDING because of a reader or an error.
LEMMA TakeRangeStep ==
    ASSUME LocksAssumption, TypeOK, Core, NEW p \in Processes, NEW c \in Conns, ProcessOf[c] = p,
           op[p].at # "unlockShared", eFileLock[c] # NO_LOCK, pInode[p].eFileLock = eFileLock[c],
           pInode[p].nShared <= 1, os[p].pending = "write",
           TakeRange(p, c), UNCHANGED isOpen, NEW conn, NEW ok, Calls(p, "idle", conn, ok)
    PROVE  TypeOK' /\ Core'
<1>1. /\ Count(p) /\ Reserving(p) /\ pInode[p].nLock = pInode[p].nShared
      /\ \A d \in Conns : ProcessOf[d] = p => Lock[d] = eFileLock[d] /\ Level(d) /\ Backed(d)
  BY OfProcess
<1>2. pInode[p].nShared = 1
  <2>1. pInode[p].nShared >= 1 /\ pInode[p].nShared \in Nat
    BY ReaderCounted DEF TypeOK
  <2> QED BY <2>1
<1>3. \A d \in Conns \ {c} : ProcessOf[d] = p => eFileLock[d] <= SHARED_LOCK
  BY OneAboveShared
<1>4. errors' \in 0..MaxErrors
  BY ErrorsBounded DEF TakeRange
<1>5. PICK level \in {PENDING_LOCK, EXCLUSIVE_LOCK}, shared \in {os[p].shared, "write"} :
          /\ SetLevel(c, level) /\ Holds(p, "write", os[p].reserved, shared)
          /\ \/ shared = os[p].shared /\ level = PENDING_LOCK
             \/ shared = "write" /\ MaySet(p, "shared", "write")
  <2>1. CASE /\ MaySet(p, "shared", "write") /\ os' = [os EXCEPT ![p].shared = "write"]
             /\ SetLevel(c, EXCLUSIVE_LOCK)
    BY <2>1, SetByte DEF Modes
  <2>2. CASE UNCHANGED os /\ SetLevel(c, PENDING_LOCK)
    BY <2>2, Release
  <2> QED BY <2>1, <2>2 DEF TakeRange
<1>6. /\ Counts(p, level, pInode[p].nShared)
      /\ eFileLock' \in [Conns -> Levels]
      /\ eFileLock'[c] = level /\ \A d \in Conns \ {c} : eFileLock'[d] = eFileLock[d]
      /\ \A d \in Conns : ProcessOf[d] = p => Lock[d]' = eFileLock'[d]
      /\ Count(p)' /\ \A d \in Conns : ProcessOf[d] = p => Level(d)'
  <2>1. pInode[p].eFileLock <= SHARED_LOCK \/ eFileLock[c] > SHARED_LOCK
    BY DEF TypeOK
  <2>2. level \in SHARED_LOCK..EXCLUSIVE_LOCK /\ SetLevel(c, level) /\ op'[p].at = "idle"
    BY <1>5 DEF Calls
  <2> QED BY <1>2, <1>3, <2>1, <2>2, SetLevelEffect
<1>7. TypeOK' /\ Others(p) /\ \A d \in Conns : ProcessOf[d] # p => Lock[d]' = Lock[d]
  <2>1. \A d \in Conns : ProcessOf[d] # p => eFileLock'[d] = eFileLock[d] /\ isOpen'[d] = isOpen[d]
    BY <1>6
  <2>2. isOpen' \in [Conns -> BOOLEAN] /\ errors' \in 0..MaxErrors
    BY <1>4 DEF TypeOK
  <2> QED BY <1>5, <1>6, <2>1, <2>2, Effect
<1>8. Call(p)'
  BY DEF Call, Calls
<1>9. os[p].shared # "none"
  BY <1>1 DEF Backed
<1>10. ASSUME NEW d \in Conns, ProcessOf[d] = p PROVE Backed(d)'
  BY <1>1, <1>3, <1>5, <1>6, <1>9, <1>10 DEF Backed, Holds
<1>11. \A d \in Conns : ProcessOf[d] = p /\ Lock[d]' = EXCLUSIVE_LOCK =>
           MaySet(p, "shared", "write")
  BY <1>3, <1>5, <1>6
<1>12. /\ Granted(p, "pending", "write") /\ Granted(p, "reserved", os[p].reserved)
       /\ Granted(p, "shared", shared)
  BY <1>5 DEF Granted
<1> QED
  BY <1>5, <1>6, <1>7, <1>8, <1>9, <1>10, <1>11, <1>12, Step

\* ExclusiveRange: the same from SHARED or RESERVED.
LEMMA ExclusiveRangeStep ==
    ASSUME LocksAssumption, TypeOK, Core, NEW p \in Processes, ExclusiveRange(p)
    PROVE  TypeOK' /\ Core'
<1> DEFINE c == op[p].conn
<1>1. /\ op[p].at = "exclusiveRange" /\ TakeRange(p, c) /\ Return(p) /\ UNCHANGED isOpen
  BY DEF ExclusiveRange
<1>2. /\ c \in Conns /\ ProcessOf[c] = p /\ os[p].pending = "write" /\ pInode[p].nShared = 1
      /\ eFileLock[c] # NO_LOCK /\ pInode[p].eFileLock = eFileLock[c]
  BY <1>1, OfProcess DEF Call
<1> HIDE DEF c
<1>3. Calls(p, "idle", None, TRUE)
  BY <1>1, SetCall
<1>4. op[p].at # "unlockShared" /\ pInode[p].nShared <= 1
  BY <1>1, <1>2
<1> QED
  BY <1>1, <1>2, <1>3, <1>4, TakeRangeStep

\* RetryExclusive: PENDING again, or EXCLUSIVE.
LEMMA RetryExclusiveStep ==
    ASSUME LocksAssumption, TypeOK, Core, NEW c \in Conns, RetryExclusive(c)
    PROVE  TypeOK' /\ Core'
<1> DEFINE p == ProcessOf[c]
<1>1. /\ p \in Processes /\ op[p].at = "idle"
      /\ eFileLock[c] = PENDING_LOCK /\ pInode[p].eFileLock = PENDING_LOCK
      /\ pInode[p].nShared <= 1 /\ TakeRange(p, c) /\ UNCHANGED <<isOpen, op>>
  BY DEF RetryExclusive, LocksAssumption, Idle
<1>2. os[p].pending = "write"
  BY <1>1, OfProcess DEF Backed
<1>3. Calls(p, "idle", op[p].conn, op[p].ok)
  BY <1>1, SetCall
<1> QED
  BY <1>1, <1>2, <1>3, TakeRangeStep

\* Downgrade: a read lock on the range for the one above SHARED.
LEMMA DowngradeStep ==
    ASSUME LocksAssumption, TypeOK, Core, NEW c \in Conns, Downgrade(c)
    PROVE  TypeOK' /\ Core'
<1> DEFINE p == ProcessOf[c]
<1>0. /\ p \in Processes /\ op[p].at = "idle" /\ isOpen[c] /\ eFileLock[c] > SHARED_LOCK
      /\ MaySet(p, "shared", "read") /\ os' = [os EXCEPT ![p].shared = "read"]
      /\ Goto(p, "unlockPending", c, TRUE)
      /\ UNCHANGED <<eFileLock, isOpen, pInode, errors>>
  BY DEF Downgrade, LocksAssumption, Idle
<1> HIDE DEF p
<1>1. /\ Count(p) /\ Reserving(p) /\ pInode[p].nLock = pInode[p].nShared
      /\ \A d \in Conns : ProcessOf[d] = p => Lock[d] = eFileLock[d] /\ Level(d) /\ Backed(d)
  BY <1>0, OfProcess
<1>2. Holds(p, os[p].pending, os[p].reserved, "read")
  BY <1>0, SetByte DEF Modes
<1>3. Calls(p, "unlockPending", c, TRUE)
  BY <1>0, SetCall DEF Steps
<1>4. Counts(p, pInode[p].eFileLock, pInode[p].nShared)
  BY <1>0, <1>1, SetInode
<1>5. TypeOK' /\ Others(p) /\ \A d \in Conns : ProcessOf[d] # p => Lock[d]' = Lock[d]
  BY <1>0, <1>2, <1>3, <1>4, Effect DEF TypeOK
<1>6. \A d \in Conns : ProcessOf[d] = p => Lock[d]' = Lock[d]
  BY <1>0, <1>1, <1>3 DEF Lock, Calls
<1>7. Count(p)'
  BY <1>0, <1>1, <1>2, <1>4, <1>6, CountStays DEF Holds
<1>8. Call(p)'
  <2>1. pInode[p].eFileLock = eFileLock[c] /\ ProcessOf[c] = p
    BY <1>0, <1>1 DEF Level, p
  <2> QED BY <1>0, <1>3, <1>4, <2>1 DEF Call, Calls, Counts
<1>9. ASSUME NEW d \in Conns, ProcessOf[d] = p PROVE Level(d)' /\ Backed(d)'
  BY <1>0, <1>1, <1>2, <1>6, <1>9 DEF Level, Backed, Holds
<1>10. os[p].shared # "none"
  BY <1>0, <1>1 DEF Backed, p
<1> QED
  BY <1>0, <1>1, <1>2, <1>4, <1>5, <1>6, <1>7, <1>8, <1>9, <1>10, Step DEF Granted, Reserving

\* UnlockPending: the connection is down to SHARED, or stays above it.
LEMMA UnlockPendingStep ==
    ASSUME LocksAssumption, TypeOK, Core, NEW p \in Processes, UnlockPending(p)
    PROVE  TypeOK' /\ Core'
<1> DEFINE c == op[p].conn
<1>0. /\ op[p].at = "unlockPending" /\ Return(p) /\ UNCHANGED isOpen
      /\ \/ /\ os' = [os EXCEPT ![p].pending = "none", ![p].reserved = "none"]
            /\ SetLevel(c, SHARED_LOCK) /\ UNCHANGED errors
         \/ IoError /\ UNCHANGED <<os, eFileLock, pInode>>
  BY DEF UnlockPending
<1>1. /\ Count(p) /\ Reserving(p) /\ pInode[p].nLock = pInode[p].nShared
      /\ \A d \in Conns : ProcessOf[d] = p => Lock[d] = eFileLock[d] /\ Level(d) /\ Backed(d)
      /\ c \in Conns /\ ProcessOf[c] = p
      /\ eFileLock[c] > SHARED_LOCK /\ pInode[p].eFileLock = eFileLock[c]
  BY <1>0, OfProcess DEF Call
<1> HIDE DEF c
<1>2. Calls(p, "idle", None, TRUE)
  BY <1>0, SetCall
<1>3. errors' \in 0..MaxErrors
  BY <1>0, ErrorsBounded
<1>4. Call(p)'
  BY <1>2 DEF Call, Calls
<1>5. os[p].shared # "none" /\ eFileLock[c] # NO_LOCK
  BY <1>1 DEF Backed
<1>6. CASE /\ os' = [os EXCEPT ![p].pending = "none", ![p].reserved = "none"]
           /\ SetLevel(c, SHARED_LOCK)
  <2>1. Holds(p, "none", "none", os[p].shared)
    BY <1>6, Release
  <2>2. \A d \in Conns \ {c} : ProcessOf[d] = p => eFileLock[d] <= SHARED_LOCK
    BY <1>0, <1>1, OneAboveShared
  <2>3. /\ Counts(p, SHARED_LOCK, pInode[p].nShared)
        /\ eFileLock' \in [Conns -> Levels]
        /\ eFileLock'[c] = SHARED_LOCK /\ \A d \in Conns \ {c} : eFileLock'[d] = eFileLock[d]
        /\ \A d \in Conns : ProcessOf[d] = p => Lock[d]' = eFileLock'[d]
        /\ Count(p)' /\ \A d \in Conns : ProcessOf[d] = p => Level(d)'
    BY <1>1, <1>2, <1>5, <1>6, <2>2, SetLevelEffect DEF Calls
  <2>4. TypeOK' /\ Others(p) /\ \A d \in Conns : ProcessOf[d] # p => Lock[d]' = Lock[d]
    <3>1. isOpen' \in [Conns -> BOOLEAN]
      BY <1>0 DEF TypeOK
    <3>2. \A d \in Conns : ProcessOf[d] # p =>
              eFileLock'[d] = eFileLock[d] /\ isOpen'[d] = isOpen[d]
      BY <1>0, <1>1, <2>3
    <3> QED BY <1>2, <1>3, <2>1, <2>3, <3>1, <3>2, Effect
  <2>5. \A d \in Conns : ProcessOf[d] = p => ~(Lock[d]' > SHARED_LOCK)
    BY <2>2, <2>3
  <2>6. ASSUME NEW d \in Conns, ProcessOf[d] = p PROVE Backed(d)'
    <3>1. Backed(d) /\ eFileLock[c] # NO_LOCK /\ Backed(c)
      BY <1>1, <1>5, <2>6
    <3>2. eFileLock'[d] # NO_LOCK => eFileLock[d] # NO_LOCK
      BY <1>5, <2>3
    <3>3. eFileLock'[d] # NO_LOCK => isOpen'[d] /\ os'[p].shared # "none"
      BY <1>0, <1>5, <2>1, <3>1, <3>2 DEF Backed, Holds
    <3>4. Lock[d]' \in Levels /\ ~(Lock[d]' > SHARED_LOCK)
      BY <2>3, <2>5, <2>6
    <3> QED BY <2>6, <3>3, <3>4 DEF Backed
  <2>7. \A d \in Conns : ProcessOf[d] = p => Lock[d]' # EXCLUSIVE_LOCK
    BY <2>5
  <2> QED
    BY <1>4, <1>5, <2>1, <2>3, <2>4, <2>6, <2>7, Step DEF Granted
<1>7. CASE UNCHANGED <<os, eFileLock, pInode>>
  <2>1. Holds(p, os[p].pending, os[p].reserved, os[p].shared)
    BY <1>7, Release
  <2>2. Counts(p, pInode[p].eFileLock, pInode[p].nShared)
    BY <1>1, <1>7, SetInode
  <2>3. TypeOK' /\ Others(p) /\ \A d \in Conns : ProcessOf[d] # p => Lock[d]' = Lock[d]
    BY <1>0, <1>2, <1>3, <1>7, <2>1, <2>2, Effect DEF TypeOK
  <2>4. \A d \in Conns : ProcessOf[d] = p => Lock[d]' = Lock[d]
    BY <1>1, <1>2, <1>7 DEF Lock, Calls
  <2>5. Count(p)'
    BY <1>1, <1>7, <2>1, <2>2, <2>4, CountStays DEF Holds
  <2>6. ASSUME NEW d \in Conns, ProcessOf[d] = p PROVE Level(d)' /\ Backed(d)'
    BY <1>0, <1>1, <1>7, <2>4, <2>6 DEF Level, Backed
  <2> QED
    BY <1>1, <1>4, <1>5, <2>1, <2>2, <2>3, <2>4, <2>5, <2>6, Step DEF Granted, Reserving
<1> QED
  BY <1>0, <1>6, <1>7

\* Unlock: the first two bytes are free, the connection still counts as a reader.
LEMMA UnlockStep ==
    ASSUME LocksAssumption, TypeOK, Core, NEW c \in Conns, Unlock(c)
    PROVE  TypeOK' /\ Core'
<1> DEFINE p == ProcessOf[c]
<1>0. /\ p \in Processes /\ op[p].at = "idle" /\ isOpen[c] /\ eFileLock[c] > SHARED_LOCK
      /\ os' = [os EXCEPT ![p].pending = "none", ![p].reserved = "none"]
      /\ pInode' = [pInode EXCEPT ![p].eFileLock = SHARED_LOCK]
      /\ Goto(p, "unlockShared", c, TRUE)
      /\ UNCHANGED <<eFileLock, isOpen, errors>>
  BY DEF Unlock, LocksAssumption, Idle
<1> HIDE DEF p
<1>1. /\ Count(p) /\ Reserving(p) /\ pInode[p].nLock = pInode[p].nShared
      /\ \A d \in Conns : ProcessOf[d] = p => Lock[d] = eFileLock[d] /\ Level(d) /\ Backed(d)
  BY <1>0, OfProcess
<1>2. Holds(p, "none", "none", os[p].shared)
  BY <1>0, Release
<1>3. Calls(p, "unlockShared", c, TRUE)
  BY <1>0, SetCall DEF Steps
<1>4. Counts(p, SHARED_LOCK, pInode[p].nShared)
  <2>1. /\ p \in Processes /\ SHARED_LOCK \in Levels
        /\ pInode' = [pInode EXCEPT ![p].eFileLock = SHARED_LOCK]
    BY <1>0
  <2>2. pInode[p].nLock = pInode[p].nShared
    BY <1>1
  <2> QED BY <2>1, <2>2, SetInode
<1>5. TypeOK' /\ Others(p) /\ \A d \in Conns : ProcessOf[d] # p => Lock[d]' = Lock[d]
  BY <1>0, <1>2, <1>3, <1>4, Effect DEF TypeOK
<1>6. \A d \in Conns \ {c} : ProcessOf[d] = p => eFileLock[d] <= SHARED_LOCK
  <2>1. pInode[p].eFileLock = eFileLock[c]
    BY <1>0, <1>1 DEF Level, p
  <2> QED BY <1>0, <2>1, OneAboveShared DEF p
<1>7. \A d \in Conns : ProcessOf[d] = p => Lock[d]' \in {NO_LOCK, SHARED_LOCK}
  <2>1. Lock[c]' = SHARED_LOCK
    BY <1>3 DEF Lock, Calls, p
  <2>2. ASSUME NEW d \in Conns \ {c}, ProcessOf[d] = p PROVE Lock[d]' \in {NO_LOCK, SHARED_LOCK}
    <3>1. Lock[d]' = eFileLock[d]
      BY <1>0, <1>3, <2>2 DEF Lock, Calls
    <3>2. eFileLock[d] \in Levels
      BY DEF TypeOK
    <3> QED BY <1>6, <2>2, <3>1, <3>2
  <2> QED BY <2>1, <2>2
<1>8. Count(p)'
  <2>1. Readers(p)' = Readers(p)
    BY <1>0 DEF Readers
  <2>2. pInode[p].nShared = Cardinality(Readers(p)) /\ pInode[p].nShared \in Nat
    BY <1>0, NotOrphaned DEF TypeOK, p
  <2>3. pInode[p].nShared >= 1
    BY <1>0, ReaderCounted DEF p
  <2> QED BY <1>1, <1>4, <2>1, <2>2, <2>3 DEF Count, Counts, Orphaned
<1>9. Call(p)'
  BY <1>0, <1>3, <1>4 DEF Call, Calls, Counts, p
<1>10. ASSUME NEW d \in Conns, ProcessOf[d] = p PROVE Level(d)' /\ Backed(d)'
  BY <1>0, <1>1, <1>2, <1>7, <1>10 DEF Level, Backed, Holds
<1>11. \A d \in Conns : ProcessOf[d] = p => Lock[d]' # EXCLUSIVE_LOCK
  BY <1>7
<1> QED
  BY <1>0, <1>2, <1>4, <1>5, <1>8, <1>9, <1>10, <1>11, Step DEF Granted

\* ReleaseShared: one reader less, and no locks without readers.
LEMMA ReleaseSharedStep ==
    ASSUME LocksAssumption, TypeOK, Core, NEW p \in Processes, NEW c \in Conns, ProcessOf[c] = p,
           eFileLock[c] # NO_LOCK, Lock[c] = SHARED_LOCK, 
           \A d \in Conns \ {c} : ProcessOf[d] = p => Lock[d] = eFileLock[d],
           ReleaseShared(p, c), UNCHANGED isOpen, NEW conn, NEW ok, Calls(p, "idle", conn, ok)
    PROVE  TypeOK' /\ Core'
<1> DEFINE n == pInode[p].nShared
           level == IF n = 1 THEN NO_LOCK ELSE pInode[p].eFileLock
<1>1. /\ Count(p) /\ Reserving(p) /\ pInode[p].nLock = n
      /\ \A d \in Conns : ProcessOf[d] = p => Level(d) /\ Backed(d)
  BY OfProcess
<1>2. n >= 1 /\ n \in Nat
  BY ReaderCounted DEF TypeOK
<1>3. Counts(p, level, n - 1)
  <2>1. Uncount(p) /\ n > 0
    BY <1>2 DEF ReleaseShared
  <2>2. pInode[p].nLock = pInode[p].nShared
    BY <1>1
  <2> QED BY <2>1, <2>2, SetInode
<1>4. errors' \in 0..MaxErrors
  BY ErrorsBounded DEF ReleaseShared
<1>5. PICK pending, reserved, shared :
          /\ Holds(p, pending, reserved, shared)
          /\ pending = os[p].pending \/ pending = "none"
          /\ reserved = os[p].reserved \/ reserved = "none"
          /\ shared = os[p].shared \/ shared = "none"
          /\ n = 1 \/ (pending = os[p].pending /\ reserved = os[p].reserved /\ shared = os[p].shared)
  <2>1. \/ n = 1 /\ os' = [os EXCEPT ![p] = NoLocks]
        \/ UNCHANGED os
    <3>1. [os EXCEPT ![p] = os[p]] = os
      BY DEF TypeOK
    <3> QED BY <3>1 DEF ReleaseShared
  <2>2. CASE n = 1 /\ os' = [os EXCEPT ![p] = NoLocks]
    BY <2>2, Release
  <2>3. CASE UNCHANGED os
    BY <2>3, Release
  <2> QED BY <2>1, <2>2, <2>3
<1>6. /\ eFileLock' = [eFileLock EXCEPT ![c] = NO_LOCK]
      /\ eFileLock' \in [Conns -> Levels]
      /\ eFileLock'[c] = NO_LOCK /\ \A d \in Conns \ {c} : eFileLock'[d] = eFileLock[d]
  BY DEF ReleaseShared, TypeOK
<1>7. TypeOK' /\ Others(p) /\ \A d \in Conns : ProcessOf[d] # p => Lock[d]' = Lock[d]
  <2>1. isOpen' \in [Conns -> BOOLEAN]
    BY DEF TypeOK
  <2>2. \A d \in Conns : ProcessOf[d] # p =>
            eFileLock'[d] = eFileLock[d] /\ isOpen'[d] = isOpen[d]
    BY <1>6
  <2> HIDE DEF level, n
  <2> QED BY <1>3, <1>4, <1>5, <1>6, <2>1, <2>2, Effect
<1>8. /\ Lock[c]' = NO_LOCK
      /\ \A d \in Conns \ {c} : ProcessOf[d] = p => Lock[d]' = Lock[d] /\ Lock[d]' = eFileLock[d]
  BY <1>6 DEF Lock, Calls
<1>9. /\ Readers(p)' = Readers(p) \ {c}
      /\ Cardinality(Readers(p))' = Cardinality(Readers(p)) - 1
      /\ Readers(p)' = {} <=> Cardinality(Readers(p)) = 1
  BY <1>6, ReaderLeaves
<1>a. /\ pInode[p].eFileLock # NO_LOCK
      /\ Cardinality(Readers(p)) >= 1 /\ Cardinality(Readers(p)) \in Nat
  <2>1. c \in Readers(p)
    BY DEF Readers
  <2>2. Cardinality(Readers(p)) = 0 => Readers(p) = {}
    BY ReadersFinite, FS_EmptySet
  <2> QED BY <2>1, <2>2, ReadersFinite, ReaderCounted
<1>b. /\ n = 1 => ~Orphaned(p) /\ Cardinality(Readers(p)) = 1
      /\ Orphaned(p)' <=> Orphaned(p)
  BY <1>1, <1>2, <1>3, <1>9, <1>a DEF Count, Counts, Orphaned
<1>10. Count(p)'
  <2>2. ASSUME n # 1, pInode[p].eFileLock > SHARED_LOCK, ~Orphaned(p)
        PROVE  \E d \in Readers(p)' : Lock[d]' = pInode[p].eFileLock
    <3>1. PICK d \in Readers(p) : Lock[d] = pInode[p].eFileLock
      BY <1>1, <2>2 DEF Count
    <3>2. d # c /\ d \in Conns /\ ProcessOf[d] = p
      BY <2>2, <3>1 DEF Readers
    <3> QED BY <1>8, <1>9, <3>1, <3>2
  <2>3. pInode[p].eFileLock = EXCLUSIVE_LOCK => n = 1
    BY <1>1 DEF Count
  <2>4. /\ pInode'[p].nShared = Cardinality(Readers(p))' \/ Orphaned(p)'
        /\ pInode'[p].nLock = pInode'[p].nShared
    BY <1>1, <1>2, <1>3, <1>9, <1>a, <1>b DEF Count, Counts
  <2>5. pInode'[p].eFileLock = NO_LOCK <=> pInode'[p].nShared = 0
    BY <1>2, <1>3, <1>a DEF Counts
  <2>6. ASSUME Orphaned(p)
        PROVE  /\ n # 1 /\ pInode'[p].eFileLock > SHARED_LOCK /\ os'[p].shared # "none"
               /\ \A d \in Readers(p)' : eFileLock'[d] = SHARED_LOCK
    <3>1. n # 1 /\ pInode[p].eFileLock > SHARED_LOCK /\ os[p].shared # "none"
      BY <1>1, <1>b, <2>6 DEF Count
    <3>2. pInode'[p].eFileLock = pInode[p].eFileLock /\ os'[p].shared = os[p].shared
      BY <1>3, <1>5, <3>1 DEF Counts, Holds
    <3>3. \A d \in Readers(p)' : d \in Conns \ {c} /\ eFileLock[d] = SHARED_LOCK
      BY <1>1, <1>9, <2>6 DEF Count, Readers
    <3> QED BY <1>6, <3>1, <3>2, <3>3
  <2>7. pInode'[p].eFileLock > SHARED_LOCK => n # 1 /\ pInode'[p].eFileLock = pInode[p].eFileLock
    BY <1>3 DEF Counts
  <2>8. pInode'[p].eFileLock # EXCLUSIVE_LOCK
    BY <2>3, <2>7
  <2>9. pInode'[p].eFileLock > SHARED_LOCK =>
            Orphaned(p)' \/ \E d \in Readers(p)' : Lock[d]' = pInode'[p].eFileLock
    BY <1>b, <2>2, <2>7
  <2> HIDE DEF n, level
  <2> QED BY <1>b, <2>4, <2>5, <2>6, <2>8, <2>9 DEF Count
<1>11. Call(p)'
  BY DEF Call, Calls
<1>12. ASSUME n = 1 PROVE \A d \in Conns : ProcessOf[d] = p => eFileLock'[d] = NO_LOCK
  <2>1. Readers(p)' = {}
    BY <1>9, <1>12, <1>b
  <2> QED BY <2>1 DEF Readers
<1>13. ASSUME NEW d \in Conns, ProcessOf[d] = p PROVE Level(d)' /\ Backed(d)'
  <2>1. CASE n = 1
    <3>1. Lock[d]' = NO_LOCK /\ eFileLock'[d] = NO_LOCK
      BY <1>6, <1>8, <1>12, <1>13, <2>1
    <3> QED BY <3>1 DEF Level, Backed
  <2>2. CASE n # 1
    <3>1. pInode'[p].eFileLock = pInode[p].eFileLock /\ os'[p].pending = os[p].pending
          /\ os'[p].reserved = os[p].reserved /\ os'[p].shared = os[p].shared
      BY <1>3, <1>5, <2>2 DEF Counts, Holds
    <3>2. Level(d) /\ Backed(d)
      BY <1>1, <1>13
    <3>3. Level(d)'
      BY <1>6, <1>8, <1>13, <3>1, <3>2 DEF Level
    <3>4. Backed(d)'
      BY <1>6, <1>8, <1>13, <3>1, <3>2 DEF Backed
    <3> QED BY <3>3, <3>4
  <2> QED BY <2>1, <2>2
<1>14. os[p].shared # "none"
  BY <1>1 DEF Backed
<1>15. \A d \in Conns : ProcessOf[d] = p /\ Lock[d]' = EXCLUSIVE_LOCK => Lock[d] = EXCLUSIVE_LOCK
  BY <1>8
<1>16. /\ Granted(p, "pending", pending) /\ Granted(p, "reserved", reserved)
       /\ Granted(p, "shared", shared)
  BY <1>5 DEF Granted
<1>17. reserved = "write" => level > SHARED_LOCK
  <2>1. CASE n = 1
    <3>1. Readers(p) = {c}
      BY <1>b, <2>1, LoneReader DEF Readers
    <3>2. ~(pInode[p].eFileLock > SHARED_LOCK)
      BY <1>1, <1>b, <2>1, <3>1 DEF Count
    <3>3. reserved # "write"
      BY <1>1, <1>5, <3>2 DEF Reserving
    <3> QED BY <3>3
  <2>2. CASE n # 1
    BY <1>1, <1>5, <2>2 DEF Reserving
  <2> QED BY <2>1, <2>2
<1> HIDE DEF level, n
<1> QED
  BY <1>3, <1>5, <1>7, <1>10, <1>11, <1>13, <1>14, <1>15, <1>16, <1>17, Step

\* UnlockShared: the end of posixUnlock(NO_LOCK) of a connection above SHARED.
LEMMA UnlockSharedStep ==
    ASSUME LocksAssumption, TypeOK, Core, NEW p \in Processes, UnlockShared(p)
    PROVE  TypeOK' /\ Core'
<1> DEFINE c == op[p].conn
<1>1. /\ op[p].at = "unlockShared" /\ ReleaseShared(p, c) /\ Return(p) /\ UNCHANGED isOpen
  BY DEF UnlockShared
<1>2. c \in Conns /\ ProcessOf[c] = p /\ eFileLock[c] # NO_LOCK
  BY <1>1, OfProcess DEF Call
<1>3. Calls(p, "idle", None, TRUE)
  BY <1>1, SetCall
<1>4. Lock[c] = SHARED_LOCK /\ \A d \in Conns \ {c} : ProcessOf[d] = p => Lock[d] = eFileLock[d]
  BY <1>1, <1>2 DEF Lock
<1> HIDE DEF c
<1> QED
  BY <1>1, <1>2, <1>3, <1>4, ReleaseSharedStep

\* UnlockReader: posixUnlock(NO_LOCK) of a connection at SHARED.
LEMMA UnlockReaderStep ==
    ASSUME LocksAssumption, TypeOK, Core, NEW c \in Conns, UnlockReader(c)
    PROVE  TypeOK' /\ Core'
<1> DEFINE p == ProcessOf[c]
<1>1. /\ p \in Processes /\ op[p].at = "idle" /\ eFileLock[c] = SHARED_LOCK
      /\ ReleaseShared(p, c) /\ UNCHANGED <<isOpen, op>>
  BY DEF UnlockReader, LocksAssumption, Idle
<1>2. \A d \in Conns : ProcessOf[d] = p => Lock[d] = eFileLock[d]
  BY <1>1, OfProcess
<1>3. Calls(p, "idle", op[p].conn, op[p].ok)
  BY <1>1, SetCall
<1> QED
  BY <1>1, <1>2, <1>3, ReleaseSharedStep

\* A process none of whose connections has a level any more.
LEMMA NobodyLeft ==
    ASSUME LocksAssumption, TypeOK, Core, NEW p \in Processes,
           Holds(p, "none", "none", "none"), Counts(p, NO_LOCK, 0),
           NEW conn, NEW ok, Calls(p, "idle", conn, ok),
           eFileLock' \in [Conns -> Levels], isOpen' \in [Conns -> BOOLEAN],
           \A d \in Conns : ProcessOf[d] # p =>
               eFileLock'[d] = eFileLock[d] /\ isOpen'[d] = isOpen[d],
           \A d \in Conns : ProcessOf[d] = p => eFileLock'[d] = NO_LOCK,
           errors' \in 0..MaxErrors
    PROVE  TypeOK' /\ Core'
<1>1. TypeOK' /\ Others(p) /\ \A d \in Conns : ProcessOf[d] # p => Lock[d]' = Lock[d]
  BY Effect
<1>2. \A d \in Conns : ProcessOf[d] = p => Lock[d]' = NO_LOCK
  BY DEF Lock, Calls
<1>3. Count(p)'
  <2>1. Readers(p)' = {}
    BY DEF Readers
  <2> QED BY <2>1, FS_EmptySet DEF Count, Counts, Orphaned
<1>4. Call(p)'
  BY DEF Call, Calls
<1>5. \A d \in Conns : ProcessOf[d] = p => Level(d)' /\ Backed(d)'
  BY <1>2 DEF Level, Backed
<1> QED
  BY <1>1, <1>2, <1>3, <1>4, <1>5, Step DEF Granted

\* Close: no lock of a reader goes with the descriptor, and a connection whose unlock
\* failed is one the inode counts and nobody has.
LEMMA CloseStep ==
    ASSUME LocksAssumption, TypeOK, Core, NEW c \in Conns, Close(c)
    PROVE  TypeOK' /\ Core'
<1> DEFINE p == ProcessOf[c]
<1>0. /\ p \in Processes /\ op[p].at = "idle" /\ UNCHANGED op
      /\ eFileLock[c] = NO_LOCK \/ eFileLock[c] > SHARED_LOCK
      /\ eFileLock' = [eFileLock EXCEPT ![c] = NO_LOCK]
      /\ isOpen' = [isOpen EXCEPT ![c] = FALSE]
  BY DEF Close, LocksAssumption, Idle
<1>a. \/ /\ LastOpen(c)
         /\ os' = [os EXCEPT ![p] = NoLocks] /\ pInode' = [pInode EXCEPT ![p] = FreshInode]
      \/ /\ pInode[p].nLock > 0 /\ UNCHANGED os
         /\ pInode' = [pInode EXCEPT ![p].pUnused = @ + 1]
      \/ pInode[p].nLock = 0 /\ os' = [os EXCEPT ![p] = NoLocks] /\ UNCHANGED pInode
  BY DEF Close
<1>b. errors' \in 0..MaxErrors
  BY ErrorsBounded DEF Close
<1>1. /\ Count(p) /\ Reserving(p) /\ pInode[p].nLock = pInode[p].nShared
      /\ \A d \in Conns : ProcessOf[d] = p => Lock[d] = eFileLock[d] /\ Level(d) /\ Backed(d)
  BY <1>0, OfProcess
<1>2. Calls(p, "idle", op[p].conn, op[p].ok)
  BY <1>0, SetCall
<1>3. /\ eFileLock' \in [Conns -> Levels] /\ isOpen' \in [Conns -> BOOLEAN]
      /\ \A d \in Conns : d # c => eFileLock'[d] = eFileLock[d] /\ isOpen'[d] = isOpen[d]
      /\ \A d \in Conns : ProcessOf[d] # p =>
             eFileLock'[d] = eFileLock[d] /\ isOpen'[d] = isOpen[d]
      /\ eFileLock'[c] = NO_LOCK
  <2>1. /\ eFileLock' \in [Conns -> Levels] /\ eFileLock'[c] = NO_LOCK
        /\ \A d \in Conns : d # c => eFileLock'[d] = eFileLock[d]
    BY <1>0 DEF TypeOK
  <2>2. /\ isOpen' \in [Conns -> BOOLEAN]
        /\ \A d \in Conns : d # c => isOpen'[d] = isOpen[d]
    BY <1>0 DEF TypeOK
  <2> QED BY <2>1, <2>2
<1>4. \A d \in Conns : ProcessOf[d] = p => Lock[d]' = eFileLock'[d]
  BY <1>2 DEF Lock, Calls
<1>5. CASE /\ LastOpen(c)
           /\ os' = [os EXCEPT ![p] = NoLocks] /\ pInode' = [pInode EXCEPT ![p] = FreshInode]
  <2>1. Holds(p, "none", "none", "none") /\ Counts(p, NO_LOCK, 0)
    BY <1>0, <1>1, <1>5, Release, SetInode
  <2>2. \A d \in Conns : ProcessOf[d] = p => eFileLock'[d] = NO_LOCK
    BY <1>1, <1>3, <1>5 DEF LastOpen, Backed
  <2> QED BY <1>0, <1>2, <1>3, <1>b, <2>1, <2>2, NobodyLeft
<1>6. CASE pInode[p].nLock = 0 /\ os' = [os EXCEPT ![p] = NoLocks] /\ UNCHANGED pInode
  <2>1. pInode[p].nShared = 0 /\ pInode[p].eFileLock = NO_LOCK
    BY <1>1, <1>6 DEF Count
  <2>2. Holds(p, "none", "none", "none") /\ Counts(p, NO_LOCK, 0)
    BY <1>0, <1>1, <1>6, <2>1, Release, SetInode
  <2>3. \A d \in Conns : ProcessOf[d] = p => eFileLock[d] = NO_LOCK
    BY <2>1, ReaderCounted
  <2>4. \A d \in Conns : ProcessOf[d] = p => eFileLock'[d] = NO_LOCK
    BY <1>3, <2>3
  <2> QED BY <1>0, <1>2, <1>3, <1>b, <2>2, <2>4, NobodyLeft
<1>7. CASE /\ pInode[p].nLock > 0 /\ UNCHANGED os
           /\ pInode' = [pInode EXCEPT ![p].pUnused = @ + 1]
  <2>1. Holds(p, os[p].pending, os[p].reserved, os[p].shared)
    BY <1>0, <1>7, Release
  <2>2. Counts(p, pInode[p].eFileLock, pInode[p].nShared)
    <3>1. pInode[p].pUnused + 1 \in Nat
      BY <1>0 DEF TypeOK
    <3> QED BY <1>0, <1>1, <1>7, <3>1, SetInode
  <2>3. TypeOK' /\ Others(p) /\ \A d \in Conns : ProcessOf[d] # p => Lock[d]' = Lock[d]
    BY <1>0, <1>2, <1>3, <1>b, <2>1, <2>2, Effect
  <2>4. Call(p)'
    BY <1>2 DEF Call, Calls
  <2>5. ASSUME NEW d \in Conns, ProcessOf[d] = p PROVE Level(d)' /\ Backed(d)'
    <3>1. Level(d) /\ Backed(d) /\ Lock[d] = eFileLock[d] /\ eFileLock[d] \in Levels
      BY <1>1, <2>5 DEF TypeOK
    <3>2. \A e \in Conns : ProcessOf[e] = p => eFileLock'[e] = eFileLock[e] \/ eFileLock'[e] = NO_LOCK
      BY <1>3
    <3>3. Level(d)'
      BY <1>4, <2>2, <2>5, <3>1, <3>2 DEF Level, Counts
    <3>4. CASE d = c
      BY <1>3, <1>4, <2>5, <3>3, <3>4 DEF Backed
    <3>5. CASE d # c
      <4>1. isOpen'[d] = isOpen[d] /\ eFileLock'[d] = eFileLock[d] /\ Lock[d]' = Lock[d]
        BY <1>3, <1>4, <2>5, <3>1, <3>5
      <4> QED BY <1>7, <3>1, <3>3, <4>1 DEF Backed
    <3> QED BY <3>4, <3>5
  <2>6. Count(p)'
    <3>1. CASE eFileLock[c] = NO_LOCK
      <4>1. UNCHANGED eFileLock
        BY <1>0, <3>1 DEF TypeOK
      <4>2. \A d \in Conns : ProcessOf[d] = p => Lock[d]' = Lock[d]
        BY <1>1, <1>4, <4>1
      <4> QED BY <1>0, <1>1, <1>7, <2>2, <4>1, <4>2, CountStays
    <3>2. CASE eFileLock[c] > SHARED_LOCK
      <4>1. /\ pInode[p].nShared = Cardinality(Readers(p)) /\ pInode[p].nShared \in Nat
            /\ pInode[p].eFileLock = eFileLock[c] /\ os[p].shared # "none"
        <5>1. pInode[p].nShared = Cardinality(Readers(p))
          BY <1>0, <3>2, NotOrphaned
        <5>2. Level(c) /\ Backed(c) /\ Lock[c] = eFileLock[c]
          BY <1>1
        <5>3. eFileLock[c] # NO_LOCK
          BY <3>2
        <5>4. pInode[p].nShared \in Nat
          BY <1>0 DEF TypeOK
        <5> QED BY <3>2, <5>1, <5>2, <5>3, <5>4 DEF Level, Backed
      <4>2. Cardinality(Readers(p))' = Cardinality(Readers(p)) - 1
        <5>1. eFileLock[c] # NO_LOCK
          BY <3>2
        <5> QED BY <1>0, <5>1, ReaderLeaves
      <4>3. Orphaned(p)' /\ pInode'[p].nShared # 0
        BY <1>1, <1>7, <2>2, <4>1, <4>2 DEF Orphaned, Counts
      <4>4. ASSUME NEW d \in Readers(p)' PROVE eFileLock'[d] = SHARED_LOCK
        <5>1. d \in Conns /\ ProcessOf[d] = p /\ d # c /\ eFileLock'[d] # NO_LOCK
          BY <1>3, <4>4 DEF Readers
        <5>2. eFileLock[d] <= SHARED_LOCK
          BY <1>0, <4>1, <5>1, OneAboveShared
        <5>3. eFileLock[d] \in Levels
          BY <5>1 DEF TypeOK
        <5> QED BY <1>3, <5>1, <5>2, <5>3
      <4>5. pInode[p].eFileLock = EXCLUSIVE_LOCK => pInode[p].nShared = 1
        BY <1>1 DEF Count
      <4> QED BY <1>7, <2>2, <3>2, <4>1, <4>3, <4>4, <4>5 DEF Count, Counts
    <3> QED BY <1>0, <3>1, <3>2
  <2>7. \A d \in Conns : ProcessOf[d] = p /\ Lock[d]' = EXCLUSIVE_LOCK => Lock[d] = EXCLUSIVE_LOCK
    BY <1>1, <1>3, <1>4
  <2>8. os[p].reserved = "write" => pInode[p].eFileLock > SHARED_LOCK
    BY <1>1 DEF Reserving
  <2>9. /\ Granted(p, "pending", os[p].pending) /\ Granted(p, "reserved", os[p].reserved)
        /\ Granted(p, "shared", os[p].shared)
    BY DEF Granted
  <2> QED BY <1>0, <2>1, <2>2, <2>3, <2>4, <2>5, <2>6, <2>7, <2>8, <2>9, Step
<1> QED
  BY <1>5, <1>6, <1>7, <1>a

\* A step that touches no lock.
LEMMA NoLockChanged ==
    ASSUME Core, UNCHANGED <<eFileLock, isOpen, pInode, os, op>>
    PROVE  Core'
<1>1. Lock' = Lock
  BY DEF Lock
<1>2. \A p \in Processes : Readers(p)' = Readers(p)
  BY DEF Readers
<1>3. \A p \in Processes : Count(p)' <=> Count(p)
  BY <1>1, <1>2 DEF Count, Orphaned
<1>4. \A p \in Processes : Call(p)' <=> Call(p)
  BY DEF Call
<1>5. \A c \in Conns : (Level(c)' <=> Level(c)) /\ (Backed(c)' <=> Backed(c))
  BY <1>1 DEF Level, Backed
<1>6. \A p, q \in Processes : Compatible(p, q)' <=> Compatible(p, q)
  BY <1>1 DEF Compatible
<1>7. \A p \in Processes : Local(p)'
  BY <1>3, <1>4, <1>5 DEF Core, Local, Reserving
<1> QED
  BY <1>6, <1>7 DEF Core

\* Open: a connection without a level, and perhaps a descriptor less put aside.
LEMMA OpenStep ==
    ASSUME LocksAssumption, TypeOK, Core, NEW c \in Conns, Open(c)
    PROVE  TypeOK' /\ Core'
<1> DEFINE p == ProcessOf[c]
           unused == IF pInode[p].pUnused > 0 THEN pInode[p].pUnused - 1 ELSE 0
<1>0. /\ p \in Processes /\ op[p].at = "idle" /\ UNCHANGED <<eFileLock, os, op, errors>>
      /\ isOpen' = [isOpen EXCEPT ![c] = TRUE]
      /\ pInode' = [pInode EXCEPT ![p].pUnused = unused]
  BY DEF Open, LocksAssumption
<1>1. /\ Count(p) /\ Reserving(p) /\ pInode[p].nLock = pInode[p].nShared
      /\ \A d \in Conns : ProcessOf[d] = p => Lock[d] = eFileLock[d] /\ Level(d) /\ Backed(d)
  BY <1>0, OfProcess
<1>2. unused \in Nat
  BY <1>0 DEF TypeOK
<1> HIDE DEF unused
<1>3. Counts(p, pInode[p].eFileLock, pInode[p].nShared)
  BY <1>0, <1>1, <1>2, SetInode
<1>4. Holds(p, os[p].pending, os[p].reserved, os[p].shared)
  BY <1>0, Release
<1>5. Calls(p, "idle", op[p].conn, op[p].ok)
  BY <1>0, SetCall
<1>6. TypeOK' /\ Others(p) /\ \A d \in Conns : ProcessOf[d] # p => Lock[d]' = Lock[d]
  <2>1. /\ eFileLock' \in [Conns -> Levels] /\ isOpen' \in [Conns -> BOOLEAN]
        /\ errors' \in 0..MaxErrors
        /\ \A d \in Conns : ProcessOf[d] # p =>
               eFileLock'[d] = eFileLock[d] /\ isOpen'[d] = isOpen[d]
    BY <1>0 DEF TypeOK
  <2> QED BY <1>0, <1>3, <1>4, <1>5, <2>1, Effect
<1>7. \A d \in Conns : ProcessOf[d] = p => Lock[d]' = Lock[d] /\ (isOpen[d] => isOpen'[d])
  BY <1>0, <1>1, <1>5 DEF Lock, Calls, TypeOK
<1>8. Count(p)'
  BY <1>0, <1>1, <1>3, <1>7, CountStays
<1>9. Call(p)'
  BY <1>5 DEF Call, Calls
<1>10. ASSUME NEW d \in Conns, ProcessOf[d] = p PROVE Level(d)' /\ Backed(d)'
  <2>1. Level(d)'
    BY <1>0, <1>1, <1>3, <1>7, <1>10 DEF Level, Counts
  <2>2. Backed(d)'
    BY <1>0, <1>1, <1>7, <1>10 DEF Backed
  <2> QED BY <2>1, <2>2
<1>11. os[p].reserved = "write" => pInode[p].eFileLock > SHARED_LOCK
  BY <1>1 DEF Reserving
<1>12. /\ Granted(p, "pending", os[p].pending) /\ Granted(p, "reserved", os[p].reserved)
       /\ Granted(p, "shared", os[p].shared)
  BY DEF Granted
<1> QED
  BY <1>0, <1>3, <1>4, <1>6, <1>7, <1>8, <1>9, <1>10, <1>11, <1>12, Step

\* Crash: nothing is left of the process.
LEMMA CrashStep ==
    ASSUME LocksAssumption, TypeOK, Core, NEW p \in Processes, Crash(p)
    PROVE  TypeOK' /\ Core'
<1>0. /\ eFileLock' = [c \in Conns |-> IF ProcessOf[c] = p THEN NO_LOCK ELSE eFileLock[c]]
      /\ isOpen' = [c \in Conns |-> isOpen[c] /\ ProcessOf[c] # p]
      /\ UNCHANGED errors
  BY DEF Crash
<1>1. Holds(p, "none", "none", "none")
  BY Release DEF Crash
<1>2. Calls(p, "idle", None, TRUE)
  BY SetCall DEF Crash
<1>3. Counts(p, NO_LOCK, 0)
  <2>1. pInode' = [pInode EXCEPT ![p] = FreshInode]
    BY DEF Crash
  <2>2. pInode[p].nLock = pInode[p].nShared
    BY OfProcess
  <2> QED BY <2>1, <2>2, SetInode
<1>4. /\ eFileLock' \in [Conns -> Levels] /\ isOpen' \in [Conns -> BOOLEAN]
      /\ \A d \in Conns : ProcessOf[d] # p =>
             eFileLock'[d] = eFileLock[d] /\ isOpen'[d] = isOpen[d]
      /\ \A d \in Conns : ProcessOf[d] = p => eFileLock'[d] = NO_LOCK
      /\ errors' \in 0..MaxErrors
  BY <1>0 DEF TypeOK
<1> QED
  BY <1>1, <1>2, <1>3, <1>4, NobodyLeft

-----------------------------------------------------------------------------
(***************************************************************************)
(* The invariant                                                           *)
(***************************************************************************)
\* No lock is held at first.
LEMMA InitCore ==
    ASSUME LocksAssumption, Init
    PROVE  TypeOK /\ Core
<1>1. TypeOK
  BY DEF Init, TypeOK, LocksAssumption, FreshInode, NoLocks, NoCall, Modes, Steps
<1>2. ASSUME NEW p \in Processes
      PROVE  /\ os[p].pending = "none" /\ os[p].reserved = "none" /\ os[p].shared = "none"
             /\ op[p].at = "idle" /\ Readers(p) = {}
             /\ pInode[p].eFileLock = NO_LOCK /\ pInode[p].nShared = 0 /\ pInode[p].nLock = 0
  BY DEF Init, FreshInode, NoLocks, NoCall, Readers
<1>3. \A c \in Conns : Lock[c] = NO_LOCK /\ eFileLock[c] = NO_LOCK
  BY <1>2 DEF Init, Lock, LocksAssumption
<1>4. ASSUME NEW p \in Processes PROVE Local(p)
  <2>1. Count(p)
    <3>1. Readers(p) = {} /\ Cardinality(Readers(p)) = 0
      BY <1>2, FS_EmptySet
    <3> QED BY <1>2, <3>1 DEF Count, Orphaned
  <2>2. Call(p)
    BY <1>2 DEF Call
  <2>3. \A c \in Conns : Level(c) /\ Backed(c)
    BY <1>3 DEF Level, Backed
  <2> QED BY <1>2, <2>1, <2>2, <2>3 DEF Local, Reserving
<1>5. ASSUME NEW p \in Processes, NEW q \in Processes PROVE Compatible(p, q)
  BY <1>2, <1>3 DEF Compatible
<1> QED
  BY <1>1, <1>4, <1>5 DEF Core

\* Every step preserves it.
LEMMA NextCore ==
    ASSUME LocksAssumption, TypeOK, Core, [Next]_vars
    PROVE  TypeOK' /\ Core'
<1>1. CASE UNCHANGED vars
  <2>1. TypeOK'
    BY <1>1 DEF vars, TypeOK
  <2>2. Core'
    BY <1>1, NoLockChanged DEF vars
  <2> QED BY <2>1, <2>2
<1>2. ASSUME NEW c \in Conns,
             \/ LockSharedCounted(c) \/ LockShared(c) \/ LockReserved(c)
             \/ LockExclusive(c) \/ RetryExclusive(c)
             \/ Downgrade(c) \/ Unlock(c) \/ UnlockReader(c)
             \/ Close(c) \/ Open(c)
      PROVE  TypeOK' /\ Core'
  BY <1>2, LockSharedCountedStep, LockSharedStep, LockReservedStep, LockExclusiveStep,
     RetryExclusiveStep, DowngradeStep, UnlockStep, UnlockReaderStep, CloseStep, OpenStep
<1>3. ASSUME NEW p \in Processes,
             \/ SharedRange(p) \/ DropPending(p) \/ ExclusiveRange(p)
             \/ UnlockPending(p) \/ UnlockShared(p) \/ Crash(p)
      PROVE  TypeOK' /\ Core'
  BY <1>3, SharedRangeStep, DropPendingStep, ExclusiveRangeStep, UnlockPendingStep,
     UnlockSharedStep, CrashStep
<1> QED
  BY <1>1, <1>2, <1>3 DEF Next

\* Exclusion follows: within a process from the counts and levels of its inode, between
\* processes from what fcntl grants.
LEMMA CoreExcludes ==
    ASSUME LocksAssumption, TypeOK, Core
    PROVE  Exclusion
<1>1. SUFFICES ASSUME NEW c \in Conns, NEW d \in Conns, c # d
               PROVE  /\ Lock[c] = EXCLUSIVE_LOCK => Lock[d] = NO_LOCK
                      /\ ~(c \in Reserved /\ d \in Reserved)
                      /\ ~(Lock[c] >= PENDING_LOCK /\ Lock[d] >= PENDING_LOCK)
  BY DEF Exclusion, Abstract!Exclusion, Abstract!EXCLUSIVE_LOCK, Abstract!NO_LOCK,
         Abstract!PENDING_LOCK
<1>2. ProcessOf[c] \in Processes /\ ProcessOf[d] \in Processes
  BY DEF LocksAssumption
<1>3. /\ Lock[c] > SHARED_LOCK => Lock[c] = eFileLock[c]
      /\ Lock[d] > SHARED_LOCK => Lock[d] = eFileLock[d]
      /\ eFileLock[d] = NO_LOCK => Lock[d] = NO_LOCK
  <2>1. ASSUME NEW e \in Conns
        PROVE  (Lock[e] > SHARED_LOCK => Lock[e] = eFileLock[e])
               /\ (eFileLock[e] = NO_LOCK => Lock[e] = NO_LOCK)
    <3>1. CASE op[ProcessOf[e]].at = "unlockShared" /\ op[ProcessOf[e]].conn = e
      <4>1. ProcessOf[e] \in Processes
        BY DEF LocksAssumption
      <4>2. eFileLock[e] > SHARED_LOCK
        BY <3>1, <4>1, OfProcess DEF Call
      <4>3. Lock[e] = SHARED_LOCK
        BY <3>1 DEF Lock
      <4> QED BY <4>2, <4>3
    <3>2. CASE ~(op[ProcessOf[e]].at = "unlockShared" /\ op[ProcessOf[e]].conn = e)
      BY <3>2 DEF Lock
    <3> QED BY <3>1, <3>2
  <2> QED BY <2>1
<1>4. CASE ProcessOf[c] = ProcessOf[d]
  <2>1. ~(eFileLock[c] > SHARED_LOCK /\ eFileLock[d] > SHARED_LOCK)
    BY <1>1, <1>2, <1>4, OfProcess DEF Level
  <2>2. ~(Lock[c] > SHARED_LOCK /\ Lock[d] > SHARED_LOCK)
    BY <1>3, <2>1
  <2>3. ASSUME Lock[c] = EXCLUSIVE_LOCK PROVE Lock[d] = NO_LOCK
    <3>1. pInode[ProcessOf[c]].eFileLock = EXCLUSIVE_LOCK
      BY <1>2, <2>3, OfProcess DEF Level
    <3>2. Cardinality(Readers(ProcessOf[c])) = 1
      <4>1. pInode[ProcessOf[c]].nShared = 1
        BY <1>2, <3>1, OfProcess DEF Count
      <4>2. eFileLock[c] > SHARED_LOCK
        BY <1>3, <2>3
      <4> QED BY <1>2, <4>1, <4>2, NotOrphaned
    <3>3. c \in Readers(ProcessOf[c])
      BY <1>3, <2>3 DEF Readers
    <3>4. d \notin Readers(ProcessOf[c])
      BY <1>1, <1>2, <3>2, <3>3, LoneReader
    <3> QED BY <1>3, <1>4, <3>4 DEF Readers
  <2>4. /\ (Lock[c] >= PENDING_LOCK => Lock[c] > SHARED_LOCK)
        /\ (Lock[d] >= PENDING_LOCK => Lock[d] > SHARED_LOCK)
    <3>1. Lock[c] \in Levels /\ Lock[d] \in Levels
      BY DEF Lock, TypeOK
    <3> QED BY <3>1
  <2> QED BY <2>2, <2>3, <2>4 DEF Reserved
<1>5. CASE ProcessOf[c] # ProcessOf[d]
  <2>1. Compatible(ProcessOf[c], ProcessOf[d])
    BY <1>2, <1>5 DEF Core
  <2>2. Backed(c) /\ Backed(d)
    BY <1>2, OfProcess
  <2>3. ~(Lock[c] >= PENDING_LOCK /\ Lock[d] >= PENDING_LOCK)
    BY <2>1, <2>2 DEF Backed, Compatible
  <2>4. ~(c \in Reserved /\ d \in Reserved)
    BY <2>1 DEF Reserved, Compatible
  <2>5. Lock[c] = EXCLUSIVE_LOCK => eFileLock[d] = NO_LOCK
    BY <2>1, <2>2 DEF Backed, Compatible
  <2> QED BY <1>3, <2>3, <2>4, <2>5
<1> QED
  BY <1>4, <1>5

\* Between any two fcntl calls of any processes, whatever fails: the inode counts agree
\* with the connections, or count one more that was closed although its unlock had failed
\* and that keeps the process from writing, every level is backed by POSIX locks, no two processes hold
\* conflicting ones, and connections exclude each other (unixLock, posixUnlock,
\* unixClose).
THEOREM LockInvariant == Spec => []LockInv
<1> USE LocksAssumption
<1>1. Init => TypeOK /\ Core
  BY InitCore
<1>2. TypeOK /\ Core /\ [Next]_vars => TypeOK' /\ Core'
  BY NextCore
<1>3. TypeOK /\ Core => LockInv
  BY ByProcess, CoreExcludes DEF Core, LockInv
<1> QED
  BY <1>1, <1>2, <1>3, PTL DEF Spec

\* posixUnlock to SHARED never meets an incompatible lock of another process, as its
\* comment claims ("In theory, ...").
THEOREM DowngradeNeverObstructed == Spec => []DowngradeUnobstructed
<1> USE LocksAssumption
<1>1. LockInv => DowngradeUnobstructed
  <2>1. SUFFICES ASSUME LockInv, NEW c \in Conns, eFileLock[c] > SHARED_LOCK
                 PROVE  MaySet(ProcessOf[c], "shared", "read")
    BY DEF DowngradeUnobstructed
  <2>2. ProcessOf[c] \in Processes /\ os[ProcessOf[c]].shared # "none"
    BY <2>1 DEF LockInv, LocksBacked, LocksAssumption
  <2>3. \A q \in Processes \ {ProcessOf[c]} : os[q].shared # "write"
    BY <2>1, <2>2 DEF LockInv, PosixExclusion
  <2> QED BY <2>3 DEF MaySet
<1> QED
  BY <1>1, LockInvariant, PTL

-----------------------------------------------------------------------------
(***************************************************************************)
(* UnixFileLocks implements FileLocks                                      *)
(***************************************************************************)
USE DEF Abstract!NO_LOCK, Abstract!SHARED_LOCK, Abstract!RESERVED_LOCK, Abstract!PENDING_LOCK,
        Abstract!EXCLUSIVE_LOCK

\* The abstract level of one connection changes.
OnlyLockOf(c, level) ==
    Lock[c]' = level /\ \A d \in Conns : d # c => Lock[d]' = Lock[d]

\* That is SetLock of the abstract specification.
LEMMA OneMoves ==
    ASSUME NEW c \in Conns, NEW level, OnlyLockOf(c, level)
    PROVE  Abstract!SetLock(c, level)
<1>1. /\ Lock = [d \in Conns |-> Lock[d]] 
      /\ Lock' = [d \in Conns |-> Lock[d]']
  BY DEF Lock
<1>2. Lock' = [Lock EXCEPT ![c] = level]
  BY <1>1 DEF OnlyLockOf
<1> QED
  BY <1>2 DEF Abstract!SetLock

\* Nobody's level changes.
LEMMA NoneMoves ==
    ASSUME \A d \in Conns : Lock[d]' = Lock[d]
    PROVE  Lock' = Lock
  BY DEF Lock

\* The connections of the abstract specification that have had RESERVED stay the same
\* if the reserved bytes do and nobody crosses SHARED.
LEMMA SameReserved ==
    ASSUME \A d \in Conns : (Lock[d]' > SHARED_LOCK /\ os'[ProcessOf[d]].reserved = "write") <=>
                            (Lock[d] > SHARED_LOCK /\ os[ProcessOf[d]].reserved = "write")
    PROVE  Reserved' = Reserved
  BY DEF Reserved

\* A connection that reads anew: nobody else is EXCLUSIVE, since the step keeps Exclusion.
LEMMA AbstractShared ==
    ASSUME NEW c \in Conns, Exclusion', Lock[c] = NO_LOCK, OnlyLockOf(c, SHARED_LOCK),
           Reserved' = Reserved
    PROVE  Abstract!Next
<1>1. \A d \in Conns \ {c} : Lock[d] # EXCLUSIVE_LOCK
  BY DEF Exclusion, Abstract!Exclusion, OnlyLockOf
<1>2. Abstract!LockShared(c)
  BY <1>1, OneMoves DEF Abstract!LockShared
<1> QED
  BY <1>2 DEF Abstract!Next

\* A connection that stops at PENDING: nobody else is there.
LEMMA AbstractPending ==
    ASSUME NEW c \in Conns, Exclusion', Lock[c] \in {SHARED_LOCK, RESERVED_LOCK},
           \A d \in Conns : Lock[d] \in Levels,
           OnlyLockOf(c, PENDING_LOCK), Reserved' = Reserved
    PROVE  Abstract!Next
<1>1. \A d \in Conns \ {c} : Lock[d] < PENDING_LOCK
  <2>1. ASSUME NEW d \in Conns \ {c} PROVE Lock[d] < PENDING_LOCK
    <3>1. ~(Lock[d]' >= PENDING_LOCK) /\ Lock[d]' = Lock[d]
      BY DEF Exclusion, Abstract!Exclusion, OnlyLockOf
    <3> QED BY <3>1
  <2> QED BY <2>1
<1>2. Abstract!LockPending(c)
  BY <1>1, OneMoves DEF Abstract!LockPending
<1> QED
  BY <1>2 DEF Abstract!Next

\* A connection that becomes EXCLUSIVE: nobody else reads.
LEMMA AbstractExclusive ==
    ASSUME NEW c \in Conns, Exclusion', Lock[c] \in SHARED_LOCK..PENDING_LOCK,
           OnlyLockOf(c, EXCLUSIVE_LOCK), Reserved' = Reserved
    PROVE  Abstract!Next
<1>1. \A d \in Conns \ {c} : Lock[d] = NO_LOCK
  BY DEF Exclusion, Abstract!Exclusion, OnlyLockOf
<1>2. Abstract!LockExclusive(c)
  BY <1>1, OneMoves DEF Abstract!LockExclusive
<1> QED
  BY <1>2 DEF Abstract!Next

\* A connection that goes down gives up RESERVED.
LEMMA AbstractUnlock ==
    ASSUME NEW c \in Conns, NEW level \in {NO_LOCK, SHARED_LOCK}, level < Lock[c],
           OnlyLockOf(c, level), Reserved' = Reserved \ {c}
    PROVE  Abstract!Next
<1>1. Abstract!Unlock(c, level)
  BY OneMoves DEF Abstract!Unlock
<1> QED
  BY <1>1 DEF Abstract!Next

\* A step that moves nobody.
LEMMA AbstractStutter ==
    ASSUME \A d \in Conns : Lock[d]' = Lock[d],
           \A d \in Conns : Lock[d] > SHARED_LOCK =>
               os'[ProcessOf[d]].reserved = os[ProcessOf[d]].reserved
    PROVE  UNCHANGED Abstract!locks
  BY NoneMoves, SameReserved DEF Abstract!locks

\* Outside the end of posixUnlock(NO_LOCK) the abstract level is that of the connection.
LEMMA PlainStep ==
    ASSUME LocksAssumption, TypeOK, NEW c \in Conns, NEW p \in Processes, ProcessOf[c] = p,
           op[p].at # "unlockShared",
           NEW step, NEW conn, NEW ok, Calls(p, step, conn, ok), step # "unlockShared"
    PROVE  /\ Lock[c] = eFileLock[c]
           /\ \A level : eFileLock' = [eFileLock EXCEPT ![c] = level] => OnlyLockOf(c, level)
           /\ UNCHANGED eFileLock => \A d \in Conns : Lock[d]' = Lock[d]
<1>1. \A d \in Conns : ProcessOf[d] = p =>
          Lock[d] = eFileLock[d] /\ Lock[d]' = eFileLock'[d]
  BY DEF Lock, Calls
<1>2. \A d \in Conns : ProcessOf[d] # p /\ eFileLock'[d] = eFileLock[d] =>
          Lock[d]' = Lock[d]
  BY DEF Lock, Calls, LocksAssumption
<1>3. ASSUME NEW level, eFileLock' = [eFileLock EXCEPT ![c] = level] PROVE OnlyLockOf(c, level)
  <2>1. eFileLock'[c] = level /\ \A d \in Conns : d # c => eFileLock'[d] = eFileLock[d]
    BY <1>3 DEF TypeOK
  <2> QED BY <1>1, <1>2, <2>1 DEF OnlyLockOf
<1>4. ASSUME UNCHANGED eFileLock PROVE \A d \in Conns : Lock[d]' = Lock[d]
  BY <1>1, <1>2, <1>4
<1> QED
  BY <1>1, <1>3, <1>4

\* The abstract level is one of the levels.
LEMMA LockType ==
    ASSUME TypeOK
    PROVE  \A d \in Conns : Lock[d] \in Levels
  BY DEF Lock, TypeOK

\* The reserved byte of each process is what it was.
SameByte == \A q \in Processes : os'[q].reserved = os[q].reserved

\* Another reader of a process.
LEMMA AbstractLockSharedCounted ==
    ASSUME LocksAssumption, TypeOK, Core, Exclusion', NEW c \in Conns, LockSharedCounted(c)
    PROVE  Abstract!Next
<1> DEFINE p == ProcessOf[c]
<1>1. /\ p \in Processes /\ op[p].at = "idle" /\ eFileLock[c] = NO_LOCK
      /\ eFileLock' = [eFileLock EXCEPT ![c] = SHARED_LOCK] /\ UNCHANGED <<os, op>>
  BY DEF LockSharedCounted, LocksAssumption, Idle
<1>2. Calls(p, "idle", op[p].conn, op[p].ok)
  BY <1>1, SetCall
<1>3. Lock[c] = NO_LOCK /\ OnlyLockOf(c, SHARED_LOCK)
  BY <1>1, <1>2, PlainStep
<1>4. Reserved' = Reserved
  BY <1>1, <1>3, SameReserved DEF OnlyLockOf
<1> QED
  BY <1>3, <1>4, AbstractShared

\* A read lock on the pending byte is not seen.
LEMMA AbstractLockShared ==
    ASSUME LocksAssumption, TypeOK, NEW c \in Conns, LockShared(c)
    PROVE  UNCHANGED Abstract!locks
<1> DEFINE p == ProcessOf[c]
<1>1. /\ p \in Processes /\ op[p].at = "idle" /\ os' = [os EXCEPT ![p].pending = "read"]
      /\ Goto(p, "sharedRange", c, TRUE) /\ UNCHANGED eFileLock
  BY DEF LockShared, LocksAssumption, Idle
<1>2. Calls(p, "sharedRange", c, TRUE)
  BY <1>1, SetCall DEF Steps
<1>3. Holds(p, "read", os[p].reserved, os[p].shared)
  BY <1>1, SetByte DEF Modes
<1>4. \A d \in Conns : Lock[d]' = Lock[d]
  BY <1>1, <1>2, PlainStep
<1> QED
  BY <1>3, <1>4, AbstractStutter DEF Holds, LocksAssumption

\* Neither is one on the shared range ...
LEMMA AbstractSharedRange ==
    ASSUME LocksAssumption, TypeOK, Core, NEW p \in Processes, SharedRange(p)
    PROVE  UNCHANGED Abstract!locks
<1> DEFINE c == op[p].conn
<1>1. /\ op[p].at = "sharedRange" /\ UNCHANGED eFileLock
      /\ os' = [os EXCEPT ![p].shared = "read"] \/ UNCHANGED os
      /\ \E ok \in BOOLEAN : Goto(p, "dropPending", c, ok)
  BY DEF SharedRange
<1>2. c \in Conns /\ ProcessOf[c] = p
  BY <1>1, OfProcess DEF Call
<1> HIDE DEF c
<1>3. PICK ok \in BOOLEAN : Calls(p, "dropPending", c, ok)
  BY <1>1, <1>2, SetCall DEF Steps
<1>4. PICK shared : Holds(p, os[p].pending, os[p].reserved, shared)
  BY <1>1, SetByte, Release DEF Modes
<1>5. \A d \in Conns : Lock[d]' = Lock[d]
  BY <1>1, <1>2, <1>3, PlainStep
<1> QED
  BY <1>4, <1>5, AbstractStutter DEF Holds, LocksAssumption

\* ... until the connection has its level.
LEMMA AbstractDropPending ==
    ASSUME LocksAssumption, TypeOK, Core, Exclusion', NEW p \in Processes, DropPending(p)
    PROVE  Abstract!Next \/ UNCHANGED Abstract!locks
<1>1. PICK c \in Conns : c = op[p].conn /\ ProcessOf[c] = p /\ pInode[p].eFileLock = NO_LOCK
  BY OfProcess DEF Call, DropPending
<1>2. /\ op[p].at = "dropPending" /\ Return(p)
      /\ os' = [os EXCEPT ![p].pending = "none"] \/ UNCHANGED os
      /\ eFileLock' = [eFileLock EXCEPT ![c] = SHARED_LOCK] \/ UNCHANGED eFileLock
  BY <1>1 DEF DropPending
<1>3. Calls(p, "idle", None, TRUE)
  BY <1>2, SetCall
<1>4. PICK pending : Holds(p, pending, os[p].reserved, os[p].shared)
  BY <1>2, SetByte, Release DEF Modes
<1>5. SameByte
  BY <1>4 DEF SameByte, Holds
<1>6. CASE UNCHANGED eFileLock
  <2>1. \A d \in Conns : Lock[d]' = Lock[d]
    BY <1>2, <1>1, <1>3, <1>6, PlainStep
  <2> QED
    BY <1>5, <2>1, AbstractStutter DEF SameByte, LocksAssumption
<1>7. CASE eFileLock' = [eFileLock EXCEPT ![c] = SHARED_LOCK]
  <2>1. eFileLock[c] = NO_LOCK
    BY <1>1, ReaderCounted
  <2>2. Lock[c] = NO_LOCK /\ OnlyLockOf(c, SHARED_LOCK)
    BY <1>2, <1>1, <1>3, <1>7, <2>1, PlainStep
  <2>3. Reserved' = Reserved
    BY <1>5, <2>2, SameReserved DEF OnlyLockOf, SameByte, LocksAssumption
  <2> QED
    BY <1>1, <2>2, <2>3, AbstractShared
<1> QED
  BY <1>2, <1>6, <1>7

\* RESERVED: its byte is free, so nobody has had it.
LEMMA AbstractLockReserved ==
    ASSUME LocksAssumption, TypeOK, Core, Exclusion', NEW c \in Conns, LockReserved(c)
    PROVE  Abstract!Next
<1> DEFINE p == ProcessOf[c]
<1>1. /\ p \in Processes /\ op[p].at = "idle" /\ UNCHANGED op
      /\ eFileLock[c] = SHARED_LOCK /\ pInode[p].eFileLock = SHARED_LOCK
      /\ MaySet(p, "reserved", "write") /\ os' = [os EXCEPT ![p].reserved = "write"]
      /\ eFileLock' = [eFileLock EXCEPT ![c] = RESERVED_LOCK]
  BY DEF LockReserved, SetLevel, LocksAssumption, Idle
<1> HIDE DEF p
<1>2. Calls(p, "idle", op[p].conn, op[p].ok)
  BY <1>1, SetCall
<1>3. Lock[c] = SHARED_LOCK /\ OnlyLockOf(c, RESERVED_LOCK)
  BY <1>1, <1>2, PlainStep DEF p
<1>4. Holds(p, os[p].pending, "write", os[p].shared)
  BY <1>1, SetByte DEF Modes
<1>5. Reserved = {}
  <2>1. SUFFICES ASSUME NEW d \in Reserved PROVE FALSE
    OBVIOUS
  <2>2. d \in Conns /\ ProcessOf[d] \in Processes /\ os[ProcessOf[d]].reserved = "write"
    BY DEF Reserved, LocksAssumption
  <2>3. CASE ProcessOf[d] = p
    BY <1>1, <2>2, <2>3, OfProcess DEF Reserving
  <2>4. CASE ProcessOf[d] # p
    BY <1>1, <2>2, <2>4 DEF MaySet
  <2> QED BY <2>3, <2>4
<1>6. c \in Reserved'
  BY <1>3, <1>4 DEF Reserved, OnlyLockOf, Holds, p
<1>7. Reserved' = {c}
  <2>1. \A d \in Conns : d # c => ~(c \in Reserved' /\ d \in Reserved')
    BY DEF Exclusion, Abstract!Exclusion
  <2>2. Reserved' \subseteq Conns
    BY DEF Reserved
  <2> QED BY <1>6, <2>1, <2>2
<1>8. Abstract!LockReserved(c)
  BY <1>3, <1>5, <1>7, OneMoves DEF Abstract!LockReserved
<1> QED
  BY <1>8 DEF Abstract!Next

\* A connection above SHARED, or the only one that may come to be, that moves there
\* and leaves the reserved byte alone.
LEMMA UpKeepsReserved ==
    ASSUME LocksAssumption, TypeOK, Core, NEW c \in Conns, SameByte,
           pInode[ProcessOf[c]].eFileLock = Lock[c],
           NEW level \in {PENDING_LOCK, EXCLUSIVE_LOCK}, OnlyLockOf(c, level)
    PROVE  Reserved' = Reserved
<1>1. \A d \in Conns : os'[ProcessOf[d]].reserved = os[ProcessOf[d]].reserved
  BY DEF SameByte, LocksAssumption
<1>2. os[ProcessOf[c]].reserved = "write" => Lock[c] > SHARED_LOCK
  BY OfProcess DEF Reserving, LocksAssumption
<1>3. Lock[c]' > SHARED_LOCK /\ \A d \in Conns : d # c => Lock[d]' = Lock[d]
  BY DEF OnlyLockOf
<1> QED
  BY <1>1, <1>2, <1>3, SameReserved

\* PENDING, or a lock on the pending byte that is not seen yet.
LEMMA AbstractLockExclusive ==
    ASSUME LocksAssumption, TypeOK, Core, Exclusion', NEW c \in Conns, LockExclusive(c)
    PROVE  Abstract!Next \/ UNCHANGED Abstract!locks
<1> DEFINE p == ProcessOf[c]
<1>1. /\ p \in Processes /\ op[p].at = "idle"
      /\ eFileLock[c] \in {SHARED_LOCK, RESERVED_LOCK} /\ pInode[p].eFileLock = eFileLock[c]
      /\ os' = [os EXCEPT ![p].pending = "write"]
      /\ \/ eFileLock' = [eFileLock EXCEPT ![c] = PENDING_LOCK] /\ UNCHANGED op
         \/ UNCHANGED eFileLock /\ Goto(p, "exclusiveRange", c, TRUE)
  BY DEF LockExclusive, SetLevel, LocksAssumption, Idle
<1> HIDE DEF p
<1>2. Holds(p, "write", os[p].reserved, os[p].shared)
  BY <1>1, SetByte DEF Modes
<1>3. SameByte
  BY <1>2 DEF SameByte, Holds
<1>4. CASE eFileLock' = [eFileLock EXCEPT ![c] = PENDING_LOCK] /\ UNCHANGED op
  <2>1. Calls(p, "idle", op[p].conn, op[p].ok)
    BY <1>1, <1>4, SetCall
  <2>2. Lock[c] = eFileLock[c] /\ OnlyLockOf(c, PENDING_LOCK)
    BY <1>1, <1>4, <2>1, PlainStep DEF p
  <2>3. Reserved' = Reserved
    BY <1>1, <1>3, <2>2, UpKeepsReserved DEF p
  <2> QED
    BY <1>1, <2>2, <2>3, LockType, AbstractPending
<1>5. CASE UNCHANGED eFileLock /\ Goto(p, "exclusiveRange", c, TRUE)
  <2>1. Calls(p, "exclusiveRange", c, TRUE)
    BY <1>1, <1>5, SetCall DEF Steps
  <2>2. \A d \in Conns : Lock[d]' = Lock[d]
    BY <1>1, <1>5, <2>1, PlainStep DEF p
  <2> QED
    BY <1>3, <2>2, AbstractStutter DEF SameByte, LocksAssumption
<1> QED
  BY <1>1, <1>4, <1>5

\* EXCLUSIVE or PENDING; for a connection that has PENDING already the latter
\* changes nothing.
LEMMA AbstractTakeRange ==
    ASSUME LocksAssumption, TypeOK, Core, Exclusion', NEW c \in Conns,
           NEW p \in Processes, ProcessOf[c] = p,
           op[p].at # "unlockShared", eFileLock[c] \in SHARED_LOCK..PENDING_LOCK,
           pInode[p].eFileLock = eFileLock[c], TakeRange(p, c),
           NEW conn, NEW ok, Calls(p, "idle", conn, ok)
    PROVE  Abstract!Next \/ UNCHANGED Abstract!locks
<1>1. /\ os' = [os EXCEPT ![p].shared = "write"] \/ UNCHANGED os
      /\ \/ eFileLock' = [eFileLock EXCEPT ![c] = PENDING_LOCK]
         \/ eFileLock' = [eFileLock EXCEPT ![c] = EXCLUSIVE_LOCK]
  BY DEF TakeRange, SetLevel
<1>2. SameByte
  <2>1. PICK shared : Holds(p, os[p].pending, os[p].reserved, shared)
    BY <1>1, SetByte, Release DEF Modes
  <2> QED BY <2>1 DEF SameByte, Holds
<1>3. Lock[c] = eFileLock[c]
  BY PlainStep
<1>4. CASE eFileLock' = [eFileLock EXCEPT ![c] = EXCLUSIVE_LOCK]
  <2>1. OnlyLockOf(c, EXCLUSIVE_LOCK)
    BY <1>4, PlainStep
  <2>2. Reserved' = Reserved
    BY <1>2, <1>3, <2>1, UpKeepsReserved
  <2> QED BY <1>3, <2>1, <2>2, AbstractExclusive
<1>5. CASE eFileLock' = [eFileLock EXCEPT ![c] = PENDING_LOCK]
  <2>1. OnlyLockOf(c, PENDING_LOCK)
    BY <1>5, PlainStep
  <2>2. Reserved' = Reserved
    BY <1>2, <1>3, <2>1, UpKeepsReserved
  <2>3. CASE eFileLock[c] = PENDING_LOCK
    <3>1. \A d \in Conns : Lock[d]' = Lock[d]
      BY <1>3, <2>1, <2>3 DEF OnlyLockOf
    <3> QED BY <2>2, <3>1, NoneMoves DEF Abstract!locks
  <2>4. CASE eFileLock[c] \in {SHARED_LOCK, RESERVED_LOCK}
    BY <1>3, <2>1, <2>2, <2>4, LockType, AbstractPending
  <2> QED BY <2>3, <2>4
<1> QED
  BY <1>1, <1>4, <1>5

\* The first attempt ...
LEMMA AbstractExclusiveRange ==
    ASSUME LocksAssumption, TypeOK, Core, Exclusion', NEW p \in Processes, ExclusiveRange(p)
    PROVE  Abstract!Next \/ UNCHANGED Abstract!locks
<1>1. PICK c \in Conns : /\ c = op[p].conn /\ ProcessOf[c] = p
                         /\ eFileLock[c] \in {SHARED_LOCK, RESERVED_LOCK}
                         /\ pInode[p].eFileLock = eFileLock[c]
  BY OfProcess DEF Call, ExclusiveRange
<1>2. op[p].at = "exclusiveRange" /\ TakeRange(p, c) /\ Return(p)
  BY <1>1 DEF ExclusiveRange
<1>3. Calls(p, "idle", None, TRUE)
  BY <1>2, SetCall
<1>4. op[p].at # "unlockShared" /\ eFileLock[c] \in SHARED_LOCK..PENDING_LOCK
  BY <1>1, <1>2
<1> QED
  BY <1>1, <1>2, <1>3, <1>4, AbstractTakeRange

\* ... and the next ones.
LEMMA AbstractRetryExclusive ==
    ASSUME LocksAssumption, TypeOK, Core, Exclusion', NEW c \in Conns, RetryExclusive(c)
    PROVE  Abstract!Next \/ UNCHANGED Abstract!locks
<1> DEFINE p == ProcessOf[c]
<1>1. /\ p \in Processes /\ op[p].at = "idle" /\ eFileLock[c] = PENDING_LOCK
      /\ pInode[p].eFileLock = PENDING_LOCK /\ TakeRange(p, c) /\ UNCHANGED op
  BY DEF RetryExclusive, LocksAssumption, Idle
<1>2. Calls(p, "idle", op[p].conn, op[p].ok)
  BY <1>1, SetCall
<1> QED
  BY <1>1, <1>2, AbstractTakeRange

\* A read lock on the range of a connection above SHARED is not seen.
LEMMA AbstractDowngrade ==
    ASSUME LocksAssumption, TypeOK, NEW c \in Conns, Downgrade(c)
    PROVE  UNCHANGED Abstract!locks
<1> DEFINE p == ProcessOf[c]
<1>1. /\ p \in Processes /\ op[p].at = "idle" /\ os' = [os EXCEPT ![p].shared = "read"]
      /\ Goto(p, "unlockPending", c, TRUE) /\ UNCHANGED eFileLock
  BY DEF Downgrade, LocksAssumption, Idle
<1>2. Calls(p, "unlockPending", c, TRUE)
  BY <1>1, SetCall DEF Steps
<1>3. Holds(p, os[p].pending, os[p].reserved, "read")
  BY <1>1, SetByte DEF Modes
<1>4. \A d \in Conns : Lock[d]' = Lock[d]
  BY <1>1, <1>2, PlainStep
<1> QED
  BY <1>3, <1>4, AbstractStutter DEF Holds, LocksAssumption

\* Who goes down to SHARED gives up RESERVED, and nobody else of the process has it.
LEMMA AbstractToShared ==
    ASSUME LocksAssumption, TypeOK, Core, NEW c \in Conns, Lock[c] > SHARED_LOCK,
           OnlyLockOf(c, SHARED_LOCK), NEW p \in Processes, p = ProcessOf[c],
           NEW pending, NEW shared, Holds(p, pending, "none", shared)
    PROVE  Abstract!Next
<1>1. c \notin Reserved'
  BY DEF Reserved, OnlyLockOf
<1>2. ASSUME NEW d \in Conns, d # c PROVE d \in Reserved' <=> d \in Reserved
  <2>1. CASE ProcessOf[d] = p
    <3>1. d \notin Reserved
      <4>1. CASE c \in Reserved
        BY <1>2, <4>1, CoreExcludes DEF Exclusion, Abstract!Exclusion
      <4>2. CASE c \notin Reserved
        BY <2>1, <4>2 DEF Reserved
      <4> QED BY <4>1, <4>2
    <3>2. d \notin Reserved'
      BY <2>1 DEF Reserved, Holds
    <3> QED BY <3>1, <3>2
  <2>2. CASE ProcessOf[d] # p
    <3>1. ProcessOf[d] \in Processes
      BY DEF LocksAssumption
    <3>2. os'[ProcessOf[d]] = os[ProcessOf[d]] /\ Lock[d]' = Lock[d]
      BY <1>2, <2>2, <3>1 DEF Holds, OnlyLockOf
    <3> QED BY <3>2 DEF Reserved
  <2> QED BY <2>1, <2>2
<1>3. Reserved' = Reserved \ {c}
  <2>1. Reserved \subseteq Conns /\ Reserved' \subseteq Conns
    BY DEF Reserved
  <2> QED BY <1>1, <1>2, <2>1
<1> QED
  BY <1>3, LockType, AbstractUnlock

\* posixUnlock(SHARED) takes effect with the first two bytes, or fails.
LEMMA AbstractUnlockPending ==
    ASSUME LocksAssumption, TypeOK, Core, NEW p \in Processes, UnlockPending(p)
    PROVE  Abstract!Next \/ UNCHANGED Abstract!locks
<1>1. PICK c \in Conns : c = op[p].conn /\ ProcessOf[c] = p /\ eFileLock[c] > SHARED_LOCK
  BY OfProcess DEF Call, UnlockPending
<1>2. /\ op[p].at = "unlockPending" /\ Return(p)
      /\ \/ /\ os' = [os EXCEPT ![p].pending = "none", ![p].reserved = "none"]
            /\ eFileLock' = [eFileLock EXCEPT ![c] = SHARED_LOCK]
         \/ UNCHANGED <<os, eFileLock>>
  BY <1>1 DEF UnlockPending, SetLevel
<1>3. Calls(p, "idle", None, TRUE)
  BY <1>2, SetCall
<1>4. CASE /\ os' = [os EXCEPT ![p].pending = "none", ![p].reserved = "none"]
           /\ eFileLock' = [eFileLock EXCEPT ![c] = SHARED_LOCK]
  <2>1. Holds(p, "none", "none", os[p].shared)
    BY <1>4, Release
  <2>2. Lock[c] = eFileLock[c] /\ OnlyLockOf(c, SHARED_LOCK)
    BY <1>1, <1>2, <1>3, <1>4, PlainStep
  <2> QED BY <1>1, <2>1, <2>2, AbstractToShared
<1>5. CASE UNCHANGED <<os, eFileLock>>
  <2>1. \A d \in Conns : Lock[d]' = Lock[d]
    BY <1>1, <1>2, <1>3, <1>5, PlainStep
  <2> QED BY <1>5, <2>1, AbstractStutter
<1> QED
  BY <1>2, <1>4, <1>5

\* So does posixUnlock(NO_LOCK) ...
LEMMA AbstractUnlockFirst ==
    ASSUME LocksAssumption, TypeOK, Core, NEW c \in Conns, Unlock(c)
    PROVE  Abstract!Next
<1> DEFINE p == ProcessOf[c]
<1>1. /\ p \in Processes /\ op[p].at = "idle" /\ eFileLock[c] > SHARED_LOCK
      /\ os' = [os EXCEPT ![p].pending = "none", ![p].reserved = "none"]
      /\ Goto(p, "unlockShared", c, TRUE) /\ UNCHANGED eFileLock
  BY DEF Unlock, LocksAssumption, Idle
<1>2. Calls(p, "unlockShared", c, TRUE)
  BY <1>1, SetCall DEF Steps
<1>3. Holds(p, "none", "none", os[p].shared)
  BY <1>1, Release
<1>4. Lock[c] > SHARED_LOCK
  BY <1>1 DEF Lock
<1>5. OnlyLockOf(c, SHARED_LOCK)
  BY <1>1, <1>2 DEF OnlyLockOf, Lock, Calls, LocksAssumption
<1> QED
  BY <1>1, <1>3, <1>4, <1>5, AbstractToShared

\* The last step of posixUnlock(NO_LOCK): RESERVED has been given up before.
LEMMA AbstractReleaseShared ==
    ASSUME LocksAssumption, TypeOK, Core, NEW c \in Conns, Lock[c] = SHARED_LOCK,
           OnlyLockOf(c, NO_LOCK), NEW p \in Processes, p = ProcessOf[c],
           eFileLock[c] # NO_LOCK, ReleaseShared(p, c)
    PROVE  Abstract!Next
<1>1. \/ pInode[p].nShared = 1 /\ os' = [os EXCEPT ![p] = NoLocks]
      \/ UNCHANGED os
  <2>1. [os EXCEPT ![p] = os[p]] = os
    BY DEF TypeOK
  <2> QED BY <2>1 DEF ReleaseShared
<1>2. c \notin Reserved /\ c \notin Reserved'
  BY DEF Reserved, OnlyLockOf
<1>3. ASSUME NEW d \in Conns, d # c PROVE d \in Reserved' <=> d \in Reserved
  <2>0. Lock[d]' = Lock[d] /\ ProcessOf[d] \in Processes
    BY <1>3 DEF OnlyLockOf, LocksAssumption
  <2>1. CASE UNCHANGED os
    BY <2>0, <2>1 DEF Reserved
  <2>2. CASE pInode[p].nShared = 1 /\ os' = [os EXCEPT ![p] = NoLocks] /\ ProcessOf[d] = p
    <3>1. Readers(p) = {c}
      <4>1. c \in Readers(p) /\ Cardinality(Readers(p)) = 1
        BY <2>2, ReaderAlone
      <4> QED BY <4>1, LoneReader
    <3>2. ~(pInode[p].eFileLock > SHARED_LOCK)
      BY <2>2, <3>1, ReaderAlone, OfProcess DEF Count
    <3>3. os[p].reserved # "write"
      BY <3>2, OfProcess DEF Reserving
    <3>4. os'[p].reserved # "write"
      BY <2>2, Release DEF Holds
    <3> QED BY <2>2, <3>3, <3>4 DEF Reserved
  <2>3. CASE os' = [os EXCEPT ![p] = NoLocks] /\ ProcessOf[d] # p
    <3>1. os'[ProcessOf[d]] = os[ProcessOf[d]]
      BY <2>0, <2>3, Release DEF Holds
    <3> QED BY <2>0, <3>1 DEF Reserved
  <2> QED BY <1>1, <2>1, <2>2, <2>3
<1>4. Reserved' = Reserved \ {c}
  <2>1. Reserved \subseteq Conns /\ Reserved' \subseteq Conns
    BY DEF Reserved
  <2> QED BY <1>2, <1>3, <2>1
<1> QED
  BY <1>4, AbstractUnlock

\* ... whose second step goes from SHARED to NO_LOCK.
LEMMA AbstractUnlockShared ==
    ASSUME LocksAssumption, TypeOK, Core, NEW p \in Processes, UnlockShared(p)
    PROVE  Abstract!Next
<1>1. PICK c \in Conns : c = op[p].conn /\ ProcessOf[c] = p /\ eFileLock[c] # NO_LOCK
  BY OfProcess DEF Call, UnlockShared
<1>2. /\ op[p].at = "unlockShared" /\ ReleaseShared(p, c) /\ Return(p)
      /\ eFileLock' = [eFileLock EXCEPT ![c] = NO_LOCK]
  BY <1>1 DEF UnlockShared, ReleaseShared
<1>3. Calls(p, "idle", None, TRUE)
  BY <1>2, SetCall
<1>4. Lock[c] = SHARED_LOCK
  BY <1>1, <1>2 DEF Lock
<1>5. OnlyLockOf(c, NO_LOCK)
  <2>1. eFileLock'[c] = NO_LOCK /\ \A d \in Conns : d # c => eFileLock'[d] = eFileLock[d]
    BY <1>2 DEF TypeOK
  <2>2. Lock[c]' = NO_LOCK
    BY <1>1, <1>3, <2>1 DEF Lock, Calls
  <2>3. ASSUME NEW d \in Conns, d # c PROVE Lock[d]' = Lock[d]
    <3>1. CASE ProcessOf[d] = p
      BY <1>1, <1>2, <1>3, <2>1, <2>3, <3>1 DEF Lock, Calls
    <3>2. CASE ProcessOf[d] # p
      BY <1>3, <2>1, <2>3, <3>2 DEF Lock, Calls, LocksAssumption
    <3> QED BY <3>1, <3>2
  <2> QED BY <2>2, <2>3 DEF OnlyLockOf
<1> QED
  BY <1>1, <1>2, <1>4, <1>5, AbstractReleaseShared

\* posixUnlock(NO_LOCK) of a reader is one step.
LEMMA AbstractUnlockReader ==
    ASSUME LocksAssumption, TypeOK, Core, NEW c \in Conns, UnlockReader(c)
    PROVE  Abstract!Next
<1> DEFINE p == ProcessOf[c]
<1>1. /\ p \in Processes /\ op[p].at = "idle" /\ eFileLock[c] = SHARED_LOCK
      /\ ReleaseShared(p, c) /\ UNCHANGED op
      /\ eFileLock' = [eFileLock EXCEPT ![c] = NO_LOCK]
  BY DEF UnlockReader, ReleaseShared, LocksAssumption, Idle
<1>2. Calls(p, "idle", op[p].conn, op[p].ok)
  BY <1>1, SetCall
<1>3. Lock[c] = SHARED_LOCK /\ OnlyLockOf(c, NO_LOCK)
  BY <1>1, <1>2, PlainStep
<1> QED
  BY <1>1, <1>3, AbstractReleaseShared

\* Closing a descriptor releases locks only where nobody else has a level; if the unlock
\* has failed, the connection is at NO_LOCK for all that.
LEMMA AbstractClose ==
    ASSUME LocksAssumption, TypeOK, Core, NEW c \in Conns, Close(c)
    PROVE  Abstract!Next \/ UNCHANGED Abstract!locks
<1> DEFINE p == ProcessOf[c]
<1>1. /\ p \in Processes /\ op[p].at = "idle" /\ UNCHANGED op
      /\ eFileLock' = [eFileLock EXCEPT ![c] = NO_LOCK]
      /\ eFileLock[c] = NO_LOCK \/ eFileLock[c] > SHARED_LOCK
      /\ \/ UNCHANGED os
         \/ (pInode[p].nLock = 0 \/ LastOpen(c)) /\ os' = [os EXCEPT ![p] = NoLocks]
  BY DEF Close, LocksAssumption, Idle
<1>2. Calls(p, "idle", op[p].conn, op[p].ok)
  BY <1>1, SetCall
<1>3. Lock[c] = eFileLock[c] /\ OnlyLockOf(c, NO_LOCK)
  BY <1>1, <1>2, PlainStep
<1>4. ASSUME NEW d \in Conns, d # c, Lock[d] > SHARED_LOCK
      PROVE  os'[ProcessOf[d]].reserved = os[ProcessOf[d]].reserved
  <2>1. ProcessOf[d] \in Processes
    BY DEF LocksAssumption
  <2>2. CASE UNCHANGED os
    BY <2>2
  <2>3. CASE ProcessOf[d] = p /\ (pInode[p].nLock = 0 \/ LastOpen(c))
    <3>1. Lock[d] = eFileLock[d] /\ pInode[p].nLock = pInode[p].nShared /\ Backed(d)
      BY <1>1, <2>3, OfProcess
    <3>2. pInode[p].nShared >= 1
      BY <1>4, <2>3, <3>1, ReaderCounted
    <3>3. isOpen[d]
      BY <1>4, <3>1 DEF Backed
    <3> QED BY <1>4, <2>3, <3>1, <3>2, <3>3 DEF LastOpen
  <2>4. CASE ProcessOf[d] # p /\ os' = [os EXCEPT ![p] = NoLocks]
    BY <2>1, <2>4
  <2> QED BY <1>1, <2>2, <2>3, <2>4
<1>5. \A d \in Conns \ {c} : d \in Reserved' <=> d \in Reserved
  BY <1>3, <1>4 DEF Reserved, OnlyLockOf
<1>6. c \notin Reserved'
  BY <1>3 DEF Reserved, OnlyLockOf
<1>7. Reserved' = Reserved \ {c}
  <2>1. Reserved \subseteq Conns /\ Reserved' \subseteq Conns
    BY DEF Reserved
  <2> QED BY <1>5, <1>6, <2>1
<1>8. CASE eFileLock[c] > SHARED_LOCK
  BY <1>3, <1>7, <1>8, LockType, AbstractUnlock
<1>9. CASE eFileLock[c] = NO_LOCK
  <2>1. c \notin Reserved
    BY <1>3, <1>9 DEF Reserved
  <2>2. \A d \in Conns : Lock[d]' = Lock[d]
    BY <1>3, <1>9 DEF OnlyLockOf
  <2> QED BY <1>7, <2>1, <2>2, NoneMoves DEF Abstract!locks
<1> QED
  BY <1>1, <1>8, <1>9

\* A process that dies drops its connections.
LEMMA AbstractCrash ==
    ASSUME LocksAssumption, TypeOK, NEW p \in Processes, Crash(p)
    PROVE  Abstract!Next
<1> DEFINE dead == {c \in Conns : ProcessOf[c] = p}
<1>1. Calls(p, "idle", None, TRUE) /\ Holds(p, "none", "none", "none")
  BY SetCall, Release DEF Crash
<1>2. \A c \in Conns : eFileLock'[c] = IF ProcessOf[c] = p THEN NO_LOCK ELSE eFileLock[c]
  BY DEF Crash
<1>3. \A c \in Conns : Lock[c]' = IF c \in dead THEN NO_LOCK ELSE Lock[c]
  BY <1>1, <1>2 DEF Lock, Calls, LocksAssumption
<1>4. Lock' = [c \in Conns |-> IF c \in dead THEN NO_LOCK ELSE Lock[c]]
  <2>1. Lock' = [c \in Conns |-> Lock[c]']
    BY DEF Lock
  <2> QED BY <1>3, <2>1
<1>5. Reserved' = Reserved \ dead
  <2>1. ASSUME NEW c \in Conns PROVE c \in Reserved' <=> c \in Reserved /\ c \notin dead
    <3>1. CASE ProcessOf[c] = p
      BY <1>1, <3>1 DEF Reserved, Holds
    <3>2. CASE ProcessOf[c] # p
      <4>1. os'[ProcessOf[c]] = os[ProcessOf[c]] /\ Lock[c]' = Lock[c]
        BY <1>1, <1>3, <3>2 DEF Holds, LocksAssumption
      <4> QED BY <3>2, <4>1 DEF Reserved
    <3> QED BY <3>1, <3>2
  <2>2. Reserved \subseteq Conns /\ Reserved' \subseteq Conns
    BY DEF Reserved
  <2> QED BY <2>1, <2>2
<1>6. Abstract!Drop(dead)
  BY <1>4, <1>5 DEF Abstract!Drop
<1>7. dead \in SUBSET Conns
  OBVIOUS
<1> QED
  BY <1>6, <1>7 DEF Abstract!Next

\* Every step of unixLock, posixUnlock and unixClose is a step of FileLocks or none.
LEMMA AbstractStep ==
    ASSUME LocksAssumption, TypeOK, Core, [Next]_vars
    PROVE  [Abstract!Next]_(Abstract!locks)
<1>1. Exclusion'
  BY NextCore, CoreExcludes, PTL
<1>2. CASE UNCHANGED vars
  BY <1>2 DEF vars, Abstract!locks, Lock, Reserved
<1>3. ASSUME NEW c \in Conns,
             \/ LockSharedCounted(c) \/ LockShared(c) \/ LockReserved(c)
             \/ LockExclusive(c) \/ RetryExclusive(c)
             \/ Downgrade(c) \/ Unlock(c) \/ UnlockReader(c) \/ Close(c)
      PROVE  Abstract!Next \/ UNCHANGED Abstract!locks
  BY <1>1, <1>3, AbstractLockSharedCounted, AbstractLockShared, AbstractLockReserved,
     AbstractLockExclusive, AbstractRetryExclusive, AbstractDowngrade, AbstractUnlockFirst,
     AbstractUnlockReader, AbstractClose
<1>4. ASSUME NEW c \in Conns, Open(c) PROVE UNCHANGED Abstract!locks
  BY <1>4 DEF Open, Abstract!locks, Lock, Reserved
<1>5. ASSUME NEW p \in Processes,
             \/ SharedRange(p) \/ DropPending(p) \/ ExclusiveRange(p)
             \/ UnlockPending(p) \/ UnlockShared(p) \/ Crash(p)
      PROVE  Abstract!Next \/ UNCHANGED Abstract!locks
  BY <1>1, <1>5, AbstractSharedRange, AbstractDropPending, AbstractExclusiveRange,
     AbstractUnlockPending, AbstractUnlockShared, AbstractCrash
<1> QED
  BY <1>2, <1>3, <1>4, <1>5 DEF Next

\* The levels that connections believe to hold are those of the abstract lock, whatever
\* the order of the fcntl calls of several processes, errors, closes and crashes.
THEOREM Implementation == Spec => ImplementsFileLocks
<1> USE LocksAssumption
<1>1. Init => Abstract!Init
  <2>1. SUFFICES ASSUME Init PROVE Abstract!Init
    OBVIOUS
  <2>2. \A c \in Conns : Lock[c] = NO_LOCK
    BY <2>1 DEF Init, Lock, NoCall, LocksAssumption
  <2>3. Lock = [c \in Conns |-> NO_LOCK]
    <3>1. Lock = [c \in Conns |-> Lock[c]]
      BY DEF Lock
    <3> QED BY <2>2, <3>1
  <2>4. Reserved = {}
    BY <2>2 DEF Reserved
  <2> QED BY <2>3, <2>4 DEF Abstract!Init
<1>2. Init => TypeOK /\ Core
  BY InitCore
<1>3. TypeOK /\ Core /\ [Next]_vars => TypeOK' /\ Core'
  BY NextCore
<1>4. TypeOK /\ Core /\ [Next]_vars => [Abstract!Next]_(Abstract!locks)
  BY AbstractStep
<1> QED
  BY <1>1, <1>2, <1>3, <1>4, PTL DEF Spec, ImplementsFileLocks, Abstract!Spec
=============================================================================
