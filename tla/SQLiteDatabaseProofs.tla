-------------------------- MODULE SQLiteDatabaseProofs --------------------------
(***************************************************************************)
(* Proofs about SQLiteDatabase, for any number of threads, any pool size   *)
(* and any number of changes of the configuration: DatabaseInv is          *)
(* inductive, and from it the pool stays while a method holds a reference, *)
(* the configurations agree, and write-ahead logging is not enabled once a *)
(* database is attached.                                                   *)
(***************************************************************************)
EXTENDS SQLiteDatabase, FiniteSetTheorems, TLAPS

-----------------------------------------------------------------------------
(***************************************************************************)
(* Counting the methods that hold a reference                              *)
(***************************************************************************)
\* They are finitely many, and at most one per thread.
LEMMA HoldersFinite ==
    ASSUME DatabaseAssumption
    PROVE  /\ IsFiniteSet(Holders) /\ Cardinality(Holders) \in Nat
           /\ Cardinality(Holders) <= Cardinality(Threads)
           /\ Cardinality(Threads) \in Nat
<1>1. Holders \subseteq Threads
  BY DEF Holders
<1>2. IsFiniteSet(Threads)
  BY DEF DatabaseAssumption
<1> QED
  BY <1>1, <1>2, FS_Subset, FS_CardinalityType

\* A thread that begins a method.
LEMMA HolderEnters ==
    ASSUME DatabaseAssumption, TypeOK, NEW t \in Threads, pc[t] = "idle",
           NEW phase \in Phases \ {"idle", "closePool"}, GoTo(t, phase)
    PROVE  Cardinality(Holders') = Cardinality(Holders) + 1
<1>1. Holders' = Holders \cup {t} /\ t \notin Holders
  BY DEF Holders, GoTo, TypeOK
<1> QED
  BY <1>1, HoldersFinite, FS_AddElement

\* A thread that leaves one.
LEMMA HolderLeaves ==
    ASSUME DatabaseAssumption, TypeOK, NEW t \in Threads, pc[t] = "leaving",
           NEW phase \in {"idle", "closePool"}, GoTo(t, phase)
    PROVE  /\ Cardinality(Holders') = Cardinality(Holders) - 1
           /\ Cardinality(Holders) >= 1
<1>1. Holders' = Holders \ {t} /\ t \in Holders
  BY DEF Holders, GoTo, TypeOK
<1>2. Cardinality(Holders \ {t}) = Cardinality(Holders) - 1
  BY <1>1, HoldersFinite, FS_RemoveElement
<1>3. Cardinality(Holders) # 0
  BY <1>1, HoldersFinite, FS_EmptySet
<1> QED
  BY <1>1, <1>2, <1>3, HoldersFinite

\* A thread that stays in its method, or outside of one.
LEMMA HolderStays ==
    ASSUME TypeOK, NEW t \in Threads, NEW phase \in Phases, GoTo(t, phase),
           pc[t] \in {"idle", "closePool"} <=> phase \in {"idle", "closePool"}
    PROVE  Holders' = Holders
  BY DEF Holders, GoTo, TypeOK

\* The phase of a thread and of the others after a step.
LEMMA Went ==
    ASSUME TypeOK, NEW t \in Threads, NEW phase \in Phases, GoTo(t, phase)
    PROVE  /\ pc' \in [Threads -> Phases] /\ pc'[t] = phase
           /\ \A u \in Threads : u # t => pc'[u] = pc[u]
  BY DEF GoTo, TypeOK

-----------------------------------------------------------------------------
(***************************************************************************)
(* DatabaseInv is inductive                                                *)
(***************************************************************************)
LEMMA DatabaseInit ==
    ASSUME DatabaseAssumption, Init
    PROVE  DatabaseInv
<1>1. Holders = {}
  BY DEF Init, Holders
<1>2. Cardinality(Holders) = 0
  BY <1>1, FS_EmptySet
<1>3. TypeOK
  <2>1. mReferenceCount \in (1 - MaxCloses)..(1 + Cardinality(Threads))
    BY HoldersFinite DEF Init, DatabaseAssumption
  <2>2. mConfigurationLocked \in Configs /\ poolConfig \in Configs
    BY DEF Init, DatabaseAssumption
  <2>3. closes \in 0..MaxCloses /\ settings \in 0..MaxSettings
    BY DEF Init, DatabaseAssumption
  <2> QED BY <2>1, <2>2, <2>3 DEF Init, TypeOK, Phases
<1>4. ReferencesCounted
  BY <1>2 DEF Init, ReferencesCounted
<1>5. PoolKept /\ ConfigurationsAgree /\ AttachFlagged
  BY DEF Init, PoolKept, ConfigurationsAgree, AttachFlagged
<1> QED
  BY <1>3, <1>4, <1>5 DEF DatabaseInv

\* The count fits its type after a step, because there are no more methods than threads.
LEMMA CountTyped ==
    ASSUME DatabaseAssumption, closes' \in 0..MaxCloses, ReferencesCounted'
    PROVE  mReferenceCount' \in (1 - MaxCloses)..(1 + Cardinality(Threads))
<1>1. Holders' \subseteq Threads
  BY DEF Holders
<1>2. /\ Cardinality(Holders') \in Nat /\ Cardinality(Threads) \in Nat
      /\ Cardinality(Holders') <= Cardinality(Threads)
  BY <1>1, FS_Subset, FS_CardinalityType DEF DatabaseAssumption
<1> QED
  BY <1>2 DEF DatabaseAssumption, ReferencesCounted

\* What the invariant says of the numbers.
LEMMA Numbers ==
    ASSUME DatabaseAssumption, DatabaseInv
    PROVE  /\ mReferenceCount \in Int /\ closes \in 0..MaxCloses /\ MaxCloses \in Nat
           /\ mReferenceCount = 1 - closes + Cardinality(Holders)
           /\ Cardinality(Holders) \in Nat
  BY HoldersFinite DEF DatabaseInv, TypeOK, DatabaseAssumption, ReferencesCounted

\* A method begins (Enter, and the first step of an ATTACH).
LEMMA BeginsMethod ==
    ASSUME DatabaseAssumption, DatabaseInv, NEW t \in Threads, pc[t] = "idle", mReferenceCount > 0,
           mReferenceCount' = mReferenceCount + 1, UNCHANGED closes,
           NEW phase \in Phases \ {"idle", "closePool"}, GoTo(t, phase),
           UNCHANGED <<mConnectionPoolLocked, poolIsOpen>>
    PROVE  /\ ReferencesCounted' /\ PoolKept' /\ pc' \in [Threads -> Phases]
           /\ mReferenceCount' \in (1 - MaxCloses)..(1 + Cardinality(Threads))
<1>1. TypeOK /\ PoolKept
  BY DEF DatabaseInv
<1>2. Cardinality(Holders') = Cardinality(Holders) + 1
  BY <1>1, HolderEnters
<1>3. ReferencesCounted'
  BY <1>2, Numbers DEF ReferencesCounted
<1>4. PoolKept'
  BY <1>1, Numbers, Went DEF PoolKept
<1>5. mReferenceCount' \in (1 - MaxCloses)..(1 + Cardinality(Threads))
  BY <1>3, Numbers, CountTyped
<1> QED
  BY <1>1, <1>3, <1>4, <1>5, Went

\* A method goes on, and leaves the pool alone.
LEMMA GoesOn ==
    ASSUME DatabaseAssumption, DatabaseInv, NEW t \in Threads,
           pc[t] \notin {"idle", "closePool"},
           NEW phase \in Phases \ {"idle", "closePool"}, GoTo(t, phase),
           UNCHANGED <<mReferenceCount, closes, mConnectionPoolLocked, poolIsOpen>>
    PROVE  /\ ReferencesCounted' /\ PoolKept' /\ pc' \in [Threads -> Phases]
           /\ mReferenceCount' \in (1 - MaxCloses)..(1 + Cardinality(Threads))
<1>1. TypeOK /\ ReferencesCounted /\ PoolKept
  BY DEF DatabaseInv
<1>2. Holders' = Holders
  BY <1>1, HolderStays
<1>3. ReferencesCounted'
  BY <1>1, <1>2 DEF ReferencesCounted
<1>4. PoolKept'
  <2>1. \A u \in Threads : pc'[u] = "closePool" <=> pc[u] = "closePool"
    BY <1>1, Went
  <2> QED BY <1>1, <2>1 DEF PoolKept
<1>5. mReferenceCount' \in (1 - MaxCloses)..(1 + Cardinality(Threads))
  BY <1>1 DEF TypeOK
<1> QED
  BY <1>1, <1>3, <1>4, <1>5, Went

\* releaseReference, at the end of a method or in close(): the last reference takes the
\* pool with it.
LEMMA ReleasesReference ==
    ASSUME DatabaseAssumption, DatabaseInv, NEW t \in Threads, ReleaseReference(t),
           \/ pc[t] = "leaving" /\ UNCHANGED closes
           \/ pc[t] = "idle" /\ closes' = closes + 1 /\ closes < MaxCloses,
           UNCHANGED poolIsOpen
    PROVE  /\ ReferencesCounted' /\ PoolKept' /\ pc' \in [Threads -> Phases]
           /\ mReferenceCount' \in (1 - MaxCloses)..(1 + Cardinality(Threads))
           /\ mConnectionPoolLocked' \in BOOLEAN
           /\ \A u \in Threads : pc'[u] \in {"disableWal", "attach"} => pc[u] = pc'[u]
<1>1. TypeOK /\ PoolKept
  BY DEF DatabaseInv
<1>2. PICK phase \in {"idle", "closePool"} :
          /\ GoTo(t, phase)
          /\ phase = "closePool" <=> mReferenceCount = 1 /\ mConnectionPoolLocked
  BY DEF ReleaseReference
<1>3. /\ mReferenceCount' = mReferenceCount - 1
      /\ mConnectionPoolLocked' = (mConnectionPoolLocked /\ mReferenceCount # 1)
  BY DEF ReleaseReference
<1>4. phase \in Phases
  BY DEF Phases
<1>5. /\ pc' \in [Threads -> Phases] /\ pc'[t] = phase
      /\ \A u \in Threads : u # t => pc'[u] = pc[u]
  BY <1>1, <1>2, <1>4, Went
<1>6. ReferencesCounted'
  <2>1. CASE pc[t] = "leaving" /\ UNCHANGED closes
    <3>1. Cardinality(Holders') = Cardinality(Holders) - 1
      BY <1>1, <1>2, <2>1, HolderLeaves
    <3> QED BY <1>3, <2>1, <3>1, Numbers DEF ReferencesCounted
  <2>2. CASE pc[t] = "idle" /\ closes' = closes + 1
    <3>1. Holders' = Holders
      BY <1>1, <1>2, <1>4, <2>2, HolderStays
    <3> QED BY <1>3, <2>2, <3>1, Numbers DEF ReferencesCounted
  <2> QED BY <2>1, <2>2
<1>7. mReferenceCount' \in (1 - MaxCloses)..(1 + Cardinality(Threads))
  <2>1. closes' \in 0..MaxCloses
    BY Numbers
  <2> QED BY <1>6, <2>1, CountTyped
<1>8. mConnectionPoolLocked' \in BOOLEAN
  BY <1>3
<1>9. PoolKept'
  <2>1. SUFFICES ASSUME closes' <= 1
                 PROVE  /\ mReferenceCount' > 0 =>
                               /\ mConnectionPoolLocked' /\ poolIsOpen'
                               /\ \A u \in Threads : pc'[u] # "closePool"
                        /\ mReferenceCount' = 0 =>
                               /\ ~mConnectionPoolLocked'
                               /\ poolIsOpen' => \E u \in Threads : pc'[u] = "closePool"
    BY DEF PoolKept
  <2>2. closes <= 1 /\ mReferenceCount >= 1
    <3>1. CASE pc[t] = "leaving" /\ UNCHANGED closes
      <4>1. Cardinality(Holders) >= 1
        BY <1>1, <1>2, <3>1, HolderLeaves
      <4> QED BY <2>1, <3>1, <4>1, Numbers
    <3>2. CASE closes' = closes + 1
      BY <2>1, <3>2, Numbers
    <3> QED BY <3>1, <3>2
  <2>3. mConnectionPoolLocked /\ poolIsOpen /\ \A u \in Threads : pc[u] # "closePool"
    BY <1>1, <2>2, Numbers DEF PoolKept
  <2>4. CASE mReferenceCount = 1
    <3>1. phase = "closePool" /\ mReferenceCount' = 0
      BY <1>2, <1>3, <2>3, <2>4
    <3>2. mReferenceCount' = 0 /\ ~mConnectionPoolLocked' /\ pc'[t] = "closePool"
      BY <1>3, <1>5, <2>4, <3>1
    <3> QED BY <3>2
  <2>5. CASE mReferenceCount # 1
    <3>1. mReferenceCount' > 0
      BY <1>3, <2>2, <2>5, Numbers
    <3>2. mConnectionPoolLocked' /\ pc'[t] # "closePool"
      BY <1>2, <1>3, <1>5, <2>3, <2>5
    <3> QED BY <1>5, <2>3, <3>1, <3>2
  <2> QED BY <2>4, <2>5
<1> QED
  BY <1>5, <1>6, <1>7, <1>8, <1>9

-----------------------------------------------------------------------------
(***************************************************************************)
(* The configuration                                                       *)
(***************************************************************************)
\* What may be asked for is a configuration; once a database is attached none enables
\* write-ahead logging.
LEMMA SettingsTyped ==
    ASSUME mConfigurationLocked \in Configs, NEW config \in Settings
    PROVE  /\ config \in Configs
           /\ mHasAttachedDbsLocked /\ config.wal => mConfigurationLocked.wal
  BY DEF Settings, Configs

\* A change is made in the database and in its pool, or in neither.
LEMMA Reconfigured ==
    ASSUME DatabaseInv, NEW config \in Configs,
           ReconfigureSucceeds(config) \/ ReconfigureThrows(config)
    PROVE  /\ mConfigurationLocked' \in Configs /\ poolConfig' \in Configs
           /\ ConfigurationsAgree'
           /\ poolConfig' \in {poolConfig, config}
  BY DEF DatabaseInv, TypeOK, ConfigurationsAgree, ReconfigureSucceeds, ReconfigureThrows

\* Every step of a thread keeps the invariant.
LEMMA DatabaseNext ==
    ASSUME DatabaseAssumption, DatabaseInv, NEW t \in Threads,
           \/ \E m \in {"operation", "begin", "end"} : Enter(t, m)
           \/ Proceed(t) \/ Close(t) \/ Configure(t) \/ AttachSetsFlag(t)
    PROVE  DatabaseInv'
<1>0. TypeOK /\ ReferencesCounted /\ PoolKept /\ ConfigurationsAgree /\ AttachFlagged
  BY DEF DatabaseInv
<1> DEFINE Counted == /\ ReferencesCounted' /\ PoolKept' /\ pc' \in [Threads -> Phases]
                      /\ mReferenceCount' \in (1 - MaxCloses)..(1 + Cardinality(Threads))
           SameConfig == /\ mConfigurationLocked' \in Configs /\ poolConfig' \in Configs
                         /\ ConfigurationsAgree'
<1>1. ASSUME UNCHANGED <<mConfigurationLocked, poolConfig>> PROVE SameConfig
  BY <1>0, <1>1 DEF TypeOK, ConfigurationsAgree
<1>2. ASSUME NEW phase \in Phases, GoTo(t, phase)
      PROVE  /\ pc'[t] = phase /\ \A u \in Threads : u # t => pc'[u] = pc[u]
  BY <1>0, <1>2, Went
<1>3. ASSUME NEW m \in {"operation", "begin", "end"}, Enter(t, m) PROVE DatabaseInv'
  <2>1. m \in Phases \ {"idle", "closePool"}
    BY DEF Phases, Methods
  <2>2. Counted
    BY <1>3, <2>1, BeginsMethod DEF Enter, configVars, poolVars
  <2>3. SameConfig
    BY <1>1, <1>3 DEF Enter, configVars, poolVars
  <2>4. TypeOK'
    BY <1>0, <1>3, <2>2, <2>3 DEF TypeOK, Enter, configVars, poolVars, useVars
  <2>5. AttachFlagged'
    <3>1. pc'[t] = m /\ \A u \in Threads : u # t => pc'[u] = pc[u]
      BY <1>2, <1>3, <2>1 DEF Enter
    <3> QED BY <1>0, <1>3, <3>1 DEF AttachFlagged, Enter, configVars, useVars
  <2> QED BY <2>2, <2>3, <2>4, <2>5 DEF DatabaseInv
<1>4. ASSUME AcquireConnection(t) PROVE DatabaseInv'
  <2>1. "executing" \in Phases \ {"idle", "closePool"}
    BY DEF Phases
  <2>2. Counted
    BY <1>4, <2>1, GoesOn DEF AcquireConnection, refVars, configVars, poolVars
  <2>3. SameConfig
    BY <1>1, <1>4 DEF AcquireConnection, configVars, poolVars
  <2>4. TypeOK'
    BY <1>0, <1>4, <2>2, <2>3 DEF TypeOK, AcquireConnection, Connect, refVars, configVars, poolVars
  <2>5. AttachFlagged'
    <3>1. pc'[t] = "executing" /\ \A u \in Threads : u # t => pc'[u] = pc[u]
      BY <1>2, <1>4, <2>1 DEF AcquireConnection
    <3> QED BY <1>0, <1>4, <3>1 DEF AttachFlagged, AcquireConnection, configVars
  <2> QED BY <2>2, <2>3, <2>4, <2>5 DEF DatabaseInv
<1>5. ASSUME OperationThrows(t) \/ Executed(t) \/ Begin(t) \/ End(t) PROVE DatabaseInv'
  <2>1. "leaving" \in Phases \ {"idle", "closePool"}
    BY DEF Phases
  <2>2. /\ pc[t] \notin {"idle", "closePool"} /\ GoTo(t, "leaving")
        /\ UNCHANGED <<refVars, configVars, poolVars, attached, settings>>
    BY <1>5 DEF OperationThrows, Executed, Begin, End, useVars
  <2>3. Counted
    BY <2>1, <2>2, GoesOn DEF refVars, configVars, poolVars
  <2>4. SameConfig
    BY <1>1, <2>2 DEF configVars, poolVars
  <2>5. connected' \in SUBSET Threads /\ inTransaction' \in SUBSET Threads
    BY <1>0, <1>5 DEF TypeOK, OperationThrows, Executed, Begin, End, Connect, useVars
  <2>6. TypeOK'
    BY <1>0, <2>2, <2>3, <2>4, <2>5 DEF TypeOK, refVars, configVars, poolVars
  <2>7. AttachFlagged'
    <3>1. pc'[t] = "leaving" /\ \A u \in Threads : u # t => pc'[u] = pc[u]
      BY <1>2, <2>1, <2>2
    <3> QED BY <1>0, <2>2, <3>1 DEF AttachFlagged, configVars
  <2> QED BY <2>3, <2>4, <2>6, <2>7 DEF DatabaseInv
<1>6. ASSUME Leave(t) \/ Close(t) PROVE DatabaseInv'
  <2>1. /\ ReleaseReference(t)
        /\ \/ pc[t] = "leaving" /\ UNCHANGED closes
           \/ pc[t] = "idle" /\ closes' = closes + 1 /\ closes < MaxCloses
        /\ UNCHANGED <<mConfigurationLocked, mHasAttachedDbsLocked, poolVars, useVars, settings>>
    BY <1>6 DEF Leave, Close
  <2>2. Counted /\ mConnectionPoolLocked' \in BOOLEAN
        /\ \A u \in Threads : pc'[u] \in {"disableWal", "attach"} => pc[u] = pc'[u]
    BY <2>1, ReleasesReference DEF poolVars
  <2>3. SameConfig
    BY <1>1, <2>1 DEF poolVars
  <2>4. closes' \in 0..MaxCloses
    BY <2>1, Numbers
  <2>5. TypeOK'
    BY <1>0, <2>1, <2>2, <2>3, <2>4 DEF TypeOK, poolVars, useVars
  <2>6. AttachFlagged'
    BY <1>0, <2>1, <2>2 DEF AttachFlagged, useVars
  <2> QED BY <2>2, <2>3, <2>5, <2>6 DEF DatabaseInv
<1>7. ASSUME ClosePool(t) PROVE DatabaseInv'
  <2>1. /\ pc[t] = "closePool" /\ poolIsOpen' = FALSE /\ GoTo(t, "idle")
        /\ UNCHANGED <<refVars, configVars, poolConfig, useVars, settings>>
    BY <1>7 DEF ClosePool
  <2>2. "idle" \in Phases
    BY DEF Phases
  <2>3. /\ pc' \in [Threads -> Phases] /\ pc'[t] = "idle"
        /\ \A u \in Threads : u # t => pc'[u] = pc[u]
    BY <1>0, <2>1, <2>2, Went
  <2>4. ReferencesCounted'
    <3>1. Holders' = Holders
      BY <1>0, <2>1, <2>2, HolderStays
    <3> QED BY <1>0, <2>1, <3>1 DEF ReferencesCounted, refVars
  <2>5. PoolKept'
    BY <1>0, <2>1 DEF PoolKept, refVars, configVars
  <2>6. SameConfig
    BY <1>1, <2>1 DEF configVars
  <2>7. TypeOK'
    BY <1>0, <2>1, <2>3, <2>6 DEF TypeOK, refVars, configVars, useVars
  <2>8. AttachFlagged'
    BY <1>0, <2>1, <2>3 DEF AttachFlagged, configVars, useVars
  <2> QED BY <2>4, <2>5, <2>6, <2>7, <2>8 DEF DatabaseInv
<1>8. ASSUME Configure(t) PROVE DatabaseInv'
  <2>1. /\ settings < MaxSettings /\ settings' = settings + 1
        /\ UNCHANGED <<refVars, mConnectionPoolLocked, mHasAttachedDbsLocked, poolIsOpen, useVars, pc>>
    BY <1>8 DEF Configure
  <2>2. PICK config \in Settings : ReconfigureSucceeds(config) \/ ReconfigureThrows(config)
    BY <1>8 DEF Configure
  <2>3. config \in Configs
    BY <1>0, SettingsTyped DEF TypeOK
  <2>4. SameConfig
    BY <2>2, <2>3, Reconfigured
  <2>5. TypeOK'
    BY <1>0, <2>1, <2>4 DEF TypeOK, refVars, useVars, DatabaseAssumption
  <2>6. ReferencesCounted' /\ PoolKept' /\ AttachFlagged'
    BY <1>0, <2>1 DEF ReferencesCounted, PoolKept, AttachFlagged, Holders, refVars, useVars
  <2> QED BY <2>4, <2>5, <2>6 DEF DatabaseInv
<1>9. ASSUME AttachSetsFlag(t) PROVE DatabaseInv'
  <2>1. /\ pc[t] = "idle" /\ mReferenceCount > 0 /\ mReferenceCount' = mReferenceCount + 1
        /\ mHasAttachedDbsLocked' = TRUE /\ settings < MaxSettings /\ settings' = settings + 1
        /\ UNCHANGED <<closes, mConnectionPoolLocked, mConfigurationLocked, poolVars, useVars>>
    BY <1>9 DEF AttachSetsFlag
  <2>2. PICK phase \in {"attach", "disableWal"} : GoTo(t, phase)
    BY <1>9 DEF AttachSetsFlag
  <2>3. phase \in Phases \ {"idle", "closePool"}
    BY DEF Phases, Methods
  <2>4. Counted
    BY <2>1, <2>2, <2>3, BeginsMethod DEF poolVars
  <2>5. SameConfig
    BY <1>1, <2>1 DEF poolVars
  <2>6. TypeOK'
    BY <1>0, <2>1, <2>4, <2>5 DEF TypeOK, poolVars, useVars, DatabaseAssumption
  <2>7. AttachFlagged'
    BY <2>1 DEF AttachFlagged
  <2> QED BY <2>4, <2>5, <2>6, <2>7 DEF DatabaseInv
<1>10. ASSUME AttachDisablesWal(t) PROVE DatabaseInv'
  <2>1. /\ pc[t] = "disableWal"
        /\ UNCHANGED <<refVars, mConnectionPoolLocked, mHasAttachedDbsLocked,
                       poolIsOpen, useVars, settings>>
    BY <1>10 DEF AttachDisablesWal
  <2>2. PICK phase \in {"attach", "leaving"} : GoTo(t, phase)
    BY <1>10 DEF AttachDisablesWal
  <2>3. phase \in Phases \ {"idle", "closePool"}
    BY DEF Phases, Methods
  <2>4. Counted
    BY <2>1, <2>2, <2>3, GoesOn DEF refVars
  <2>5. SameConfig
    <3>1. [mConfigurationLocked EXCEPT !.wal = FALSE] \in Configs
      BY <1>0 DEF TypeOK, Configs
    <3> QED BY <1>1, <1>10, <3>1, Reconfigured DEF AttachDisablesWal
  <2>6. TypeOK'
    BY <1>0, <2>1, <2>4, <2>5 DEF TypeOK, refVars, useVars
  <2>7. AttachFlagged'
    <3>1. mHasAttachedDbsLocked
      BY <1>0, <2>1 DEF AttachFlagged
    <3> QED BY <2>1, <3>1 DEF AttachFlagged
  <2> QED BY <2>4, <2>5, <2>6, <2>7 DEF DatabaseInv
<1> QED
  BY <1>3, <1>4, <1>5, <1>6, <1>7, <1>8, <1>9, <1>10 DEF Proceed

\* The invariant.
THEOREM DatabaseInvariant == Spec => []DatabaseInv
<1> USE DatabaseAssumption
<1>1. Init => DatabaseInv
  BY DatabaseInit
<1>2. DatabaseInv /\ [Next]_vars => DatabaseInv'
  <2>1. SUFFICES ASSUME DatabaseInv, [Next]_vars PROVE DatabaseInv'
    OBVIOUS
  <2>2. CASE UNCHANGED vars
    BY <2>1, <2>2 DEF vars, refVars, configVars, poolVars, useVars, DatabaseInv, TypeOK,
       ReferencesCounted, PoolKept, ConfigurationsAgree, AttachFlagged, Holders
  <2>3. CASE Next
    BY <2>1, <2>3, DatabaseNext DEF Next
  <2> QED BY <2>1, <2>2, <2>3
<1> QED
  BY <1>1, <1>2, PTL DEF Spec

\* With one close(), a method that holds a reference finds the pool open, however many
\* threads are in methods when it is called: the count cannot reach zero before they
\* have returned.
THEOREM PoolOpen == Spec => []PoolOpenWhileReferenced
<1> USE DatabaseAssumption
<1>1. DatabaseInv => PoolOpenWhileReferenced
  <2>1. SUFFICES ASSUME DatabaseInv, closes <= 1
                 PROVE  /\ mReferenceCount >= 0
                        /\ \A t \in Threads : pc[t] \notin {"idle", "closePool"} =>
                               mConnectionPoolLocked /\ poolIsOpen
                        /\ mReferenceCount = 0 /\ (\A t \in Threads : pc[t] # "closePool")
                               => ~poolIsOpen /\ ~mConnectionPoolLocked
    BY DEF PoolOpenWhileReferenced
  <2>2. mReferenceCount >= 0
    BY <2>1, Numbers
  <2>3. ASSUME NEW t \in Threads, pc[t] \notin {"idle", "closePool"}
        PROVE  mConnectionPoolLocked /\ poolIsOpen
    <3>1. Cardinality(Holders) # 0
      BY <2>3, HoldersFinite, FS_EmptySet DEF Holders
    <3>2. mReferenceCount > 0
      BY <2>1, <3>1, Numbers
    <3> QED BY <2>1, <3>2 DEF DatabaseInv, PoolKept
  <2>4. mReferenceCount = 0 /\ (\A t \in Threads : pc[t] # "closePool")
            => ~poolIsOpen /\ ~mConnectionPoolLocked
    BY <2>1 DEF DatabaseInv, PoolKept
  <2> QED BY <2>2, <2>3, <2>4
<1> QED
  BY <1>1, DatabaseInvariant, PTL

\* The database and its pool agree on the configuration, whichever change is refused or
\* fails half way.
THEOREM Agreement == Spec => []ConfigurationsAgree
<1>1. DatabaseInv => ConfigurationsAgree
  BY DEF DatabaseInv
<1> QED
  BY <1>1, DatabaseInvariant, PTL

\* No step enables write-ahead logging once a database is attached: neither the thread
\* that attaches it nor another one between the steps of the ATTACH.
THEOREM WalStaysOff == Spec => WalNotEnabledOnceAttached
<1> USE DatabaseAssumption
<1>1. DatabaseInv /\ [Next]_vars => [attached' /\ poolConfig'.wal => poolConfig.wal]_vars
  <2>1. SUFFICES ASSUME DatabaseInv, Next, attached', poolConfig'.wal
                 PROVE  poolConfig.wal
    OBVIOUS
  <2>2. PICK t \in Threads : \/ \E m \in {"operation", "begin", "end"} : Enter(t, m)
                             \/ Proceed(t) \/ Close(t) \/ Configure(t) \/ AttachSetsFlag(t)
    BY <2>1 DEF Next
  <2>3. TypeOK /\ ConfigurationsAgree /\ AttachFlagged
    BY <2>1 DEF DatabaseInv
  <2>4. CASE Configure(t)
    <3>1. PICK config \in Settings : ReconfigureSucceeds(config) \/ ReconfigureThrows(config)
      BY <2>4 DEF Configure
    <3>2. mHasAttachedDbsLocked
      BY <2>1, <2>3, <2>4 DEF Configure, useVars, AttachFlagged
    <3>3. config \in Configs /\ (config.wal => mConfigurationLocked.wal)
      BY <2>3, <3>2, SettingsTyped DEF TypeOK
    <3>4. poolConfig' \in {poolConfig, config}
      BY <2>1, <3>1, <3>3, Reconfigured
    <3> QED BY <2>1, <2>3, <3>3, <3>4 DEF ConfigurationsAgree
  <2>5. CASE AttachDisablesWal(t)
    <3>1. CASE UNCHANGED poolConfig
      BY <2>1, <3>1
    <3>2. CASE poolConfig' = [mConfigurationLocked EXCEPT !.wal = FALSE]
      <4>1. poolConfig'.wal = FALSE
        BY <2>3, <3>2 DEF TypeOK, Configs
      <4> QED BY <2>1, <4>1
    <3> QED
      BY <2>5, <3>1, <3>2 DEF AttachDisablesWal, ReconfigureSucceeds, ReconfigureThrows
  <2>6. CASE ~Configure(t) /\ ~AttachDisablesWal(t)
    <3>1. UNCHANGED poolConfig
      BY <2>2, <2>6 DEF Proceed, Enter, AcquireConnection, OperationThrows, Executed, Begin, End,
         Leave, ClosePool, Close, AttachSetsFlag, poolVars
    <3> QED BY <2>1, <3>1
  <2> QED BY <2>4, <2>5, <2>6
<1> QED
  BY <1>1, DatabaseInvariant, PTL DEF Spec, WalNotEnabledOnceAttached
=============================================================================
