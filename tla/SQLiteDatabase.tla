---------------------------- MODULE SQLiteDatabase ----------------------------
(***************************************************************************)
(* A database object shared by threads (SQLiteDatabase.java and the        *)
(* reference count of SQLiteClosable.java): operations that hold a         *)
(* reference while they run, transactions that keep a connection between   *)
(* them, the configuration and its copy in the connection pool, ATTACH,    *)
(* and close().                                                            *)
(*                                                                         *)
(* mLock guards the configuration, the reference to the pool and the flag  *)
(* for attached databases; reconfiguring the pool happens with it held and *)
(* is part of the same step.  The pool (see SQLiteConnectionPool) is its   *)
(* configuration, whether it is open and which threads have a connection.  *)
(***************************************************************************)
EXTENDS Integers, FiniteSets

CONSTANTS
    Threads,
    WalPoolSize,   \* connections of a pool with write-ahead logging
    InMemory,      \* an in-memory database
    InitialConfig, \* the configuration the database is opened with
    MaxCloses,     \* bound: calls of close() by the application
    MaxSettings    \* bound: configuration changes asked for

Configs == [readOnly : BOOLEAN, wal : BOOLEAN, foreignKeys : BOOLEAN]

ASSUME DatabaseAssumption ==
    /\ IsFiniteSet(Threads)
    /\ WalPoolSize \in Nat \ {0}
    /\ InMemory \in BOOLEAN
    /\ InitialConfig \in Configs
    /\ MaxCloses \in Nat
    /\ MaxSettings \in Nat

VARIABLES
    mReferenceCount,
    mConnectionPoolLocked,   \* the reference to the pool is not null
    mConfigurationLocked,
    mHasAttachedDbsLocked,
    poolIsOpen, poolConfig,  \* mIsOpen and mConfiguration of the pool
    connected,               \* threads that have acquired a connection
    inTransaction,           \* threads whose session is in a transaction
    attached,                \* a database is attached
    pc,                      \* where each thread is
    closes, settings         \* counters for the bounds

refVars == <<mReferenceCount, closes>>
configVars == <<mConnectionPoolLocked, mConfigurationLocked,
                mHasAttachedDbsLocked>>
poolVars == <<poolIsOpen, poolConfig>>
useVars == <<connected, inTransaction, attached>>
vars == <<refVars, configVars, poolVars, useVars, pc, settings>>

\* A thread is idle, runs a method that holds a reference (an operation, the
\* begin or the end of a transaction, an ATTACH at one of its steps), leaves
\* it, or disposes of the pool.
Methods == {"operation", "begin", "end", "attach"}
Phases == {"idle", "disableWal", "executing", "leaving", "closePool"} \cup Methods

TypeOK ==
    /\ mReferenceCount \in (1 - MaxCloses)..(1 + Cardinality(Threads))
    /\ mConnectionPoolLocked \in BOOLEAN
    /\ mConfigurationLocked \in Configs
    /\ mHasAttachedDbsLocked \in BOOLEAN
    /\ poolIsOpen \in BOOLEAN
    /\ poolConfig \in Configs
    /\ connected \in SUBSET Threads
    /\ inTransaction \in SUBSET Threads
    /\ attached \in BOOLEAN
    /\ pc \in [Threads -> Phases]
    /\ closes \in 0..MaxCloses
    /\ settings \in 0..MaxSettings

PoolSize == IF poolConfig.wal THEN WalPoolSize ELSE 1
GoTo(t, phase) == pc' = [pc EXCEPT ![t] = phase]

-----------------------------------------------------------------------------
(***************************************************************************)
(* References.  A method that finds the count at zero throws and changes   *)
(* nothing.                                                                *)
(***************************************************************************)
Enter(t, method) ==
    /\ pc[t] = "idle"
    /\ mReferenceCount > 0
    /\ method = "begin" => t \notin inTransaction
    /\ method = "end" => t \in inTransaction
    /\ mReferenceCount' = mReferenceCount + 1
    /\ GoTo(t, method)
    /\ UNCHANGED <<closes, configVars, poolVars, useVars, settings>>

\* Mutant: the object is disposed of by any release.
ReleaseAndDispose(t) ==
    /\ mReferenceCount' = mReferenceCount - 1
    /\ mConnectionPoolLocked' = FALSE
    /\ GoTo(t, "closePool")

\* releaseReference.  The last one disposes of the database: the reference to
\* the pool is cleared under mLock, and the pool closed after that.
ReleaseReference(t) ==
    /\ mReferenceCount' = mReferenceCount - 1
    /\ mConnectionPoolLocked' =
           (mConnectionPoolLocked /\ mReferenceCount # 1)
    /\ GoTo(t, IF mReferenceCount = 1 /\ mConnectionPoolLocked
               THEN "closePool" ELSE "idle")

\* Mutant: the reference is not released.
LeaveKeepingReference(t) ==
    /\ pc[t] = "leaving"
    /\ GoTo(t, "idle")
    /\ UNCHANGED <<refVars, configVars, poolVars, useVars, settings>>

Leave(t) ==
    /\ pc[t] = "leaving"
    /\ ReleaseReference(t)
    /\ UNCHANGED <<closes, mConfigurationLocked, mHasAttachedDbsLocked, poolVars,
                   useVars, settings>>

Close(t) ==
    /\ pc[t] = "idle" /\ closes < MaxCloses
    /\ closes' = closes + 1
    /\ ReleaseReference(t)
    /\ UNCHANGED <<mConfigurationLocked, mHasAttachedDbsLocked, poolVars, useVars,
                   settings>>

\* pool.close(): connections in use are closed when they are released.
ClosePool(t) ==
    /\ pc[t] = "closePool"
    /\ poolIsOpen' = FALSE
    /\ GoTo(t, "idle")
    /\ UNCHANGED <<refVars, configVars, poolConfig, useVars, settings>>

-----------------------------------------------------------------------------
(***************************************************************************)
(* Methods that use a connection.  The session has one already in a        *)
(* transaction; otherwise it waits for one, or throws if the pool is       *)
(* closed.                                                                 *)
(***************************************************************************)
Connect(t) ==
    \/ t \in connected /\ UNCHANGED connected
    \/ /\ t \notin connected
       /\ poolIsOpen /\ Cardinality(connected) < PoolSize
       /\ connected' = connected \cup {t}

AcquireConnection(t) ==
    /\ pc[t] \in {"operation", "attach"}
    /\ Connect(t)
    /\ attached' = (attached \/ pc[t] = "attach")
    /\ GoTo(t, "executing")
    /\ UNCHANGED <<refVars, configVars, poolVars, inTransaction, settings>>

\* acquireConnection, or the statement, throws.
OperationThrows(t) ==
    /\ pc[t] \in {"operation", "begin", "attach"}
    /\ GoTo(t, "leaving")
    /\ UNCHANGED <<refVars, configVars, poolVars, useVars, settings>>

Executed(t) ==
    /\ pc[t] = "executing"
    /\ connected' = IF t \in inTransaction THEN connected ELSE connected \ {t}
    /\ GoTo(t, "leaving")
    /\ UNCHANGED <<refVars, configVars, poolVars, inTransaction, attached,
                   settings>>

Begin(t) ==
    /\ pc[t] = "begin"
    /\ Connect(t)
    /\ inTransaction' = inTransaction \cup {t}
    /\ GoTo(t, "leaving")
    /\ UNCHANGED <<refVars, configVars, poolVars, attached, settings>>

End(t) ==
    /\ pc[t] = "end"
    /\ inTransaction' = inTransaction \ {t}
    /\ connected' = connected \ {t}
    /\ GoTo(t, "leaving")
    /\ UNCHANGED <<refVars, configVars, poolVars, attached, settings>>

-----------------------------------------------------------------------------
(***************************************************************************)
(* Configuration                                                           *)
(***************************************************************************)
\* reconfigure() of the pool throws when it needs an idle pool, or when a
\* connection with the new flags cannot be opened.
ReconfigureRefused(config) ==
    /\ \/ config.wal # poolConfig.wal
       \/ config.foreignKeys # poolConfig.foreignKeys
    /\ connected # {}
MayThrow(config) == \/ ReconfigureRefused(config)
                    \/ config.wal # poolConfig.wal
                    \/ config.readOnly # poolConfig.readOnly

\* Mutant: the old value is not restored.
ReconfigureThrowsChanged(config) ==
    /\ MayThrow(config)
    /\ mConfigurationLocked' = config
    /\ UNCHANGED poolConfig

\* The catch block restores the configuration.
ReconfigureThrows(config) ==
    /\ MayThrow(config)
    /\ UNCHANGED <<mConfigurationLocked, poolConfig>>

ReconfigureSucceeds(config) ==
    /\ ~ReconfigureRefused(config)
    /\ mConfigurationLocked' = config
    /\ poolConfig' = config

\* Mutant: enableWriteAheadLogging does not look for attached databases.
SettingsIgnoringAttached ==
    LET config == mConfigurationLocked IN
    {[config EXCEPT !.foreignKeys = ~@]}
        \cup (IF config.readOnly THEN {[config EXCEPT !.readOnly = FALSE]}
              ELSE {[config EXCEPT !.wal = ~@]})

\* What a thread asks for: setForeignKeyConstraintsEnabled, reopenReadWrite,
\* enableWriteAheadLogging or disableWriteAheadLogging.
Settings ==
    LET config == mConfigurationLocked IN
    {[config EXCEPT !.foreignKeys = ~@]}
        \cup (IF config.readOnly THEN {[config EXCEPT !.readOnly = FALSE]} ELSE {})
        \cup (IF config.wal THEN {[config EXCEPT !.wal = FALSE]}
              ELSE IF config.readOnly \/ InMemory \/ mHasAttachedDbsLocked THEN {}
              ELSE {[config EXCEPT !.wal = TRUE]})

Configure(t) ==
    /\ pc[t] = "idle" /\ mConnectionPoolLocked
    /\ settings < MaxSettings /\ settings' = settings + 1
    /\ \E config \in Settings : ReconfigureSucceeds(config) \/ ReconfigureThrows(config)
    /\ UNCHANGED <<refVars, mConnectionPoolLocked, mHasAttachedDbsLocked,
                   poolIsOpen, useVars, pc>>

\* executeSql of an ATTACH: the first one sets the flag ...
AttachSetsFlag(t) ==
    /\ pc[t] = "idle" /\ mReferenceCount > 0 /\ settings < MaxSettings
    /\ settings' = settings + 1
    /\ mReferenceCount' = mReferenceCount + 1
    /\ mHasAttachedDbsLocked' = TRUE
    /\ GoTo(t, IF mHasAttachedDbsLocked THEN "attach" ELSE "disableWal")
    /\ UNCHANGED <<closes, mConnectionPoolLocked, mConfigurationLocked, poolVars,
                   useVars>>

\* ... and disables write-ahead logging, before the statement is executed.
AttachDisablesWal(t) ==
    LET config == [mConfigurationLocked EXCEPT !.wal = FALSE] IN
    /\ pc[t] = "disableWal" /\ mConnectionPoolLocked
    /\ \/ /\ ~mConfigurationLocked.wal
          /\ UNCHANGED <<mConfigurationLocked, poolConfig>>
          /\ GoTo(t, "attach")
       \/ /\ mConfigurationLocked.wal /\ ReconfigureSucceeds(config)
          /\ GoTo(t, "attach")
       \/ /\ mConfigurationLocked.wal /\ ReconfigureThrows(config)
          /\ GoTo(t, "leaving")
    /\ UNCHANGED <<refVars, mConnectionPoolLocked, mHasAttachedDbsLocked,
                   poolIsOpen, useVars, settings>>

Init ==
    /\ mReferenceCount = 1
    /\ mConnectionPoolLocked = TRUE
    /\ mConfigurationLocked = InitialConfig
    /\ mHasAttachedDbsLocked = FALSE
    /\ poolIsOpen = TRUE
    /\ poolConfig = InitialConfig
    /\ connected = {}
    /\ inTransaction = {}
    /\ attached = FALSE
    /\ pc = [t \in Threads |-> "idle"]
    /\ closes = 0
    /\ settings = 0

Proceed(t) == \/ AcquireConnection(t) \/ OperationThrows(t) \/ Executed(t)
              \/ Begin(t) \/ End(t) \/ AttachDisablesWal(t)
              \/ Leave(t) \/ ClosePool(t)

Next == \E t \in Threads : \/ \E m \in {"operation", "begin", "end"} : Enter(t, m)
                           \/ Proceed(t) \/ Close(t) \/ Configure(t)
                           \/ AttachSetsFlag(t)

Spec == Init /\ [][Next]_vars

-----------------------------------------------------------------------------
(***************************************************************************)
(* Properties                                                              *)
(***************************************************************************)
\* With one close(), a method that holds a reference finds the pool: it is taken
\* away and closed only when the last of them has returned, and it is closed then.
PoolOpenWhileReferenced ==
    closes <= 1 =>
        /\ mReferenceCount >= 0
        /\ \A t \in Threads : pc[t] \notin {"idle", "closePool"} =>
               mConnectionPoolLocked /\ poolIsOpen
        /\ mReferenceCount = 0 /\ (\A t \in Threads : pc[t] # "closePool")
               => ~poolIsOpen /\ ~mConnectionPoolLocked

\* The database and its pool agree on the configuration, whichever change is
\* refused or fails: isWriteAheadLoggingEnabled() and isReadOnly() tell the truth.
ConfigurationsAgree == mConfigurationLocked = poolConfig

\* "sqlite's write-ahead-logging doesn't work for databases with attached
\* databases": the flag is set before WAL is disabled and the statement executed,
\* so no thread can enable WAL again in between or afterwards.
WalNotEnabledOnceAttached ==
    [][attached' /\ poolConfig'.wal => poolConfig.wal]_vars

\* Threads in a method that holds a reference.
Holders == {t \in Threads : pc[t] \notin {"idle", "closePool"}}

\* The count is one for the owner until close(), and one for each such method.
ReferencesCounted == mReferenceCount = 1 - closes + Cardinality(Holders)

\* With one close() the pool is there until the count is zero, when one thread
\* takes it away and closes it.
PoolKept ==
    closes <= 1 =>
        /\ mReferenceCount > 0 =>
               /\ mConnectionPoolLocked /\ poolIsOpen
               /\ \A t \in Threads : pc[t] # "closePool"
        /\ mReferenceCount = 0 =>
               /\ ~mConnectionPoolLocked
               /\ poolIsOpen => \E t \in Threads : pc[t] = "closePool"

\* The flag is set as long as an ATTACH is on its way or has been executed.
AttachFlagged ==
    attached \/ (\E t \in Threads : pc[t] \in {"disableWal", "attach"})
        => mHasAttachedDbsLocked

\* All of this together is what every method preserves.
DatabaseInv == /\ TypeOK /\ ReferencesCounted /\ PoolKept /\ ConfigurationsAgree
               /\ AttachFlagged
=============================================================================
