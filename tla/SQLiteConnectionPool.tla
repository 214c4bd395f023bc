------------------------- MODULE SQLiteConnectionPool -------------------------
(***************************************************************************)
(* The connection pool of a database (SQLiteConnectionPool.java): the      *)
(* connections it owns, the ones sessions have acquired, the priority      *)
(* queue of blocked threads, and the threads that acquire and release.     *)
(*                                                                         *)
(* Everything the pool keeps is guarded by mLock, so a locked section that *)
(* does not wake waiters is one step.  wakeConnectionWaitersLocked() is    *)
(* the last call of every section that makes it; it is a loop of one step  *)
(* per waiter that runs with mLock held, so nothing else that needs the    *)
(* lock can happen in between while parking, cancelling, the garbage       *)
(* collector and the finalizer go on.                                      *)
(*                                                                         *)
(* Abstractions.  Which of several available non-primary connections a     *)
(* request gets depends on the statements in their caches: any of them.    *)
(* Pooled ConnectionWaiter objects are the waiters with mThread = None,    *)
(* and "waiter.mNonce == nonce" is recorded as nonceCurrent[t], which      *)
(* recycling the waiter (mNonce += 1) makes FALSE.  A connection whose     *)
(* close() throws is forgotten by the pool exactly as a closed one.        *)
(***************************************************************************)
EXTENDS Naturals, FiniteSets, Sequences, SequencesExt

CONSTANTS
    Threads,        \* application threads, each with its own SQLiteSession
    Interactive,    \* the threads that ask with CONNECTION_FLAG_INTERACTIVE
    Cancelable,     \* the threads that pass a CancellationSignal
    Impatient,      \* the threads whose park may return without an unpark
    Conns,          \* identities of SQLiteConnection objects
    Waiters,        \* identities of ConnectionWaiter objects
    WalPoolSize,    \* SQLiteGlobal.getWALConnectionPoolSize()
    HasCodec,       \* SQLiteDatabase.hasCodec()
    InitialConfig,  \* the configuration the pool is opened with
    None,           \* null
    Outsider,       \* holder of mLock that is not one of Threads
    MaxReconfigs,   \* bound: calls of reconfigure() that change something
    MaxLeaks        \* bound: connections abandoned by their session

Configs == [readOnly : BOOLEAN, wal : BOOLEAN, foreignKeys : BOOLEAN,
            parameters : {0, 1}]

ASSUME PoolAssumption ==
    /\ Interactive \subseteq Threads
    /\ Cancelable \subseteq Threads
    /\ Impatient \subseteq Threads
    /\ WalPoolSize \in Nat \ {0}
    /\ HasCodec \in BOOLEAN
    /\ InitialConfig \in Configs
    /\ Conns # {}
    /\ None \notin Threads \cup Conns \cup Waiters
    /\ Outsider \notin Threads \cup {None}
    /\ MaxReconfigs \in Nat
    /\ MaxLeaks \in Nat

\* There are finitely many objects, so that connections can be counted.
ASSUME ConnsAssumption == IsFiniteSet(Conns)

VARIABLES
    mIsOpen,
    mConfiguration,
    mMaxConnectionPoolSize,
    mAvailablePrimaryConnection,      \* a connection or None
    mAvailableNonPrimaryConnections,  \* a set of connections
    mAcquiredConnections,             \* connection -> status, "none" if absent
    conns,                            \* the SQLiteConnection objects
    mConnectionWaiterQueue,           \* sequence of waiters
    waiters,                          \* the ConnectionWaiter objects
    mConnectionLeaked,
    finalizable,                      \* collected connections to be finalized
    mLock,                            \* who holds mLock, or None
    wake,                             \* locals of wakeConnectionWaitersLocked
    pc,                               \* where each thread is
    held,                             \* the connection a thread has, or None
    waiterOf,                         \* local "waiter" of waitForConnection
    nonceCurrent,                     \* waiter.mNonce == nonce
    permit,                           \* LockSupport's permit
    signal,                           \* the request's CancellationSignal
    listening,                        \* its mOnCancelListener is set
    canceling,                        \* a cancel() that called the listener
    reconfigs, leaks                  \* counters for the bounds

poolVars   == <<mIsOpen, mConfiguration, mMaxConnectionPoolSize>>
ownedVars  == <<mAvailablePrimaryConnection, mAvailableNonPrimaryConnections,
                mAcquiredConnections, conns>>
waitVars   == <<mConnectionWaiterQueue, waiters>>
lockVars   == <<mLock, wake>>
gcVars     == <<mConnectionLeaked, finalizable>>
threadVars == <<pc, held, waiterOf, nonceCurrent, permit>>
cancelVars == <<signal, listening, canceling>>
countVars  == <<reconfigs, leaks>>
vars == <<poolVars, ownedVars, waitVars, lockVars, gcVars, threadVars,
          cancelVars, countVars>>

(***************************************************************************)
(* Types                                                                   *)
(***************************************************************************)
Statuses == {"NORMAL", "RECONFIGURE", "DISCARD"}
Exceptions == {"none", "failed", "canceled"}

\* Phases of waitForConnection, from idle to holding a connection.
Waiting == {"enqueued", "onCancel", "loop", "leakWake", "park", "check"}
Phases == {"idle", "finally", "holding"} \cup Waiting

WaiterType == [mThread : Threads \cup {None}, mPriority : {0, 1},
               mWantPrimaryConnection : BOOLEAN,
               mAssignedConnection : Conns \cup {None},
               mException : Exceptions]

PoolTypeOK ==
    /\ mIsOpen \in BOOLEAN
    /\ mConfiguration \in Configs
    /\ mMaxConnectionPoolSize \in Nat \ {0}
    /\ mConnectionLeaked \in BOOLEAN
    /\ reconfigs \in Nat
    /\ leaks \in Nat

OwnedTypeOK ==
    /\ mAvailablePrimaryConnection \in Conns \cup {None}
    /\ mAvailableNonPrimaryConnections \in SUBSET Conns
    /\ mAcquiredConnections \in [Conns -> Statuses \cup {"none"}]
    /\ conns \in [Conns -> [open : BOOLEAN, primary : BOOLEAN, config : Configs]]
    /\ finalizable \in SUBSET Conns

WaitTypeOK ==
    /\ mConnectionWaiterQueue \in Seq(Waiters)
    /\ waiters \in [Waiters -> WaiterType]
    /\ mLock \in Threads \cup {None, Outsider}
    /\ wake \in [at : Nat \ {0}, noPrimary : BOOLEAN, noNonPrimary : BOOLEAN]

ThreadTypeOK ==
    /\ pc \in [Threads -> Phases]
    /\ held \in [Threads -> Conns \cup {None}]
    /\ waiterOf \in [Threads -> Waiters \cup {None}]
    /\ nonceCurrent \in [Threads -> BOOLEAN]
    /\ permit \in [Threads -> BOOLEAN]
    /\ signal \in [Threads -> {"none", "live", "canceled"}]
    /\ listening \in [Threads -> BOOLEAN]
    /\ canceling \in [Threads -> {"no", "calling", "returning"}]

TypeOK == PoolTypeOK /\ OwnedTypeOK /\ WaitTypeOK /\ ThreadTypeOK

(***************************************************************************)
(* Helpers                                                                 *)
(***************************************************************************)
Acquired == {c \in Conns : mAcquiredConnections[c] # "none"}

\* Connections that have been assigned to a waiter or returned to a thread.
Referenced == {held[t] : t \in Threads}
                  \cup {waiters[w].mAssignedConnection : w \in Waiters}

\* The object a constructor returns: any that is not in use, and always the
\* same one of them, since it does not matter which.
Fresh == {c \in Conns : ~conns[c].open /\ c = CHOOSE d \in Conns : ~conns[d].open}

MaxConnectionPoolSize(config) ==
    IF ~HasCodec /\ config.wal THEN WalPoolSize ELSE 1

Priority(t) == IF t \in Interactive THEN 1 ELSE 0

IdleWaiter == [mThread |-> None, mPriority |-> 0,
               mWantPrimaryConnection |-> FALSE,
               mAssignedConnection |-> None, mException |-> "none"]

\* Mutant: a waiter with an exception goes on waiting.
DoneIfAssigned(w) == waiters[w].mAssignedConnection # None

Done(w) == \/ waiters[w].mAssignedConnection # None
           \/ waiters[w].mException # "none"

\* A connection that is not open, and the objects after closing those in S.
ClosedConnection == [open |-> FALSE, primary |-> FALSE, config |-> InitialConfig]
Closed(S) == [c \in Conns |-> IF c \in S THEN ClosedConnection ELSE conns[c]]

LockFree == mLock = None

-----------------------------------------------------------------------------
(***************************************************************************)
(* Acquiring.  A request that accepts a non-primary connection tries those *)
(* first; only a request that gets none of either kind waits.              *)
(***************************************************************************)
OpenConnections ==
    Cardinality(Acquired) + (IF mAvailablePrimaryConnection # None THEN 1 ELSE 0)

NonPrimaryAvailable ==
    \/ mAvailableNonPrimaryConnections # {}
    \/ OpenConnections < mMaxConnectionPoolSize

\* Mutant: the search for the primary connection stops at the first one in use.
PrimaryAvailableAtFirst ==
    \/ mAvailablePrimaryConnection # None
    \/ \E c \in Acquired : ~conns[c].primary
    \/ Acquired = {}

PrimaryAvailable ==
    \/ mAvailablePrimaryConnection # None
    \/ \A c \in Acquired : ~conns[c].primary

\* The connections tryAcquireNonPrimaryConnectionLocked can return, when it
\* returns one, and the new ones openConnectionLocked may fail to open.
NonPrimaryChoices ==
    IF mAvailableNonPrimaryConnections # {}
    THEN mAvailableNonPrimaryConnections ELSE Fresh

PrimaryChoices ==
    IF mAvailablePrimaryConnection # None
    THEN {mAvailablePrimaryConnection} ELSE Fresh

\* Mutant: an available non-primary connection is not taken out of the list.
FinishAcquireKeepingAvailable(c, primary) ==
    /\ mAvailablePrimaryConnection' =
           IF c = mAvailablePrimaryConnection THEN None
                                              ELSE mAvailablePrimaryConnection
    /\ mAcquiredConnections' = [mAcquiredConnections EXCEPT ![c] = "NORMAL"]
    /\ conns' = IF conns[c].open THEN conns
                ELSE [conns EXCEPT ![c] = [open |-> TRUE, primary |-> primary,
                                           config |-> mConfiguration]]
    /\ UNCHANGED mAvailableNonPrimaryConnections

\* finishAcquireConnectionLocked on c, opened first when it is a fresh one.
FinishAcquireConnection(c, primary) ==
    /\ mAvailablePrimaryConnection' =
           IF c = mAvailablePrimaryConnection THEN None
                                              ELSE mAvailablePrimaryConnection
    /\ mAvailableNonPrimaryConnections' = mAvailableNonPrimaryConnections \ {c}
    /\ mAcquiredConnections' = [mAcquiredConnections EXCEPT ![c] = "NORMAL"]
    /\ conns' = IF conns[c].open THEN conns
                ELSE [conns EXCEPT ![c] = [open |-> TRUE, primary |-> primary,
                                           config |-> mConfiguration]]

\* A request gets connection c.
TryAcquire(wantPrimary, c) ==
    IF ~wantPrimary /\ NonPrimaryAvailable
    THEN /\ c \in NonPrimaryChoices
         /\ FinishAcquireConnection(c, FALSE)
    ELSE /\ PrimaryAvailable
         /\ c \in PrimaryChoices
         /\ FinishAcquireConnection(c, TRUE)

\* Opening a connection for the request throws.
OpenThrows(wantPrimary) ==
    IF ~wantPrimary /\ NonPrimaryAvailable
    THEN mAvailableNonPrimaryConnections = {}
    ELSE PrimaryAvailable /\ mAvailablePrimaryConnection = None

Unavailable(wantPrimary) ==
    ~PrimaryAvailable /\ (wantPrimary \/ ~NonPrimaryAvailable)

-----------------------------------------------------------------------------
(***************************************************************************)
(* wakeConnectionWaitersLocked, called as the last thing of a locked       *)
(* section of actor a with the queue q.                                    *)
(***************************************************************************)
WakeStart == [at |-> 1, noPrimary |-> FALSE, noNonPrimary |-> FALSE]

\* Mutant: the call is forgotten.
WakeNobody(a, q) == UNCHANGED lockVars

WakeConnectionWaiters(a, q) ==
    /\ mLock' = IF q = <<>> THEN None ELSE a
    /\ wake' = WakeStart

\* The loop goes on with queue q and locals l, or ends and releases mLock.
WakeContinue(q, l) ==
    IF l.at > Len(q) THEN mLock' = None /\ wake' = WakeStart
                     ELSE mLock' = mLock /\ wake' = l

\* Mutant: the waiter's thread is not unparked.
DequeueCurrent(w, flags) ==
    /\ mConnectionWaiterQueue' = RemoveAt(mConnectionWaiterQueue, wake.at)
    /\ WakeContinue(mConnectionWaiterQueue', flags)
    /\ UNCHANGED permit

\* Takes the waiter at the loop's position out of the queue and unparks it.
UnparkCurrent(w, flags) ==
    /\ mConnectionWaiterQueue' = RemoveAt(mConnectionWaiterQueue, wake.at)
    /\ permit' = [permit EXCEPT ![waiters[w].mThread] = TRUE]
    /\ WakeContinue(mConnectionWaiterQueue', flags)

WakeStep(w) ==
    /\ wake.at <= Len(mConnectionWaiterQueue)
    /\ w = mConnectionWaiterQueue[wake.at]
    /\ mLock # None
    /\ UNCHANGED <<poolVars, gcVars, pc, held, waiterOf, nonceCurrent,
                   cancelVars, countVars>>

\* The pool was closed: every waiter is unparked.
WakeClosed(w) ==
    /\ WakeStep(w)
    /\ ~mIsOpen
    /\ UnparkCurrent(w, wake)
    /\ UNCHANGED <<ownedVars, waiters>>

\* What the loop still tries for waiter w.
TriesNonPrimary(w) == ~waiters[w].mWantPrimaryConnection /\ ~wake.noNonPrimary
GetsNonPrimary(w) == TriesNonPrimary(w) /\ NonPrimaryAvailable

\* Mutant: the primary connection is offered only to those that insist on it.
TriesPrimaryIfWanted(w) == waiters[w].mWantPrimaryConnection /\ ~wake.noPrimary

TriesPrimary(w) == ~GetsNonPrimary(w) /\ ~wake.noPrimary

\* The flags after waiter w's turn.
WakeFlags(w) ==
    [wake EXCEPT
        !.noNonPrimary = @ \/ (TriesNonPrimary(w) /\ ~NonPrimaryAvailable),
        !.noPrimary = @ \/ (TriesPrimary(w) /\ ~PrimaryAvailable)]

WakeAssign(w, c) ==
    /\ WakeStep(w)
    /\ mIsOpen
    /\ \/ /\ GetsNonPrimary(w)
          /\ c \in NonPrimaryChoices
          /\ FinishAcquireConnection(c, FALSE)
       \/ /\ TriesPrimary(w) /\ PrimaryAvailable
          /\ c \in PrimaryChoices
          /\ FinishAcquireConnection(c, TRUE)
    /\ waiters' = [waiters EXCEPT ![w].mAssignedConnection = c]
    /\ UnparkCurrent(w, WakeFlags(w))

\* Opening a connection for waiter w throws: the waiter gets the exception.
WakeThrow(w) ==
    /\ WakeStep(w)
    /\ mIsOpen
    /\ \/ GetsNonPrimary(w) /\ mAvailableNonPrimaryConnections = {}
       \/ TriesPrimary(w) /\ PrimaryAvailable /\ mAvailablePrimaryConnection = None
    /\ waiters' = [waiters EXCEPT ![w].mException = "failed"]
    /\ UnparkCurrent(w, WakeFlags(w))
    /\ UNCHANGED ownedVars

\* Nothing for waiter w: go on to the next, unless neither kind is left.
WakeSkip(w) ==
    /\ WakeStep(w)
    /\ mIsOpen
    /\ ~GetsNonPrimary(w)
    /\ ~(TriesPrimary(w) /\ PrimaryAvailable)
    /\ LET flags == WakeFlags(w) IN
       IF flags.noPrimary /\ flags.noNonPrimary
       THEN mLock' = None /\ wake' = WakeStart
       ELSE WakeContinue(mConnectionWaiterQueue, [flags EXCEPT !.at = @ + 1])
    /\ UNCHANGED <<ownedVars, waitVars, permit>>

-----------------------------------------------------------------------------
(***************************************************************************)
(* waitForConnection                                                       *)
(***************************************************************************)
\* The first locked section returns a connection.
AcquireNow(t, wantPrimary, c) ==
    /\ pc[t] = "idle" /\ LockFree /\ mIsOpen
    /\ TryAcquire(wantPrimary, c)
    /\ held' = [held EXCEPT ![t] = c]
    /\ pc' = [pc EXCEPT ![t] = "holding"]
    /\ UNCHANGED <<poolVars, waitVars, lockVars, gcVars, waiterOf, nonceCurrent,
                   permit, cancelVars, countVars>>

\* It throws: the pool is closed, the signal is already canceled, or a
\* connection cannot be opened.
AcquireThrows(t, wantPrimary, sig) ==
    /\ pc[t] = "idle" /\ LockFree
    /\ ~mIsOpen \/ sig = "canceled" \/ OpenThrows(wantPrimary)
    /\ UNCHANGED vars

\* Mutant: before the first waiter of the same or a lower priority.
InsertPositionLifo(priority, i) ==
    /\ \A j \in 1..(i - 1) :
           waiters[mConnectionWaiterQueue[j]].mPriority > priority
    /\ i <= Len(mConnectionWaiterQueue) =>
           waiters[mConnectionWaiterQueue[i]].mPriority <= priority

\* Where waitForConnection inserts a waiter of the given priority: before the
\* first waiter of a lower priority.
InsertPosition(priority, i) ==
    /\ \A j \in 1..(i - 1) :
           waiters[mConnectionWaiterQueue[j]].mPriority >= priority
    /\ i <= Len(mConnectionWaiterQueue) =>
           waiters[mConnectionWaiterQueue[i]].mPriority < priority

\* The signal of a request that is not canceled yet.
Signals(t) == IF t \in Cancelable THEN {"none", "live"} ELSE {"none"}

\* It finds no connection and enqueues a waiter in priority order.
Enqueue(t, wantPrimary, sig, w) ==
    /\ pc[t] = "idle" /\ LockFree /\ mIsOpen
    /\ Unavailable(wantPrimary)
    /\ waiters[w].mThread = None
    /\ \E i \in 1..(Len(mConnectionWaiterQueue) + 1) :
           /\ InsertPosition(Priority(t), i)
           /\ mConnectionWaiterQueue' = InsertAt(mConnectionWaiterQueue, i, w)
    /\ waiters' = [waiters EXCEPT ![w] =
           [IdleWaiter EXCEPT !.mThread = t, !.mPriority = Priority(t),
                              !.mWantPrimaryConnection = wantPrimary]]
    /\ waiterOf' = [waiterOf EXCEPT ![t] = w]
    /\ nonceCurrent' = [nonceCurrent EXCEPT ![t] = TRUE]
    /\ signal' = [signal EXCEPT ![t] = sig]
    /\ pc' = [pc EXCEPT ![t] = "enqueued"]
    /\ UNCHANGED <<poolVars, ownedVars, lockVars, gcVars, held, permit,
                   listening, canceling, countVars>>

\* setOnCancelListener(listener), or nothing without a signal.  A signal that
\* was canceled in the meantime makes this thread call onCancel itself.
SetOnCancelListener(t) ==
    /\ pc[t] = "enqueued" /\ canceling[t] = "no"
    /\ listening' = [listening EXCEPT ![t] = signal[t] # "none"]
    /\ pc' = [pc EXCEPT ![t] = IF signal[t] = "canceled" THEN "onCancel"
                                                         ELSE "loop"]
    /\ UNCHANGED <<poolVars, ownedVars, waitVars, lockVars, gcVars, held,
                   waiterOf, nonceCurrent, permit, signal, canceling, countVars>>

\* cancelConnectionWaiterLocked looks for a waiter that is not done, and walks
\* off the end of the queue (an assertion or a NullPointerException) when the
\* waiter is not in it.
MustDequeue(t) == nonceCurrent[t] /\ ~Done(waiterOf[t])
WaiterMissing(t) ==
    MustDequeue(t) /\ ~Contains(mConnectionWaiterQueue, waiterOf[t])

\* The body of the listener, run by actor a for the request of thread t.
OnCancel(a, t) ==
    LET w == waiterOf[t] IN
    /\ LockFree
    /\ IF MustDequeue(t) /\ ~WaiterMissing(t)
       THEN /\ \E i \in 1..Len(mConnectionWaiterQueue) :
                   /\ mConnectionWaiterQueue[i] = w
                   /\ mConnectionWaiterQueue' = RemoveAt(mConnectionWaiterQueue, i)
            /\ waiters' = [waiters EXCEPT ![w].mException = "canceled"]
            /\ permit' = [permit EXCEPT ![waiters[w].mThread] = TRUE]
            /\ WakeConnectionWaiters(a, mConnectionWaiterQueue')
       ELSE UNCHANGED <<waitVars, permit, lockVars>>
    /\ UNCHANGED <<poolVars, ownedVars, gcVars, held, waiterOf, nonceCurrent,
                   signal, listening, countVars>>

\* An exception of the listener ends waitForConnection before its try block.
OnCancelBySelf(t) ==
    /\ pc[t] = "onCancel"
    /\ OnCancel(t, t)
    /\ pc' = [pc EXCEPT ![t] = IF WaiterMissing(t) THEN "finally" ELSE "loop"]
    /\ UNCHANGED canceling

\* Mutant: the flag is cleared and forgotten.
CheckLeakedAndForget(t) ==
    /\ pc[t] = "loop" /\ mLock # t
    /\ mConnectionLeaked' = FALSE
    /\ pc' = [pc EXCEPT ![t] = "park"]
    /\ UNCHANGED <<poolVars, ownedVars, waitVars, lockVars, finalizable, held,
                   waiterOf, nonceCurrent, permit, cancelVars, countVars>>

\* if (mConnectionLeaked.compareAndSet(true, false)) ...
CheckLeaked(t) ==
    /\ pc[t] = "loop" /\ mLock # t
    /\ mConnectionLeaked' = FALSE
    /\ pc' = [pc EXCEPT ![t] = IF mConnectionLeaked THEN "leakWake" ELSE "park"]
    /\ UNCHANGED <<poolVars, ownedVars, waitVars, lockVars, finalizable, held,
                   waiterOf, nonceCurrent, permit, cancelVars, countVars>>

\* ... synchronized (mLock) { wakeConnectionWaitersLocked(); }
WakeAfterLeak(t) ==
    /\ pc[t] = "leakWake" /\ LockFree
    /\ WakeConnectionWaiters(t, mConnectionWaiterQueue)
    /\ pc' = [pc EXCEPT ![t] = "park"]
    /\ UNCHANGED <<poolVars, ownedVars, waitVars, gcVars, held, waiterOf,
                   nonceCurrent, permit, cancelVars, countVars>>

\* LockSupport.parkNanos returns.
ParkReturns(t) ==
    /\ pc[t] = "park" /\ mLock # t
    /\ permit' = [permit EXCEPT ![t] = FALSE]
    /\ pc' = [pc EXCEPT ![t] = "check"]
    /\ UNCHANGED <<poolVars, ownedVars, waitVars, lockVars, gcVars, held,
                   waiterOf, nonceCurrent, cancelVars, countVars>>

\* ... because the thread was unparked,
Unparked(t) == permit[t] /\ ParkReturns(t)

\* ... or because of a timeout, an interrupt or for no reason.
ParkTimesOut(t) == t \in Impatient /\ ~permit[t] /\ ParkReturns(t)

\* Mutant: mNonce += 1 is missing.
RecycleKeepingNonce(w) ==
    /\ waiters' = [waiters EXCEPT ![w] = IdleWaiter]
    /\ UNCHANGED nonceCurrent

\* recycleConnectionWaiterLocked(w): its nonce no longer matches any other.
RecycleConnectionWaiter(w) ==
    /\ waiters' = [waiters EXCEPT ![w] = IdleWaiter]
    /\ nonceCurrent' = [t \in Threads |-> nonceCurrent[t] /\ waiterOf[t] # w]

\* The locked section after parking: the pool is closed, the wait is over or
\* it goes on.
CheckDone(t) ==
    LET w == waiterOf[t] IN
    /\ pc[t] = "check" /\ LockFree
    /\ IF mIsOpen /\ Done(w)
       THEN /\ held' = [held EXCEPT ![t] = waiters[w].mAssignedConnection]
            /\ RecycleConnectionWaiter(w)
       ELSE UNCHANGED <<held, waiters, nonceCurrent>>
    /\ pc' = [pc EXCEPT ![t] = IF mIsOpen /\ ~Done(w) THEN "loop" ELSE "finally"]
    /\ UNCHANGED <<poolVars, ownedVars, mConnectionWaiterQueue, lockVars, gcVars,
                   waiterOf, permit, cancelVars, countVars>>

\* setOnCancelListener(null) in the finally block, which waits for a cancel()
\* in progress.  The request is over: what only it refers to is garbage.
RemoveListener(t) ==
    /\ pc[t] = "finally" /\ canceling[t] = "no"
    /\ listening' = [listening EXCEPT ![t] = FALSE]
    /\ signal' = [signal EXCEPT ![t] = "none"]
    /\ waiters' = [w \in Waiters |->
                      IF waiters[w].mThread = t THEN IdleWaiter ELSE waiters[w]]
    /\ waiterOf' = [waiterOf EXCEPT ![t] = None]
    /\ nonceCurrent' = [nonceCurrent EXCEPT ![t] = FALSE]
    /\ pc' = [pc EXCEPT ![t] = IF held[t] = None THEN "idle" ELSE "holding"]
    /\ UNCHANGED <<poolVars, ownedVars, mConnectionWaiterQueue, lockVars, gcVars,
                   held, permit, canceling, countVars>>

-----------------------------------------------------------------------------
(***************************************************************************)
(* CancellationSignal.cancel() on the signal of thread t's request.        *)
(***************************************************************************)
Cancel(t) ==
    /\ pc[t] \in Waiting \cup {"finally"}
    /\ signal[t] = "live"
    /\ signal' = [signal EXCEPT ![t] = "canceled"]
    /\ canceling' = [canceling EXCEPT ![t] = IF listening[t] THEN "calling" ELSE "no"]
    /\ UNCHANGED <<poolVars, ownedVars, waitVars, lockVars, gcVars, threadVars,
                   listening, countVars>>

OnCancelByCanceler(t) ==
    /\ canceling[t] = "calling"
    /\ OnCancel(Outsider, t)
    /\ canceling' = [canceling EXCEPT ![t] = "returning"]
    /\ UNCHANGED pc

\* The listener has returned: mCancelInProgress = false, notifyAll().
CancelFinished(t) ==
    /\ canceling[t] = "returning" /\ mLock # Outsider
    /\ canceling' = [canceling EXCEPT ![t] = "no"]
    /\ UNCHANGED <<poolVars, ownedVars, waitVars, lockVars, gcVars, threadVars,
                   signal, listening, countVars>>

-----------------------------------------------------------------------------
(***************************************************************************)
(* releaseConnection                                                       *)
(***************************************************************************)
\* What recycleConnectionLocked can return: TRUE if the connection can be
\* used again, FALSE if it has been closed.
RecycleConnection(status) ==
    CASE status = "NORMAL"      -> {TRUE}
      [] status = "RECONFIGURE" -> BOOLEAN
      [] status = "DISCARD"     -> {FALSE}

Release(t) ==
    /\ pc[t] = "holding" /\ LockFree
    /\ held' = [held EXCEPT ![t] = None]
    /\ pc' = [pc EXCEPT ![t] = "idle"]
    /\ mAcquiredConnections' = [mAcquiredConnections EXCEPT ![held[t]] = "none"]
    /\ UNCHANGED <<poolVars, waitVars, gcVars, waiterOf, nonceCurrent, permit,
                   cancelVars, countVars>>

Excess(c) ==
    /\ ~conns[c].primary
    /\ Cardinality(mAvailableNonPrimaryConnections) >= mMaxConnectionPoolSize - 1

\* The pool is closed, or has enough non-primary connections.
ReleaseAndClose(t) ==
    /\ Release(t)
    /\ ~mIsOpen \/ Excess(held[t])
    /\ conns' = Closed({held[t]})
    /\ UNCHANGED <<mAvailablePrimaryConnection, mAvailableNonPrimaryConnections,
                   lockVars>>

ReleaseAndRecycle(t) ==
    LET c == held[t]
        status == mAcquiredConnections[c] IN
    /\ Release(t)
    /\ mIsOpen /\ ~Excess(c)
    /\ \E recycled \in RecycleConnection(status) :
           /\ conns' =
                  IF ~recycled THEN Closed({c})
                  ELSE IF status = "NORMAL" THEN conns
                  ELSE [conns EXCEPT ![c].config = mConfiguration]
           /\ mAvailablePrimaryConnection' =
                  IF recycled /\ conns[c].primary THEN c
                  ELSE mAvailablePrimaryConnection
           /\ mAvailableNonPrimaryConnections' =
                  IF recycled /\ ~conns[c].primary
                  THEN mAvailableNonPrimaryConnections \cup {c}
                  ELSE mAvailableNonPrimaryConnections
    /\ WakeConnectionWaiters(t, mConnectionWaiterQueue)

-----------------------------------------------------------------------------
(***************************************************************************)
(* Leaks: a session goes away with its connection, the collector clears    *)
(* the weak reference the pool has to it, and its finalizer closes it and  *)
(* sets the flag of onConnectionLeaked.                                    *)
(***************************************************************************)
Abandon(t) ==
    /\ leaks < MaxLeaks
    /\ pc[t] = "holding" /\ mLock # t
    /\ held' = [held EXCEPT ![t] = None]
    /\ pc' = [pc EXCEPT ![t] = "idle"]
    /\ leaks' = leaks + 1
    /\ UNCHANGED <<poolVars, ownedVars, waitVars, lockVars, gcVars, waiterOf,
                   nonceCurrent, permit, cancelVars, reconfigs>>

Collect(c) ==
    /\ c \in Acquired \ Referenced
    /\ mAcquiredConnections' = [mAcquiredConnections EXCEPT ![c] = "none"]
    /\ finalizable' = finalizable \cup {c}
    /\ UNCHANGED <<poolVars, mAvailablePrimaryConnection,
                   mAvailableNonPrimaryConnections, conns, waitVars, lockVars,
                   mConnectionLeaked, threadVars, cancelVars, countVars>>

OnConnectionLeaked(c) ==
    /\ c \in finalizable
    /\ finalizable' = finalizable \ {c}
    /\ conns' = Closed({c})
    /\ mConnectionLeaked' = TRUE
    /\ UNCHANGED <<poolVars, mAvailablePrimaryConnection,
                   mAvailableNonPrimaryConnections, mAcquiredConnections,
                   waitVars, lockVars, threadVars, cancelVars, countVars>>

-----------------------------------------------------------------------------
(***************************************************************************)
(* close and reconfigure, called by the SQLiteDatabase.                    *)
(***************************************************************************)
Available == mAvailableNonPrimaryConnections
                 \cup ({mAvailablePrimaryConnection} \ {None})

Close ==
    /\ LockFree /\ mIsOpen
    /\ mIsOpen' = FALSE
    /\ conns' = Closed(Available)
    /\ mAvailablePrimaryConnection' = None
    /\ mAvailableNonPrimaryConnections' = {}
    /\ WakeConnectionWaiters(Outsider, mConnectionWaiterQueue)
    /\ UNCHANGED <<mConfiguration, mMaxConnectionPoolSize, mAcquiredConnections,
                   waitVars, gcVars, threadVars, cancelVars, countVars>>

\* Mutant: connections in use are not marked.
MarkNothing(status) == UNCHANGED mAcquiredConnections

\* markAcquiredConnectionsLocked(status)
MarkAcquiredConnections(status) ==
    mAcquiredConnections' = [c \in Conns |->
        IF mAcquiredConnections[c] \in {"none", "DISCARD"}
        THEN mAcquiredConnections[c] ELSE status]

\* reconfigure(config) is refused while connections are acquired if it
\* changes the WAL or the foreign key mode.
NeedsIdlePool(config) == \/ config.wal # mConfiguration.wal
                         \/ config.foreignKeys # mConfiguration.foreignKeys

ChangesOpenFlags(config) == \/ config.wal # mConfiguration.wal
                            \/ config.readOnly # mConfiguration.readOnly

Reconfigure(config) ==
    /\ LockFree /\ mIsOpen
    /\ reconfigs < MaxReconfigs
    /\ reconfigs' = reconfigs + 1
    /\ NeedsIdlePool(config) => Acquired = {}
    /\ UNCHANGED <<mIsOpen, waitVars, gcVars, threadVars, cancelVars, leaks>>

SetConfiguration(config) ==
    /\ mConfiguration' = config
    /\ mMaxConnectionPoolSize' = MaxConnectionPoolSize(config)

\* New open flags: a new primary connection replaces all others.
Reopen(config, c) ==
    /\ Reconfigure(config)
    /\ ChangesOpenFlags(config)
    /\ c \in Fresh
    /\ conns' = [Closed(Available) EXCEPT
                     ![c] = [open |-> TRUE, primary |-> TRUE, config |-> config]]
    /\ mAvailablePrimaryConnection' = c
    /\ mAvailableNonPrimaryConnections' = {}
    /\ MarkAcquiredConnections("DISCARD")
    /\ SetConfiguration(config)
    /\ WakeConnectionWaiters(Outsider, mConnectionWaiterQueue)

\* Opening it throws.  If the WAL mode was to change, what was available has
\* been closed already.
ReopenThrows(config) ==
    /\ Reconfigure(config)
    /\ ChangesOpenFlags(config)
    /\ IF config.wal # mConfiguration.wal
       THEN /\ conns' = Closed(Available)
            /\ mAvailablePrimaryConnection' = None
            /\ mAvailableNonPrimaryConnections' = {}
       ELSE UNCHANGED <<conns, mAvailablePrimaryConnection,
                        mAvailableNonPrimaryConnections>>
    /\ UNCHANGED <<mConfiguration, mMaxConnectionPoolSize, mAcquiredConnections,
                   lockVars>>

\* The same open flags: available connections are reconfigured in place, and
\* closed if they are in excess or (broken) cannot be.
ReconfigureInPlace(config, broken) ==
    /\ Reconfigure(config)
    /\ config # mConfiguration /\ ~ChangesOpenFlags(config)
    /\ broken \subseteq Available
    /\ Cardinality(mAvailableNonPrimaryConnections \ broken)
           <= MaxConnectionPoolSize(config) - 1
    /\ conns' = [c \in Conns |->
           CASE c \in broken -> ClosedConnection
             [] c \in Available \ broken -> [conns[c] EXCEPT !.config = config]
             [] OTHER -> conns[c]]
    /\ mAvailablePrimaryConnection' =
           IF mAvailablePrimaryConnection \in broken THEN None
           ELSE mAvailablePrimaryConnection
    /\ mAvailableNonPrimaryConnections' = mAvailableNonPrimaryConnections \ broken
    /\ MarkAcquiredConnections("RECONFIGURE")
    /\ SetConfiguration(config)
    /\ WakeConnectionWaiters(Outsider, mConnectionWaiterQueue)

\* The configurations SQLiteDatabase asks for: one setting at a time, never
\* back to read-only, and no WAL for a read-only database.
NextConfigs ==
    {config \in Configs :
        /\ Cardinality({f \in DOMAIN config : config[f] # mConfiguration[f]}) = 1
        /\ config.readOnly => mConfiguration.readOnly
        /\ config.wal /\ ~mConfiguration.wal => ~mConfiguration.readOnly}

-----------------------------------------------------------------------------
Init ==
    /\ mIsOpen = TRUE
    /\ mConfiguration = InitialConfig
    /\ mMaxConnectionPoolSize = MaxConnectionPoolSize(InitialConfig)
    /\ mAvailablePrimaryConnection = CHOOSE c \in Conns : TRUE
    /\ mAvailableNonPrimaryConnections = {}
    /\ mAcquiredConnections = [c \in Conns |-> "none"]
    /\ conns = [c \in Conns |->
                   [open |-> c = mAvailablePrimaryConnection,
                    primary |-> c = mAvailablePrimaryConnection,
                    config |-> InitialConfig]]
    /\ mConnectionWaiterQueue = <<>>
    /\ waiters = [w \in Waiters |-> IdleWaiter]
    /\ mConnectionLeaked = FALSE
    /\ finalizable = {}
    /\ mLock = None
    /\ wake = WakeStart
    /\ pc = [t \in Threads |-> "idle"]
    /\ held = [t \in Threads |-> None]
    /\ waiterOf = [t \in Threads |-> None]
    /\ nonceCurrent = [t \in Threads |-> FALSE]
    /\ permit = [t \in Threads |-> FALSE]
    /\ signal = [t \in Threads |-> "none"]
    /\ listening = [t \in Threads |-> FALSE]
    /\ canceling = [t \in Threads |-> "no"]
    /\ reconfigs = 0
    /\ leaks = 0

WakeLoop == \E w \in Waiters : \/ WakeClosed(w)
                               \/ \E c \in Conns : WakeAssign(w, c)
                               \/ WakeThrow(w)
                               \/ WakeSkip(w)

Acquire(t) ==
    \E wantPrimary \in BOOLEAN :
        \/ \E c \in Conns : AcquireNow(t, wantPrimary, c)
        \/ \E sig \in Signals(t) \cup {"canceled"} :
               AcquireThrows(t, wantPrimary, sig)
        \/ \E sig \in Signals(t), w \in Waiters :
               Enqueue(t, wantPrimary, sig, w)

Wait(t) == \/ SetOnCancelListener(t) \/ OnCancelBySelf(t)
           \/ CheckLeaked(t) \/ WakeAfterLeak(t)
           \/ CheckDone(t) \/ RemoveListener(t)

ReleaseConnection(t) == ReleaseAndClose(t) \/ ReleaseAndRecycle(t)

Canceler(t) == OnCancelByCanceler(t) \/ CancelFinished(t)

Collector == \E c \in Conns : Collect(c) \/ OnConnectionLeaked(c)

Database == \/ Close
            \/ \E config \in NextConfigs :
                   \/ \E c \in Conns : Reopen(config, c)
                   \/ ReopenThrows(config)
                   \/ \E broken \in SUBSET Available :
                          ReconfigureInPlace(config, broken)

Next == \/ WakeLoop
        \/ Collector
        \/ Database
        \/ \E t \in Threads : \/ Acquire(t) \/ Wait(t)
                              \/ Unparked(t) \/ ParkTimesOut(t)
                              \/ Cancel(t) \/ Canceler(t)
                              \/ ReleaseConnection(t) \/ Abandon(t)

Spec == Init /\ [][Next]_vars

-----------------------------------------------------------------------------
(***************************************************************************)
(* Safety                                                                  *)
(***************************************************************************)
\* "At any given time, a connection is either owned by the pool, or it has been
\* acquired by a session": no connection is used by two threads, handed to a
\* waiter while a thread has it, or available while acquired, and none that is
\* available or in use has been closed by a release, reconfigure() or close().
ExclusiveOwnership ==
    /\ \A t, u \in Threads : held[t] = held[u] /\ held[t] # None => t = u
    /\ \A v, w \in Waiters :
           /\ waiters[v].mAssignedConnection = waiters[w].mAssignedConnection
           /\ waiters[v].mAssignedConnection # None
           => v = w
    /\ \A t \in Threads, w \in Waiters :
           held[t] # None => held[t] # waiters[w].mAssignedConnection
    /\ \A t \in Threads : held[t] # None => held[t] \in Acquired
    /\ \A w \in Waiters : waiters[w].mAssignedConnection # None =>
                               waiters[w].mAssignedConnection \in Acquired
    /\ Acquired \cap Available = {}
    /\ \A c \in Acquired \cup Available : conns[c].open

\* The assertion of releaseConnection (mAvailablePrimaryConnection == null) can
\* never fail: of the primary connections that will go back to the pool there is
\* at most one, even while reconfigure() has replaced one that is in use.
SinglePrimary ==
    \A c \in Acquired :
        conns[c].primary /\ mAcquiredConnections[c] # "DISCARD" =>
            /\ mAvailablePrimaryConnection = None
            /\ \A d \in Acquired :
                   conns[d].primary /\ mAcquiredConnections[d] # "DISCARD" => d = c

\* What ExclusiveOwnership and SinglePrimary need to be inductive: a connection
\* is available as what it is, one that waits for its finalizer is out of the
\* pool but not closed, and a thread knows its waiter and its connection.
OwnershipInv ==
    /\ ExclusiveOwnership
    /\ SinglePrimary
    /\ mAvailablePrimaryConnection # None =>
           conns[mAvailablePrimaryConnection].primary
    /\ \A c \in mAvailableNonPrimaryConnections : ~conns[c].primary
    /\ \A c \in finalizable : conns[c].open /\ c \notin Acquired \cup Available
    /\ \A t \in Threads :
           /\ pc[t] \in Waiting => waiterOf[t] \in Waiters
           /\ pc[t] = "holding" => held[t] # None

\* "Configuration changes are propagated down to connections immediately if they
\* are available or as soon as they are released": an available connection, and
\* one that will be made available as it is, has the pool's configuration.
ConfigurationPropagated ==
    \A c \in Conns :
        c \in Available \/ mAcquiredConnections[c] = "NORMAL" =>
            conns[c].config = mConfiguration

\* A collected connection the waiters have not been told about yet.
LeakPending == \/ mConnectionLeaked
               \/ finalizable # {}
               \/ \E t \in Threads : pc[t] = "leakWake"

\* No lost wakeup: whenever mLock is free, nothing in the pool could serve any
\* of the queued waiters, although releasing an excess connection, a failed
\* reconfigure() and a first request do not call wakeConnectionWaitersLocked.
NoStarvedWaiter ==
    mIsOpen /\ LockFree /\ ~LeakPending =>
        \A i \in DOMAIN mConnectionWaiterQueue :
            Unavailable(waiters[mConnectionWaiterQueue[i]].mWantPrimaryConnection)

\* A thread whose waiter was taken out of the queue (served, canceled, or by
\* close()) and that has not looked since will not sleep: its permit is set.
NoLostUnpark ==
    \A t \in Threads :
        /\ pc[t] \in Waiting \ {"check"}
        /\ ~Contains(mConnectionWaiterQueue, waiterOf[t])
        => permit[t]

\* The nonce keeps a late onCancel away from a waiter that has been recycled for
\* another thread: a request is canceled only by its own signal.
CanceledOnlyByOwnSignal ==
    \A w \in Waiters :
        waiters[w].mException = "canceled" => signal[waiters[w].mThread] = "canceled"

\* No overtaking: a connection is never given to a request while a waiter ahead
\* of it (any waiter, for a thread that has just asked) would have taken it,
\* unless a leaked connection made room that nobody has been told of.
WouldTake(w, c) == ~waiters[w].mWantPrimaryConnection \/ conns'[c].primary
Overtaken == IF LockFree THEN DOMAIN mConnectionWaiterQueue ELSE 1..(wake.at - 1)
NoOvertaking ==
    [][\A c \in Acquired' \ Acquired :
          LeakPending \/ \A i \in Overtaken :
                             ~WouldTake(mConnectionWaiterQueue[i], c)]_vars

(***************************************************************************)
(* Liveness.  Threads and the thread of cancel() get to run; sessions      *)
(* release what they hold, or leave it to the collector; a parked thread   *)
(* runs once it is unparked.  That a park times out (after 30 seconds) is  *)
(* assumed only once a connection has leaked: without leaks notifications  *)
(* have to do.                                                             *)
(***************************************************************************)
Fairness ==
    /\ WF_vars(WakeLoop)
    /\ WF_vars(Collector)
    /\ \A t \in Threads : /\ WF_vars(Wait(t)) /\ WF_vars(Unparked(t))
                          /\ WF_vars(ReleaseConnection(t))
                          /\ WF_vars(Canceler(t))
                          /\ WF_vars(leaks > 0 /\ ParkTimesOut(t))

FairSpec == Spec /\ Fairness

\* Every request that waits gets a connection or an exception, by notifications
\* alone unless a connection leaks.
EveryRequestEnds ==
    \A t \in Threads : pc[t] \in Waiting ~> pc[t] \notin Waiting
-----------------------------------------------------------------------------
(***************************************************************************)
(* The inductive invariants about waiters and the queue                    *)
(***************************************************************************)
Queued == ToSet(mConnectionWaiterQueue)
WantsPrimary(i) == waiters[mConnectionWaiterQueue[i]].mWantPrimaryConnection

\* A request that waits, or whose listener may still be called, has a waiter of
\* its own; a waiter that is nobody's is blank.
WaitersOwned ==
    /\ \A t \in Threads : pc[t] \in Waiting \/ nonceCurrent[t] =>
           waiterOf[t] \in Waiters /\ waiters[waiterOf[t]].mThread = t
    /\ \A w \in Waiters : IF waiters[w].mThread = None THEN ~Done(w)
           ELSE /\ waiterOf[waiters[w].mThread] = w
                /\ pc[waiters[w].mThread] \in Waiting \cup {"finally"}

\* The queue holds each waiter once, and exactly those of the requests that wait
\* for a decision; close() empties it.
QueueInOrder ==
    /\ IsInjective(mConnectionWaiterQueue)
    /\ \A w \in Queued : /\ waiters[w].mThread # None /\ ~Done(w)
                         /\ pc[waiters[w].mThread] \in Waiting
    /\ \A t \in Threads : mIsOpen /\ pc[t] \in Waiting =>
           waiterOf[t] \in Queued \/ Done(waiterOf[t])
    /\ ~mIsOpen => wake.at = 1 /\ (LockFree => Queued = {})

\* onCancel is called, by cancel() or by the thread, only for a canceled signal,
\* and by cancel() only during the request.
SignalsInOrder ==
    \A t \in Threads :
        /\ canceling[t] # "no" \/ pc[t] = "onCancel" => signal[t] = "canceled"
        /\ pc[t] \in {"idle", "holding"} => canceling[t] = "no"

\* The wake loop has served whom it could of the waiters it has passed, and what
\* it takes to be used up is.
WakeLoopInOrder ==
    mIsOpen /\ ~LockFree /\ ~LeakPending =>
        /\ \A i \in DOMAIN mConnectionWaiterQueue :
               i < wake.at => Unavailable(WantsPrimary(i))
        /\ wake.noPrimary => ~PrimaryAvailable
        /\ wake.noNonPrimary => ~NonPrimaryAvailable

\* The type, ownership, and what is said of waiters, the queue and the wake loop.
QueueInv ==
    /\ TypeOK
    /\ OwnershipInv
    /\ WaitersOwned
    /\ QueueInOrder
    /\ SignalsInOrder
    /\ WakeLoopInOrder
=============================================================================
