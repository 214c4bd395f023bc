---------------------- MODULE SQLiteConnectionPoolProofs ----------------------
(***************************************************************************)
(* Proofs about SQLiteConnectionPool, for any number of threads,           *)
(* connections and waiters, any pool size and any bound.                   *)
(*                                                                         *)
(* First, type correctness and exclusive ownership of connections.  TypeOK *)
(* and OwnershipInv are inductive together: a thread that wakes up or      *)
(* releases is well typed because the ownership invariant gives it a       *)
(* waiter or a connection.  OwnershipInv is proved part by part: what the  *)
(* pool says of its connections, what threads and waiters refer to, and    *)
(* where threads are.                                                      *)
(*                                                                         *)
(* Then, the queue: a request taken out of it does not sleep on, a late    *)
(* cancellation misses a recycled waiter, no waiter is left asleep that    *)
(* could be served and none is overtaken; and what reconfigure() changes   *)
(* reaches every connection.  QueueInv is proved in two parts on top of    *)
(* TypeOK and OwnershipInv.  Waits is about waiters, the queue, permits    *)
(* and signals; most steps keep it because they leave the queue alone      *)
(* (WaitsFrame) or take one waiter out of it (WaitsDequeue).  Serves is    *)
(* about what the waiters in the queue could get: acquiring only makes     *)
(* less available, and every step that makes more available starts the     *)
(* wake loop.                                                              *)
(***************************************************************************)
EXTENDS SQLiteConnectionPool, SequenceFacts, FiniteSetTheorems, TLAPS

USE PoolAssumption

\* Removing the element at a position of a sequence leaves a sequence.
LEMMA RemoveAtType ==
    ASSUME NEW S, NEW s \in Seq(S), NEW i \in 1..Len(s)
    PROVE  RemoveAt(s, i) \in Seq(S)
<1>1. SubSeq(s, 1, i - 1) \in Seq(S) /\ SubSeq(s, i + 1, Len(s)) \in Seq(S)
  OBVIOUS
<1> QED BY <1>1 DEF RemoveAt

\* So does inserting one at any position, the end included.
LEMMA InsertAtType ==
    ASSUME NEW S, NEW s \in Seq(S), NEW i \in 1..(Len(s) + 1), NEW e \in S
    PROVE  InsertAt(s, i, e) \in Seq(S)
<1>1. SubSeq(s, 1, i - 1) \in Seq(S) /\ SubSeq(s, i, Len(s)) \in Seq(S)
  OBVIOUS
<1> QED BY <1>1 DEF InsertAt

\* Whatever the configuration, the pool may have a connection.
LEMMA MaxSizeType ==
    ASSUME NEW config PROVE MaxConnectionPoolSize(config) \in Nat \ {0}
<1>1. CASE ~HasCodec /\ config.wal
  BY <1>1 DEF MaxConnectionPoolSize
<1>2. CASE ~(~HasCodec /\ config.wal)
  BY <1>2 DEF MaxConnectionPoolSize
<1> QED BY <1>1, <1>2

\* The locals of the wake loop after a waiter's turn.
WakeLocals == [at : Nat \ {0}, noPrimary : BOOLEAN, noNonPrimary : BOOLEAN]

\* The loop starts with locals of that type,
LEMMA WakeStartType == WakeStart \in WakeLocals
BY DEF WakeStart, WakeLocals

\* a waiter's turn keeps the type and the position,
LEMMA WakeFlagsType ==
    ASSUME wake \in WakeLocals, NEW w \in Waiters
    PROVE  WakeFlags(w) \in WakeLocals /\ WakeFlags(w).at = wake.at
BY DEF WakeFlags, WakeLocals

\* so does going on to the next waiter,
LEMMA NextPositionType ==
    ASSUME NEW l \in WakeLocals PROVE [l EXCEPT !.at = @ + 1] \in WakeLocals
BY DEF WakeLocals

\* and the loop's end, which releases mLock.
LEMMA WakeContinueType ==
    ASSUME mLock \in Threads \cup {None, Outsider},
           NEW q, NEW l \in WakeLocals, WakeContinue(q, l)
    PROVE  mLock' \in Threads \cup {None, Outsider} /\ wake' \in WakeLocals
BY WakeStartType DEF WakeContinue

\* Calling wakeConnectionWaitersLocked() keeps or releases mLock.
LEMMA WakeConnectionWaitersType ==
    ASSUME NEW a \in Threads \cup {Outsider}, NEW q, WakeConnectionWaiters(a, q)
    PROVE  mLock' \in Threads \cup {None, Outsider} /\ wake' \in WakeLocals
BY WakeStartType DEF WakeConnectionWaiters

\* Taking an available or a new connection.
LEMMA FinishAcquireType ==
    ASSUME TypeOK, NEW c \in Conns, NEW primary \in BOOLEAN,
           FinishAcquireConnection(c, primary)
    PROVE  /\ mAvailablePrimaryConnection' \in Conns \cup {None}
           /\ mAvailableNonPrimaryConnections' \in SUBSET Conns
           /\ mAcquiredConnections' \in [Conns -> Statuses \cup {"none"}]
           /\ conns' \in [Conns -> [open : BOOLEAN, primary : BOOLEAN,
                                    config : Configs]]
<1>1. mConfiguration \in Configs /\ conns[c].open \in BOOLEAN
  BY DEF TypeOK, PoolTypeOK, OwnedTypeOK
<1>2. CASE conns[c].open
  BY <1>2 DEF TypeOK, OwnedTypeOK, FinishAcquireConnection, Statuses
<1>3. CASE ~conns[c].open
  BY <1>1, <1>3 DEF TypeOK, OwnedTypeOK, FinishAcquireConnection, Statuses
<1> QED BY <1>1, <1>2, <1>3

\* Giving a waiter a connection or an exception.
LEMMA WaiterUpdateType ==
    ASSUME waiters \in [Waiters -> WaiterType], NEW w
    PROVE  /\ \A c \in Conns : [waiters EXCEPT ![w].mAssignedConnection = c]
                                 \in [Waiters -> WaiterType]
           /\ \A e \in Exceptions : [waiters EXCEPT ![w].mException = e]
                                      \in [Waiters -> WaiterType]
<1>1. CASE w \in Waiters
  BY <1>1 DEF WaiterType
<1>2. CASE w \notin Waiters
  BY <1>2
<1> QED BY <1>1, <1>2

\* A pooled waiter is a waiter.
LEMMA IdleWaiterType == IdleWaiter \in WaiterType
BY DEF IdleWaiter, WaiterType, Exceptions

\* The listener, whether it finds its waiter or not.
LEMMA OnCancelType ==
    ASSUME TypeOK, NEW a \in Threads \cup {Outsider}, NEW t \in Threads,
           OnCancel(a, t)
    PROVE  WaitTypeOK'
<1> USE DEF TypeOK, WaitTypeOK
<1>1. CASE MustDequeue(t) /\ ~WaiterMissing(t)
  <2>1. mConnectionWaiterQueue' \in Seq(Waiters)
    BY <1>1, RemoveAtType DEF OnCancel
  <2>2. waiters' \in [Waiters -> WaiterType]
    <3>1. waiters' = [waiters EXCEPT ![waiterOf[t]].mException = "canceled"]
      BY <1>1 DEF OnCancel
    <3> QED BY <3>1, WaiterUpdateType DEF Exceptions
  <2>3. WakeConnectionWaiters(a, mConnectionWaiterQueue')
    BY <1>1 DEF OnCancel
  <2> QED BY <2>1, <2>2, <2>3, WakeConnectionWaitersType DEF WakeLocals
<1>2. CASE ~(MustDequeue(t) /\ ~WaiterMissing(t))
  BY <1>2 DEF OnCancel, waitVars, lockVars
<1> QED BY <1>1, <1>2

\* What the listener does to the thread it unparks.
LEMMA OnCancelThreadType ==
    ASSUME TypeOK, NEW a, NEW t \in Threads, OnCancel(a, t)
    PROVE  /\ permit' \in [Threads -> BOOLEAN]
           /\ UNCHANGED <<held, waiterOf, nonceCurrent, signal, listening>>
<1> USE DEF TypeOK, ThreadTypeOK
<1>1. CASE MustDequeue(t) /\ ~WaiterMissing(t)
  BY <1>1 DEF OnCancel
<1>2. CASE ~(MustDequeue(t) /\ ~WaiterMissing(t))
  BY <1>2 DEF OnCancel
<1> QED BY <1>1, <1>2

\* Closing connections keeps the type of the connection objects.
LEMMA ClosedType ==
    ASSUME TypeOK, NEW S
    PROVE  Closed(S) \in [Conns -> [open : BOOLEAN, primary : BOOLEAN,
                                    config : Configs]]
BY DEF TypeOK, OwnedTypeOK, Closed, ClosedConnection

\* The invariants hold of a pool that has just been opened.
LEMMA InitInv == Init => TypeOK /\ OwnershipInv
<1> SUFFICES ASSUME Init PROVE TypeOK /\ OwnershipInv
  OBVIOUS
<1>0. mAvailablePrimaryConnection \in Conns
  BY DEF Init
<1>1. PoolTypeOK
  BY MaxSizeType DEF Init, PoolTypeOK
<1>2. OwnedTypeOK
  BY <1>0 DEF Init, OwnedTypeOK, ClosedConnection, Statuses
<1>3. WaitTypeOK
  BY DEF Init, WaitTypeOK, IdleWaiter, WakeStart, WaiterType, Exceptions
<1>4. ThreadTypeOK
  BY DEF Init, ThreadTypeOK, Phases
<1>5. OwnershipInv
  BY <1>0 DEF Init, OwnershipInv, ExclusiveOwnership, SinglePrimary, Acquired,
         Available, Referenced, IdleWaiter, Waiting, ClosedConnection
<1> QED BY <1>1, <1>2, <1>3, <1>4, <1>5 DEF TypeOK

\* Every step keeps the types; CheckDone and the releases also need that a
\* waiting thread has a waiter and a holding one a connection.
LEMMA TypeStep == TypeOK /\ OwnershipInv /\ [Next]_vars => TypeOK'
<1> SUFFICES ASSUME TypeOK, OwnershipInv, [Next]_vars PROVE TypeOK'
  OBVIOUS
<1> USE DEF TypeOK, PoolTypeOK, OwnedTypeOK, WaitTypeOK, ThreadTypeOK, poolVars,
            ownedVars, waitVars, lockVars, gcVars, threadVars, cancelVars,
            countVars, Phases, Waiting
<1>1. ASSUME NEW w \in Waiters, WakeClosed(w)
      PROVE  TypeOK'
  <2>1. PoolTypeOK'
    BY <1>1
    DEF WakeClosed, WakeStep, UnparkCurrent, WakeContinue, WakeStart,
        NextConfigs
  <2>2. OwnedTypeOK'
    BY <1>1
    DEF WakeClosed, WakeStep, UnparkCurrent, WakeContinue, WakeStart,
        Statuses, NextConfigs, OwnershipInv, Available
  <2>3. WaitTypeOK'
    BY <1>1, RemoveAtType, WakeContinueType
    DEF WakeClosed, WakeStep, UnparkCurrent, WakeLocals
  <2>4. ThreadTypeOK'
    BY <1>1
    DEF WakeClosed, WakeStep, UnparkCurrent, WakeContinue, WakeStart,
        WaiterType, OwnershipInv
  <2> QED BY <2>1, <2>2, <2>3, <2>4
<1>2. ASSUME NEW w \in Waiters, NEW c \in Conns, WakeAssign(w, c)
      PROVE  TypeOK'
  <2>1. PoolTypeOK'
    BY <1>2
    DEF WakeAssign, WakeStep, UnparkCurrent, WakeContinue, WakeStart,
        WakeFlags, FinishAcquireConnection, NextConfigs
  <2>2. OwnedTypeOK'
    BY <1>2, FinishAcquireType
    DEF WakeAssign, WakeStep
  <2>3. WaitTypeOK'
    <3>1. mConnectionWaiterQueue' \in Seq(Waiters)
      BY <1>2, RemoveAtType DEF WakeAssign, WakeStep, UnparkCurrent
    <3>2. waiters' \in [Waiters -> WaiterType]
      BY <1>2, WaiterUpdateType DEF WakeAssign, Exceptions
    <3>3. WakeFlags(w) \in WakeLocals
      BY WakeFlagsType DEF WakeLocals
    <3>4. WakeContinue(mConnectionWaiterQueue', WakeFlags(w))
      BY <1>2 DEF WakeAssign, UnparkCurrent
    <3> QED BY <3>1, <3>2, <3>3, <3>4, WakeContinueType DEF WakeLocals
  <2>4. ThreadTypeOK'
    BY <1>2
    DEF WakeAssign, WakeStep, UnparkCurrent, WakeContinue, WakeStart,
        WakeFlags, FinishAcquireConnection, WaiterType, OwnershipInv
  <2> QED BY <2>1, <2>2, <2>3, <2>4
<1>3. ASSUME NEW w \in Waiters, WakeThrow(w)
      PROVE  TypeOK'
  <2>1. PoolTypeOK'
    BY <1>3
    DEF WakeThrow, WakeStep, UnparkCurrent, WakeContinue, WakeStart,
        WakeFlags, NextConfigs
  <2>2. OwnedTypeOK'
    BY <1>3
    DEF WakeThrow, WakeStep, UnparkCurrent, WakeContinue, WakeStart,
        WakeFlags, Statuses, NextConfigs, OwnershipInv, Available
  <2>3. WaitTypeOK'
    <3>1. mConnectionWaiterQueue' \in Seq(Waiters)
      BY <1>3, RemoveAtType DEF WakeThrow, WakeStep, UnparkCurrent
    <3>2. waiters' \in [Waiters -> WaiterType]
      BY <1>3, WaiterUpdateType DEF WakeThrow, Exceptions
    <3>3. WakeFlags(w) \in WakeLocals
      BY WakeFlagsType DEF WakeLocals
    <3>4. WakeContinue(mConnectionWaiterQueue', WakeFlags(w))
      BY <1>3 DEF WakeThrow, UnparkCurrent
    <3> QED BY <3>1, <3>2, <3>3, <3>4, WakeContinueType DEF WakeLocals
  <2>4. ThreadTypeOK'
    BY <1>3
    DEF WakeThrow, WakeStep, UnparkCurrent, WakeContinue, WakeStart,
        WakeFlags, WaiterType, OwnershipInv
  <2> QED BY <2>1, <2>2, <2>3, <2>4
<1>4. ASSUME NEW w \in Waiters, WakeSkip(w)
      PROVE  TypeOK'
  <2>1. PoolTypeOK'
    BY <1>4
    DEF WakeSkip, WakeStep, WakeContinue, WakeStart, WakeFlags, NextConfigs
  <2>2. OwnedTypeOK'
    BY <1>4
    DEF WakeSkip, WakeStep, WakeContinue, WakeStart, WakeFlags, Statuses,
        NextConfigs, OwnershipInv, Available
  <2>3. WaitTypeOK'
    <3>1. WakeFlags(w) \in WakeLocals /\ wake.at \in Nat \ {0}
      BY WakeFlagsType DEF WakeLocals
    <3>2. [WakeFlags(w) EXCEPT !.at = @ + 1] \in WakeLocals
      BY <3>1, NextPositionType
    <3>3. mLock' \in Threads \cup {None, Outsider} /\ wake' \in WakeLocals
      BY <1>4, <3>2, WakeContinueType, WakeStartType DEF WakeSkip
    <3> QED BY <1>4, <3>3 DEF WakeSkip, WakeLocals
  <2>4. ThreadTypeOK'
    BY <1>4
    DEF WakeSkip, WakeStep, WakeContinue, WakeStart, WakeFlags, WaiterType,
        OwnershipInv
  <2> QED BY <2>1, <2>2, <2>3, <2>4
<1>5. ASSUME NEW c \in Conns, Collect(c)
      PROVE  TypeOK'
  <2>1. PoolTypeOK'
    BY <1>5
    DEF Collect, NextConfigs
  <2>2. OwnedTypeOK'
    BY <1>5
    DEF Collect, Statuses, NextConfigs, OwnershipInv, Available
  <2>3. WaitTypeOK'
    BY <1>5
    DEF Collect, WaiterType, Exceptions
  <2>4. ThreadTypeOK'
    BY <1>5
    DEF Collect, WaiterType, OwnershipInv
  <2> QED BY <2>1, <2>2, <2>3, <2>4
<1>6. ASSUME NEW c \in Conns, OnConnectionLeaked(c)
      PROVE  TypeOK'
  <2>1. PoolTypeOK'
    BY <1>6
    DEF OnConnectionLeaked, Closed, ClosedConnection, NextConfigs
  <2>2. OwnedTypeOK'
    BY <1>6
    DEF OnConnectionLeaked, Closed, ClosedConnection, Statuses, NextConfigs,
        OwnershipInv, Available
  <2>3. WaitTypeOK'
    BY <1>6
    DEF OnConnectionLeaked, Closed, ClosedConnection, WaiterType, Exceptions
  <2>4. ThreadTypeOK'
    BY <1>6
    DEF OnConnectionLeaked, Closed, ClosedConnection, WaiterType,
        OwnershipInv
  <2> QED BY <2>1, <2>2, <2>3, <2>4
<1>7. ASSUME Close
      PROVE  TypeOK'
  <2>1. PoolTypeOK'
    BY <1>7
    DEF Close, Closed, ClosedConnection, WakeConnectionWaiters, WakeStart,
        NextConfigs
  <2>2. OwnedTypeOK'
    BY <1>7
    DEF Close, Closed, ClosedConnection, WakeConnectionWaiters, WakeStart,
        Statuses, NextConfigs, OwnershipInv, Available
  <2>3. WaitTypeOK'
    BY <1>7
    DEF Close, Closed, ClosedConnection, WakeConnectionWaiters, WakeStart,
        WaiterType, Exceptions
  <2>4. ThreadTypeOK'
    BY <1>7
    DEF Close, Closed, ClosedConnection, WakeConnectionWaiters, WakeStart,
        WaiterType, OwnershipInv
  <2> QED BY <2>1, <2>2, <2>3, <2>4
<1>8. ASSUME NEW config \in NextConfigs, NEW c \in Conns, Reopen(config, c)
      PROVE  TypeOK'
  <2>1. PoolTypeOK'
    BY <1>8, MaxSizeType
    DEF Reopen, Reconfigure, SetConfiguration, NextConfigs
  <2>2. OwnedTypeOK'
    BY <1>8
    DEF Reopen, Reconfigure, Closed, ClosedConnection,
        MarkAcquiredConnections, SetConfiguration, WakeConnectionWaiters,
        WakeStart, Statuses, NextConfigs, OwnershipInv, Available
  <2>3. WaitTypeOK'
    BY <1>8
    DEF Reopen, Reconfigure, Closed, ClosedConnection,
        MarkAcquiredConnections, SetConfiguration, WakeConnectionWaiters,
        WakeStart, WaiterType, Exceptions
  <2>4. ThreadTypeOK'
    BY <1>8
    DEF Reopen, Reconfigure, Closed, ClosedConnection,
        MarkAcquiredConnections, SetConfiguration, WakeConnectionWaiters,
        WakeStart, WaiterType, OwnershipInv
  <2> QED BY <2>1, <2>2, <2>3, <2>4
<1>9. ASSUME NEW config \in NextConfigs, ReopenThrows(config)
      PROVE  TypeOK'
  <2>1. PoolTypeOK'
    BY <1>9
    DEF ReopenThrows, Reconfigure, Closed, ClosedConnection, NextConfigs
  <2>2. OwnedTypeOK'
    <3>1. Closed(Available) \in [Conns -> [open : BOOLEAN, primary : BOOLEAN,
                                           config : Configs]]
      BY DEF Closed, ClosedConnection
    <3> QED BY <1>9, <3>1 DEF ReopenThrows, Reconfigure
  <2>3. WaitTypeOK'
    BY <1>9
    DEF ReopenThrows, Reconfigure, Closed, ClosedConnection, WaiterType,
        Exceptions
  <2>4. ThreadTypeOK'
    BY <1>9
    DEF ReopenThrows, Reconfigure, Closed, ClosedConnection, WaiterType,
        OwnershipInv
  <2> QED BY <2>1, <2>2, <2>3, <2>4
<1>10. ASSUME NEW config \in NextConfigs, NEW broken \in SUBSET Available,
             ReconfigureInPlace(config, broken)
      PROVE  TypeOK'
  <2>1. PoolTypeOK'
    BY <1>10, MaxSizeType
    DEF ReconfigureInPlace, Reconfigure, SetConfiguration, NextConfigs
  <2>2. OwnedTypeOK'
    <3>1. config \in Configs
      BY <1>10 DEF NextConfigs
    <3>2. conns' \in [Conns -> [open : BOOLEAN, primary : BOOLEAN,
                               config : Configs]]
      <4>1. conns' = [d \in Conns |->
                CASE d \in broken -> ClosedConnection
                  [] d \in Available \ broken -> [conns[d] EXCEPT !.config = config]
                  [] OTHER -> conns[d]]
        BY <1>10 DEF ReconfigureInPlace
      <4>2. \A d \in Conns : [conns[d] EXCEPT !.config = config]
                \in [open : BOOLEAN, primary : BOOLEAN, config : Configs]
        BY <3>1
      <4>3. ClosedConnection \in [open : BOOLEAN, primary : BOOLEAN, config : Configs]
        BY DEF ClosedConnection
      <4> QED BY <4>1, <4>2, <4>3
    <3>3. mAcquiredConnections' \in [Conns -> Statuses \cup {"none"}]
      BY <1>10 DEF ReconfigureInPlace, MarkAcquiredConnections, Statuses
    <3>4. /\ mAvailablePrimaryConnection' \in Conns \cup {None}
          /\ mAvailableNonPrimaryConnections' \in SUBSET Conns
          /\ finalizable' \in SUBSET Conns
      BY <1>10 DEF ReconfigureInPlace, Reconfigure
    <3> QED BY <3>2, <3>3, <3>4
  <2>3. WaitTypeOK'
    BY <1>10
    DEF ReconfigureInPlace, Reconfigure, ClosedConnection,
        MarkAcquiredConnections, SetConfiguration, WakeConnectionWaiters,
        WakeStart, WaiterType, Exceptions
  <2>4. ThreadTypeOK'
    BY <1>10
    DEF ReconfigureInPlace, Reconfigure, ClosedConnection,
        MarkAcquiredConnections, SetConfiguration, WakeConnectionWaiters,
        WakeStart, WaiterType, OwnershipInv
  <2> QED BY <2>1, <2>2, <2>3, <2>4
<1>11. ASSUME NEW t \in Threads, NEW wantPrimary \in BOOLEAN, NEW c \in
             Conns, AcquireNow(t, wantPrimary, c)
      PROVE  TypeOK'
  <2>1. PoolTypeOK'
    BY <1>11
    DEF AcquireNow, TryAcquire, FinishAcquireConnection, NextConfigs
  <2>2. OwnedTypeOK'
    BY <1>11, FinishAcquireType
    DEF AcquireNow, TryAcquire
  <2>3. WaitTypeOK'
    BY <1>11
    DEF AcquireNow, TryAcquire, FinishAcquireConnection, WaiterType,
        Exceptions
  <2>4. ThreadTypeOK'
    BY <1>11
    DEF AcquireNow, TryAcquire, FinishAcquireConnection, WaiterType,
        OwnershipInv
  <2> QED BY <2>1, <2>2, <2>3, <2>4
<1>12. ASSUME NEW t \in Threads, NEW wantPrimary \in BOOLEAN, NEW sig,
             AcquireThrows(t, wantPrimary, sig)
      PROVE  TypeOK'
  BY <1>12 DEF AcquireThrows, vars
<1>13. ASSUME NEW t \in Threads, NEW wantPrimary \in BOOLEAN, NEW sig \in
             Signals(t), NEW w \in Waiters, Enqueue(t, wantPrimary, sig, w)
      PROVE  TypeOK'
  <2>1. PoolTypeOK'
    BY <1>13
    DEF Enqueue, IdleWaiter, Priority, Signals, NextConfigs
  <2>2. OwnedTypeOK'
    BY <1>13
    DEF Enqueue, IdleWaiter, Priority, Signals, Statuses, NextConfigs,
        OwnershipInv, Available
  <2>3. WaitTypeOK'
    <3>1. mConnectionWaiterQueue' \in Seq(Waiters)
      BY <1>13, InsertAtType DEF Enqueue
    <3>2. [IdleWaiter EXCEPT !.mThread = t, !.mPriority = Priority(t),
                             !.mWantPrimaryConnection = wantPrimary] \in WaiterType
      BY <1>13 DEF IdleWaiter, WaiterType, Exceptions, Priority
    <3> QED BY <1>13, <3>1, <3>2 DEF Enqueue
  <2>4. ThreadTypeOK'
    BY <1>13
    DEF Enqueue, IdleWaiter, Priority, Signals, WaiterType, OwnershipInv
  <2> QED BY <2>1, <2>2, <2>3, <2>4
<1>14. ASSUME NEW t \in Threads, SetOnCancelListener(t)
      PROVE  TypeOK'
  <2>1. PoolTypeOK'
    BY <1>14
    DEF SetOnCancelListener, NextConfigs
  <2>2. OwnedTypeOK'
    BY <1>14
    DEF SetOnCancelListener, Statuses, NextConfigs, OwnershipInv, Available
  <2>3. WaitTypeOK'
    BY <1>14
    DEF SetOnCancelListener, WaiterType, Exceptions
  <2>4. ThreadTypeOK'
    BY <1>14
    DEF SetOnCancelListener, WaiterType, OwnershipInv
  <2> QED BY <2>1, <2>2, <2>3, <2>4
<1>15. ASSUME NEW t \in Threads, OnCancelBySelf(t)
      PROVE  TypeOK'
  <2>1. PoolTypeOK'
    BY <1>15
    DEF OnCancelBySelf, OnCancel, WakeConnectionWaiters, WakeStart,
        NextConfigs
  <2>2. OwnedTypeOK'
    BY <1>15
    DEF OnCancelBySelf, OnCancel, WakeConnectionWaiters, WakeStart,
        Statuses, NextConfigs, OwnershipInv, Available
  <2>3. WaitTypeOK'
    BY <1>15, OnCancelType DEF OnCancelBySelf
  <2>4. ThreadTypeOK'
    BY <1>15, OnCancelThreadType
    DEF OnCancelBySelf
  <2> QED BY <2>1, <2>2, <2>3, <2>4
<1>16. ASSUME NEW t \in Threads, CheckLeaked(t)
      PROVE  TypeOK'
  BY <1>16 DEF CheckLeaked
<1>17. ASSUME NEW t \in Threads, WakeAfterLeak(t)
      PROVE  TypeOK'
  <2>1. PoolTypeOK'
    BY <1>17
    DEF WakeAfterLeak, WakeConnectionWaiters, WakeStart, NextConfigs
  <2>2. OwnedTypeOK'
    BY <1>17
    DEF WakeAfterLeak, WakeConnectionWaiters, WakeStart, Statuses,
        NextConfigs, OwnershipInv, Available
  <2>3. WaitTypeOK'
    BY <1>17
    DEF WakeAfterLeak, WakeConnectionWaiters, WakeStart, WaiterType,
        Exceptions
  <2>4. ThreadTypeOK'
    BY <1>17
    DEF WakeAfterLeak, WakeConnectionWaiters, WakeStart, WaiterType,
        OwnershipInv
  <2> QED BY <2>1, <2>2, <2>3, <2>4
<1>18. ASSUME NEW t \in Threads, CheckDone(t)
      PROVE  TypeOK'
  <2>1. PoolTypeOK'
    BY <1>18
    DEF CheckDone, RecycleConnectionWaiter, IdleWaiter, NextConfigs
  <2>2. OwnedTypeOK'
    BY <1>18
    DEF CheckDone, RecycleConnectionWaiter, IdleWaiter, Statuses,
        NextConfigs, OwnershipInv, Available
  <2>3. WaitTypeOK'
    BY <1>18, IdleWaiterType DEF CheckDone, RecycleConnectionWaiter
  <2>4. ThreadTypeOK'
    <3>1. waiterOf[t] \in Waiters
      BY <1>18 DEF CheckDone, OwnershipInv
    <3>2. waiters[waiterOf[t]].mAssignedConnection \in Conns \cup {None}
      BY <3>1 DEF WaiterType
    <3>3. held' \in [Threads -> Conns \cup {None}]
      <4>1. \/ held' = held
            \/ held' = [held EXCEPT ![t] = waiters[waiterOf[t]].mAssignedConnection]
        BY <1>18 DEF CheckDone
      <4> QED BY <3>2, <4>1
    <3>4. nonceCurrent' \in [Threads -> BOOLEAN]
      <4>1. CASE mIsOpen /\ Done(waiterOf[t])
        <5>1. nonceCurrent' = [u \in Threads |->
                                  nonceCurrent[u] /\ waiterOf[u] # waiterOf[t]]
          BY <1>18, <4>1 DEF CheckDone, RecycleConnectionWaiter
        <5>2. \A u \in Threads :
                 (nonceCurrent[u] /\ waiterOf[u] # waiterOf[t]) \in BOOLEAN
          OBVIOUS
        <5> QED BY <5>1, <5>2
      <4>2. CASE ~(mIsOpen /\ Done(waiterOf[t]))
        BY <1>18, <4>2 DEF CheckDone
      <4> QED BY <4>1, <4>2
    <3> QED BY <1>18, <3>3, <3>4 DEF CheckDone
  <2> QED BY <2>1, <2>2, <2>3, <2>4
<1>19. ASSUME NEW t \in Threads, RemoveListener(t)
      PROVE  TypeOK'
  <2>1. PoolTypeOK'
    BY <1>19
    DEF RemoveListener, IdleWaiter, NextConfigs
  <2>2. OwnedTypeOK'
    BY <1>19
    DEF RemoveListener, IdleWaiter, Statuses, NextConfigs, OwnershipInv,
        Available
  <2>3. WaitTypeOK'
    BY <1>19
    DEF RemoveListener, IdleWaiter, WaiterType, Exceptions
  <2>4. ThreadTypeOK'
    BY <1>19
    DEF RemoveListener, IdleWaiter, WaiterType, OwnershipInv
  <2> QED BY <2>1, <2>2, <2>3, <2>4
<1>20. ASSUME NEW t \in Threads, ParkReturns(t)
      PROVE  TypeOK'
  BY <1>20 DEF ParkReturns
<1>21. ASSUME NEW t \in Threads, Cancel(t)
      PROVE  TypeOK'
  BY <1>21 DEF Cancel
<1>22. ASSUME NEW t \in Threads, OnCancelByCanceler(t)
      PROVE  TypeOK'
  <2>1. PoolTypeOK'
    BY <1>22
    DEF OnCancelByCanceler, OnCancel, WakeConnectionWaiters, WakeStart,
        NextConfigs
  <2>2. OwnedTypeOK'
    BY <1>22
    DEF OnCancelByCanceler, OnCancel, WakeConnectionWaiters, WakeStart,
        Statuses, NextConfigs, OwnershipInv, Available
  <2>3. WaitTypeOK'
    BY <1>22, OnCancelType DEF OnCancelByCanceler
  <2>4. ThreadTypeOK'
    BY <1>22, OnCancelThreadType
    DEF OnCancelByCanceler
  <2> QED BY <2>1, <2>2, <2>3, <2>4
<1>23. ASSUME NEW t \in Threads, CancelFinished(t)
      PROVE  TypeOK'
  BY <1>23 DEF CancelFinished
<1>24. ASSUME NEW t \in Threads, ReleaseAndClose(t)
      PROVE  TypeOK'
  <2>1. PoolTypeOK'
    BY <1>24
    DEF ReleaseAndClose, Release, Closed, ClosedConnection, NextConfigs
  <2>2. OwnedTypeOK'
    BY <1>24
    DEF ReleaseAndClose, Release, Closed, ClosedConnection, Statuses,
        NextConfigs, OwnershipInv, Available
  <2>3. WaitTypeOK'
    BY <1>24
    DEF ReleaseAndClose, Release, Closed, ClosedConnection, WaiterType,
        Exceptions
  <2>4. ThreadTypeOK'
    BY <1>24
    DEF ReleaseAndClose, Release, Closed, ClosedConnection, WaiterType,
        OwnershipInv
  <2> QED BY <2>1, <2>2, <2>3, <2>4
<1>25. ASSUME NEW t \in Threads, ReleaseAndRecycle(t)
      PROVE  TypeOK'
  <2>1. PoolTypeOK'
    BY <1>25
    DEF ReleaseAndRecycle, Release, Closed, ClosedConnection,
        WakeConnectionWaiters, WakeStart, NextConfigs
  <2>2. OwnedTypeOK'
    <3> DEFINE c == held[t]
    <3>1. c \in Conns
      BY <1>25 DEF ReleaseAndRecycle, Release, OwnershipInv
    <3>2. PICK recycled \in RecycleConnection(mAcquiredConnections[c]) :
             /\ conns' = IF ~recycled THEN Closed({c})
                         ELSE IF mAcquiredConnections[c] = "NORMAL" THEN conns
                         ELSE [conns EXCEPT ![c].config = mConfiguration]
             /\ mAvailablePrimaryConnection' =
                    IF recycled /\ conns[c].primary THEN c
                    ELSE mAvailablePrimaryConnection
             /\ mAvailableNonPrimaryConnections' =
                    IF recycled /\ ~conns[c].primary
                    THEN mAvailableNonPrimaryConnections \cup {c}
                    ELSE mAvailableNonPrimaryConnections
      BY <1>25 DEF ReleaseAndRecycle
    <3>3. conns' \in [Conns -> [open : BOOLEAN, primary : BOOLEAN,
                               config : Configs]]
      <4>1. [conns EXCEPT ![c].config = mConfiguration]
               \in [Conns -> [open : BOOLEAN, primary : BOOLEAN,
                              config : Configs]]
        BY <3>1
      <4>2. \/ conns' = Closed({c})
            \/ conns' = conns
            \/ conns' = [conns EXCEPT ![c].config = mConfiguration]
        BY <3>2
      <4>3. Closed({c}) \in [Conns -> [open : BOOLEAN, primary : BOOLEAN,
                                      config : Configs]]
        BY ClosedType
      <4> QED BY <4>1, <4>2, <4>3
    <3>4. /\ mAvailablePrimaryConnection' \in Conns \cup {None}
          /\ mAvailableNonPrimaryConnections' \in SUBSET Conns
      BY <3>1, <3>2
    <3>5. mAcquiredConnections' \in [Conns -> Statuses \cup {"none"}]
      BY <1>25 DEF ReleaseAndRecycle, Release
    <3>6. finalizable' = finalizable
      BY <1>25 DEF ReleaseAndRecycle, Release
    <3> QED BY <3>3, <3>4, <3>5, <3>6
  <2>3. WaitTypeOK'
    BY <1>25
    DEF ReleaseAndRecycle, Release, Closed, ClosedConnection,
        WakeConnectionWaiters, WakeStart, WaiterType, Exceptions
  <2>4. ThreadTypeOK'
    BY <1>25
    DEF ReleaseAndRecycle, Release, Closed, ClosedConnection,
        WakeConnectionWaiters, WakeStart, WaiterType, OwnershipInv
  <2> QED BY <2>1, <2>2, <2>3, <2>4
<1>26. ASSUME NEW t \in Threads, Abandon(t)
      PROVE  TypeOK'
  BY <1>26 DEF Abandon
<1>27. CASE UNCHANGED vars
  BY <1>27 DEF vars
<1> HIDE DEF TypeOK, PoolTypeOK, OwnedTypeOK, WaitTypeOK, ThreadTypeOK
<1>28. CASE WakeLoop \/ Collector \/ Database
  <2>1. CASE WakeLoop
    BY <1>1, <1>2, <1>3, <1>4, <2>1 DEF WakeLoop
  <2>2. CASE Collector
    BY <1>5, <1>6, <2>2 DEF Collector
  <2>3. CASE Database
    BY <1>7, <1>8, <1>9, <1>10, <2>3 DEF Database
  <2> QED BY <1>28, <2>1, <2>2, <2>3
<1>29. ASSUME NEW t \in Threads,
              \/ Acquire(t) \/ Wait(t) \/ Unparked(t) \/ ParkTimesOut(t)
              \/ Cancel(t) \/ Canceler(t) \/ ReleaseConnection(t) \/ Abandon(t)
       PROVE  TypeOK'
  BY <1>11, <1>12, <1>13, <1>14, <1>15, <1>16, <1>17, <1>18, <1>19, <1>20,
     <1>21, <1>22, <1>23, <1>24, <1>25, <1>26, <1>29
  DEF Acquire, Wait, Unparked, ParkTimesOut, Canceler, ReleaseConnection
<1> QED BY <1>27, <1>28, <1>29 DEF Next

\* The parts of the ownership invariant: the connections the pool knows, who
\* refers to them, and what a thread knows.
PoolPart ==
    /\ Acquired \cap Available = {}
    /\ \A c \in Acquired \cup Available : conns[c].open
    /\ SinglePrimary
    /\ mAvailablePrimaryConnection # None =>
           conns[mAvailablePrimaryConnection].primary
    /\ \A c \in mAvailableNonPrimaryConnections : ~conns[c].primary
    /\ \A c \in finalizable : conns[c].open /\ c \notin Acquired \cup Available

ReferencePart ==
    /\ \A t, u \in Threads : held[t] = held[u] /\ held[t] # None => t = u
    /\ \A v, w \in Waiters :
           /\ waiters[v].mAssignedConnection = waiters[w].mAssignedConnection
           /\ waiters[v].mAssignedConnection # None
           => v = w
    /\ \A t \in Threads, w \in Waiters :
           held[t] # None => held[t] # waiters[w].mAssignedConnection
    /\ \A t \in Threads : held[t] # None => held[t] \in Acquired
    /\ \A w \in Waiters : waiters[w].mAssignedConnection # None =>
                              waiters[w].mAssignedConnection \in Acquired

ThreadPart ==
    \A t \in Threads : /\ pc[t] \in Waiting => waiterOf[t] \in Waiters
                       /\ pc[t] = "holding" => held[t] # None

\* The three parts are the invariant.
LEMMA Parts == OwnershipInv <=> PoolPart /\ ReferencePart /\ ThreadPart
BY DEF OwnershipInv, ExclusiveOwnership, PoolPart, ReferencePart, ThreadPart

\* Taking a connection of the right kind, available or new, keeps the pool's
\* part, and nobody referred to that connection before.
LEMMA FinishAcquirePool ==
    ASSUME TypeOK, TypeOK', PoolPart, NEW c \in Conns, NEW primary \in BOOLEAN,
           FinishAcquireConnection(c, primary), UNCHANGED finalizable,
           IF primary THEN PrimaryAvailable /\ c \in PrimaryChoices
                      ELSE c \in NonPrimaryChoices
    PROVE  PoolPart' /\ c \notin Acquired /\ Acquired' = Acquired \cup {c}
<1> USE DEF TypeOK, OwnedTypeOK, Acquired, Available
<1>1. c \notin Acquired /\ c \notin finalizable
  BY DEF PrimaryChoices, NonPrimaryChoices, Fresh, PoolPart
<1>2. Acquired' = Acquired \cup {c}
  BY DEF FinishAcquireConnection
<1>3. Available' = Available \ {c}
  BY <1>1 DEF FinishAcquireConnection
<1>4. /\ conns'[c].open
      /\ conns'[c].primary = primary
      /\ \A d \in Conns \ {c} : conns'[d] = conns[d]
  BY DEF FinishAcquireConnection, PrimaryChoices, NonPrimaryChoices, Fresh, PoolPart
<1>5. SinglePrimary'
  <2>1. CASE primary
    BY <1>1, <1>4, <2>1
    DEF FinishAcquireConnection, PrimaryAvailable, PrimaryChoices, PoolPart,
        SinglePrimary
  <2>2. CASE ~primary
    BY <1>1, <1>4, <2>2
    DEF FinishAcquireConnection, NonPrimaryChoices, PoolPart, SinglePrimary
  <2> QED BY <2>1, <2>2
<1>6. \A d \in finalizable' : conns'[d].open /\ d \notin (Acquired \cup Available)'
  BY <1>1, <1>2, <1>3, <1>4 DEF PoolPart
<1> QED
  BY <1>1, <1>2, <1>3, <1>4, <1>5, <1>6 DEF PoolPart, FinishAcquireConnection

\* A step that does not touch connections or references.
LEMMA SameReferences ==
    ASSUME TypeOK, OwnershipInv, UNCHANGED <<ownedVars, finalizable, held>>,
           \A w \in Waiters : waiters'[w].mAssignedConnection
                                  = waiters[w].mAssignedConnection
    PROVE  PoolPart' /\ ReferencePart'
<1>1. PoolPart'
  BY Parts DEF PoolPart, ownedVars, Acquired, Available, SinglePrimary
<1>2. ReferencePart'
  BY Parts DEF ReferencePart, ownedVars, Acquired
<1> QED BY <1>1, <1>2

\* The listener takes no connection away from a waiter.
LEMMA OnCancelAssigned ==
    ASSUME TypeOK, NEW a, NEW t \in Threads, OnCancel(a, t)
    PROVE  \A v \in Waiters : waiters'[v].mAssignedConnection
                                  = waiters[v].mAssignedConnection
<1>1. \/ waiters' = waiters
      \/ waiters' = [waiters EXCEPT ![waiterOf[t]].mException = "canceled"]
  BY DEF OnCancel, waitVars
<1> QED BY <1>1 DEF TypeOK, WaitTypeOK, WaiterType

\* The ownership invariant is inductive relative to the types.
LEMMA OwnershipStep ==
    TypeOK /\ OwnershipInv /\ [Next]_vars => OwnershipInv'
<1> SUFFICES ASSUME TypeOK, OwnershipInv, [Next]_vars PROVE OwnershipInv'
  OBVIOUS
<1>0. /\ TypeOK' /\ PoolPart /\ ReferencePart /\ ThreadPart
      /\ OwnedTypeOK /\ WaitTypeOK /\ ThreadTypeOK
      /\ OwnedTypeOK' /\ WaitTypeOK' /\ ThreadTypeOK'
  BY TypeStep, Parts DEF TypeOK
<1>same. ASSUME UNCHANGED <<ownedVars, finalizable, held>>, ThreadPart',
                \A w \in Waiters : waiters'[w].mAssignedConnection
                                       = waiters[w].mAssignedConnection
         PROVE  OwnershipInv'
  <2>1. PoolPart' /\ ReferencePart'
    BY <1>same, SameReferences
  <2> QED BY <1>same, <2>1, Parts, PTL
<1>1. ASSUME NEW w \in Waiters, WakeClosed(w)
      PROVE  OwnershipInv'
  <2>1. UNCHANGED <<ownedVars, finalizable, held>>
    BY <1>1 DEF WakeClosed, WakeStep, gcVars, threadVars
  <2>2. ThreadPart'
    BY <1>0, <1>1 DEF WakeClosed, WakeStep, ThreadPart, ThreadTypeOK, Phases, Waiting,
           threadVars
  <2>3. \A v \in Waiters : waiters'[v].mAssignedConnection
                                = waiters[v].mAssignedConnection
    BY <1>0, <1>1 DEF WakeClosed, WakeStep, WaitTypeOK, WaiterType, waitVars,
           IdleWaiter
  <2> QED BY <1>same, <2>1, <2>2, <2>3
<1>2. ASSUME NEW w \in Waiters, NEW c \in Conns, WakeAssign(w, c)
      PROVE  OwnershipInv'
  <2>0. PoolPart' /\ c \notin Acquired /\ Acquired' = Acquired \cup {c}
    <3>1. UNCHANGED finalizable
      BY <1>2 DEF WakeAssign, WakeStep, gcVars
    <3>2. \/ c \in NonPrimaryChoices /\ FinishAcquireConnection(c, FALSE)
          \/ /\ PrimaryAvailable /\ c \in PrimaryChoices
             /\ FinishAcquireConnection(c, TRUE)
      BY <1>2 DEF WakeAssign
    <3> QED BY <1>0, <1>2, <3>1, <3>2, FinishAcquirePool
  <2>1. PoolPart'
    BY <2>0
  <2>2. ReferencePart'
    <3>1. UNCHANGED held
      BY <1>2 DEF WakeAssign, WakeStep
    <3>2. /\ waiters'[w].mAssignedConnection = c
          /\ \A v \in Waiters \ {w} : waiters'[v] = waiters[v]
      BY <1>0, <1>2 DEF WakeAssign, WaitTypeOK, WaiterType
    <3> QED BY <1>0, <1>2, <2>0, <3>1, <3>2 DEF ReferencePart
  <2>3. ThreadPart'
    BY <1>0, <1>2 DEF WakeAssign, WakeStep, UnparkCurrent, WakeContinue, WakeStart,
           WakeFlags, FinishAcquireConnection, ThreadPart, ThreadTypeOK,
           Phases, Waiting, threadVars
  <2> QED BY <2>1, <2>2, <2>3, Parts, PTL
<1>3. ASSUME NEW w \in Waiters, WakeThrow(w)
      PROVE  OwnershipInv'
  <2>1. UNCHANGED <<ownedVars, finalizable, held>>
    BY <1>3 DEF WakeThrow, WakeStep, gcVars, threadVars
  <2>2. ThreadPart'
    BY <1>0, <1>3 DEF WakeThrow, WakeStep, ThreadPart, ThreadTypeOK, Phases, Waiting,
           threadVars
  <2>3. \A v \in Waiters : waiters'[v].mAssignedConnection
                                = waiters[v].mAssignedConnection
    BY <1>0, <1>3 DEF WakeThrow, WakeStep, WaitTypeOK, WaiterType, waitVars, IdleWaiter
  <2> QED BY <1>same, <2>1, <2>2, <2>3
<1>4. ASSUME NEW w \in Waiters, WakeSkip(w)
      PROVE  OwnershipInv'
  <2>1. UNCHANGED <<ownedVars, finalizable, held>>
    BY <1>4 DEF WakeSkip, WakeStep, gcVars, threadVars
  <2>2. ThreadPart'
    BY <1>0, <1>4 DEF WakeSkip, WakeStep, ThreadPart, ThreadTypeOK, Phases, Waiting,
           threadVars
  <2>3. \A v \in Waiters : waiters'[v].mAssignedConnection
                                = waiters[v].mAssignedConnection
    BY <1>0, <1>4 DEF WakeSkip, WakeStep, WaitTypeOK, WaiterType, waitVars, IdleWaiter
  <2> QED BY <1>same, <2>1, <2>2, <2>3
<1>5. ASSUME NEW c \in Conns, Collect(c)
      PROVE  OwnershipInv'
  <2>1. PoolPart'
    BY <1>0, <1>5 DEF Collect, PoolPart, SinglePrimary, Acquired, Available, ownedVars,
           gcVars, OwnedTypeOK
  <2>2. ReferencePart'
    <3>1. UNCHANGED <<held, waiters>> /\ Acquired' = Acquired \ {c}
      BY <1>0, <1>5 DEF Collect, Acquired, waitVars, threadVars, OwnedTypeOK
    <3>2. /\ \A t \in Threads : held[t] # c
          /\ \A w \in Waiters : waiters[w].mAssignedConnection # c
      BY <1>5 DEF Collect, Referenced
    <3> QED BY <1>0, <3>1, <3>2 DEF ReferencePart
  <2>3. ThreadPart'
    BY <1>0, <1>5 DEF Collect, ThreadPart, ThreadTypeOK, Phases, Waiting, threadVars
  <2> QED BY <2>1, <2>2, <2>3, Parts, PTL
<1>6. ASSUME NEW c \in Conns, OnConnectionLeaked(c)
      PROVE  OwnershipInv'
  <2>1. PoolPart'
    BY <1>0, <1>6 DEF OnConnectionLeaked, Closed, ClosedConnection, PoolPart,
           SinglePrimary, Acquired, Available, ownedVars, gcVars,
           OwnedTypeOK
  <2>2. ReferencePart'
    BY <1>0, <1>6 DEF OnConnectionLeaked, Closed, ClosedConnection, ReferencePart,
           Acquired, ownedVars, waitVars, threadVars, OwnedTypeOK,
           WaitTypeOK, WaiterType, ThreadTypeOK
  <2>3. ThreadPart'
    BY <1>0, <1>6 DEF OnConnectionLeaked, Closed, ClosedConnection, ThreadPart,
           ThreadTypeOK, Phases, Waiting, threadVars
  <2> QED BY <2>1, <2>2, <2>3, Parts, PTL
<1>7. ASSUME Close
      PROVE  OwnershipInv'
  <2>1. PoolPart'
    BY <1>0, <1>7 DEF Close, Closed, ClosedConnection, WakeConnectionWaiters,
           WakeStart, PoolPart, SinglePrimary, Acquired, Available,
           ownedVars, gcVars, OwnedTypeOK
  <2>2. ReferencePart'
    BY <1>0, <1>7 DEF Close, Closed, ClosedConnection, WakeConnectionWaiters,
           WakeStart, ReferencePart, Acquired, ownedVars, waitVars,
           threadVars, OwnedTypeOK, WaitTypeOK, WaiterType, ThreadTypeOK
  <2>3. ThreadPart'
    BY <1>0, <1>7 DEF Close, Closed, ClosedConnection, WakeConnectionWaiters,
           WakeStart, ThreadPart, ThreadTypeOK, Phases, Waiting, threadVars
  <2> QED BY <2>1, <2>2, <2>3, Parts, PTL
<1>8. ASSUME NEW config \in NextConfigs, NEW c \in Conns, Reopen(config, c)
      PROVE  OwnershipInv'
  <2>1. PoolPart'
    <3>1. c \notin Acquired \cup Available \cup finalizable /\ ~conns[c].open
      BY <1>0, <1>8 DEF Reopen, Fresh, PoolPart
    <3>2. Acquired' = Acquired /\ Available' = {c} /\ finalizable' = finalizable
      BY <1>0, <1>8
      DEF Reopen, Reconfigure, MarkAcquiredConnections, Acquired, Available,
          gcVars, OwnedTypeOK, Statuses
    <3>3. \A d \in Acquired : mAcquiredConnections'[d] = "DISCARD"
      BY <1>0, <1>8 DEF Reopen, MarkAcquiredConnections, Acquired, OwnedTypeOK
    <3>4. /\ conns'[c] = [open |-> TRUE, primary |-> TRUE, config |-> config]
          /\ \A d \in Conns \ (Available \cup {c}) : conns'[d] = conns[d]
      BY <1>8 DEF Reopen, Closed
    <3>5. /\ mAvailablePrimaryConnection' = c
          /\ mAvailableNonPrimaryConnections' = {}
      BY <1>8 DEF Reopen
    <3>6. Acquired \subseteq Conns /\ finalizable \subseteq Conns
      BY <1>0 DEF Acquired, OwnedTypeOK
    <3>7. SinglePrimary'
      BY <3>2, <3>3 DEF SinglePrimary
    <3> QED BY <1>0, <3>1, <3>2, <3>4, <3>5, <3>6, <3>7 DEF PoolPart
  <2>2. ReferencePart'
    BY <1>0, <1>8 DEF Reopen, Reconfigure, Closed, ClosedConnection,
           MarkAcquiredConnections, SetConfiguration, WakeConnectionWaiters,
           WakeStart, ReferencePart, Acquired, ownedVars, waitVars,
           threadVars, OwnedTypeOK, WaitTypeOK, WaiterType, ThreadTypeOK
  <2>3. ThreadPart'
    BY <1>0, <1>8 DEF Reopen, Reconfigure, Closed, ClosedConnection,
           MarkAcquiredConnections, SetConfiguration, WakeConnectionWaiters,
           WakeStart, ThreadPart, ThreadTypeOK, Phases, Waiting, threadVars
  <2> QED BY <2>1, <2>2, <2>3, Parts, PTL
<1>9. ASSUME NEW config \in NextConfigs, ReopenThrows(config)
      PROVE  OwnershipInv'
  <2>1. PoolPart'
    BY <1>0, <1>9 DEF ReopenThrows, Reconfigure, Closed, ClosedConnection, PoolPart,
           SinglePrimary, Acquired, Available, ownedVars, gcVars,
           OwnedTypeOK
  <2>2. ReferencePart'
    BY <1>0, <1>9 DEF ReopenThrows, Reconfigure, Closed, ClosedConnection,
           ReferencePart, Acquired, ownedVars, waitVars, threadVars,
           OwnedTypeOK, WaitTypeOK, WaiterType, ThreadTypeOK
  <2>3. ThreadPart'
    BY <1>0, <1>9 DEF ReopenThrows, Reconfigure, Closed, ClosedConnection, ThreadPart,
           ThreadTypeOK, Phases, Waiting, threadVars
  <2> QED BY <2>1, <2>2, <2>3, Parts, PTL
<1>10. ASSUME NEW config \in NextConfigs, NEW broken \in SUBSET Available,
             ReconfigureInPlace(config, broken)
      PROVE  OwnershipInv'
  <2>1. PoolPart'
    BY <1>0, <1>10 DEF ReconfigureInPlace, Reconfigure, ClosedConnection,
           MarkAcquiredConnections, SetConfiguration, WakeConnectionWaiters,
           WakeStart, PoolPart, SinglePrimary, Acquired, Available,
           ownedVars, gcVars, OwnedTypeOK
  <2>2. ReferencePart'
    BY <1>0, <1>10 DEF ReconfigureInPlace, Reconfigure, ClosedConnection,
           MarkAcquiredConnections, SetConfiguration, WakeConnectionWaiters,
           WakeStart, ReferencePart, Acquired, ownedVars, waitVars,
           threadVars, OwnedTypeOK, WaitTypeOK, WaiterType, ThreadTypeOK
  <2>3. ThreadPart'
    BY <1>0, <1>10 DEF ReconfigureInPlace, Reconfigure, ClosedConnection,
           MarkAcquiredConnections, SetConfiguration, WakeConnectionWaiters,
           WakeStart, ThreadPart, ThreadTypeOK, Phases, Waiting, threadVars
  <2> QED BY <2>1, <2>2, <2>3, Parts, PTL
<1>11. ASSUME NEW t \in Threads, NEW wantPrimary \in BOOLEAN, NEW c \in
             Conns, AcquireNow(t, wantPrimary, c)
      PROVE  OwnershipInv'
  <2>0. PoolPart' /\ c \notin Acquired /\ Acquired' = Acquired \cup {c}
    <3>1. UNCHANGED finalizable
      BY <1>11 DEF AcquireNow, gcVars
    <3>2. \/ c \in NonPrimaryChoices /\ FinishAcquireConnection(c, FALSE)
          \/ /\ PrimaryAvailable /\ c \in PrimaryChoices
             /\ FinishAcquireConnection(c, TRUE)
      BY <1>11 DEF AcquireNow, TryAcquire
    <3> QED BY <1>0, <1>11, <3>1, <3>2, FinishAcquirePool
  <2>1. PoolPart'
    BY <2>0
  <2>2. ReferencePart'
    <3>1. UNCHANGED waiters
      BY <1>11 DEF AcquireNow, waitVars
    <3>2. held'[t] = c /\ \A u \in Threads \ {t} : held'[u] = held[u]
      BY <1>0, <1>11 DEF AcquireNow, ThreadTypeOK
    <3> QED BY <1>0, <1>11, <2>0, <3>1, <3>2 DEF ReferencePart
  <2>3. ThreadPart'
    BY <1>0, <1>11 DEF AcquireNow, TryAcquire, FinishAcquireConnection, ThreadPart,
           ThreadTypeOK, Phases, Waiting, threadVars
  <2> QED BY <2>1, <2>2, <2>3, Parts, PTL
<1>12. ASSUME NEW t \in Threads, NEW wantPrimary \in BOOLEAN, NEW sig,
             AcquireThrows(t, wantPrimary, sig)
      PROVE  OwnershipInv'
  <2>1. UNCHANGED <<ownedVars, finalizable, held>>
    BY <1>12 DEF AcquireThrows, vars, gcVars, threadVars
  <2>2. ThreadPart'
    BY <1>0, <1>12 DEF AcquireThrows, vars, ThreadPart, ThreadTypeOK, Phases, Waiting,
           threadVars
  <2>3. \A v \in Waiters : waiters'[v].mAssignedConnection
                                = waiters[v].mAssignedConnection
    BY <1>0, <1>12 DEF AcquireThrows, vars, WaitTypeOK, WaiterType, waitVars, IdleWaiter
  <2> QED BY <1>same, <2>1, <2>2, <2>3
<1>13. ASSUME NEW t \in Threads, NEW wantPrimary \in BOOLEAN, NEW sig \in
             Signals(t), NEW w \in Waiters, Enqueue(t, wantPrimary, sig, w)
      PROVE  OwnershipInv'
  <2>1. PoolPart' /\ ThreadPart'
    BY <1>0, <1>13
    DEF Enqueue, PoolPart, SinglePrimary, Acquired, Available, ownedVars, gcVars,
        ThreadPart, ThreadTypeOK, Phases, Waiting
  <2>2. ReferencePart'
    <3>1. /\ waiters'[w].mAssignedConnection = None
          /\ \A v \in Waiters \ {w} : waiters'[v] = waiters[v]
      BY <1>0, <1>13 DEF Enqueue, IdleWaiter, WaitTypeOK, WaiterType
    <3>2. UNCHANGED held /\ Acquired' = Acquired
      BY <1>13 DEF Enqueue, Acquired, ownedVars
    <3> QED BY <1>0, <3>1, <3>2 DEF ReferencePart
  <2> QED BY <2>1, <2>2, Parts, PTL
<1>14. ASSUME NEW t \in Threads, SetOnCancelListener(t)
      PROVE  OwnershipInv'
  <2>1. UNCHANGED <<ownedVars, finalizable, held>>
    BY <1>14 DEF SetOnCancelListener, gcVars, threadVars
  <2>2. ThreadPart'
    BY <1>0, <1>14 DEF SetOnCancelListener, ThreadPart, ThreadTypeOK, Phases, Waiting,
           threadVars
  <2>3. \A v \in Waiters : waiters'[v].mAssignedConnection
                                = waiters[v].mAssignedConnection
    BY <1>0, <1>14 DEF SetOnCancelListener, WaitTypeOK, WaiterType, waitVars, IdleWaiter
  <2> QED BY <1>same, <2>1, <2>2, <2>3
<1>15. ASSUME NEW t \in Threads, OnCancelBySelf(t)
      PROVE  OwnershipInv'
  <2>1. UNCHANGED <<ownedVars, finalizable, held>>
    BY <1>15 DEF OnCancelBySelf, OnCancel, gcVars, threadVars
  <2>2. ThreadPart'
    BY <1>0, <1>15 DEF OnCancelBySelf, OnCancel, ThreadPart, ThreadTypeOK, Phases,
           Waiting, threadVars
  <2>3. \A v \in Waiters : waiters'[v].mAssignedConnection
                               = waiters[v].mAssignedConnection
    BY <1>15, OnCancelAssigned DEF OnCancelBySelf
  <2> QED BY <1>same, <2>1, <2>2, <2>3
<1>16. ASSUME NEW t \in Threads, CheckLeaked(t)
      PROVE  OwnershipInv'
  <2>1. UNCHANGED <<ownedVars, finalizable, held>>
    BY <1>16 DEF CheckLeaked, gcVars, threadVars
  <2>2. ThreadPart'
    BY <1>0, <1>16 DEF CheckLeaked, ThreadPart, ThreadTypeOK, Phases, Waiting,
           threadVars
  <2>3. \A v \in Waiters : waiters'[v].mAssignedConnection
                                = waiters[v].mAssignedConnection
    BY <1>0, <1>16 DEF CheckLeaked, WaitTypeOK, WaiterType, waitVars, IdleWaiter
  <2> QED BY <1>same, <2>1, <2>2, <2>3
<1>17. ASSUME NEW t \in Threads, WakeAfterLeak(t)
      PROVE  OwnershipInv'
  <2>1. UNCHANGED <<ownedVars, finalizable, held>>
    BY <1>17 DEF WakeAfterLeak, gcVars, threadVars
  <2>2. ThreadPart'
    BY <1>0, <1>17 DEF WakeAfterLeak, ThreadPart, ThreadTypeOK, Phases, Waiting,
           threadVars
  <2>3. \A v \in Waiters : waiters'[v].mAssignedConnection
                                = waiters[v].mAssignedConnection
    BY <1>0, <1>17 DEF WakeAfterLeak, WaitTypeOK, WaiterType, waitVars, IdleWaiter
  <2> QED BY <1>same, <2>1, <2>2, <2>3
<1>18. ASSUME NEW t \in Threads, CheckDone(t)
      PROVE  OwnershipInv'
  <2>1. PoolPart'
    BY <1>0, <1>18 DEF CheckDone, RecycleConnectionWaiter, IdleWaiter, PoolPart,
           SinglePrimary, Acquired, Available, ownedVars, gcVars,
           OwnedTypeOK
  <2>2. ReferencePart'
    <3>1. CASE mIsOpen /\ Done(waiterOf[t])
      <4>1. waiterOf[t] \in Waiters
        BY <1>0, <1>18 DEF CheckDone, ThreadPart, Waiting
      <4>2. /\ held'[t] = waiters[waiterOf[t]].mAssignedConnection
            /\ \A u \in Threads \ {t} : held'[u] = held[u]
        BY <1>0, <1>18, <3>1 DEF CheckDone, ThreadTypeOK
      <4>3. /\ waiters'[waiterOf[t]].mAssignedConnection = None
            /\ \A v \in Waiters \ {waiterOf[t]} : waiters'[v] = waiters[v]
        BY <1>0, <1>18, <3>1, <4>1
        DEF CheckDone, RecycleConnectionWaiter, IdleWaiter, WaitTypeOK
      <4>4. Acquired' = Acquired
        BY <1>18 DEF CheckDone, Acquired, ownedVars
      <4> QED BY <1>0, <4>1, <4>2, <4>3, <4>4 DEF ReferencePart
    <3>2. CASE ~(mIsOpen /\ Done(waiterOf[t]))
      BY <1>0, <1>18, <3>2 DEF CheckDone, ReferencePart, Acquired, ownedVars
    <3> QED BY <3>1, <3>2
  <2>3. ThreadPart'
    BY <1>0, <1>18 DEF CheckDone, RecycleConnectionWaiter, IdleWaiter, ThreadPart,
           ThreadTypeOK, Phases, Waiting, threadVars
  <2> QED BY <2>1, <2>2, <2>3, Parts, PTL
<1>19. ASSUME NEW t \in Threads, RemoveListener(t)
      PROVE  OwnershipInv'
  <2>1. PoolPart'
    BY <1>0, <1>19 DEF RemoveListener, IdleWaiter, PoolPart, SinglePrimary, Acquired,
           Available, ownedVars, gcVars, OwnedTypeOK
  <2>2. ReferencePart'
    BY <1>0, <1>19 DEF RemoveListener, IdleWaiter, ReferencePart, Acquired, ownedVars,
           waitVars, threadVars, OwnedTypeOK, WaitTypeOK, WaiterType,
           ThreadTypeOK
  <2>3. ThreadPart'
    BY <1>0, <1>19 DEF RemoveListener, IdleWaiter, ThreadPart, ThreadTypeOK, Phases,
           Waiting, threadVars
  <2> QED BY <2>1, <2>2, <2>3, Parts, PTL
<1>20. ASSUME NEW t \in Threads, ParkReturns(t)
      PROVE  OwnershipInv'
  <2>1. UNCHANGED <<ownedVars, finalizable, held>>
    BY <1>20 DEF ParkReturns, gcVars, threadVars
  <2>2. ThreadPart'
    BY <1>0, <1>20 DEF ParkReturns, ThreadPart, ThreadTypeOK, Phases, Waiting,
           threadVars
  <2>3. \A v \in Waiters : waiters'[v].mAssignedConnection
                                = waiters[v].mAssignedConnection
    BY <1>0, <1>20 DEF ParkReturns, WaitTypeOK, WaiterType, waitVars, IdleWaiter
  <2> QED BY <1>same, <2>1, <2>2, <2>3
<1>21. ASSUME NEW t \in Threads, Cancel(t)
      PROVE  OwnershipInv'
  <2>1. UNCHANGED <<ownedVars, finalizable, held>>
    BY <1>21 DEF Cancel, gcVars, threadVars
  <2>2. ThreadPart'
    BY <1>0, <1>21 DEF Cancel, ThreadPart, ThreadTypeOK, Phases, Waiting, threadVars
  <2>3. \A v \in Waiters : waiters'[v].mAssignedConnection
                                = waiters[v].mAssignedConnection
    BY <1>0, <1>21 DEF Cancel, WaitTypeOK, WaiterType, waitVars, IdleWaiter
  <2> QED BY <1>same, <2>1, <2>2, <2>3
<1>22. ASSUME NEW t \in Threads, OnCancelByCanceler(t)
      PROVE  OwnershipInv'
  <2>1. UNCHANGED <<ownedVars, finalizable, held>>
    BY <1>22 DEF OnCancelByCanceler, OnCancel, gcVars, threadVars
  <2>2. ThreadPart'
    BY <1>0, <1>22 DEF OnCancelByCanceler, OnCancel, ThreadPart, ThreadTypeOK, Phases,
           Waiting, threadVars
  <2>3. \A v \in Waiters : waiters'[v].mAssignedConnection
                               = waiters[v].mAssignedConnection
    BY <1>22, OnCancelAssigned DEF OnCancelByCanceler
  <2> QED BY <1>same, <2>1, <2>2, <2>3
<1>23. ASSUME NEW t \in Threads, CancelFinished(t)
      PROVE  OwnershipInv'
  <2>1. UNCHANGED <<ownedVars, finalizable, held>>
    BY <1>23 DEF CancelFinished, gcVars, threadVars
  <2>2. ThreadPart'
    BY <1>0, <1>23 DEF CancelFinished, ThreadPart, ThreadTypeOK, Phases, Waiting,
           threadVars
  <2>3. \A v \in Waiters : waiters'[v].mAssignedConnection
                                = waiters[v].mAssignedConnection
    BY <1>0, <1>23 DEF CancelFinished, WaitTypeOK, WaiterType, waitVars, IdleWaiter
  <2> QED BY <1>same, <2>1, <2>2, <2>3
<1>24. ASSUME NEW t \in Threads, ReleaseAndClose(t)
      PROVE  OwnershipInv'
  <2>1. PoolPart'
    <3>1. held[t] \in Acquired /\ held[t] \in Conns /\ conns[held[t]].open
      BY <1>0, <1>24
      DEF ReleaseAndClose, Release, ThreadPart, ReferencePart, PoolPart, Acquired
    <3>2. /\ Acquired' = Acquired \ {held[t]}
          /\ finalizable' = finalizable
          /\ \A d \in Conns \ {held[t]} :
                 mAcquiredConnections'[d] = mAcquiredConnections[d]
      BY <1>0, <1>24, <3>1 DEF ReleaseAndClose, Release, Acquired, OwnedTypeOK, gcVars
    <3>3. Available' = Available /\ \A d \in Conns \ {held[t]} : conns'[d] = conns[d]
      BY <1>24 DEF ReleaseAndClose, Available, Closed
    <3>4. UNCHANGED <<mAvailablePrimaryConnection, mAvailableNonPrimaryConnections>>
      BY <1>24 DEF ReleaseAndClose
    <3>5. SinglePrimary'
      BY <1>0, <3>2, <3>3, <3>4 DEF PoolPart, SinglePrimary, Acquired
    <3>6. held[t] \notin Available /\ held[t] \notin finalizable
      BY <1>0, <3>1 DEF PoolPart
    <3>7. /\ Acquired \cup Available \cup finalizable \subseteq Conns
          /\ mAvailablePrimaryConnection # None =>
                 mAvailablePrimaryConnection \in Available
          /\ mAvailableNonPrimaryConnections \subseteq Available
      BY <1>0 DEF Acquired, Available, OwnedTypeOK
    <3> QED BY <1>0, <3>2, <3>3, <3>4, <3>5, <3>6, <3>7 DEF PoolPart
  <2>2. ReferencePart'
    BY <1>0, <1>24 DEF ReleaseAndClose, Release, Closed, ClosedConnection,
           ReferencePart, Acquired, ownedVars, waitVars, threadVars,
           OwnedTypeOK, WaitTypeOK, WaiterType, ThreadTypeOK
  <2>3. ThreadPart'
    BY <1>0, <1>24 DEF ReleaseAndClose, Release, Closed, ClosedConnection, ThreadPart,
           ThreadTypeOK, Phases, Waiting, threadVars
  <2> QED BY <2>1, <2>2, <2>3, Parts, PTL
<1>25. ASSUME NEW t \in Threads, ReleaseAndRecycle(t)
      PROVE  OwnershipInv'
  <2>1. PoolPart'
    <3>0. /\ Acquired \cup Available \cup finalizable \subseteq Conns
          /\ mAvailablePrimaryConnection # None =>
                 mAvailablePrimaryConnection \in Available
          /\ mAvailableNonPrimaryConnections \subseteq Available
      BY <1>0 DEF Acquired, Available, OwnedTypeOK
    <3>1. held[t] \in Acquired /\ held[t] \in Conns /\ conns[held[t]].open
      BY <1>0, <1>25
      DEF ReleaseAndRecycle, Release, ThreadPart, ReferencePart, PoolPart, Acquired
    <3>2. /\ Acquired' = Acquired \ {held[t]}
          /\ finalizable' = finalizable
          /\ \A d \in Conns \ {held[t]} :
                 mAcquiredConnections'[d] = mAcquiredConnections[d]
      BY <1>0, <1>25, <3>1 DEF ReleaseAndRecycle, Release, Acquired, OwnedTypeOK, gcVars
    <3>3. \A d \in Conns \ {held[t]} : conns'[d] = conns[d]
      BY <1>25 DEF ReleaseAndRecycle, Closed
    <3>4. PICK recycled \in RecycleConnection(mAcquiredConnections[held[t]]) :
             /\ recycled => conns'[held[t]].open
             /\ recycled => conns'[held[t]].primary = conns[held[t]].primary
             /\ mAvailablePrimaryConnection' =
                    IF recycled /\ conns[held[t]].primary THEN held[t]
                    ELSE mAvailablePrimaryConnection
             /\ mAvailableNonPrimaryConnections' =
                    IF recycled /\ ~conns[held[t]].primary
                    THEN mAvailableNonPrimaryConnections \cup {held[t]}
                    ELSE mAvailableNonPrimaryConnections
      BY <1>0, <1>25, <3>1 DEF ReleaseAndRecycle, OwnedTypeOK
    <3>5. /\ recycled \in BOOLEAN
          /\ recycled => mAcquiredConnections[held[t]] # "DISCARD"
      BY <1>0, <3>1, <3>4 DEF RecycleConnection, OwnedTypeOK, Statuses, Acquired
    <3>6. CASE ~recycled
      <4>1. UNCHANGED <<mAvailablePrimaryConnection,
                        mAvailableNonPrimaryConnections>>
        BY <3>4, <3>6
      <4>2. SinglePrimary'
        BY <1>0, <3>2, <3>3, <4>1 DEF PoolPart, SinglePrimary, Acquired
      <4>3. held[t] \notin Available /\ held[t] \notin finalizable
        BY <1>0, <3>1 DEF PoolPart
      <4>4. Available' = Available
        BY <4>1 DEF Available
      <4> QED BY <1>0, <3>0, <3>2, <3>3, <4>1, <4>2, <4>3, <4>4 DEF PoolPart
    <3>7. CASE recycled /\ conns[held[t]].primary
      <4>1. /\ mAvailablePrimaryConnection = None
            /\ \A d \in Acquired \ {held[t]} :
                   conns[d].primary => mAcquiredConnections[d] = "DISCARD"
        BY <1>0, <3>1, <3>5, <3>7 DEF PoolPart, SinglePrimary
      <4>2. /\ mAvailablePrimaryConnection' = held[t]
            /\ UNCHANGED mAvailableNonPrimaryConnections
        BY <3>4, <3>7
      <4>3. SinglePrimary'
        BY <3>2, <3>3, <4>1 DEF SinglePrimary, Acquired
      <4>4. held[t] \notin Available /\ held[t] \notin finalizable
        BY <1>0, <3>1 DEF PoolPart
      <4>5. Available' = Available \cup {held[t]}
        BY <1>0, <3>1, <4>1, <4>2 DEF Available
      <4> QED
        BY <1>0, <3>0, <3>1, <3>2, <3>3, <3>4, <3>7, <4>2, <4>3, <4>4, <4>5
        DEF PoolPart
    <3>8. CASE recycled /\ ~conns[held[t]].primary
      BY <1>0, <3>1, <3>2, <3>3, <3>4, <3>8
      DEF PoolPart, SinglePrimary, Acquired, Available, OwnedTypeOK
    <3> QED BY <3>6, <3>7, <3>8
  <2>2. ReferencePart'
    BY <1>0, <1>25 DEF ReleaseAndRecycle, Release, Closed, ClosedConnection,
           WakeConnectionWaiters, WakeStart, ReferencePart, Acquired,
           ownedVars, waitVars, threadVars, OwnedTypeOK, WaitTypeOK,
           WaiterType, ThreadTypeOK
  <2>3. ThreadPart'
    BY <1>0, <1>25 DEF ReleaseAndRecycle, Release, Closed, ClosedConnection,
           WakeConnectionWaiters, WakeStart, ThreadPart, ThreadTypeOK,
           Phases, Waiting, threadVars
  <2> QED BY <2>1, <2>2, <2>3, Parts, PTL
<1>26. ASSUME NEW t \in Threads, Abandon(t)
      PROVE  OwnershipInv'
  <2>1. PoolPart'
    BY <1>0, <1>26 DEF Abandon, PoolPart, SinglePrimary, Acquired, Available, ownedVars,
           gcVars, OwnedTypeOK
  <2>2. ReferencePart'
    BY <1>0, <1>26 DEF Abandon, ReferencePart, Acquired, ownedVars, waitVars,
           threadVars, OwnedTypeOK, WaitTypeOK, WaiterType, ThreadTypeOK
  <2>3. ThreadPart'
    BY <1>0, <1>26 DEF Abandon, ThreadPart, ThreadTypeOK, Phases, Waiting, threadVars
  <2> QED BY <2>1, <2>2, <2>3, Parts, PTL
<1>27. CASE UNCHANGED vars
  <2>1. UNCHANGED <<ownedVars, finalizable, held>> /\ ThreadPart'
    BY <1>0, <1>27 DEF vars, gcVars, threadVars, ThreadPart
  <2> QED BY <1>same, <1>27, <2>1 DEF vars, waitVars
<1> QED
  BY <1>1, <1>2, <1>3, <1>4, <1>5, <1>6, <1>7, <1>8, <1>9, <1>10, <1>11,
     <1>12, <1>13, <1>14, <1>15, <1>16, <1>17, <1>18, <1>19, <1>20, <1>21,
     <1>22, <1>23, <1>24, <1>25, <1>26, <1>27
     DEF Next, WakeLoop, Collector, Database, Acquire, Wait, Unparked,
         ParkTimesOut, Canceler, ReleaseConnection

-----------------------------------------------------------------------------
\* Both invariants hold in every reachable state.
LEMMA Invariance == Spec => [](TypeOK /\ OwnershipInv)
<1>1. TypeOK /\ OwnershipInv /\ [Next]_vars => (TypeOK /\ OwnershipInv)'
  BY TypeStep, OwnershipStep
<1> QED BY <1>1, InitInv, PTL DEF Spec

\* Whatever threads, cancelers, the finalizer and the database do, every field
\* of the pool, of its waiters and of the threads keeps its type.
THEOREM TypeCorrect == Spec => []TypeOK
BY Invariance, PTL

\* The ownership invariant, with what makes it inductive, holds always.
THEOREM OwnershipInvariant == Spec => []OwnershipInv
BY Invariance, PTL

\* A connection is never used by two threads, available while acquired, or
\* closed by releaseConnection(), reconfigure() or close() while in use.
THEOREM Ownership == Spec => []ExclusiveOwnership
<1>1. OwnershipInv => ExclusiveOwnership
  BY DEF OwnershipInv
<1> QED BY <1>1, Invariance, PTL

\* The assertion of releaseConnection() that there is no available primary
\* connection when one is released cannot fail.
THEOREM OnePrimary == Spec => []SinglePrimary
<1>1. OwnershipInv => SinglePrimary
  BY DEF OwnershipInv
<1> QED BY <1>1, Invariance, PTL

-----------------------------------------------------------------------------
(***************************************************************************)
(* The queue as a set                                                      *)
(***************************************************************************)
\* Positions and elements of the queue.
LEMMA QueueFacts ==
    ASSUME TypeOK
    PROVE  /\ mConnectionWaiterQueue \in Seq(Waiters)
           /\ Len(mConnectionWaiterQueue) \in Nat
           /\ DOMAIN mConnectionWaiterQueue = 1..Len(mConnectionWaiterQueue)
           /\ \A i \in 1..Len(mConnectionWaiterQueue) : mConnectionWaiterQueue[i] \in Queued
           /\ \A w \in Queued : \E i \in 1..Len(mConnectionWaiterQueue) :
                  w = mConnectionWaiterQueue[i]
           /\ Queued \subseteq Waiters
           /\ \A w : Contains(mConnectionWaiterQueue, w) <=> w \in Queued
           /\ mConnectionWaiterQueue = <<>> <=> Queued = {}
<1>1. mConnectionWaiterQueue \in Seq(Waiters)
  BY DEF TypeOK, WaitTypeOK
<1>2. /\ Len(mConnectionWaiterQueue) \in Nat
      /\ DOMAIN mConnectionWaiterQueue = 1..Len(mConnectionWaiterQueue)
      /\ mConnectionWaiterQueue # <<>> <=> Len(mConnectionWaiterQueue) > 0
      /\ \A i \in 1..Len(mConnectionWaiterQueue) : mConnectionWaiterQueue[i] \in Waiters
  BY <1>1, Empty, ElementOfSeq
<1>3. /\ \A i \in 1..Len(mConnectionWaiterQueue) : mConnectionWaiterQueue[i] \in Queued
      /\ \A w \in Queued : \E i \in 1..Len(mConnectionWaiterQueue) : w = mConnectionWaiterQueue[i]
  BY <1>2 DEF Queued, ToSet
<1>4. \A w : Contains(mConnectionWaiterQueue, w) <=> w \in Queued
  BY <1>3 DEF Contains
<1>5. mConnectionWaiterQueue = <<>> <=> Queued = {}
  <2>1. CASE Len(mConnectionWaiterQueue) > 0
    <3>1. 1 \in 1..Len(mConnectionWaiterQueue)
      BY <1>2, <2>1
    <3> QED
      BY <1>2, <1>3, <2>1, <3>1
  <2>2. CASE ~(Len(mConnectionWaiterQueue) > 0)
    <3>1. 1..Len(mConnectionWaiterQueue) = {}
      BY <1>2, <2>2
    <3> QED
      BY <1>2, <1>3, <2>2, <3>1
  <2> QED
    BY <2>1, <2>2
<1> QED
  BY <1>1, <1>2, <1>3, <1>4, <1>5

\* The same of the state after a step.
LEMMA QueueFactsAfter ==
    ASSUME TypeOK'
    PROVE  /\ \A w : Contains(mConnectionWaiterQueue', w) <=> w \in Queued'
           /\ Queued' \subseteq Waiters
           /\ mConnectionWaiterQueue' = <<>> <=> Queued' = {}
<1>1. mConnectionWaiterQueue' \in Seq(Waiters)
  BY DEF TypeOK, WaitTypeOK
<1>2. /\ Len(mConnectionWaiterQueue') \in Nat
      /\ DOMAIN mConnectionWaiterQueue' = 1..Len(mConnectionWaiterQueue')
      /\ mConnectionWaiterQueue' # <<>> <=> Len(mConnectionWaiterQueue') > 0
      /\ \A i \in 1..Len(mConnectionWaiterQueue') : mConnectionWaiterQueue'[i] \in Waiters
  BY <1>1, Empty, ElementOfSeq
<1>3. /\ \A i \in 1..Len(mConnectionWaiterQueue') : mConnectionWaiterQueue'[i] \in Queued'
      /\ \A w \in Queued' : \E i \in 1..Len(mConnectionWaiterQueue') : w = mConnectionWaiterQueue'[i]
  BY <1>2 DEF Queued, ToSet
<1>4. \A w : Contains(mConnectionWaiterQueue', w) <=> w \in Queued'
  BY <1>3 DEF Contains
<1>5. mConnectionWaiterQueue' = <<>> <=> Queued' = {}
  <2>1. CASE Len(mConnectionWaiterQueue') > 0
    <3>1. 1 \in 1..Len(mConnectionWaiterQueue')
      BY <1>2, <2>1
    <3> QED
      BY <1>2, <1>3, <2>1, <3>1
  <2>2. CASE ~(Len(mConnectionWaiterQueue') > 0)
    <3>1. 1..Len(mConnectionWaiterQueue') = {}
      BY <1>2, <2>2
    <3> QED
      BY <1>2, <1>3, <2>2, <3>1
  <2> QED
    BY <2>1, <2>2
<1> QED
  BY <1>2, <1>3, <1>4, <1>5

-----------------------------------------------------------------------------
(***************************************************************************)
(* Waiters, the queue, permits and signals                                 *)
(***************************************************************************)
\* NoLostUnpark in terms of the set.
PermitKept == \A t \in Threads :
    pc[t] \in Waiting \ {"check"} /\ waiterOf[t] \notin Queued => permit[t]

\* A waiter is canceled for a thread, whose signal was canceled.
CanceledBySignal == \A w \in Waiters : waiters[w].mException = "canceled" =>
    waiters[w].mThread # None /\ signal[waiters[w].mThread] = "canceled"

\* close() empties the queue before it releases mLock.
QueueClosed == ~mIsOpen => wake.at = 1 /\ (LockFree => Queued = {})

\* The first part of the invariant.
Waits == /\ WaitersOwned /\ QueueInOrder /\ SignalsInOrder
         /\ PermitKept /\ CanceledBySignal

\* A thread whose waiter is in the queue goes on waiting, one that starts over
\* has its waiter in the queue, and none leaves or joins but through "finally".
GoesOn == \A t \in Threads :
    /\ pc'[t] \in Waiting => pc[t] \in Waiting
    /\ pc[t] \in Waiting \cup {"finally"} => pc'[t] \in Waiting \cup {"finally"}
    /\ pc[t] \in Waiting /\ waiterOf[t] \in Queued => pc'[t] \in Waiting
    /\ pc'[t] \in Waiting \ {"check"} /\ pc[t] = "check" => waiterOf[t] \in Queued

\* What the invariant says of the thread of a waiter.
LEMMA WaiterFacts ==
    ASSUME TypeOK, Waits
    PROVE  /\ waiters \in [Waiters -> WaiterType]
           /\ \A w \in Waiters : waiters[w].mThread # None =>
                  /\ waiters[w].mThread \in Threads
                  /\ waiterOf[waiters[w].mThread] = w
                  /\ pc[waiters[w].mThread] \in Waiting \cup {"finally"}
           /\ \A w \in Queued : /\ w \in Waiters
                                /\ waiters[w].mThread \in Threads
                                /\ waiterOf[waiters[w].mThread] = w
                                /\ pc[waiters[w].mThread] \in Waiting
                                /\ waiters[w].mThread # None /\ ~Done(w)
<1>1. waiters \in [Waiters -> WaiterType]
  BY DEF TypeOK, WaitTypeOK
<1>2. \A w \in Waiters : waiters[w].mThread \in Threads \cup {None}
  BY <1>1 DEF WaiterType
<1> QED
  BY <1>1, <1>2, QueueFacts DEF Waits, WaitersOwned, QueueInOrder

\* Steps that leave the queue and the waiters alone.
LEMMA WaitsFrame ==
    ASSUME TypeOK, Waits, GoesOn, SignalsInOrder', QueueClosed',
           UNCHANGED <<waiters, mConnectionWaiterQueue, waiterOf, nonceCurrent>>,
           mIsOpen' => mIsOpen,
           \A t \in Threads : pc'[t] \in Waiting \ {"check"} /\ permit[t] => permit'[t],
           \A t \in Threads : signal[t] = "canceled" => signal'[t] = "canceled"
    PROVE  Waits'
<1>1. Queued' = Queued /\ \A w : Done(w)' <=> Done(w)
  BY DEF Queued, Done
<1>2. WaitersOwned'
  <2>1. \A t \in Threads : pc'[t] \in Waiting \/ nonceCurrent'[t] =>
            waiterOf'[t] \in Waiters /\ waiters'[waiterOf'[t]].mThread = t
    BY DEF Waits, WaitersOwned, GoesOn
  <2>2. \A w \in Waiters : waiters'[w].mThread # None =>
            /\ waiterOf'[waiters'[w].mThread] = w
            /\ pc'[waiters'[w].mThread] \in Waiting \cup {"finally"}
    BY WaiterFacts DEF GoesOn
  <2>3. \A w \in Waiters : waiters'[w].mThread = None => ~Done(w)'
    BY <1>1 DEF Waits, WaitersOwned
  <2> QED
    BY <2>1, <2>2, <2>3 DEF WaitersOwned
<1>3. QueueInOrder'
  <2>1. IsInjective(mConnectionWaiterQueue')
    BY DEF Waits, QueueInOrder
  <2>2. \A w \in Queued' : /\ waiters'[w].mThread # None /\ ~Done(w)'
                           /\ pc'[waiters'[w].mThread] \in Waiting
    BY <1>1, WaiterFacts DEF GoesOn
  <2>3. \A t \in Threads : mIsOpen' /\ pc'[t] \in Waiting =>
            waiterOf'[t] \in Queued' \/ Done(waiterOf[t])'
    BY <1>1 DEF Waits, QueueInOrder, GoesOn, Done
  <2>4. (~mIsOpen => wake.at = 1 /\ (LockFree => Queued = {}))'
    BY DEF QueueClosed
  <2>5. IsInjective(mConnectionWaiterQueue)'
    BY <2>1
  <2> QED
    BY <2>2, <2>3, <2>4, <2>5 DEF QueueInOrder
<1>4. PermitKept'
  BY <1>1 DEF Waits, PermitKept, GoesOn
<1>5. CanceledBySignal'
  BY WaiterFacts DEF Waits, CanceledBySignal
<1> QED
  BY <1>2, <1>3, <1>4, <1>5 DEF Waits

\* Steps that take waiter w out of the queue: w is done, unless the pool is
\* closed, and its thread is unparked.
LEMMA WaitsDequeue ==
    ASSUME TypeOK, TypeOK', Waits, GoesOn, SignalsInOrder', QueueClosed',
           NEW w \in Queued, Queued' = Queued \ {w}, IsInjective(mConnectionWaiterQueue'),
           UNCHANGED <<waiterOf, nonceCurrent, mIsOpen, signal>>,
           permit' = [permit EXCEPT ![waiters[w].mThread] = TRUE],
           \A v \in Waiters : v # w => waiters'[v] = waiters[v],
           waiters'[w].mThread = waiters[w].mThread, mIsOpen => Done(w)',
           waiters'[w].mException = "canceled" =>
               \/ waiters[w].mException = "canceled"
               \/ signal[waiters[w].mThread] = "canceled"
    PROVE  Waits'
<1>1. /\ w \in Waiters /\ waiters \in [Waiters -> WaiterType] /\ Queued \subseteq Waiters
      /\ \A v \in Waiters : waiters[v].mThread \in Threads \cup {None}
  BY QueueFacts DEF TypeOK, WaitTypeOK, WaiterType
<1>2. PICK u \in Threads : u = waiters[w].mThread /\ u # None
  BY <1>1 DEF Waits, QueueInOrder
<1>3. \A v \in Waiters : /\ waiters'[v].mThread = waiters[v].mThread
                         /\ v # w => (Done(v)' <=> Done(v))
  BY DEF Done
<1>4. WaitersOwned'
  <2>1. \A t \in Threads : pc'[t] \in Waiting \/ nonceCurrent'[t] =>
            waiterOf'[t] \in Waiters /\ waiters'[waiterOf'[t]].mThread = t
    BY <1>3 DEF Waits, WaitersOwned, GoesOn
  <2>2. ASSUME NEW v \in Waiters, waiters'[v].mThread = None
        PROVE  ~Done(v)'
    BY <1>2, <1>3, <2>2 DEF Waits, WaitersOwned
  <2>3. ASSUME NEW v \in Waiters, waiters'[v].mThread # None
        PROVE  /\ waiterOf'[waiters'[v].mThread] = v
               /\ pc'[waiters'[v].mThread] \in Waiting \cup {"finally"}
    BY <1>3, <2>3, WaiterFacts DEF GoesOn
  <2> QED
    BY <2>1, <2>2, <2>3 DEF WaitersOwned
<1>5. QueueInOrder'
  <2>1. ASSUME NEW v \in Queued'
        PROVE  /\ waiters'[v].mThread # None /\ ~Done(v)'
               /\ pc'[waiters'[v].mThread] \in Waiting
    BY <1>3, <2>1, WaiterFacts DEF GoesOn
  <2>2. ASSUME NEW t \in Threads, mIsOpen', pc'[t] \in Waiting
        PROVE  waiterOf'[t] \in Queued' \/ Done(waiterOf[t])'
    <3>1. waiterOf[t] \in Waiters /\ (waiterOf[t] \in Queued \/ Done(waiterOf[t]))
      BY <2>2 DEF Waits, QueueInOrder, WaitersOwned, GoesOn
    <3>2. CASE waiterOf[t] = w
      BY <2>2, <3>2 DEF Done
    <3>3. CASE waiterOf[t] # w
      <4>1. waiterOf'[t] = waiterOf[t] /\ waiters'[waiterOf[t]] = waiters[waiterOf[t]]
        BY <3>1, <3>3
      <4> QED
        BY <3>1, <3>3, <4>1 DEF Done
    <3> QED
      BY <3>2, <3>3
  <2>3. IsInjective(mConnectionWaiterQueue)'
    OBVIOUS
  <2>4. (~mIsOpen => wake.at = 1 /\ (LockFree => Queued = {}))'
    BY DEF QueueClosed
  <2> QED
    BY <2>1, <2>2, <2>3, <2>4 DEF QueueInOrder
<1>6. PermitKept'
  <2>1. SUFFICES ASSUME NEW t \in Threads, pc'[t] \in Waiting \ {"check"},
                        waiterOf[t] \notin Queued \ {w}
                 PROVE  permit'[t]
    BY DEF PermitKept
  <2>2. permit \in [Threads -> BOOLEAN] /\ pc[t] \in Waiting
    BY <2>1 DEF TypeOK, ThreadTypeOK, GoesOn
  <2>3. CASE waiterOf[t] = w
    <3>1. t = waiters[w].mThread
      BY <2>2, <2>3 DEF Waits, WaitersOwned
    <3> QED
      BY <2>2, <3>1
  <2>4. CASE waiterOf[t] # w
    <3>1. permit[t]
      BY <2>1, <2>2, <2>4 DEF Waits, PermitKept, GoesOn
    <3> QED
      BY <2>2, <3>1
  <2> QED
    BY <2>3, <2>4
<1>7. CanceledBySignal'
  BY <1>1, <1>2, <1>3 DEF Waits, CanceledBySignal
<1> QED
  BY <1>4, <1>5, <1>6, <1>7 DEF Waits

\* What the signals are to the requests, step by step.
LEMMA SignalsStep ==
    ASSUME TypeOK, SignalsInOrder, [Next]_vars PROVE SignalsInOrder'
<1>0. /\ pc \in [Threads -> Phases]
      /\ signal \in [Threads -> {"none", "live", "canceled"}]
      /\ canceling \in [Threads -> {"no", "calling", "returning"}]
  BY DEF TypeOK, ThreadTypeOK
<1>frame. ASSUME UNCHANGED <<signal, canceling>>,
                 \A t \in Threads : /\ pc'[t] = "onCancel" => pc[t] = "onCancel"
                                    /\ pc'[t] \in {"idle", "holding"} =>
                                           pc[t] \in {"idle", "holding"}
          PROVE  SignalsInOrder'
  BY <1>frame DEF SignalsInOrder
<1>1. ASSUME NEW w \in Waiters, WakeClosed(w)
      PROVE  SignalsInOrder'
  BY <1>0, <1>frame, <1>1 DEF WakeClosed, WakeStep, threadVars, cancelVars
<1>2. ASSUME NEW w \in Waiters, NEW c \in Conns, WakeAssign(w, c)
      PROVE  SignalsInOrder'
  BY <1>0, <1>frame, <1>2 DEF WakeAssign, WakeStep, threadVars, cancelVars
<1>3. ASSUME NEW w \in Waiters, WakeThrow(w)
      PROVE  SignalsInOrder'
  BY <1>0, <1>frame, <1>3 DEF WakeThrow, WakeStep, threadVars, cancelVars
<1>4. ASSUME NEW w \in Waiters, WakeSkip(w)
      PROVE  SignalsInOrder'
  BY <1>0, <1>frame, <1>4 DEF WakeSkip, WakeStep, threadVars, cancelVars
<1>5. ASSUME NEW c \in Conns, Collect(c)
      PROVE  SignalsInOrder'
  BY <1>0, <1>frame, <1>5 DEF Collect, threadVars, cancelVars
<1>6. ASSUME NEW c \in Conns, OnConnectionLeaked(c)
      PROVE  SignalsInOrder'
  BY <1>0, <1>frame, <1>6 DEF OnConnectionLeaked, threadVars, cancelVars
<1>7. ASSUME Close
      PROVE  SignalsInOrder'
  BY <1>0, <1>frame, <1>7 DEF Close, threadVars, cancelVars
<1>8. ASSUME NEW config \in NextConfigs, NEW c \in Conns, Reopen(config, c)
      PROVE  SignalsInOrder'
  BY <1>0, <1>frame, <1>8 DEF Reopen, Reconfigure, threadVars, cancelVars
<1>9. ASSUME NEW config \in NextConfigs, ReopenThrows(config)
      PROVE  SignalsInOrder'
  BY <1>0, <1>frame, <1>9 DEF ReopenThrows, Reconfigure, threadVars, cancelVars
<1>10. ASSUME NEW config \in NextConfigs, NEW broken \in SUBSET Available,
             ReconfigureInPlace(config, broken)
      PROVE  SignalsInOrder'
  BY <1>0, <1>frame, <1>10 DEF ReconfigureInPlace, Reconfigure, threadVars, cancelVars
<1>11. ASSUME NEW t \in Threads, NEW wantPrimary \in BOOLEAN, NEW c \in Conns,
             AcquireNow(t, wantPrimary, c)
      PROVE  SignalsInOrder'
  BY <1>0, <1>frame, <1>11 DEF AcquireNow, threadVars, cancelVars
<1>12. ASSUME NEW t \in Threads, NEW wantPrimary \in BOOLEAN, NEW sig,
             AcquireThrows(t, wantPrimary, sig)
      PROVE  SignalsInOrder'
  BY <1>0, <1>frame, <1>12 DEF AcquireThrows, vars, threadVars, cancelVars
<1>13. ASSUME NEW t \in Threads, OnCancelBySelf(t)
      PROVE  SignalsInOrder'
  BY <1>0, <1>frame, <1>13 DEF OnCancelBySelf, OnCancel, threadVars, cancelVars
<1>14. ASSUME NEW t \in Threads, CheckLeaked(t)
      PROVE  SignalsInOrder'
  BY <1>0, <1>frame, <1>14 DEF CheckLeaked, threadVars, cancelVars
<1>15. ASSUME NEW t \in Threads, WakeAfterLeak(t)
      PROVE  SignalsInOrder'
  BY <1>0, <1>frame, <1>15 DEF WakeAfterLeak, threadVars, cancelVars
<1>16. ASSUME NEW t \in Threads, CheckDone(t)
      PROVE  SignalsInOrder'
  BY <1>0, <1>frame, <1>16 DEF CheckDone, threadVars, cancelVars
<1>17. ASSUME NEW t \in Threads, ParkReturns(t)
      PROVE  SignalsInOrder'
  BY <1>0, <1>frame, <1>17 DEF ParkReturns, threadVars, cancelVars
<1>18. ASSUME NEW t \in Threads, ReleaseAndClose(t)
      PROVE  SignalsInOrder'
  BY <1>0, <1>frame, <1>18 DEF ReleaseAndClose, Release, threadVars, cancelVars
<1>19. ASSUME NEW t \in Threads, ReleaseAndRecycle(t)
      PROVE  SignalsInOrder'
  BY <1>0, <1>frame, <1>19 DEF ReleaseAndRecycle, Release, threadVars, cancelVars
<1>20. ASSUME NEW t \in Threads, Abandon(t)
      PROVE  SignalsInOrder'
  BY <1>0, <1>frame, <1>20 DEF Abandon, threadVars, cancelVars
<1>21. ASSUME NEW t \in Threads, NEW wantPrimary \in BOOLEAN, NEW sig \in Signals(t), NEW w \in Waiters,
             Enqueue(t, wantPrimary, sig, w)
      PROVE  SignalsInOrder'
  BY <1>0, <1>21 DEF Enqueue, Signals, Waiting, SignalsInOrder
<1>22. ASSUME NEW t \in Threads, SetOnCancelListener(t)
      PROVE  SignalsInOrder'
  BY <1>0, <1>22 DEF SetOnCancelListener, SignalsInOrder
<1>23. ASSUME NEW t \in Threads, RemoveListener(t)
      PROVE  SignalsInOrder'
  BY <1>0, <1>23 DEF RemoveListener, SignalsInOrder
<1>24. ASSUME NEW t \in Threads, Cancel(t)
      PROVE  SignalsInOrder'
  BY <1>0, <1>24 DEF Cancel, threadVars, Waiting, SignalsInOrder
<1>25. ASSUME NEW t \in Threads, OnCancelByCanceler(t)
      PROVE  SignalsInOrder'
  BY <1>0, <1>25 DEF OnCancelByCanceler, OnCancel, SignalsInOrder
<1>26. ASSUME NEW t \in Threads, CancelFinished(t)
      PROVE  SignalsInOrder'
  BY <1>0, <1>26 DEF CancelFinished, threadVars, SignalsInOrder
<1>27. CASE UNCHANGED vars
  BY <1>frame, <1>27 DEF vars, threadVars, cancelVars
<1> QED
  BY <1>1, <1>2, <1>3, <1>4, <1>5, <1>6, <1>7, <1>8, <1>9, <1>10, <1>11, <1>12, <1>13, <1>14, <1>15, <1>16, <1>17, <1>18, <1>19, <1>20, <1>21, <1>22, <1>23, <1>24, <1>25, <1>26, <1>27
     DEF Next, WakeLoop, Collector, Database, Acquire, Wait, Unparked,
         ParkTimesOut, Canceler, ReleaseConnection

\* Starting the wake loop with the queue as it is keeps or releases mLock.
LEMMA WakeStarts ==
    ASSUME TypeOK', NEW a \in Threads \cup {Outsider},
           WakeConnectionWaiters(a, mConnectionWaiterQueue')
    PROVE  QueueClosed' /\ wake' = WakeStart /\ wake'.at = 1
<1>1. wake' = WakeStart /\ wake'.at = 1
  BY DEF WakeConnectionWaiters, WakeStart
<1>2. mLock' = None => Queued' = {}
  BY QueueFactsAfter DEF WakeConnectionWaiters
<1> QED
  BY <1>1, <1>2 DEF QueueClosed, LockFree

\* Taking the waiter at the loop's position out of the queue.
LEMMA UnparkFacts ==
    ASSUME TypeOK, Waits, NEW w \in Waiters, NEW flags, WakeStep(w), UnparkCurrent(w, flags)
    PROVE  /\ w \in Queued /\ Queued' = Queued \ {w}
           /\ IsInjective(mConnectionWaiterQueue')
           /\ wake.at \in 1..Len(mConnectionWaiterQueue)
           /\ mConnectionWaiterQueue' = RemoveAt(mConnectionWaiterQueue, wake.at)
           /\ permit' = [permit EXCEPT ![waiters[w].mThread] = TRUE]
<1>1. wake.at \in 1..Len(mConnectionWaiterQueue)
  BY QueueFacts DEF WakeStep, TypeOK, WaitTypeOK
<1>2. w = mConnectionWaiterQueue[wake.at]
  BY DEF WakeStep
<1>3. mConnectionWaiterQueue' = RemoveAt(mConnectionWaiterQueue, wake.at)
  BY DEF UnparkCurrent
<1>4. IsInjective(mConnectionWaiterQueue)
  BY DEF Waits, QueueInOrder
<1>5. /\ IsInjective(RemoveAt(mConnectionWaiterQueue, wake.at))
      /\ ToSet(RemoveAt(mConnectionWaiterQueue, wake.at)) = Queued \ {w}
  BY <1>1, <1>2, <1>4, QueueFacts, RemoveAtElements DEF Queued
<1> QED
  BY <1>1, <1>2, <1>3, <1>5, QueueFacts DEF UnparkCurrent, Queued

\* The listener that finds its waiter takes it out of the queue.
LEMMA OnCancelFacts ==
    ASSUME TypeOK, TypeOK', Waits, NEW a \in Threads \cup {Outsider}, NEW t \in Threads,
           OnCancel(a, t), MustDequeue(t), ~WaiterMissing(t)
    PROVE  /\ waiterOf[t] \in Queued /\ Queued' = Queued \ {waiterOf[t]}
           /\ IsInjective(mConnectionWaiterQueue')
           /\ waiters' = [waiters EXCEPT ![waiterOf[t]].mException = "canceled"]
           /\ permit' = [permit EXCEPT ![waiters[waiterOf[t]].mThread] = TRUE]
           /\ waiters[waiterOf[t]].mThread = t
           /\ \E i \in 1..Len(mConnectionWaiterQueue) :
                  mConnectionWaiterQueue' = RemoveAt(mConnectionWaiterQueue, i)
           /\ WakeConnectionWaiters(a, mConnectionWaiterQueue')
<1>1. waiterOf[t] \in Queued
  BY QueueFacts DEF WaiterMissing
<1>2. PICK i \in 1..Len(mConnectionWaiterQueue) :
           /\ mConnectionWaiterQueue[i] = waiterOf[t]
           /\ mConnectionWaiterQueue' = RemoveAt(mConnectionWaiterQueue, i)
  BY DEF OnCancel
<1>3. /\ waiters' = [waiters EXCEPT ![waiterOf[t]].mException = "canceled"]
      /\ permit' = [permit EXCEPT ![waiters[waiterOf[t]].mThread] = TRUE]
      /\ WakeConnectionWaiters(a, mConnectionWaiterQueue')
  BY DEF OnCancel
<1>4. IsInjective(mConnectionWaiterQueue)
  BY DEF Waits, QueueInOrder
<1>5. /\ IsInjective(RemoveAt(mConnectionWaiterQueue, i))
      /\ ToSet(RemoveAt(mConnectionWaiterQueue, i)) = Queued \ {waiterOf[t]}
  BY <1>2, <1>4, QueueFacts, RemoveAtElements DEF Queued
<1>6. waiters[waiterOf[t]].mThread = t
  BY DEF MustDequeue, Waits, WaitersOwned
<1> QED
  BY <1>1, <1>2, <1>3, <1>5, <1>6 DEF Queued

\* One that does not, or need not, changes nothing.
LEMMA OnCancelNothing ==
    ASSUME TypeOK, NEW a, NEW t \in Threads, OnCancel(a, t), ~MustDequeue(t) \/ WaiterMissing(t)
    PROVE  UNCHANGED <<mConnectionWaiterQueue, waiters, permit, mLock, wake>>
BY DEF OnCancel, waitVars, lockVars

\* Steps that end the request of thread t: its waiter is not in the queue and
\* becomes nobody's.
LEMMA WaitsRecycle ==
    ASSUME TypeOK, Waits, SignalsInOrder', QueueClosed', NEW t \in Threads,
           \A w \in Queued : waiters[w].mThread # t,
           \A w \in Waiters : waiters'[w] =
               IF waiters[w].mThread = t THEN IdleWaiter ELSE waiters[w],
           \A u \in Threads \ {t} :
               /\ pc'[u] = pc[u] /\ waiterOf'[u] = waiterOf[u] /\ signal'[u] = signal[u]
               /\ nonceCurrent'[u] => nonceCurrent[u],
           pc'[t] \notin Waiting, ~nonceCurrent'[t],
           UNCHANGED <<mConnectionWaiterQueue, mIsOpen, permit>>
    PROVE  Waits'
<1>0. IdleWaiter.mThread = None /\ IdleWaiter.mException = "none" /\ t # None
      /\ IdleWaiter.mAssignedConnection = None
  BY DEF IdleWaiter
<1>1. Queued' = Queued
  BY DEF Queued
<1>2. ASSUME NEW w \in Waiters, waiters'[w].mThread # None
      PROVE  /\ waiters'[w] = waiters[w] /\ waiters[w].mThread \in Threads \ {t}
             /\ (Done(w)' <=> Done(w))
  BY <1>0, <1>2, WaiterFacts DEF Done
<1>3. ASSUME NEW w \in Waiters, waiters'[w].mThread = None PROVE ~Done(w)'
  <2>1. CASE waiters[w].mThread = t
    BY <1>0, <2>1 DEF Done
  <2>2. CASE waiters[w].mThread # t
    <3>1. waiters'[w] = waiters[w] /\ waiters[w].mThread = None
      BY <1>3, <2>2
    <3> QED
      BY <3>1 DEF Waits, WaitersOwned, Done
  <2> QED
    BY <2>1, <2>2
<1>4. ASSUME NEW u \in Threads, pc'[u] \in Waiting \/ nonceCurrent'[u]
      PROVE  /\ u # t /\ waiterOf'[u] = waiterOf[u] /\ waiterOf[u] \in Waiters
             /\ waiters[waiterOf[u]].mThread = u
             /\ waiters'[waiterOf[u]] = waiters[waiterOf[u]]
  <2>1. u # t
    BY <1>4
  <2>2. (pc[u] \in Waiting \/ nonceCurrent[u]) /\ waiterOf'[u] = waiterOf[u]
    BY <1>4, <2>1
  <2>3. waiterOf[u] \in Waiters /\ waiters[waiterOf[u]].mThread = u
    BY <2>2 DEF Waits, WaitersOwned
  <2> QED
    BY <2>1, <2>2, <2>3
<1>5. WaitersOwned'
  <2>1. \A u \in Threads : pc'[u] \in Waiting \/ nonceCurrent'[u] =>
            waiterOf'[u] \in Waiters /\ waiters'[waiterOf'[u]].mThread = u
    BY <1>4
  <2>2. \A w \in Waiters : waiters'[w].mThread # None =>
            /\ waiterOf'[waiters'[w].mThread] = w
            /\ pc'[waiters'[w].mThread] \in Waiting \cup {"finally"}
    BY <1>2, WaiterFacts
  <2> QED
    BY <1>3, <2>1, <2>2 DEF WaitersOwned
<1>6. QueueInOrder'
  <2>1. IsInjective(mConnectionWaiterQueue)'
    BY DEF Waits, QueueInOrder
  <2>2. ASSUME NEW w \in Queued'
        PROVE  /\ waiters'[w].mThread # None /\ ~Done(w)'
               /\ pc'[waiters'[w].mThread] \in Waiting
    <3>1. w \in Waiters /\ waiters'[w] = waiters[w] /\ waiters[w].mThread \in Threads \ {t}
      BY <1>1, <2>2, WaiterFacts
    <3>2. ~Done(w)'
      BY <1>1, <2>2, <3>1, WaiterFacts DEF Done
    <3> QED
      BY <1>1, <2>2, <3>1, <3>2, WaiterFacts
  <2>3. \A u \in Threads : mIsOpen' /\ pc'[u] \in Waiting =>
            waiterOf'[u] \in Queued' \/ Done(waiterOf[u])'
    <3>1. SUFFICES ASSUME NEW u \in Threads, mIsOpen, pc'[u] \in Waiting,
                          waiterOf[u] \notin Queued
                   PROVE  Done(waiterOf[u])'
      BY <1>1, <1>4
    <3>2. Done(waiterOf[u])
      BY <1>4, <3>1 DEF Waits, QueueInOrder
    <3> QED
      BY <1>4, <3>1, <3>2 DEF Done
  <2>4. (~mIsOpen => wake.at = 1 /\ (LockFree => Queued = {}))'
    BY DEF QueueClosed
  <2> QED
    BY <2>1, <2>2, <2>3, <2>4 DEF QueueInOrder
<1>7. PermitKept'
  BY <1>1, <1>4 DEF Waits, PermitKept
<1>8. CanceledBySignal'
  <2>1. SUFFICES ASSUME NEW w \in Waiters, waiters'[w].mException = "canceled"
                 PROVE  /\ waiters'[w].mThread # None
                        /\ signal'[waiters'[w].mThread] = "canceled"
    BY DEF CanceledBySignal
  <2>2. waiters[w].mThread # t /\ waiters'[w] = waiters[w]
    BY <1>0, <2>1
  <2> QED
    BY <2>1, <2>2, WaiterFacts DEF Waits, CanceledBySignal
<1> QED
  BY <1>5, <1>6, <1>7, <1>8 DEF Waits

\* Waiters, the queue, permits and signals, step by step.
LEMMA WaitsStep ==
    ASSUME TypeOK, TypeOK', Waits, [Next]_vars PROVE Waits'
<1>0. /\ SignalsInOrder /\ SignalsInOrder' /\ QueueClosed
      /\ pc \in [Threads -> Phases] /\ permit \in [Threads -> BOOLEAN]
      /\ signal \in [Threads -> {"none", "live", "canceled"}]
  BY SignalsStep DEF TypeOK, ThreadTypeOK, Waits, QueueInOrder, QueueClosed
<1>frame. ASSUME GoesOn, QueueClosed', mIsOpen' => mIsOpen,
                 UNCHANGED <<mConnectionWaiterQueue, waiters, waiterOf, nonceCurrent>>,
                 \A t \in Threads :
                     /\ pc'[t] \in Waiting \ {"check"} /\ permit[t] => permit'[t]
                     /\ signal[t] = "canceled" => signal'[t] = "canceled"
          PROVE  Waits'
  BY <1>0, <1>frame, WaitsFrame
<1>same. ASSUME UNCHANGED <<mIsOpen, mConnectionWaiterQueue, mLock, wake>>
         PROVE  QueueClosed'
  BY <1>0, <1>same DEF QueueClosed, LockFree, Queued
<1>1. ASSUME NEW w \in Waiters, WakeSkip(w)
      PROVE  Waits'
  <2>1. UNCHANGED <<mConnectionWaiterQueue, waiters, waiterOf, nonceCurrent>>
    BY <1>1 DEF WakeSkip, WakeStep, waitVars, threadVars
  <2>2. QueueClosed' /\ (mIsOpen' => mIsOpen)
    BY <1>1 DEF WakeSkip, WakeStep, poolVars, QueueClosed
  <2>3. GoesOn
    BY <1>0, <1>1 DEF WakeSkip, WakeStep, threadVars, GoesOn, Phases, Waiting
  <2>4. \A u \in Threads :
            /\ pc'[u] \in Waiting \ {"check"} /\ permit[u] => permit'[u]
            /\ signal[u] = "canceled" => signal'[u] = "canceled"
    BY <1>0, <1>1 DEF WakeSkip, WakeStep, threadVars, cancelVars
  <2> QED
    BY <1>frame, <2>1, <2>2, <2>3, <2>4
<1>2. ASSUME NEW c \in Conns, Collect(c)
      PROVE  Waits'
  <2>1. UNCHANGED <<mConnectionWaiterQueue, waiters, waiterOf, nonceCurrent>>
    BY <1>2 DEF Collect, waitVars, threadVars
  <2>2. QueueClosed' /\ (mIsOpen' => mIsOpen)
    BY <1>same, <1>2 DEF Collect, poolVars, waitVars, lockVars
  <2>3. GoesOn
    BY <1>0, <1>2 DEF Collect, threadVars, GoesOn, Phases, Waiting
  <2>4. \A u \in Threads :
            /\ pc'[u] \in Waiting \ {"check"} /\ permit[u] => permit'[u]
            /\ signal[u] = "canceled" => signal'[u] = "canceled"
    BY <1>0, <1>2 DEF Collect, threadVars, cancelVars
  <2> QED
    BY <1>frame, <2>1, <2>2, <2>3, <2>4
<1>3. ASSUME NEW c \in Conns, OnConnectionLeaked(c)
      PROVE  Waits'
  <2>1. UNCHANGED <<mConnectionWaiterQueue, waiters, waiterOf, nonceCurrent>>
    BY <1>3 DEF OnConnectionLeaked, waitVars, threadVars
  <2>2. QueueClosed' /\ (mIsOpen' => mIsOpen)
    BY <1>same, <1>3 DEF OnConnectionLeaked, poolVars, waitVars, lockVars
  <2>3. GoesOn
    BY <1>0, <1>3 DEF OnConnectionLeaked, threadVars, GoesOn, Phases, Waiting
  <2>4. \A u \in Threads :
            /\ pc'[u] \in Waiting \ {"check"} /\ permit[u] => permit'[u]
            /\ signal[u] = "canceled" => signal'[u] = "canceled"
    BY <1>0, <1>3 DEF OnConnectionLeaked, threadVars, cancelVars
  <2> QED
    BY <1>frame, <2>1, <2>2, <2>3, <2>4
<1>4. ASSUME Close
      PROVE  Waits'
  <2>1. UNCHANGED <<mConnectionWaiterQueue, waiters, waiterOf, nonceCurrent>>
    BY <1>4 DEF Close, waitVars, threadVars
  <2>2. QueueClosed' /\ (mIsOpen' => mIsOpen)
    BY <1>4, <2>1, WakeStarts DEF Close, poolVars
  <2>3. GoesOn
    BY <1>0, <1>4 DEF Close, threadVars, GoesOn, Phases, Waiting
  <2>4. \A u \in Threads :
            /\ pc'[u] \in Waiting \ {"check"} /\ permit[u] => permit'[u]
            /\ signal[u] = "canceled" => signal'[u] = "canceled"
    BY <1>0, <1>4 DEF Close, threadVars, cancelVars
  <2> QED
    BY <1>frame, <2>1, <2>2, <2>3, <2>4
<1>5. ASSUME NEW config \in NextConfigs, NEW c \in Conns, Reopen(config, c)
      PROVE  Waits'
  <2>1. UNCHANGED <<mConnectionWaiterQueue, waiters, waiterOf, nonceCurrent>>
    BY <1>5 DEF Reopen, Reconfigure, waitVars, threadVars
  <2>2. QueueClosed' /\ (mIsOpen' => mIsOpen)
    BY <1>5, <2>1, WakeStarts DEF Reopen, Reconfigure, poolVars
  <2>3. GoesOn
    BY <1>0, <1>5 DEF Reopen, Reconfigure, threadVars, GoesOn, Phases, Waiting
  <2>4. \A u \in Threads :
            /\ pc'[u] \in Waiting \ {"check"} /\ permit[u] => permit'[u]
            /\ signal[u] = "canceled" => signal'[u] = "canceled"
    BY <1>0, <1>5 DEF Reopen, Reconfigure, threadVars, cancelVars
  <2> QED
    BY <1>frame, <2>1, <2>2, <2>3, <2>4
<1>6. ASSUME NEW config \in NextConfigs, ReopenThrows(config)
      PROVE  Waits'
  <2>1. UNCHANGED <<mConnectionWaiterQueue, waiters, waiterOf, nonceCurrent>>
    BY <1>6 DEF ReopenThrows, Reconfigure, waitVars, threadVars
  <2>2. QueueClosed' /\ (mIsOpen' => mIsOpen)
    BY <1>same, <1>6 DEF ReopenThrows, Reconfigure, poolVars, waitVars, lockVars
  <2>3. GoesOn
    BY <1>0, <1>6 DEF ReopenThrows, Reconfigure, threadVars, GoesOn, Phases, Waiting
  <2>4. \A u \in Threads :
            /\ pc'[u] \in Waiting \ {"check"} /\ permit[u] => permit'[u]
            /\ signal[u] = "canceled" => signal'[u] = "canceled"
    BY <1>0, <1>6 DEF ReopenThrows, Reconfigure, threadVars, cancelVars
  <2> QED
    BY <1>frame, <2>1, <2>2, <2>3, <2>4
<1>7. ASSUME NEW config \in NextConfigs, NEW broken \in SUBSET Available,
             ReconfigureInPlace(config, broken)
      PROVE  Waits'
  <2>1. UNCHANGED <<mConnectionWaiterQueue, waiters, waiterOf, nonceCurrent>>
    BY <1>7 DEF ReconfigureInPlace, Reconfigure, waitVars, threadVars
  <2>2. QueueClosed' /\ (mIsOpen' => mIsOpen)
    BY <1>7, <2>1, WakeStarts DEF ReconfigureInPlace, Reconfigure, poolVars
  <2>3. GoesOn
    BY <1>0, <1>7 DEF ReconfigureInPlace, Reconfigure, threadVars, GoesOn, Phases, Waiting
  <2>4. \A u \in Threads :
            /\ pc'[u] \in Waiting \ {"check"} /\ permit[u] => permit'[u]
            /\ signal[u] = "canceled" => signal'[u] = "canceled"
    BY <1>0, <1>7 DEF ReconfigureInPlace, Reconfigure, threadVars, cancelVars
  <2> QED
    BY <1>frame, <2>1, <2>2, <2>3, <2>4
<1>8. ASSUME NEW t \in Threads, NEW wantPrimary \in BOOLEAN, NEW c \in Conns,
             AcquireNow(t, wantPrimary, c)
      PROVE  Waits'
  <2>1. UNCHANGED <<mConnectionWaiterQueue, waiters, waiterOf, nonceCurrent>>
    BY <1>8 DEF AcquireNow, waitVars, threadVars
  <2>2. QueueClosed' /\ (mIsOpen' => mIsOpen)
    BY <1>same, <1>8 DEF AcquireNow, poolVars, waitVars, lockVars
  <2>3. GoesOn
    BY <1>0, <1>8 DEF AcquireNow, threadVars, GoesOn, Phases, Waiting
  <2>4. \A u \in Threads :
            /\ pc'[u] \in Waiting \ {"check"} /\ permit[u] => permit'[u]
            /\ signal[u] = "canceled" => signal'[u] = "canceled"
    BY <1>0, <1>8 DEF AcquireNow, threadVars, cancelVars
  <2> QED
    BY <1>frame, <2>1, <2>2, <2>3, <2>4
<1>9. ASSUME NEW t \in Threads, NEW wantPrimary \in BOOLEAN, NEW sig,
             AcquireThrows(t, wantPrimary, sig)
      PROVE  Waits'
  <2>1. UNCHANGED <<mConnectionWaiterQueue, waiters, waiterOf, nonceCurrent>>
    BY <1>9 DEF AcquireThrows, vars, waitVars, threadVars
  <2>2. QueueClosed' /\ (mIsOpen' => mIsOpen)
    BY <1>same, <1>9 DEF AcquireThrows, vars, poolVars, waitVars, lockVars
  <2>3. GoesOn
    BY <1>0, <1>9 DEF AcquireThrows, vars, threadVars, GoesOn, Phases, Waiting
  <2>4. \A u \in Threads :
            /\ pc'[u] \in Waiting \ {"check"} /\ permit[u] => permit'[u]
            /\ signal[u] = "canceled" => signal'[u] = "canceled"
    BY <1>0, <1>9 DEF AcquireThrows, vars, threadVars, cancelVars
  <2> QED
    BY <1>frame, <2>1, <2>2, <2>3, <2>4
<1>10. ASSUME NEW t \in Threads, SetOnCancelListener(t)
      PROVE  Waits'
  <2>1. UNCHANGED <<mConnectionWaiterQueue, waiters, waiterOf, nonceCurrent>>
    BY <1>10 DEF SetOnCancelListener, waitVars, threadVars
  <2>2. QueueClosed' /\ (mIsOpen' => mIsOpen)
    BY <1>same, <1>10 DEF SetOnCancelListener, poolVars, waitVars, lockVars
  <2>3. GoesOn
    BY <1>0, <1>10 DEF SetOnCancelListener, threadVars, GoesOn, Phases, Waiting
  <2>4. \A u \in Threads :
            /\ pc'[u] \in Waiting \ {"check"} /\ permit[u] => permit'[u]
            /\ signal[u] = "canceled" => signal'[u] = "canceled"
    BY <1>0, <1>10 DEF SetOnCancelListener, threadVars, cancelVars
  <2> QED
    BY <1>frame, <2>1, <2>2, <2>3, <2>4
<1>11. ASSUME NEW t \in Threads, CheckLeaked(t)
      PROVE  Waits'
  <2>1. UNCHANGED <<mConnectionWaiterQueue, waiters, waiterOf, nonceCurrent>>
    BY <1>11 DEF CheckLeaked, waitVars, threadVars
  <2>2. QueueClosed' /\ (mIsOpen' => mIsOpen)
    BY <1>same, <1>11 DEF CheckLeaked, poolVars, waitVars, lockVars
  <2>3. GoesOn
    BY <1>0, <1>11 DEF CheckLeaked, threadVars, GoesOn, Phases, Waiting
  <2>4. \A u \in Threads :
            /\ pc'[u] \in Waiting \ {"check"} /\ permit[u] => permit'[u]
            /\ signal[u] = "canceled" => signal'[u] = "canceled"
    BY <1>0, <1>11 DEF CheckLeaked, threadVars, cancelVars
  <2> QED
    BY <1>frame, <2>1, <2>2, <2>3, <2>4
<1>12. ASSUME NEW t \in Threads, WakeAfterLeak(t)
      PROVE  Waits'
  <2>1. UNCHANGED <<mConnectionWaiterQueue, waiters, waiterOf, nonceCurrent>>
    BY <1>12 DEF WakeAfterLeak, waitVars, threadVars
  <2>2. QueueClosed' /\ (mIsOpen' => mIsOpen)
    BY <1>12, <2>1, WakeStarts DEF WakeAfterLeak, poolVars
  <2>3. GoesOn
    BY <1>0, <1>12 DEF WakeAfterLeak, threadVars, GoesOn, Phases, Waiting
  <2>4. \A u \in Threads :
            /\ pc'[u] \in Waiting \ {"check"} /\ permit[u] => permit'[u]
            /\ signal[u] = "canceled" => signal'[u] = "canceled"
    BY <1>0, <1>12 DEF WakeAfterLeak, threadVars, cancelVars
  <2> QED
    BY <1>frame, <2>1, <2>2, <2>3, <2>4
<1>13. ASSUME NEW t \in Threads, ParkReturns(t)
      PROVE  Waits'
  <2>1. UNCHANGED <<mConnectionWaiterQueue, waiters, waiterOf, nonceCurrent>>
    BY <1>13 DEF ParkReturns, waitVars, threadVars
  <2>2. QueueClosed' /\ (mIsOpen' => mIsOpen)
    BY <1>same, <1>13 DEF ParkReturns, poolVars, waitVars, lockVars
  <2>3. GoesOn
    BY <1>0, <1>13 DEF ParkReturns, threadVars, GoesOn, Phases, Waiting
  <2>4. \A u \in Threads :
            /\ pc'[u] \in Waiting \ {"check"} /\ permit[u] => permit'[u]
            /\ signal[u] = "canceled" => signal'[u] = "canceled"
    BY <1>0, <1>13 DEF ParkReturns, threadVars, cancelVars
  <2> QED
    BY <1>frame, <2>1, <2>2, <2>3, <2>4
<1>14. ASSUME NEW t \in Threads, Cancel(t)
      PROVE  Waits'
  <2>1. UNCHANGED <<mConnectionWaiterQueue, waiters, waiterOf, nonceCurrent>>
    BY <1>14 DEF Cancel, waitVars, threadVars
  <2>2. QueueClosed' /\ (mIsOpen' => mIsOpen)
    BY <1>same, <1>14 DEF Cancel, poolVars, waitVars, lockVars
  <2>3. GoesOn
    BY <1>0, <1>14 DEF Cancel, threadVars, GoesOn, Phases, Waiting
  <2>4. \A u \in Threads :
            /\ pc'[u] \in Waiting \ {"check"} /\ permit[u] => permit'[u]
            /\ signal[u] = "canceled" => signal'[u] = "canceled"
    BY <1>0, <1>14 DEF Cancel, threadVars, cancelVars
  <2> QED
    BY <1>frame, <2>1, <2>2, <2>3, <2>4
<1>15. ASSUME NEW t \in Threads, CancelFinished(t)
      PROVE  Waits'
  <2>1. UNCHANGED <<mConnectionWaiterQueue, waiters, waiterOf, nonceCurrent>>
    BY <1>15 DEF CancelFinished, waitVars, threadVars
  <2>2. QueueClosed' /\ (mIsOpen' => mIsOpen)
    BY <1>same, <1>15 DEF CancelFinished, poolVars, waitVars, lockVars
  <2>3. GoesOn
    BY <1>0, <1>15 DEF CancelFinished, threadVars, GoesOn, Phases, Waiting
  <2>4. \A u \in Threads :
            /\ pc'[u] \in Waiting \ {"check"} /\ permit[u] => permit'[u]
            /\ signal[u] = "canceled" => signal'[u] = "canceled"
    BY <1>0, <1>15 DEF CancelFinished, threadVars, cancelVars
  <2> QED
    BY <1>frame, <2>1, <2>2, <2>3, <2>4
<1>16. ASSUME NEW t \in Threads, ReleaseAndClose(t)
      PROVE  Waits'
  <2>1. UNCHANGED <<mConnectionWaiterQueue, waiters, waiterOf, nonceCurrent>>
    BY <1>16 DEF ReleaseAndClose, Release, waitVars, threadVars
  <2>2. QueueClosed' /\ (mIsOpen' => mIsOpen)
    BY <1>same, <1>16 DEF ReleaseAndClose, Release, poolVars, waitVars, lockVars
  <2>3. GoesOn
    BY <1>0, <1>16 DEF ReleaseAndClose, Release, threadVars, GoesOn, Phases, Waiting
  <2>4. \A u \in Threads :
            /\ pc'[u] \in Waiting \ {"check"} /\ permit[u] => permit'[u]
            /\ signal[u] = "canceled" => signal'[u] = "canceled"
    BY <1>0, <1>16 DEF ReleaseAndClose, Release, threadVars, cancelVars
  <2> QED
    BY <1>frame, <2>1, <2>2, <2>3, <2>4
<1>17. ASSUME NEW t \in Threads, ReleaseAndRecycle(t)
      PROVE  Waits'
  <2>1. UNCHANGED <<mConnectionWaiterQueue, waiters, waiterOf, nonceCurrent>>
    BY <1>17 DEF ReleaseAndRecycle, Release, waitVars, threadVars
  <2>2. QueueClosed' /\ (mIsOpen' => mIsOpen)
    BY <1>17, <2>1, WakeStarts DEF ReleaseAndRecycle, Release, poolVars
  <2>3. GoesOn
    BY <1>0, <1>17 DEF ReleaseAndRecycle, Release, threadVars, GoesOn, Phases, Waiting
  <2>4. \A u \in Threads :
            /\ pc'[u] \in Waiting \ {"check"} /\ permit[u] => permit'[u]
            /\ signal[u] = "canceled" => signal'[u] = "canceled"
    BY <1>0, <1>17 DEF ReleaseAndRecycle, Release, threadVars, cancelVars
  <2> QED
    BY <1>frame, <2>1, <2>2, <2>3, <2>4
<1>18. ASSUME NEW t \in Threads, Abandon(t)
      PROVE  Waits'
  <2>1. UNCHANGED <<mConnectionWaiterQueue, waiters, waiterOf, nonceCurrent>>
    BY <1>18 DEF Abandon, waitVars, threadVars
  <2>2. QueueClosed' /\ (mIsOpen' => mIsOpen)
    BY <1>same, <1>18 DEF Abandon, poolVars, waitVars, lockVars
  <2>3. GoesOn
    BY <1>0, <1>18 DEF Abandon, threadVars, GoesOn, Phases, Waiting
  <2>4. \A u \in Threads :
            /\ pc'[u] \in Waiting \ {"check"} /\ permit[u] => permit'[u]
            /\ signal[u] = "canceled" => signal'[u] = "canceled"
    BY <1>0, <1>18 DEF Abandon, threadVars, cancelVars
  <2> QED
    BY <1>frame, <2>1, <2>2, <2>3, <2>4
<1>19. ASSUME UNCHANGED vars
      PROVE  Waits'
  <2>1. UNCHANGED <<mConnectionWaiterQueue, waiters, waiterOf, nonceCurrent>>
    BY <1>19 DEF vars, waitVars, threadVars
  <2>2. QueueClosed' /\ (mIsOpen' => mIsOpen)
    BY <1>same, <1>19 DEF vars, poolVars, waitVars, lockVars
  <2>3. GoesOn
    BY <1>0, <1>19 DEF vars, threadVars, GoesOn, Phases, Waiting
  <2>4. \A u \in Threads :
            /\ pc'[u] \in Waiting \ {"check"} /\ permit[u] => permit'[u]
            /\ signal[u] = "canceled" => signal'[u] = "canceled"
    BY <1>0, <1>19 DEF vars, threadVars, cancelVars
  <2> QED
    BY <1>frame, <2>1, <2>2, <2>3, <2>4
<1>20. ASSUME NEW w \in Waiters, WakeClosed(w)
      PROVE  Waits'
  <2>1. UNCHANGED <<waiters, pc, waiterOf, nonceCurrent, mIsOpen, signal>> /\ ~mIsOpen
    BY <1>20 DEF WakeClosed, WakeStep, poolVars, cancelVars
  <2>2. UnparkCurrent(w, wake) /\ WakeStep(w)
    BY <1>20 DEF WakeClosed
  <2>3. QueueClosed'
    <3>1. wake.at = 1
      BY <1>0, <2>1 DEF QueueClosed
    <3>2. wake'.at = 1 /\ (mLock' = None => 1 > Len(mConnectionWaiterQueue'))
      BY <2>2, <3>1 DEF UnparkCurrent, WakeContinue, WakeStart, WakeStep
    <3>3. 1 > Len(mConnectionWaiterQueue') => mConnectionWaiterQueue' = <<>>
      BY Empty DEF TypeOK, WaitTypeOK
    <3> QED
      BY <3>2, <3>3, QueueFactsAfter DEF QueueClosed, LockFree
  <2>4. GoesOn
    BY <1>0, <2>1 DEF GoesOn
  <2> QED
    BY <1>0, <2>1, <2>2, <2>3, <2>4, UnparkFacts, WaitsDequeue
<1>21. ASSUME NEW w \in Waiters, NEW c \in Conns, WakeAssign(w, c)
      PROVE  Waits'
  <2>1. UNCHANGED <<pc, waiterOf, nonceCurrent, mIsOpen, signal>> /\ mIsOpen
    BY <1>21 DEF WakeAssign, WakeStep, poolVars, cancelVars
  <2>2. UnparkCurrent(w, WakeFlags(w)) /\ WakeStep(w)
    BY <1>21 DEF WakeAssign
  <2>3. QueueClosed' /\ GoesOn
    BY <1>0, <2>1 DEF QueueClosed, GoesOn
  <2>4. /\ \A v \in Waiters : v # w => waiters'[v] = waiters[v]
        /\ waiters'[w] = [waiters[w] EXCEPT !.mAssignedConnection = c]
    BY <1>21 DEF WakeAssign, TypeOK, WaitTypeOK
  <2>5. /\ waiters'[w].mThread = waiters[w].mThread /\ Done(w)'
        /\ waiters'[w].mException = waiters[w].mException
    BY <2>4 DEF Done, TypeOK, WaitTypeOK, WaiterType
  <2> QED
    BY <1>0, <2>1, <2>2, <2>3, <2>4, <2>5, UnparkFacts, WaitsDequeue
<1>22. ASSUME NEW w \in Waiters, WakeThrow(w)
      PROVE  Waits'
  <2>1. UNCHANGED <<pc, waiterOf, nonceCurrent, mIsOpen, signal>> /\ mIsOpen
    BY <1>22 DEF WakeThrow, WakeStep, poolVars, cancelVars
  <2>2. UnparkCurrent(w, WakeFlags(w)) /\ WakeStep(w)
    BY <1>22 DEF WakeThrow
  <2>3. QueueClosed' /\ GoesOn
    BY <1>0, <2>1 DEF QueueClosed, GoesOn
  <2>4. /\ \A v \in Waiters : v # w => waiters'[v] = waiters[v]
        /\ waiters'[w] = [waiters[w] EXCEPT !.mException = "failed"]
    BY <1>22 DEF WakeThrow, TypeOK, WaitTypeOK
  <2>5. /\ waiters'[w].mThread = waiters[w].mThread /\ Done(w)'
        /\ waiters'[w].mException = "failed"
    BY <2>4 DEF Done, TypeOK, WaitTypeOK, WaiterType
  <2> QED
    BY <1>0, <2>1, <2>2, <2>3, <2>4, <2>5, UnparkFacts, WaitsDequeue
<1>23. ASSUME NEW a \in Threads \cup {Outsider}, NEW t \in Threads, OnCancel(a, t),
              GoesOn, signal[t] = "canceled"
       PROVE  Waits'
  <2>1. UNCHANGED <<waiterOf, nonceCurrent, mIsOpen, signal>>
    BY <1>23 DEF OnCancel, poolVars
  <2>2. CASE MustDequeue(t) /\ ~WaiterMissing(t)
    <3>0. PICK w \in Waiters : w = waiterOf[t]
      BY <1>23, <2>2, OnCancelFacts, WaiterFacts
    <3>1. /\ w \in Queued /\ Queued' = Queued \ {w} /\ IsInjective(mConnectionWaiterQueue')
          /\ waiters' = [waiters EXCEPT ![w].mException = "canceled"]
          /\ permit' = [permit EXCEPT ![waiters[w].mThread] = TRUE]
          /\ waiters[w].mThread = t
          /\ WakeConnectionWaiters(a, mConnectionWaiterQueue')
      BY <1>23, <2>2, <3>0, OnCancelFacts
    <3>2. w \in Waiters /\ waiters \in [Waiters -> WaiterType]
      BY <3>1, WaiterFacts
    <3>3. QueueClosed'
      BY <3>1, WakeStarts
    <3>4. /\ \A v \in Waiters : v # w => waiters'[v] = waiters[v]
          /\ waiters'[w] = [waiters[w] EXCEPT !.mException = "canceled"]
      BY <3>1, <3>2
    <3>5. waiters'[w].mThread = waiters[w].mThread /\ Done(w)'
      BY <3>2, <3>4 DEF Done, WaiterType
    <3> QED
      BY <1>0, <1>23, <2>1, <3>1, <3>3, <3>4, <3>5, WaitsDequeue
  <2>3. CASE ~(MustDequeue(t) /\ ~WaiterMissing(t))
    <3>1. UNCHANGED <<mConnectionWaiterQueue, waiters, permit, mLock, wake>>
      BY <1>23, <2>3, OnCancelNothing
    <3> QED
      BY <1>0, <1>23, <1>frame, <1>same, <2>1, <3>1
  <2> QED
    BY <2>2, <2>3
<1>24. ASSUME NEW t \in Threads, OnCancelBySelf(t)
      PROVE  Waits'
  <2>1. WaiterMissing(t) => waiterOf[t] \notin Queued
    BY QueueFacts DEF WaiterMissing
  <2>2. GoesOn
    BY <1>0, <1>24, <2>1 DEF OnCancelBySelf, GoesOn, Phases, Waiting
  <2>3. signal[t] = "canceled"
    BY <1>0, <1>24 DEF OnCancelBySelf, SignalsInOrder
  <2> QED
    BY <1>23, <1>24, <2>2, <2>3 DEF OnCancelBySelf
<1>25. ASSUME NEW t \in Threads, OnCancelByCanceler(t)
      PROVE  Waits'
  <2>1. GoesOn
    BY <1>0, <1>25 DEF OnCancelByCanceler, GoesOn
  <2>2. signal[t] = "canceled"
    BY <1>0, <1>25 DEF OnCancelByCanceler, SignalsInOrder
  <2> QED
    BY <1>23, <1>25, <2>1, <2>2 DEF OnCancelByCanceler
<1>26. ASSUME NEW t \in Threads, CheckDone(t)
      PROVE  Waits'
  <2>1. /\ pc[t] = "check" /\ LockFree /\ waiterOf[t] \in Waiters
        /\ waiters[waiterOf[t]].mThread = t
        /\ UNCHANGED <<mConnectionWaiterQueue, mIsOpen, mLock, wake, waiterOf, permit, signal>>
    BY <1>26 DEF CheckDone, Waits, WaitersOwned, Waiting, poolVars, lockVars, cancelVars
  <2>2. QueueClosed'
    BY <1>same, <2>1
  <2>3. CASE mIsOpen /\ Done(waiterOf[t])
    <3>1. /\ pc' = [pc EXCEPT ![t] = "finally"]
          /\ waiters' = [waiters EXCEPT ![waiterOf[t]] = IdleWaiter]
          /\ nonceCurrent' = [u \in Threads |-> nonceCurrent[u] /\ waiterOf[u] # waiterOf[t]]
      BY <1>26, <2>3 DEF CheckDone, RecycleConnectionWaiter
    <3>2. \A w \in Waiters : waiters[w].mThread = t => w = waiterOf[t]
      BY WaiterFacts
    <3>3. \A w \in Waiters : waiters'[w] =
              IF waiters[w].mThread = t THEN IdleWaiter ELSE waiters[w]
      BY <2>1, <3>1, <3>2, WaiterFacts
    <3>4. \A w \in Queued : waiters[w].mThread # t
      BY <2>3, <3>2, WaiterFacts
    <3>5. \A u \in Threads \ {t} : /\ pc'[u] = pc[u]
                                   /\ nonceCurrent'[u] => nonceCurrent[u]
      BY <1>0, <3>1
    <3>6. pc'[t] \notin Waiting /\ ~nonceCurrent'[t]
      BY <1>0, <3>1 DEF Waiting
    <3> QED
      BY <1>0, <2>1, <2>2, <3>3, <3>4, <3>5, <3>6, WaitsRecycle
  <2>4. CASE ~(mIsOpen /\ Done(waiterOf[t]))
    <3>1. /\ UNCHANGED <<waiters, nonceCurrent>>
          /\ pc' = [pc EXCEPT ![t] = IF mIsOpen THEN "loop" ELSE "finally"]
      BY <1>26, <2>4 DEF CheckDone
    <3>2. IF mIsOpen THEN waiterOf[t] \in Queued ELSE waiterOf[t] \notin Queued
      BY <2>1, <2>4 DEF Waits, QueueInOrder, Waiting
    <3>3. GoesOn
      BY <1>0, <2>1, <3>1, <3>2 DEF GoesOn, Phases, Waiting
    <3> QED
      BY <1>frame, <2>1, <2>2, <3>1, <3>3
  <2> QED
    BY <2>3, <2>4
<1>27. ASSUME NEW t \in Threads, RemoveListener(t)
      PROVE  Waits'
  <2>1. /\ pc[t] = "finally"
        /\ UNCHANGED <<mConnectionWaiterQueue, mIsOpen, mLock, wake, permit>>
    BY <1>27 DEF RemoveListener, poolVars, lockVars
  <2>2. QueueClosed'
    BY <1>same, <2>1
  <2>3. \A w \in Waiters : waiters'[w] =
            IF waiters[w].mThread = t THEN IdleWaiter ELSE waiters[w]
    BY <1>27 DEF RemoveListener
  <2>4. \A w \in Queued : waiters[w].mThread # t
    BY <2>1, WaiterFacts DEF Waiting
  <2>5. \A u \in Threads \ {t} :
            /\ pc'[u] = pc[u] /\ waiterOf'[u] = waiterOf[u] /\ signal'[u] = signal[u]
            /\ nonceCurrent'[u] => nonceCurrent[u]
    BY <1>0, <1>27 DEF RemoveListener, TypeOK, ThreadTypeOK
  <2>6. pc'[t] \notin Waiting /\ ~nonceCurrent'[t]
    BY <1>0, <1>27 DEF RemoveListener, TypeOK, ThreadTypeOK, Waiting
  <2> QED
    BY <1>0, <2>1, <2>2, <2>3, <2>4, <2>5, <2>6, WaitsRecycle
<1>28. ASSUME NEW t \in Threads, NEW wantPrimary \in BOOLEAN, NEW sig \in Signals(t),
              NEW w \in Waiters, Enqueue(t, wantPrimary, sig, w)
      PROVE  Waits'
  <2>1. /\ pc[t] = "idle" /\ LockFree /\ mIsOpen /\ waiters[w].mThread = None
        /\ UNCHANGED <<mIsOpen, mLock, wake, permit>>
    BY <1>28 DEF Enqueue, poolVars, lockVars
  <2>2. /\ pc' = [pc EXCEPT ![t] = "enqueued"]
        /\ waiterOf' = [waiterOf EXCEPT ![t] = w]
        /\ nonceCurrent' = [nonceCurrent EXCEPT ![t] = TRUE]
        /\ signal' = [signal EXCEPT ![t] = sig]
    BY <1>28 DEF Enqueue
  <2>3. \A u \in Threads \ {t} :
            /\ pc'[u] = pc[u] /\ waiterOf'[u] = waiterOf[u] /\ signal'[u] = signal[u]
            /\ nonceCurrent'[u] = nonceCurrent[u]
    BY <2>2 DEF TypeOK, ThreadTypeOK
  <2>4. pc'[t] = "enqueued" /\ waiterOf'[t] = w
    BY <2>2 DEF TypeOK, ThreadTypeOK
  <2>5. /\ waiters'[w].mThread = t /\ waiters'[w].mException = "none"
        /\ waiters'[w].mAssignedConnection = None
        /\ \A v \in Waiters : v # w => waiters'[v] = waiters[v]
    BY <1>28, WaiterFacts DEF Enqueue, IdleWaiter
  <2>6. Queued' = Queued \cup {w} /\ IsInjective(mConnectionWaiterQueue') /\ w \notin Queued
    <3>1. w \notin Queued
      BY <2>1, WaiterFacts
    <3>2. PICK i \in 1..(Len(mConnectionWaiterQueue) + 1) :
              mConnectionWaiterQueue' = InsertAt(mConnectionWaiterQueue, i, w)
      BY <1>28 DEF Enqueue
    <3>3. IsInjective(mConnectionWaiterQueue)
      BY DEF Waits, QueueInOrder
    <3> QED
      BY <3>1, <3>2, <3>3, QueueFacts, InsertAtElements DEF Queued
  <2>7. \A v \in Waiters : waiters[v].mThread # t
    BY <2>1, WaiterFacts DEF Waiting
  <2>8. \A v \in Waiters : v # w => (Done(v)' <=> Done(v))
    BY <2>5 DEF Done
  <2>9. ~Done(w)' /\ t # None
    BY <2>5 DEF Done
  <2>10. WaitersOwned'
    <3>1. ASSUME NEW u \in Threads, pc'[u] \in Waiting \/ nonceCurrent'[u]
          PROVE  waiterOf'[u] \in Waiters /\ waiters'[waiterOf'[u]].mThread = u
      <4>1. CASE u = t
        BY <2>4, <2>5, <4>1
      <4>2. CASE u # t
        <5>1. waiterOf'[u] = waiterOf[u] /\ waiterOf[u] \in Waiters
              /\ waiters[waiterOf[u]].mThread = u
          BY <2>3, <3>1, <4>2 DEF Waits, WaitersOwned
        <5> QED
          BY <2>1, <2>5, <5>1
      <4> QED
        BY <4>1, <4>2
    <3>2. ASSUME NEW v \in Waiters, waiters'[v].mThread # None
          PROVE  /\ waiterOf'[waiters'[v].mThread] = v
                 /\ pc'[waiters'[v].mThread] \in Waiting \cup {"finally"}
      <4>1. CASE v = w
        BY <2>4, <2>5, <4>1 DEF Waiting
      <4>2. CASE v # w
        BY <2>3, <2>5, <2>7, <3>2, <4>2, WaiterFacts
      <4> QED
        BY <4>1, <4>2
    <3>3. ASSUME NEW v \in Waiters, waiters'[v].mThread = None PROVE ~Done(v)'
      BY <2>5, <2>8, <2>9, <3>3 DEF Waits, WaitersOwned
    <3> QED
      BY <3>1, <3>2, <3>3 DEF WaitersOwned
  <2>11. QueueInOrder'
    <3>1. IsInjective(mConnectionWaiterQueue)'
      BY <2>6
    <3>2. ASSUME NEW v \in Queued'
          PROVE  /\ waiters'[v].mThread # None /\ ~Done(v)'
                 /\ pc'[waiters'[v].mThread] \in Waiting
      <4>1. CASE v = w
        BY <2>4, <2>5, <2>9, <4>1 DEF Waiting
      <4>2. CASE v # w
        BY <2>3, <2>5, <2>6, <2>7, <2>8, <3>2, <4>2, WaiterFacts
      <4> QED
        BY <4>1, <4>2
    <3>3. ASSUME NEW u \in Threads, mIsOpen', pc'[u] \in Waiting
          PROVE  waiterOf'[u] \in Queued' \/ Done(waiterOf[u])'
      <4>1. CASE u = t
        BY <2>4, <2>6, <4>1
      <4>2. CASE u # t
        <5>1. /\ waiterOf'[u] = waiterOf[u] /\ waiterOf[u] \in Waiters
              /\ waiters[waiterOf[u]].mThread = u
          BY <2>3, <3>3, <4>2 DEF Waits, WaitersOwned
        <5>2. waiterOf[u] \in Queued \/ Done(waiterOf[u])
          BY <2>1, <2>3, <3>3, <4>2 DEF Waits, QueueInOrder
        <5>3. waiters'[waiterOf[u]] = waiters[waiterOf[u]]
          BY <2>1, <2>5, <5>1
        <5> QED
          BY <2>6, <5>1, <5>2, <5>3 DEF Done
      <4> QED
        BY <4>1, <4>2
    <3>4. (~mIsOpen => wake.at = 1 /\ (LockFree => Queued = {}))'
      BY <2>1
    <3> QED
      BY <3>1, <3>2, <3>3, <3>4 DEF QueueInOrder
  <2>12. PermitKept'
    <3>1. SUFFICES ASSUME NEW u \in Threads, pc'[u] \in Waiting \ {"check"},
                          waiterOf'[u] \notin Queued'
                   PROVE  permit'[u]
      BY DEF PermitKept
    <3>2. u # t
      BY <2>4, <2>6, <3>1
    <3> QED
      BY <2>1, <2>3, <2>6, <3>1, <3>2 DEF Waits, PermitKept
  <2>13. CanceledBySignal'
    <3>1. SUFFICES ASSUME NEW v \in Waiters, waiters'[v].mException = "canceled"
                   PROVE  /\ waiters'[v].mThread # None
                          /\ signal'[waiters'[v].mThread] = "canceled"
      BY DEF CanceledBySignal
    <3>2. v # w /\ waiters'[v] = waiters[v]
      BY <2>5, <3>1
    <3> QED
      BY <2>3, <2>7, <3>1, <3>2, WaiterFacts DEF Waits, CanceledBySignal
  <2> QED
    BY <1>0, <2>10, <2>11, <2>12, <2>13 DEF Waits
<1> QED
  BY <1>1, <1>2, <1>3, <1>4, <1>5, <1>6, <1>7, <1>8, <1>9, <1>10, <1>11,
     <1>12, <1>13, <1>14, <1>15, <1>16, <1>17, <1>18, <1>19, <1>20, <1>21,
     <1>22, <1>24, <1>25, <1>26, <1>27, <1>28
     DEF Next, WakeLoop, Collector, Database, Acquire, Wait, Unparked,
         ParkTimesOut, Canceler, ReleaseConnection

-----------------------------------------------------------------------------
(***************************************************************************)
(* What the waiters could get                                              *)
(***************************************************************************)
\* The second part of the invariant.
Serves == WakeLoopInOrder /\ NoStarvedWaiter

\* A step that makes nothing available.
LessAvailable == /\ PrimaryAvailable' => PrimaryAvailable
                 /\ NonPrimaryAvailable' => NonPrimaryAvailable

\* The number of connections that are open or in use is a number.
LEMMA OpenCount ==
    ASSUME TypeOK
    PROVE  /\ IsFiniteSet(Acquired) /\ Cardinality(Acquired) \in Nat
           /\ OpenConnections \in Nat /\ mMaxConnectionPoolSize \in Nat \ {0}
<1>1. Acquired \subseteq Conns
  BY DEF Acquired
<1>2. IsFiniteSet(Acquired)
  BY <1>1, ConnsAssumption, FS_Subset
<1>3. Cardinality(Acquired) \in Nat
  BY <1>2, FS_CardinalityType
<1> QED
  BY <1>2, <1>3 DEF OpenConnections, TypeOK, PoolTypeOK

\* Taking a connection leaves no more than there was for the others.
LEMMA AcquireLess ==
    ASSUME TypeOK, TypeOK', PoolPart, NEW c \in Conns, NEW primary \in BOOLEAN,
           FinishAcquireConnection(c, primary),
           UNCHANGED <<mMaxConnectionPoolSize, finalizable>>,
           IF primary THEN PrimaryAvailable /\ c \in PrimaryChoices
                      ELSE c \in NonPrimaryChoices
    PROVE  LessAvailable /\ conns'[c].primary = primary
<1>1. c \notin Acquired /\ Acquired' = Acquired \cup {c}
  BY FinishAcquirePool
<1>2. \A d \in Acquired : conns'[d] = conns[d]
  BY <1>1 DEF FinishAcquireConnection, Acquired, TypeOK, OwnedTypeOK
<1>3. mAvailablePrimaryConnection' # None => mAvailablePrimaryConnection # None
  BY DEF FinishAcquireConnection
<1>4. mAvailableNonPrimaryConnections' \subseteq mAvailableNonPrimaryConnections
  BY DEF FinishAcquireConnection
<1>5. PrimaryAvailable' => PrimaryAvailable
  BY <1>1, <1>2, <1>3 DEF PrimaryAvailable
<1>6. OpenConnections' >= OpenConnections
  <2>1. Cardinality(Acquired') = Cardinality(Acquired) + 1
    BY <1>1, OpenCount, FS_AddElement
  <2> QED
    BY <2>1, OpenCount DEF OpenConnections
<1>7. OpenConnections' \in Nat
  <2>1. IsFiniteSet(Acquired') /\ Cardinality(Acquired') = Cardinality(Acquired) + 1
    BY <1>1, OpenCount, FS_AddElement
  <2> QED
    BY <2>1, OpenCount DEF OpenConnections
<1>8. NonPrimaryAvailable' => NonPrimaryAvailable
  BY <1>4, <1>6, <1>7, OpenCount DEF NonPrimaryAvailable
<1>9. conns'[c].primary = primary
  BY <1>1 DEF FinishAcquireConnection, TypeOK, OwnedTypeOK, PrimaryChoices,
              NonPrimaryChoices, Fresh, PoolPart, Available
<1> QED
  BY <1>5, <1>8, <1>9 DEF LessAvailable

\* Steps that leave the queue, the loop and mLock alone and make nothing
\* available that a waiter could take.
LEMMA ServesFrame ==
    ASSUME TypeOK, Serves,
           mIsOpen' => mIsOpen, LeakPending => LeakPending',
           UNCHANGED <<mConnectionWaiterQueue, mLock, wake>>,
           \A w \in Queued :
               waiters'[w].mWantPrimaryConnection = waiters[w].mWantPrimaryConnection,
           \A want \in BOOLEAN : Unavailable(want) => Unavailable(want)',
           LockFree \/ LessAvailable
    PROVE  Serves'
<1>1. \A i \in DOMAIN mConnectionWaiterQueue :
          /\ WantsPrimary(i) \in BOOLEAN
          /\ waiters'[mConnectionWaiterQueue[i]].mWantPrimaryConnection = WantsPrimary(i)
  BY QueueFacts DEF WantsPrimary, TypeOK, WaitTypeOK, WaiterType
<1>2. WakeLoopInOrder'
  <2>1. SUFFICES ASSUME mIsOpen, ~LockFree, ~LeakPending
                 PROVE  WakeLoopInOrder'
    BY DEF WakeLoopInOrder, LockFree
  <2>2. /\ \A i \in DOMAIN mConnectionWaiterQueue : i < wake.at => Unavailable(WantsPrimary(i))
        /\ wake.noPrimary => ~PrimaryAvailable
        /\ wake.noNonPrimary => ~NonPrimaryAvailable
    BY <2>1 DEF Serves, WakeLoopInOrder
  <2>3. \A i \in DOMAIN mConnectionWaiterQueue : i < wake.at =>
            Unavailable(WantsPrimary(i))'
    BY <1>1, <2>2 DEF WantsPrimary
  <2>4. /\ wake'.noPrimary => ~PrimaryAvailable'
        /\ wake'.noNonPrimary => ~NonPrimaryAvailable'
    BY <2>1, <2>2 DEF LessAvailable
  <2> QED
    BY <2>3, <2>4 DEF WakeLoopInOrder
<1>3. NoStarvedWaiter'
  BY <1>1 DEF Serves, NoStarvedWaiter, LockFree, WantsPrimary
<1> QED
  BY <1>2, <1>3 DEF Serves

\* Steps that end by starting the wake loop.
LEMMA ServesWake ==
    ASSUME TypeOK', NEW a \in Threads \cup {Outsider},
           WakeConnectionWaiters(a, mConnectionWaiterQueue')
    PROVE  Serves'
<1>1. wake' = WakeStart /\ wake'.at = 1 /\ ~wake'.noPrimary /\ ~wake'.noNonPrimary
  BY DEF WakeConnectionWaiters, WakeStart
<1>2. \A i \in DOMAIN mConnectionWaiterQueue' : i \in Nat \ {0}
  BY LenProperties DEF TypeOK, WaitTypeOK
<1>3. \A i \in DOMAIN mConnectionWaiterQueue' : ~(i < wake'.at)
  BY <1>1, <1>2
<1>4. WakeLoopInOrder'
  BY <1>1, <1>3 DEF WakeLoopInOrder
<1>5. mLock' = None => DOMAIN mConnectionWaiterQueue' = {}
  BY DEF WakeConnectionWaiters
<1>6. NoStarvedWaiter'
  BY <1>5 DEF NoStarvedWaiter, LockFree
<1> QED
  BY <1>4, <1>6 DEF Serves

\* A state in which the pool is closed or a leak is pending promises nothing.
LEMMA ServesNothing ==
    ASSUME ~mIsOpen' \/ LeakPending' PROVE Serves'
BY DEF Serves, WakeLoopInOrder, NoStarvedWaiter

\* What the locals of the loop say after a waiter's turn.
LEMMA FlagsInOrder ==
    ASSUME TypeOK, NEW w \in Waiters,
           wake.noPrimary => ~PrimaryAvailable, wake.noNonPrimary => ~NonPrimaryAvailable
    PROVE  /\ WakeFlags(w).noPrimary => ~PrimaryAvailable
           /\ WakeFlags(w).noNonPrimary => ~NonPrimaryAvailable
           /\ WakeFlags(w).at = wake.at
BY DEF WakeFlags, TypeOK, WaitTypeOK

\* The loop takes the waiter at its position out of the queue and goes on there.
LEMMA ServesUnpark ==
    ASSUME TypeOK, TypeOK', Serves, LessAvailable, mIsOpen, mLock # None,
           LeakPending => LeakPending',
           NEW w \in Waiters, NEW i \in 1..Len(mConnectionWaiterQueue), i = wake.at,
           mConnectionWaiterQueue' = RemoveAt(mConnectionWaiterQueue, i),
           WakeContinue(mConnectionWaiterQueue', WakeFlags(w)),
           \A v \in Waiters :
               waiters'[v].mWantPrimaryConnection = waiters[v].mWantPrimaryConnection
    PROVE  Serves'
<1>1. SUFFICES ASSUME ~LeakPending PROVE Serves'
  BY ServesNothing
<1>2. /\ \A j \in DOMAIN mConnectionWaiterQueue : j < wake.at => Unavailable(WantsPrimary(j))
      /\ wake.noPrimary => ~PrimaryAvailable
      /\ wake.noNonPrimary => ~NonPrimaryAvailable
  BY <1>1 DEF Serves, WakeLoopInOrder, LockFree
<1>3. PICK q \in Seq(Waiters) :
          /\ q = mConnectionWaiterQueue /\ Len(q) \in Nat /\ DOMAIN q = 1..Len(q)
  BY QueueFacts
<1>4. PICK r \in Seq(Waiters) :
          /\ r = mConnectionWaiterQueue' /\ Len(r) = Len(q) - 1 /\ DOMAIN r = 1..Len(r)
          /\ \A j \in 1..(Len(q) - 1) : j < i => r[j] = q[j]
  <2>1. i \in 1..Len(q) /\ mConnectionWaiterQueue' = RemoveAt(q, i)
    BY <1>3
  <2>2. /\ RemoveAt(q, i) \in Seq(Waiters) /\ Len(RemoveAt(q, i)) = Len(q) - 1
        /\ \A j \in 1..(Len(q) - 1) : j < i => RemoveAt(q, i)[j] = q[j]
    BY <2>1, RemoveAtKeeps
  <2>3. DOMAIN RemoveAt(q, i) = 1..Len(RemoveAt(q, i))
    BY <2>2, LenProperties
  <2> QED
    BY <2>1, <2>2, <2>3
<1>5. ASSUME NEW j \in DOMAIN mConnectionWaiterQueue', j < i
      PROVE  Unavailable(WantsPrimary(j))'
  <2>1. j \in DOMAIN q /\ j \in 1..(Len(q) - 1)
    BY <1>3, <1>4, <1>5
  <2>2. r[j] = q[j] /\ q[j] \in Waiters
    BY <1>3, <1>4, <1>5, <2>1, ElementOfSeq
  <2>3. WantsPrimary(j)' = WantsPrimary(j)
    BY <1>3, <1>4, <2>2 DEF WantsPrimary
  <2>4. Unavailable(WantsPrimary(j))
    BY <1>2, <1>3, <1>5, <2>1
  <2> QED
    BY <2>3, <2>4 DEF Unavailable, LessAvailable
<1>6. /\ WakeFlags(w).noPrimary => ~PrimaryAvailable'
      /\ WakeFlags(w).noNonPrimary => ~NonPrimaryAvailable'
      /\ WakeFlags(w).at = i
  BY <1>2, FlagsInOrder DEF LessAvailable
<1>7. CASE i > Len(r)
  <2>1. mLock' = None
    BY <1>4, <1>6, <1>7 DEF WakeContinue
  <2>2. \A j \in DOMAIN mConnectionWaiterQueue' : j < i
    BY <1>3, <1>4, <1>7
  <2>3. NoStarvedWaiter'
    BY <1>5, <2>2 DEF NoStarvedWaiter, WantsPrimary
  <2>4. WakeLoopInOrder'
    BY <2>1 DEF WakeLoopInOrder, LockFree
  <2> QED
    BY <2>3, <2>4 DEF Serves
<1>8. CASE ~(i > Len(r))
  <2>1. mLock' # None /\ wake' = WakeFlags(w)
    BY <1>4, <1>6, <1>8 DEF WakeContinue
  <2>2. WakeLoopInOrder'
    BY <1>5, <1>6, <2>1 DEF WakeLoopInOrder
  <2>3. NoStarvedWaiter'
    BY <2>1 DEF NoStarvedWaiter, LockFree
  <2> QED
    BY <2>2, <2>3 DEF Serves
<1> QED
  BY <1>7, <1>8

\* The loop passes the waiter at its position, for whom there is nothing.
LEMMA ServesSkip ==
    ASSUME TypeOK, Serves, NEW w \in Waiters, WakeSkip(w)
    PROVE  Serves'
<1>0. /\ mIsOpen /\ mLock # None /\ ~GetsNonPrimary(w)
      /\ ~(TriesPrimary(w) /\ PrimaryAvailable)
      /\ wake.at <= Len(mConnectionWaiterQueue) /\ w = mConnectionWaiterQueue[wake.at]
      /\ UNCHANGED <<ownedVars, waitVars, mMaxConnectionPoolSize, mConnectionLeaked,
                     finalizable, pc>>
  BY DEF WakeSkip, WakeStep, poolVars, gcVars
<1>1. SUFFICES ASSUME ~LeakPending PROVE Serves'
  BY <1>0, ServesNothing DEF LeakPending
<1>2. /\ \A j \in DOMAIN mConnectionWaiterQueue : j < wake.at => Unavailable(WantsPrimary(j))
      /\ wake.noPrimary => ~PrimaryAvailable
      /\ wake.noNonPrimary => ~NonPrimaryAvailable
  BY <1>0, <1>1 DEF Serves, WakeLoopInOrder, LockFree
<1>3. PICK i \in Nat \ {0} : i = wake.at
  BY DEF TypeOK, WaitTypeOK
<1>4. Unavailable(WantsPrimary(i))
  <2>1. ~PrimaryAvailable
    BY <1>0, <1>2 DEF TriesPrimary
  <2>2. WantsPrimary(i) \/ ~NonPrimaryAvailable
    BY <1>0, <1>2, <1>3 DEF GetsNonPrimary, TriesNonPrimary, WantsPrimary
  <2> QED
    BY <2>1, <2>2 DEF Unavailable
<1>5. /\ WakeFlags(w).noPrimary => ~PrimaryAvailable
      /\ WakeFlags(w).noNonPrimary => ~NonPrimaryAvailable
      /\ WakeFlags(w).at = i
  BY <1>2, <1>3, FlagsInOrder
<1>6. /\ PrimaryAvailable' <=> PrimaryAvailable
      /\ NonPrimaryAvailable' <=> NonPrimaryAvailable
      /\ mConnectionWaiterQueue' = mConnectionWaiterQueue
      /\ \A j : WantsPrimary(j)' = WantsPrimary(j)
  BY <1>0 DEF ownedVars, waitVars, PrimaryAvailable, NonPrimaryAvailable, OpenConnections,
              Acquired, WantsPrimary
<1>7. \A j : Unavailable(WantsPrimary(j)) => Unavailable(WantsPrimary(j))'
  BY <1>6 DEF Unavailable
<1>8. CASE WakeFlags(w).noPrimary /\ WakeFlags(w).noNonPrimary
  <2>1. mLock' = None
    BY <1>8 DEF WakeSkip
  <2>2. \A j \in DOMAIN mConnectionWaiterQueue' : Unavailable(WantsPrimary(j))'
    BY <1>5, <1>6, <1>8 DEF Unavailable
  <2> QED
    BY <2>1, <2>2 DEF Serves, WakeLoopInOrder, NoStarvedWaiter, LockFree, WantsPrimary
<1>9. CASE ~(WakeFlags(w).noPrimary /\ WakeFlags(w).noNonPrimary)
  <2>0. PICK l : l = [WakeFlags(w) EXCEPT !.at = @ + 1]
    OBVIOUS
  <2>1. /\ l.at = i + 1 /\ l.noPrimary = WakeFlags(w).noPrimary
        /\ l.noNonPrimary = WakeFlags(w).noNonPrimary
    BY <1>3, <1>5, <2>0, WakeFlagsType DEF WakeLocals, TypeOK, WaitTypeOK
  <2>2. WakeContinue(mConnectionWaiterQueue, l)
    BY <1>9, <2>0 DEF WakeSkip
  <2>3. ASSUME NEW j \in DOMAIN mConnectionWaiterQueue', j < i + 1
        PROVE  Unavailable(WantsPrimary(j))'
    <3>1. j \in Nat
      BY <1>6, QueueFacts
    <3>2. j < i \/ j = i
      BY <1>3, <2>3, <3>1
    <3> QED
      BY <1>2, <1>3, <1>4, <1>6, <1>7, <2>3, <3>2
  <2>4. CASE i + 1 > Len(mConnectionWaiterQueue)
    <3>1. mLock' = None
      BY <2>1, <2>2, <2>4 DEF WakeContinue
    <3>2. \A j \in DOMAIN mConnectionWaiterQueue' : j < i + 1
      BY <1>3, <1>6, <2>4, QueueFacts
    <3>3. \A j \in DOMAIN mConnectionWaiterQueue' : Unavailable(WantsPrimary(j))'
      BY <2>3, <3>2
    <3> QED
      BY <3>1, <3>3 DEF Serves, WakeLoopInOrder, NoStarvedWaiter, LockFree, WantsPrimary
  <2>5. CASE ~(i + 1 > Len(mConnectionWaiterQueue))
    <3>1. mLock' # None /\ wake' = l
      BY <1>0, <2>1, <2>2, <2>5 DEF WakeContinue
    <3>2. WakeLoopInOrder'
      BY <1>5, <1>6, <2>1, <2>3, <3>1 DEF WakeLoopInOrder
    <3>3. NoStarvedWaiter'
      BY <3>1 DEF NoStarvedWaiter, LockFree
    <3> QED
      BY <3>2, <3>3 DEF Serves
  <2> QED
    BY <2>4, <2>5
<1> QED
  BY <1>8, <1>9

\* Closing a connection in excess gives no waiter anything.
LEMMA ExcessGivesNothing ==
    ASSUME TypeOK, TypeOK', PoolPart, NEW c \in Acquired, Excess(c),
           mAcquiredConnections' = [mAcquiredConnections EXCEPT ![c] = "none"],
           conns' = Closed({c}),
           UNCHANGED <<mAvailablePrimaryConnection, mAvailableNonPrimaryConnections,
                       mMaxConnectionPoolSize>>,
           NEW want \in BOOLEAN, Unavailable(want)
    PROVE  Unavailable(want)'
<1>1. c \in Conns /\ Acquired' = Acquired \ {c}
  BY DEF Acquired, TypeOK, OwnedTypeOK
<1>2. \A d \in Acquired' : conns'[d] = conns[d]
  BY <1>1 DEF Closed, Acquired
<1>3. ~conns[c].primary
  BY DEF Excess
<1>4. ~PrimaryAvailable'
  BY <1>1, <1>2, <1>3 DEF PrimaryAvailable, Unavailable
<1>5. CASE want
  BY <1>4, <1>5 DEF Unavailable
<1>6. CASE ~want
  <2>1. mAvailableNonPrimaryConnections = {} /\ mAvailablePrimaryConnection = None
    BY <1>6 DEF Unavailable, NonPrimaryAvailable, PrimaryAvailable
  <2>2. mMaxConnectionPoolSize = 1
    <3>1. Cardinality(mAvailableNonPrimaryConnections) = 0
      BY <2>1, FS_EmptySet
    <3> QED
      BY <3>1, OpenCount DEF Excess
  <2>3. Acquired' # {}
    BY <1>4 DEF PrimaryAvailable
  <2>4. IsFiniteSet(Acquired') /\ Cardinality(Acquired') \in Nat /\ Cardinality(Acquired') # 0
    <3>1. IsFiniteSet(Acquired')
      BY <1>1, OpenCount, FS_Subset
    <3> QED
      BY <2>3, <3>1, FS_CardinalityType, FS_EmptySet
  <2>5. ~NonPrimaryAvailable'
    BY <2>1, <2>2, <2>4 DEF NonPrimaryAvailable, OpenConnections
  <2> QED
    BY <1>4, <2>5 DEF Unavailable
<1> QED
  BY <1>5, <1>6

\* The loop and what it leaves to the waiters, step by step.
LEMMA ServesStep ==
    ASSUME TypeOK, TypeOK', OwnershipInv, Waits, Serves, [Next]_vars PROVE Serves'
<1>0. PoolPart /\ ReferencePart /\ ThreadPart /\ pc \in [Threads -> Phases]
  BY Parts DEF TypeOK, ThreadTypeOK
<1>frame. ASSUME UNCHANGED <<ownedVars, mIsOpen, mMaxConnectionPoolSize,
                             mConnectionWaiterQueue, mLock, wake>>,
                 LeakPending => LeakPending',
                 \A w \in Queued : waiters'[w].mWantPrimaryConnection
                                       = waiters[w].mWantPrimaryConnection
          PROVE  Serves'
  <2>1. /\ PrimaryAvailable' <=> PrimaryAvailable
        /\ NonPrimaryAvailable' <=> NonPrimaryAvailable
    BY <1>frame DEF ownedVars, PrimaryAvailable, NonPrimaryAvailable, OpenConnections, Acquired
  <2>2. LessAvailable /\ \A want \in BOOLEAN : Unavailable(want) => Unavailable(want)'
    BY <2>1 DEF LessAvailable, Unavailable
  <2> QED
    BY <1>frame, <2>2, ServesFrame
<1>1. ASSUME NEW t \in Threads, NEW wantPrimary \in BOOLEAN, NEW sig,
             AcquireThrows(t, wantPrimary, sig)
      PROVE  Serves'
  <2>1. UNCHANGED <<ownedVars, mIsOpen, mMaxConnectionPoolSize, waitVars, mLock, wake>>
    BY <1>1 DEF AcquireThrows, vars, poolVars, lockVars
  <2>2. LeakPending => LeakPending'
    BY <1>0, <1>1 DEF AcquireThrows, vars, LeakPending, gcVars, threadVars
  <2> QED
    BY <1>frame, <2>1, <2>2 DEF waitVars
<1>2. ASSUME NEW t \in Threads, SetOnCancelListener(t)
      PROVE  Serves'
  <2>1. UNCHANGED <<ownedVars, mIsOpen, mMaxConnectionPoolSize, waitVars, mLock, wake>>
    BY <1>2 DEF SetOnCancelListener, poolVars, lockVars
  <2>2. LeakPending => LeakPending'
    BY <1>0, <1>2 DEF SetOnCancelListener, LeakPending, gcVars, threadVars
  <2> QED
    BY <1>frame, <2>1, <2>2 DEF waitVars
<1>3. ASSUME NEW t \in Threads, CheckLeaked(t)
      PROVE  Serves'
  <2>1. UNCHANGED <<ownedVars, mIsOpen, mMaxConnectionPoolSize, waitVars, mLock, wake>>
    BY <1>3 DEF CheckLeaked, poolVars, lockVars
  <2>2. LeakPending => LeakPending'
    BY <1>0, <1>3 DEF CheckLeaked, LeakPending, gcVars, threadVars
  <2> QED
    BY <1>frame, <2>1, <2>2 DEF waitVars
<1>4. ASSUME NEW t \in Threads, ParkReturns(t)
      PROVE  Serves'
  <2>1. UNCHANGED <<ownedVars, mIsOpen, mMaxConnectionPoolSize, waitVars, mLock, wake>>
    BY <1>4 DEF ParkReturns, poolVars, lockVars
  <2>2. LeakPending => LeakPending'
    BY <1>0, <1>4 DEF ParkReturns, LeakPending, gcVars, threadVars
  <2> QED
    BY <1>frame, <2>1, <2>2 DEF waitVars
<1>5. ASSUME NEW t \in Threads, Cancel(t)
      PROVE  Serves'
  <2>1. UNCHANGED <<ownedVars, mIsOpen, mMaxConnectionPoolSize, waitVars, mLock, wake>>
    BY <1>5 DEF Cancel, poolVars, lockVars
  <2>2. LeakPending => LeakPending'
    BY <1>0, <1>5 DEF Cancel, LeakPending, gcVars, threadVars
  <2> QED
    BY <1>frame, <2>1, <2>2 DEF waitVars
<1>6. ASSUME NEW t \in Threads, CancelFinished(t)
      PROVE  Serves'
  <2>1. UNCHANGED <<ownedVars, mIsOpen, mMaxConnectionPoolSize, waitVars, mLock, wake>>
    BY <1>6 DEF CancelFinished, poolVars, lockVars
  <2>2. LeakPending => LeakPending'
    BY <1>0, <1>6 DEF CancelFinished, LeakPending, gcVars, threadVars
  <2> QED
    BY <1>frame, <2>1, <2>2 DEF waitVars
<1>7. ASSUME NEW t \in Threads, Abandon(t)
      PROVE  Serves'
  <2>1. UNCHANGED <<ownedVars, mIsOpen, mMaxConnectionPoolSize, waitVars, mLock, wake>>
    BY <1>7 DEF Abandon, poolVars, lockVars
  <2>2. LeakPending => LeakPending'
    BY <1>0, <1>7 DEF Abandon, LeakPending, gcVars, threadVars
  <2> QED
    BY <1>frame, <2>1, <2>2 DEF waitVars
<1>8. ASSUME UNCHANGED vars
      PROVE  Serves'
  <2>1. UNCHANGED <<ownedVars, mIsOpen, mMaxConnectionPoolSize, waitVars, mLock, wake>>
    BY <1>8 DEF vars, poolVars, lockVars
  <2>2. LeakPending => LeakPending'
    BY <1>0, <1>8 DEF vars, LeakPending, gcVars, threadVars
  <2> QED
    BY <1>frame, <2>1, <2>2 DEF waitVars
<1>9. ASSUME Close
      PROVE  Serves'
  <2>1. WakeConnectionWaiters(Outsider, mConnectionWaiterQueue')
    BY <1>9 DEF Close, waitVars
  <2> QED
    BY <2>1, ServesWake
<1>10. ASSUME NEW config \in NextConfigs, NEW c \in Conns, Reopen(config, c)
      PROVE  Serves'
  <2>1. WakeConnectionWaiters(Outsider, mConnectionWaiterQueue')
    BY <1>10 DEF Reopen, Reconfigure, waitVars
  <2> QED
    BY <2>1, ServesWake
<1>11. ASSUME NEW config \in NextConfigs, NEW broken \in SUBSET Available,
             ReconfigureInPlace(config, broken)
      PROVE  Serves'
  <2>1. WakeConnectionWaiters(Outsider, mConnectionWaiterQueue')
    BY <1>11 DEF ReconfigureInPlace, Reconfigure, waitVars
  <2> QED
    BY <2>1, ServesWake
<1>12. ASSUME NEW t \in Threads, WakeAfterLeak(t)
      PROVE  Serves'
  <2>1. WakeConnectionWaiters(t, mConnectionWaiterQueue')
    BY <1>12 DEF WakeAfterLeak, waitVars
  <2> QED
    BY <2>1, ServesWake
<1>13. ASSUME NEW t \in Threads, ReleaseAndRecycle(t)
      PROVE  Serves'
  <2>1. WakeConnectionWaiters(t, mConnectionWaiterQueue')
    BY <1>13 DEF ReleaseAndRecycle, Release, waitVars
  <2> QED
    BY <2>1, ServesWake
<1>14. ASSUME NEW w \in Waiters, WakeClosed(w)
      PROVE  Serves'
  BY <1>14, ServesNothing DEF WakeClosed, WakeStep, poolVars
<1>15. ASSUME NEW c \in Conns, Collect(c)
      PROVE  Serves'
  BY <1>15, ServesNothing DEF Collect, LeakPending
<1>16. ASSUME NEW c \in Conns, OnConnectionLeaked(c)
      PROVE  Serves'
  BY <1>16, ServesNothing DEF OnConnectionLeaked, LeakPending
<1>17. ASSUME NEW w \in Waiters, NEW c \in Conns, WakeAssign(w, c)
      PROVE  Serves'
  <2>1. /\ mIsOpen /\ mLock # None /\ UnparkCurrent(w, WakeFlags(w)) /\ WakeStep(w)
        /\ UNCHANGED <<mMaxConnectionPoolSize, finalizable, mConnectionLeaked, pc>>
    BY <1>17 DEF WakeAssign, WakeStep, poolVars, gcVars
  <2>2. \/ c \in NonPrimaryChoices /\ FinishAcquireConnection(c, FALSE)
        \/ /\ PrimaryAvailable /\ c \in PrimaryChoices
           /\ FinishAcquireConnection(c, TRUE)
    BY <1>17 DEF WakeAssign
  <2>3. LessAvailable
    BY <1>0, <1>17, <2>1, <2>2, AcquireLess
  <2>4. LeakPending => LeakPending'
    BY <2>1 DEF LeakPending
  <2>5. \A v \in Waiters :
            waiters'[v].mWantPrimaryConnection = waiters[v].mWantPrimaryConnection
    BY <1>17, WaiterFacts DEF WakeAssign, WaiterType
  <2>6. WakeContinue(mConnectionWaiterQueue', WakeFlags(w))
    BY <2>1 DEF UnparkCurrent
  <2> QED
    BY <1>17, <2>1, <2>3, <2>4, <2>5, <2>6, UnparkFacts, ServesUnpark
<1>18. ASSUME NEW w \in Waiters, WakeThrow(w)
      PROVE  Serves'
  <2>1. /\ mIsOpen /\ mLock # None /\ UnparkCurrent(w, WakeFlags(w)) /\ WakeStep(w)
        /\ UNCHANGED <<ownedVars, mMaxConnectionPoolSize, finalizable, mConnectionLeaked, pc>>
    BY <1>18 DEF WakeThrow, WakeStep, poolVars, gcVars
  <2>2. LessAvailable
    BY <2>1 DEF LessAvailable, ownedVars, PrimaryAvailable, NonPrimaryAvailable,
                OpenConnections, Acquired
  <2>3. LeakPending => LeakPending'
    BY <2>1 DEF LeakPending
  <2>4. \A v \in Waiters :
            waiters'[v].mWantPrimaryConnection = waiters[v].mWantPrimaryConnection
    BY <1>18, WaiterFacts DEF WakeThrow, WaiterType
  <2>5. WakeContinue(mConnectionWaiterQueue', WakeFlags(w))
    BY <2>1 DEF UnparkCurrent
  <2> QED
    BY <1>18, <2>1, <2>2, <2>3, <2>4, <2>5, UnparkFacts, ServesUnpark
<1>19. ASSUME NEW w \in Waiters, WakeSkip(w)
      PROVE  Serves'
  BY <1>19, ServesSkip
<1>20. ASSUME NEW t \in Threads, NEW wantPrimary \in BOOLEAN, NEW c \in Conns,
              AcquireNow(t, wantPrimary, c)
       PROVE  Serves'
  <2>1. /\ LockFree /\ pc[t] = "idle" /\ pc' = [pc EXCEPT ![t] = "holding"]
        /\ UNCHANGED <<mIsOpen, mMaxConnectionPoolSize, mConnectionWaiterQueue, waiters,
                       mLock, wake, finalizable, mConnectionLeaked>>
    BY <1>20 DEF AcquireNow, poolVars, waitVars, lockVars, gcVars
  <2>2. \/ c \in NonPrimaryChoices /\ FinishAcquireConnection(c, FALSE)
        \/ /\ PrimaryAvailable /\ c \in PrimaryChoices
           /\ FinishAcquireConnection(c, TRUE)
    BY <1>20 DEF AcquireNow, TryAcquire
  <2>3. LessAvailable
    BY <1>0, <1>20, <2>1, <2>2, AcquireLess
  <2>4. LeakPending => LeakPending'
    BY <1>0, <2>1 DEF LeakPending
  <2>5. \A want \in BOOLEAN : Unavailable(want) => Unavailable(want)'
    BY <2>3 DEF LessAvailable, Unavailable
  <2> QED
    BY <2>1, <2>3, <2>4, <2>5, ServesFrame
<1>21. ASSUME NEW config \in NextConfigs, ReopenThrows(config)
       PROVE  Serves'
  <2>1. /\ LockFree
        /\ UNCHANGED <<mIsOpen, mMaxConnectionPoolSize, mAcquiredConnections,
                       mConnectionWaiterQueue, waiters, mLock, wake, finalizable,
                       mConnectionLeaked, pc>>
    BY <1>21 DEF ReopenThrows, Reconfigure, waitVars, lockVars, gcVars, threadVars
  <2>2. LeakPending => LeakPending'
    BY <2>1 DEF LeakPending
  <2>3. CASE config.wal = mConfiguration.wal
    <3>1. UNCHANGED ownedVars
      BY <1>21, <2>1, <2>3 DEF ReopenThrows, ownedVars
    <3> QED
      BY <1>frame, <2>1, <2>2, <3>1
  <2>4. CASE config.wal # mConfiguration.wal
    <3>1. Acquired = {}
      BY <1>21, <2>4 DEF ReopenThrows, Reconfigure, NeedsIdlePool
    <3>2. \A want \in BOOLEAN : Unavailable(want) => Unavailable(want)'
      BY <3>1 DEF Unavailable, PrimaryAvailable
    <3> QED
      BY <2>1, <2>2, <3>2, ServesFrame
  <2> QED
    BY <2>3, <2>4
<1>22. ASSUME NEW t \in Threads, ReleaseAndClose(t)
       PROVE  Serves'
  <2>1. /\ LockFree /\ pc[t] = "holding" /\ pc' = [pc EXCEPT ![t] = "idle"]
        /\ UNCHANGED <<mIsOpen, mMaxConnectionPoolSize, mConnectionWaiterQueue, waiters,
                       mLock, wake, finalizable, mConnectionLeaked,
                       mAvailablePrimaryConnection, mAvailableNonPrimaryConnections>>
    BY <1>22 DEF ReleaseAndClose, Release, poolVars, waitVars, lockVars, gcVars
  <2>2. LeakPending => LeakPending'
    BY <1>0, <2>1 DEF LeakPending
  <2>3. CASE ~mIsOpen
    BY <2>1, <2>3, ServesNothing
  <2>4. CASE mIsOpen
    <3>1. PICK c \in Acquired : c = held[t]
      BY <1>0, <2>1 DEF ThreadPart, ReferencePart
    <3>2. /\ Excess(c) /\ conns' = Closed({c})
          /\ mAcquiredConnections' = [mAcquiredConnections EXCEPT ![c] = "none"]
      BY <1>22, <2>4, <3>1 DEF ReleaseAndClose, Release
    <3>3. \A want \in BOOLEAN : Unavailable(want) => Unavailable(want)'
      BY <1>0, <2>1, <3>2, ExcessGivesNothing
    <3> QED
      BY <2>1, <2>2, <3>3, ServesFrame
  <2> QED
    BY <2>3, <2>4
<1>23. ASSUME NEW a \in Threads \cup {Outsider}, NEW t \in Threads, OnCancel(a, t),
              LeakPending => LeakPending'
       PROVE  Serves'
  <2>1. CASE MustDequeue(t) /\ ~WaiterMissing(t)
    BY <1>23, <2>1, OnCancelFacts, ServesWake
  <2>2. CASE ~(MustDequeue(t) /\ ~WaiterMissing(t))
    <3>1. UNCHANGED <<mConnectionWaiterQueue, waiters, permit, mLock, wake>>
      BY <1>23, <2>2, OnCancelNothing
    <3>2. UNCHANGED <<ownedVars, mIsOpen, mMaxConnectionPoolSize>>
      BY <1>23 DEF OnCancel, poolVars
    <3> QED
      BY <1>23, <1>frame, <3>1, <3>2
  <2> QED
    BY <2>1, <2>2
<1>24. ASSUME NEW t \in Threads, OnCancelBySelf(t)
      PROVE  Serves'
  <2>1. LeakPending => LeakPending'
    BY <1>0, <1>24 DEF OnCancelBySelf, OnCancel, LeakPending, gcVars
  <2> QED
    BY <1>23, <1>24, <2>1 DEF OnCancelBySelf
<1>25. ASSUME NEW t \in Threads, OnCancelByCanceler(t)
      PROVE  Serves'
  <2>1. LeakPending => LeakPending'
    BY <1>25 DEF OnCancelByCanceler, OnCancel, LeakPending, gcVars
  <2> QED
    BY <1>23, <1>25, <2>1 DEF OnCancelByCanceler
<1>26. ASSUME NEW t \in Threads, CheckDone(t)
      PROVE  Serves'
  <2>1. UNCHANGED <<ownedVars, mIsOpen, mMaxConnectionPoolSize, mConnectionWaiterQueue,
                    mLock, wake>>
    BY <1>26 DEF CheckDone, poolVars, lockVars
  <2>2. LeakPending => LeakPending'
    BY <1>0, <1>26 DEF CheckDone, LeakPending, gcVars
  <2>3. \A w \in Queued : waiters'[w] = waiters[w]
    <3>1. CASE mIsOpen /\ Done(waiterOf[t])
      <4>1. waiters' = [waiters EXCEPT ![waiterOf[t]] = IdleWaiter]
        BY <1>26, <3>1 DEF CheckDone, RecycleConnectionWaiter
      <4>2. \A w \in Queued : w \in Waiters /\ w # waiterOf[t]
        BY <3>1, WaiterFacts
      <4> QED
        BY <4>1, <4>2, WaiterFacts
    <3>2. CASE ~(mIsOpen /\ Done(waiterOf[t]))
      BY <1>26, <3>2 DEF CheckDone
    <3> QED
      BY <3>1, <3>2
  <2> QED
    BY <1>frame, <2>1, <2>2, <2>3
<1>27. ASSUME NEW t \in Threads, RemoveListener(t)
      PROVE  Serves'
  <2>1. UNCHANGED <<ownedVars, mIsOpen, mMaxConnectionPoolSize, mConnectionWaiterQueue,
                    mLock, wake>> /\ pc[t] = "finally"
    BY <1>27 DEF RemoveListener, poolVars, lockVars
  <2>2. LeakPending => LeakPending'
    BY <1>0, <1>27 DEF RemoveListener, LeakPending, gcVars
  <2>3. \A w \in Queued : w \in Waiters /\ waiters[w].mThread # t
    BY <2>1, WaiterFacts DEF Waiting
  <2>4. \A w \in Queued : waiters'[w] = waiters[w]
    BY <1>27, <2>3 DEF RemoveListener
  <2> QED
    BY <1>frame, <2>1, <2>2, <2>4
<1>28. ASSUME NEW t \in Threads, NEW wantPrimary \in BOOLEAN, NEW sig \in Signals(t),
              NEW w \in Waiters, Enqueue(t, wantPrimary, sig, w)
       PROVE  Serves'
  <2>1. /\ LockFree /\ mIsOpen /\ pc[t] = "idle" /\ pc' = [pc EXCEPT ![t] = "enqueued"]
        /\ Unavailable(wantPrimary) /\ waiters[w].mThread = None
        /\ UNCHANGED <<ownedVars, mIsOpen, mMaxConnectionPoolSize, mLock, finalizable,
                       mConnectionLeaked>>
    BY <1>28 DEF Enqueue, poolVars, lockVars, gcVars
  <2>2. LeakPending => LeakPending'
    BY <1>0, <2>1 DEF LeakPending
  <2>3. WakeLoopInOrder'
    BY <2>1 DEF WakeLoopInOrder, LockFree
  <2>4. /\ PrimaryAvailable' <=> PrimaryAvailable
        /\ NonPrimaryAvailable' <=> NonPrimaryAvailable
    BY <2>1 DEF ownedVars, PrimaryAvailable, NonPrimaryAvailable, OpenConnections, Acquired
  <2>5. \A want : Unavailable(want) => Unavailable(want)'
    BY <2>4 DEF Unavailable
  <2>6. /\ waiters'[w].mWantPrimaryConnection = wantPrimary
        /\ \A v \in Waiters : v # w => waiters'[v] = waiters[v]
    BY <1>28, WaiterFacts DEF Enqueue, IdleWaiter
  <2>7. Queued' = Queued \cup {w}
    <3>1. w \notin Queued
      BY <2>1, WaiterFacts
    <3>2. PICK i \in 1..(Len(mConnectionWaiterQueue) + 1) :
              mConnectionWaiterQueue' = InsertAt(mConnectionWaiterQueue, i, w)
      BY <1>28 DEF Enqueue
    <3>3. IsInjective(mConnectionWaiterQueue)
      BY DEF Waits, QueueInOrder
    <3> QED
      BY <3>1, <3>2, <3>3, QueueFacts, InsertAtElements DEF Queued
  <2>8. ASSUME ~LeakPending, NEW v \in Queued'
        PROVE  Unavailable(waiters[v].mWantPrimaryConnection)'
    <3>1. CASE v = w
      BY <2>1, <2>5, <2>6, <3>1
    <3>2. CASE v # w
      <4>1. v \in Queued /\ v \in Waiters /\ waiters'[v] = waiters[v]
        BY <2>6, <2>7, <2>8, <3>2, QueueFacts
      <4>2. PICK i \in DOMAIN mConnectionWaiterQueue : v = mConnectionWaiterQueue[i]
        BY <4>1, QueueFacts
      <4>3. Unavailable(waiters[v].mWantPrimaryConnection)
        BY <2>1, <2>8, <4>2 DEF Serves, NoStarvedWaiter
      <4> QED
        BY <2>5, <4>1, <4>3
    <3> QED
      BY <3>1, <3>2
  <2>9. \A i \in DOMAIN mConnectionWaiterQueue' : mConnectionWaiterQueue'[i] \in Queued'
    BY DEF Queued, ToSet
  <2>10. NoStarvedWaiter'
    BY <2>2, <2>8, <2>9 DEF NoStarvedWaiter
  <2> QED
    BY <2>3, <2>10 DEF Serves
<1> QED
  BY <1>1, <1>2, <1>3, <1>4, <1>5, <1>6, <1>7, <1>8, <1>9, <1>10, <1>11,
     <1>12, <1>13, <1>14, <1>15, <1>16, <1>17, <1>18, <1>19, <1>20, <1>21,
     <1>22, <1>24, <1>25, <1>26, <1>27, <1>28
     DEF Next, WakeLoop, Collector, Database, Acquire, Wait, Unparked,
         ParkTimesOut, Canceler, ReleaseConnection

-----------------------------------------------------------------------------
(***************************************************************************)
(* The configuration of connections                                        *)
(***************************************************************************)
\* Taking a connection, available or new: it has the pool's configuration.
LEMMA FinishAcquireConfig ==
    ASSUME TypeOK, TypeOK', PoolPart, ConfigurationPropagated, NEW c \in Conns,
           NEW primary \in BOOLEAN, FinishAcquireConnection(c, primary),
           c \in NonPrimaryChoices \/ c \in PrimaryChoices, UNCHANGED mConfiguration
    PROVE  ConfigurationPropagated'
<1>1. /\ Available' \subseteq Available
      /\ \A d \in Conns : d # c => mAcquiredConnections'[d] = mAcquiredConnections[d]
  BY DEF FinishAcquireConnection, Available, TypeOK, OwnedTypeOK
<1>2. \A d \in Conns : d # c => conns'[d] = conns[d]
  BY DEF FinishAcquireConnection, TypeOK, OwnedTypeOK
<1>3. conns'[c].config = mConfiguration
  <2>1. CASE conns[c].open
    <3>1. c \in Available
      BY <2>1 DEF NonPrimaryChoices, PrimaryChoices, Fresh, Available
    <3> QED
      BY <2>1, <3>1 DEF FinishAcquireConnection, ConfigurationPropagated
  <2>2. CASE ~conns[c].open
    BY <2>2 DEF FinishAcquireConnection, TypeOK, OwnedTypeOK
  <2> QED
    BY <2>1, <2>2
<1> QED
  BY <1>1, <1>2, <1>3 DEF ConfigurationPropagated

\* The configuration reaches the connections, step by step.
LEMMA ConfigurationStep ==
    ASSUME TypeOK, TypeOK', OwnershipInv, ConfigurationPropagated, [Next]_vars
    PROVE  ConfigurationPropagated'
<1>0. PoolPart /\ ReferencePart /\ ThreadPart /\ OwnedTypeOK
  BY Parts DEF TypeOK
<1>frame. ASSUME UNCHANGED <<ownedVars, mConfiguration>> PROVE ConfigurationPropagated'
  BY <1>frame DEF ConfigurationPropagated, ownedVars, Available
<1>1. ASSUME NEW w \in Waiters, WakeClosed(w)
      PROVE  ConfigurationPropagated'
  BY <1>frame, <1>1 DEF WakeClosed, WakeStep, poolVars
<1>2. ASSUME NEW w \in Waiters, WakeThrow(w)
      PROVE  ConfigurationPropagated'
  BY <1>frame, <1>2 DEF WakeThrow, WakeStep, poolVars
<1>3. ASSUME NEW w \in Waiters, WakeSkip(w)
      PROVE  ConfigurationPropagated'
  BY <1>frame, <1>3 DEF WakeSkip, WakeStep, poolVars
<1>4. ASSUME NEW t \in Threads, NEW wantPrimary \in BOOLEAN, NEW sig,
             AcquireThrows(t, wantPrimary, sig)
      PROVE  ConfigurationPropagated'
  BY <1>frame, <1>4 DEF AcquireThrows, vars, poolVars
<1>5. ASSUME NEW t \in Threads, NEW wantPrimary \in BOOLEAN, NEW sig \in Signals(t), NEW w \in Waiters,
             Enqueue(t, wantPrimary, sig, w)
      PROVE  ConfigurationPropagated'
  BY <1>frame, <1>5 DEF Enqueue, poolVars
<1>6. ASSUME NEW t \in Threads, SetOnCancelListener(t)
      PROVE  ConfigurationPropagated'
  BY <1>frame, <1>6 DEF SetOnCancelListener, poolVars
<1>7. ASSUME NEW t \in Threads, OnCancelBySelf(t)
      PROVE  ConfigurationPropagated'
  BY <1>frame, <1>7 DEF OnCancelBySelf, OnCancel, poolVars
<1>8. ASSUME NEW t \in Threads, CheckLeaked(t)
      PROVE  ConfigurationPropagated'
  BY <1>frame, <1>8 DEF CheckLeaked, poolVars
<1>9. ASSUME NEW t \in Threads, WakeAfterLeak(t)
      PROVE  ConfigurationPropagated'
  BY <1>frame, <1>9 DEF WakeAfterLeak, poolVars
<1>10. ASSUME NEW t \in Threads, CheckDone(t)
      PROVE  ConfigurationPropagated'
  BY <1>frame, <1>10 DEF CheckDone, poolVars
<1>11. ASSUME NEW t \in Threads, RemoveListener(t)
      PROVE  ConfigurationPropagated'
  BY <1>frame, <1>11 DEF RemoveListener, poolVars
<1>12. ASSUME NEW t \in Threads, ParkReturns(t)
      PROVE  ConfigurationPropagated'
  BY <1>frame, <1>12 DEF ParkReturns, poolVars
<1>13. ASSUME NEW t \in Threads, Cancel(t)
      PROVE  ConfigurationPropagated'
  BY <1>frame, <1>13 DEF Cancel, poolVars
<1>14. ASSUME NEW t \in Threads, OnCancelByCanceler(t)
      PROVE  ConfigurationPropagated'
  BY <1>frame, <1>14 DEF OnCancelByCanceler, OnCancel, poolVars
<1>15. ASSUME NEW t \in Threads, CancelFinished(t)
      PROVE  ConfigurationPropagated'
  BY <1>frame, <1>15 DEF CancelFinished, poolVars
<1>16. ASSUME NEW t \in Threads, Abandon(t)
      PROVE  ConfigurationPropagated'
  BY <1>frame, <1>16 DEF Abandon, poolVars
<1>17. ASSUME UNCHANGED vars
      PROVE  ConfigurationPropagated'
  BY <1>frame, <1>17 DEF vars, poolVars
<1>18. ASSUME NEW w \in Waiters, NEW c \in Conns, WakeAssign(w, c)
      PROVE  ConfigurationPropagated'
  BY <1>0, <1>18, FinishAcquireConfig DEF WakeAssign, WakeStep, poolVars
<1>19. ASSUME NEW t \in Threads, NEW wantPrimary \in BOOLEAN, NEW c \in Conns,
              AcquireNow(t, wantPrimary, c)
      PROVE  ConfigurationPropagated'
  BY <1>0, <1>19, FinishAcquireConfig DEF AcquireNow, TryAcquire, poolVars
<1>20. ASSUME NEW c \in Conns, Collect(c)
      PROVE  ConfigurationPropagated'
  BY <1>0, <1>20 DEF Collect, poolVars, ConfigurationPropagated, Available, OwnedTypeOK
<1>21. ASSUME NEW c \in Conns, OnConnectionLeaked(c)
      PROVE  ConfigurationPropagated'
  <2>1. /\ UNCHANGED <<mConfiguration, mAcquiredConnections>> /\ Available' = Available
        /\ conns' = Closed({c}) /\ c \in finalizable
    BY <1>21 DEF OnConnectionLeaked, poolVars, Available
  <2>2. c \notin Available /\ mAcquiredConnections[c] # "NORMAL"
    BY <1>0, <1>21, <2>1 DEF PoolPart, Acquired
  <2> QED
    BY <2>1, <2>2 DEF ConfigurationPropagated, Closed
<1>22. ASSUME Close
      PROVE  ConfigurationPropagated'
  <2>1. /\ UNCHANGED <<mConfiguration, mAcquiredConnections>> /\ Available' = {}
        /\ conns' = Closed(Available)
    BY <1>22 DEF Close, Available
  <2>2. \A c \in Conns : mAcquiredConnections[c] = "NORMAL" => c \notin Available
    BY <1>0 DEF PoolPart, Acquired
  <2> QED
    BY <2>1, <2>2 DEF ConfigurationPropagated, Closed
<1>23. ASSUME NEW config \in NextConfigs, NEW c \in Conns, Reopen(config, c)
      PROVE  ConfigurationPropagated'
  <2>1. \A d \in Conns : mAcquiredConnections'[d] # "NORMAL"
    BY <1>0, <1>23 DEF Reopen, MarkAcquiredConnections, OwnedTypeOK
  <2>2. Available' = {c} /\ mConfiguration' = config
    BY <1>23 DEF Reopen, SetConfiguration, Available
  <2>3. conns'[c].config = config
    BY <1>23 DEF Reopen, Closed
  <2> QED
    BY <2>1, <2>2, <2>3 DEF ConfigurationPropagated
<1>24. ASSUME NEW config \in NextConfigs, ReopenThrows(config)
      PROVE  ConfigurationPropagated'
  <2>1. UNCHANGED <<mConfiguration, mAcquiredConnections>>
    BY <1>24 DEF ReopenThrows
  <2>2. CASE config.wal = mConfiguration.wal
    BY <1>24, <1>frame, <2>1, <2>2 DEF ReopenThrows, ownedVars
  <2>3. CASE config.wal # mConfiguration.wal
    <3>1. Available' = {} /\ conns' = Closed(Available)
      BY <1>24, <2>3 DEF ReopenThrows, Available
    <3>2. \A c \in Conns : mAcquiredConnections[c] = "NORMAL" => c \notin Available
      BY <1>0 DEF PoolPart, Acquired
    <3> QED
      BY <2>1, <3>1, <3>2 DEF ConfigurationPropagated, Closed
  <2> QED
    BY <2>2, <2>3
<1>25. ASSUME NEW config \in NextConfigs, NEW broken \in SUBSET Available,
              ReconfigureInPlace(config, broken)
      PROVE  ConfigurationPropagated'
  <2>1. \A d \in Conns : mAcquiredConnections'[d] # "NORMAL"
    BY <1>0, <1>25 DEF ReconfigureInPlace, MarkAcquiredConnections, OwnedTypeOK
  <2>2. Available' \subseteq Available \ broken /\ mConfiguration' = config
    BY <1>25 DEF ReconfigureInPlace, SetConfiguration, Available
  <2>3. \A d \in Conns : d \in Available \ broken => conns'[d].config = config
    BY <1>0, <1>25 DEF ReconfigureInPlace, OwnedTypeOK
  <2> QED
    BY <2>1, <2>2, <2>3 DEF ConfigurationPropagated
<1>26. ASSUME NEW t \in Threads, ReleaseAndClose(t)
      PROVE  ConfigurationPropagated'
  <2>1. held[t] \in Acquired /\ held[t] \in Conns /\ held[t] \notin Available
    BY <1>0, <1>26
    DEF ReleaseAndClose, Release, ThreadPart, ReferencePart, PoolPart, Acquired
  <2>2. /\ UNCHANGED mConfiguration /\ Available' = Available /\ conns' = Closed({held[t]})
        /\ mAcquiredConnections' = [mAcquiredConnections EXCEPT ![held[t]] = "none"]
    BY <1>26 DEF ReleaseAndClose, Release, poolVars, Available
  <2> QED
    BY <1>0, <2>1, <2>2 DEF ConfigurationPropagated, Closed, OwnedTypeOK
<1>27. ASSUME NEW t \in Threads, ReleaseAndRecycle(t)
      PROVE  ConfigurationPropagated'
  <2>1. held[t] \in Acquired /\ held[t] \in Conns /\ held[t] \notin Available
    BY <1>0, <1>27
    DEF ReleaseAndRecycle, Release, ThreadPart, ReferencePart, PoolPart, Acquired
  <2>2. /\ UNCHANGED mConfiguration
        /\ mAcquiredConnections' = [mAcquiredConnections EXCEPT ![held[t]] = "none"]
    BY <1>27 DEF ReleaseAndRecycle, Release, poolVars
  <2>3. \A d \in Conns : d # held[t] =>
            conns'[d] = conns[d] /\ mAcquiredConnections'[d] = mAcquiredConnections[d]
    BY <1>0, <1>27, <2>2 DEF ReleaseAndRecycle, Closed, OwnedTypeOK
  <2>4. mAcquiredConnections'[held[t]] = "none"
    BY <1>0, <2>1, <2>2 DEF OwnedTypeOK
  <2>5. \A d \in Conns : d # held[t] /\ d \in Available' => d \in Available
    BY <1>27 DEF ReleaseAndRecycle, Available
  <2>6. held[t] \in Available' => conns'[held[t]].config = mConfiguration
    <3>1. PICK recycled \in RecycleConnection(mAcquiredConnections[held[t]]) :
             /\ conns' = IF ~recycled THEN Closed({held[t]})
                         ELSE IF mAcquiredConnections[held[t]] = "NORMAL" THEN conns
                         ELSE [conns EXCEPT ![held[t]].config = mConfiguration]
             /\ ~recycled => UNCHANGED <<mAvailablePrimaryConnection,
                                         mAvailableNonPrimaryConnections>>
      BY <1>27 DEF ReleaseAndRecycle
    <3>2. CASE ~recycled
      BY <2>1, <3>1, <3>2 DEF Available
    <3>3. CASE recycled /\ mAcquiredConnections[held[t]] = "NORMAL"
      BY <2>1, <3>1, <3>3 DEF ConfigurationPropagated
    <3>4. CASE recycled /\ mAcquiredConnections[held[t]] # "NORMAL"
      BY <1>0, <2>1, <3>1, <3>4 DEF OwnedTypeOK
    <3> QED
      BY <3>2, <3>3, <3>4
  <2> QED
    BY <2>2, <2>3, <2>4, <2>5, <2>6 DEF ConfigurationPropagated
<1> QED
  BY <1>1, <1>2, <1>3, <1>4, <1>5, <1>6, <1>7, <1>8, <1>9, <1>10, <1>11,
     <1>12, <1>13, <1>14, <1>15, <1>16, <1>17, <1>18, <1>19, <1>20, <1>21,
     <1>22, <1>23, <1>24, <1>25, <1>26, <1>27
     DEF Next, WakeLoop, Collector, Database, Acquire, Wait, Unparked,
         ParkTimesOut, Canceler, ReleaseConnection

-----------------------------------------------------------------------------
(***************************************************************************)
(* The theorems                                                            *)
(***************************************************************************)
\* What is inductive: the types, who owns what, and the parts above.
AllInv == TypeOK /\ OwnershipInv /\ Waits /\ Serves /\ ConfigurationPropagated

\* An empty queue, idle threads and one available connection.
LEMMA QueueInit == Init => Waits /\ Serves /\ ConfigurationPropagated
<1> SUFFICES ASSUME Init PROVE Waits /\ Serves /\ ConfigurationPropagated
  OBVIOUS
<1>1. /\ mConnectionWaiterQueue = <<>> /\ DOMAIN mConnectionWaiterQueue = {}
      /\ Queued = {} /\ IsInjective(mConnectionWaiterQueue)
  BY DEF Init, Queued, ToSet, IsInjective
<1>2. \A w \in Waiters : /\ waiters[w].mThread = None /\ ~Done(w)
                         /\ waiters[w].mException = "none"
  BY DEF Init, IdleWaiter, Done
<1>3. \A t \in Threads : pc[t] = "idle" /\ ~nonceCurrent[t] /\ canceling[t] = "no"
  BY DEF Init
<1>4. Waits
  BY <1>1, <1>2, <1>3 DEF Init, Waits, WaitersOwned, QueueInOrder, SignalsInOrder,
                          PermitKept, CanceledBySignal, Waiting
<1>5. Serves
  BY <1>1 DEF Init, Serves, WakeLoopInOrder, NoStarvedWaiter, LockFree
<1>6. ConfigurationPropagated
  BY DEF Init, ConfigurationPropagated
<1> QED
  BY <1>4, <1>5, <1>6

\* All of the pool's invariants together.
LEMMA AllInvariance == Spec => []AllInv
<1>1. Init => AllInv
  BY InitInv, QueueInit DEF AllInv
<1>2. AllInv /\ [Next]_vars => AllInv'
  BY TypeStep, OwnershipStep, WaitsStep, ServesStep, ConfigurationStep DEF AllInv
<1> QED
  BY <1>1, <1>2, PTL DEF Spec

\* Waiters, the queue, signals and the wake loop are what the code takes them
\* for: every request that waits has a waiter of its own, which is in the queue
\* or done, and the loop has passed nobody it could have served.
THEOREM QueueInvariant == Spec => []QueueInv
<1>1. AllInv => QueueInv
  BY DEF AllInv, QueueInv, Waits, Serves
<1> QED
  BY <1>1, AllInvariance, PTL

\* wakeConnectionWaitersLocked(), cancelConnectionWaiterLocked() and close()
\* leave no thread asleep whose waiter they took out of the queue.
THEOREM UnparkNotLost == Spec => []NoLostUnpark
<1>1. AllInv => NoLostUnpark
  BY QueueFacts DEF AllInv, NoLostUnpark, Waits, PermitKept
<1> QED
  BY <1>1, AllInvariance, PTL

\* A late onCancel() never cancels the request a recycled waiter now serves.
THEOREM OwnSignalOnly == Spec => []CanceledOnlyByOwnSignal
<1>1. AllInv => CanceledOnlyByOwnSignal
  BY DEF AllInv, CanceledOnlyByOwnSignal, Waits, CanceledBySignal
<1> QED
  BY <1>1, AllInvariance, PTL

\* Whenever mLock is free nobody is queued whom the pool could serve, although
\* several paths that change the pool do not call wakeConnectionWaitersLocked().
THEOREM NobodyStarves == Spec => []NoStarvedWaiter
<1>1. AllInv => NoStarvedWaiter
  BY DEF AllInv, Serves
<1> QED
  BY <1>1, AllInvariance, PTL

\* Connections that are available, or go back as they are, have the
\* configuration that reconfigure() set last.
THEOREM ConfigurationReachesAll == Spec => []ConfigurationPropagated
<1>1. AllInv => ConfigurationPropagated
  BY DEF AllInv
<1> QED
  BY <1>1, AllInvariance, PTL

\* The action of NoOvertaking.
Served == \A c \in Acquired' \ Acquired :
              LeakPending \/ \A i \in Overtaken : ~WouldTake(mConnectionWaiterQueue[i], c)

\* Whoever takes connection c finds nothing for those ahead of it in what is left.
LEMMA TakesWhatNobodyCould ==
    ASSUME AllInv, AllInv', NEW c \in Conns, mIsOpen, ~LeakPending,
           LockFree \/ wake.at <= Len(mConnectionWaiterQueue),
           UNCHANGED <<mMaxConnectionPoolSize, finalizable>>,
           \/ /\ NonPrimaryAvailable /\ c \in NonPrimaryChoices
              /\ FinishAcquireConnection(c, FALSE)
           \/ /\ PrimaryAvailable /\ c \in PrimaryChoices
              /\ FinishAcquireConnection(c, TRUE)
    PROVE  Served
<1>1. PoolPart
  BY Parts DEF AllInv
<1>2. Acquired' = Acquired \cup {c}
  BY <1>1, FinishAcquirePool DEF AllInv
<1>3. \A i \in Overtaken : Unavailable(WantsPrimary(i))
  <2>1. CASE LockFree
    BY <2>1 DEF AllInv, Serves, NoStarvedWaiter, Overtaken, WantsPrimary
  <2>2. CASE ~LockFree
    <3>1. \A i \in DOMAIN mConnectionWaiterQueue : i < wake.at => Unavailable(WantsPrimary(i))
      BY <2>2 DEF AllInv, Serves, WakeLoopInOrder
    <3>2. wake.at \in Nat /\ wake.at <= Len(mConnectionWaiterQueue)
      BY <2>2 DEF AllInv, TypeOK, WaitTypeOK
    <3>3. \A i \in 1..(wake.at - 1) : i \in 1..Len(mConnectionWaiterQueue) /\ i < wake.at
      BY <3>2, QueueFacts DEF AllInv
    <3> QED
      BY <2>2, <3>1, <3>3, QueueFacts DEF AllInv, Overtaken
  <2> QED
    BY <2>1, <2>2
<1>4. CASE NonPrimaryAvailable /\ c \in NonPrimaryChoices /\ FinishAcquireConnection(c, FALSE)
  <2>1. conns'[c].primary = FALSE
    BY <1>1, <1>4, AcquireLess DEF AllInv
  <2>2. \A i \in Overtaken : WantsPrimary(i)
    BY <1>3, <1>4 DEF Unavailable
  <2> QED
    BY <1>2, <2>1, <2>2 DEF Served, WouldTake, WantsPrimary
<1>5. CASE PrimaryAvailable
  BY <1>3, <1>5 DEF Unavailable, Served
<1> QED
  BY <1>4, <1>5

\* Only a request that is served at once and the wake loop acquire connections.
LEMMA ServedStep ==
    ASSUME AllInv, AllInv', [Next]_vars PROVE Served
<1>0. TypeOK /\ OwnedTypeOK
  BY DEF AllInv, TypeOK
<1>none. ASSUME Acquired' \subseteq Acquired PROVE Served
  BY <1>none DEF Served
<1>frame. ASSUME UNCHANGED mAcquiredConnections PROVE Served
  BY <1>frame, <1>none DEF Acquired
<1>1. ASSUME NEW w \in Waiters, WakeClosed(w)
      PROVE  Served
  BY <1>frame, <1>1 DEF WakeClosed, WakeStep, ownedVars
<1>2. ASSUME NEW w \in Waiters, WakeThrow(w)
      PROVE  Served
  BY <1>frame, <1>2 DEF WakeThrow, WakeStep, ownedVars
<1>3. ASSUME NEW w \in Waiters, WakeSkip(w)
      PROVE  Served
  BY <1>frame, <1>3 DEF WakeSkip, WakeStep, ownedVars
<1>4. ASSUME NEW t \in Threads, NEW wantPrimary \in BOOLEAN, NEW sig,
             AcquireThrows(t, wantPrimary, sig)
      PROVE  Served
  BY <1>frame, <1>4 DEF AcquireThrows, vars, ownedVars
<1>5. ASSUME NEW t \in Threads, NEW wantPrimary \in BOOLEAN, NEW sig \in Signals(t), NEW w \in Waiters,
             Enqueue(t, wantPrimary, sig, w)
      PROVE  Served
  BY <1>frame, <1>5 DEF Enqueue, ownedVars
<1>6. ASSUME NEW t \in Threads, SetOnCancelListener(t)
      PROVE  Served
  BY <1>frame, <1>6 DEF SetOnCancelListener, ownedVars
<1>7. ASSUME NEW t \in Threads, OnCancelBySelf(t)
      PROVE  Served
  BY <1>frame, <1>7 DEF OnCancelBySelf, OnCancel, ownedVars
<1>8. ASSUME NEW t \in Threads, CheckLeaked(t)
      PROVE  Served
  BY <1>frame, <1>8 DEF CheckLeaked, ownedVars
<1>9. ASSUME NEW t \in Threads, WakeAfterLeak(t)
      PROVE  Served
  BY <1>frame, <1>9 DEF WakeAfterLeak, ownedVars
<1>10. ASSUME NEW t \in Threads, CheckDone(t)
      PROVE  Served
  BY <1>frame, <1>10 DEF CheckDone, ownedVars
<1>11. ASSUME NEW t \in Threads, RemoveListener(t)
      PROVE  Served
  BY <1>frame, <1>11 DEF RemoveListener, ownedVars
<1>12. ASSUME NEW t \in Threads, ParkReturns(t)
      PROVE  Served
  BY <1>frame, <1>12 DEF ParkReturns, ownedVars
<1>13. ASSUME NEW t \in Threads, Cancel(t)
      PROVE  Served
  BY <1>frame, <1>13 DEF Cancel, ownedVars
<1>14. ASSUME NEW t \in Threads, OnCancelByCanceler(t)
      PROVE  Served
  BY <1>frame, <1>14 DEF OnCancelByCanceler, OnCancel, ownedVars
<1>15. ASSUME NEW t \in Threads, CancelFinished(t)
      PROVE  Served
  BY <1>frame, <1>15 DEF CancelFinished, ownedVars
<1>16. ASSUME NEW t \in Threads, Abandon(t)
      PROVE  Served
  BY <1>frame, <1>16 DEF Abandon, ownedVars
<1>17. ASSUME NEW c \in Conns, OnConnectionLeaked(c)
      PROVE  Served
  BY <1>frame, <1>17 DEF OnConnectionLeaked, ownedVars
<1>18. ASSUME Close
      PROVE  Served
  BY <1>frame, <1>18 DEF Close, ownedVars
<1>19. ASSUME NEW config \in NextConfigs, ReopenThrows(config)
      PROVE  Served
  BY <1>frame, <1>19 DEF ReopenThrows, ownedVars
<1>20. ASSUME UNCHANGED vars
      PROVE  Served
  BY <1>frame, <1>20 DEF vars, ownedVars
<1>21. ASSUME NEW c \in Conns, Collect(c)
      PROVE  Served
  BY <1>0, <1>none, <1>21 DEF Collect, Acquired, OwnedTypeOK
<1>22. ASSUME NEW config \in NextConfigs, NEW c \in Conns, Reopen(config, c)
      PROVE  Served
  BY <1>0, <1>none, <1>22 DEF Reopen, MarkAcquiredConnections, Acquired, OwnedTypeOK
<1>23. ASSUME NEW config \in NextConfigs, NEW broken \in SUBSET Available,
             ReconfigureInPlace(config, broken)
      PROVE  Served
  BY <1>0, <1>none, <1>23 DEF ReconfigureInPlace, MarkAcquiredConnections, Acquired, OwnedTypeOK
<1>24. ASSUME NEW t \in Threads, ReleaseAndClose(t)
      PROVE  Served
  BY <1>0, <1>none, <1>24 DEF ReleaseAndClose, Release, Acquired, OwnedTypeOK
<1>25. ASSUME NEW t \in Threads, ReleaseAndRecycle(t)
      PROVE  Served
  BY <1>0, <1>none, <1>25 DEF ReleaseAndRecycle, Release, Acquired, OwnedTypeOK
<1>26. ASSUME NEW w \in Waiters, NEW c \in Conns, WakeAssign(w, c)
      PROVE  Served
  <2>1. CASE LeakPending
    BY <2>1 DEF Served
  <2>2. CASE ~LeakPending
    <3>1. /\ mIsOpen /\ wake.at <= Len(mConnectionWaiterQueue)
          /\ UNCHANGED <<mMaxConnectionPoolSize, finalizable>>
      BY <1>26 DEF WakeAssign, WakeStep, poolVars, gcVars
    <3>2. \/ /\ NonPrimaryAvailable /\ c \in NonPrimaryChoices
             /\ FinishAcquireConnection(c, FALSE)
          \/ /\ PrimaryAvailable /\ c \in PrimaryChoices
             /\ FinishAcquireConnection(c, TRUE)
      BY <1>26 DEF WakeAssign, GetsNonPrimary
    <3> QED
      BY <1>26, <2>2, <3>1, <3>2, TakesWhatNobodyCould
  <2> QED
    BY <2>1, <2>2
<1>27. ASSUME NEW t \in Threads, NEW wantPrimary \in BOOLEAN, NEW c \in Conns,
              AcquireNow(t, wantPrimary, c)
       PROVE  Served
  <2>1. CASE LeakPending
    BY <2>1 DEF Served
  <2>2. CASE ~LeakPending
    <3>1. /\ mIsOpen /\ LockFree
          /\ UNCHANGED <<mMaxConnectionPoolSize, finalizable>>
      BY <1>27 DEF AcquireNow, poolVars, gcVars
    <3>2. \/ /\ NonPrimaryAvailable /\ c \in NonPrimaryChoices
             /\ FinishAcquireConnection(c, FALSE)
          \/ /\ PrimaryAvailable /\ c \in PrimaryChoices
             /\ FinishAcquireConnection(c, TRUE)
      BY <1>27 DEF AcquireNow, TryAcquire
    <3> QED
      BY <1>27, <2>2, <3>1, <3>2, TakesWhatNobodyCould
  <2> QED
    BY <2>1, <2>2
<1> QED
  BY <1>1, <1>2, <1>3, <1>4, <1>5, <1>6, <1>7, <1>8, <1>9, <1>10, <1>11,
     <1>12, <1>13, <1>14, <1>15, <1>16, <1>17, <1>18, <1>19, <1>20, <1>21, <1>22,
     <1>23, <1>24, <1>25, <1>26, <1>27
     DEF Next, WakeLoop, Collector, Database, Acquire, Wait, Unparked,
         ParkTimesOut, Canceler, ReleaseConnection

\* Requests are served in the order of the queue: neither the wake loop nor a
\* request that has just come takes a connection that a waiter ahead of it
\* would have taken.
THEOREM InOrder == Spec => NoOvertaking
<1>1. AllInv /\ AllInv' /\ [Next]_vars => [Served]_vars
  BY ServedStep
<1>2. Spec => [][Served]_vars
  BY <1>1, AllInvariance, PTL DEF Spec
<1> QED
  BY <1>2 DEF NoOvertaking, Served
=============================================================================
