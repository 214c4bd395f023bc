----------------------------- MODULE SQLiteSession -----------------------------
(***************************************************************************)
(* Sessions and their transactions (SQLiteSession.java): every thread has  *)
(* a session, which acquires a connection for the duration of an operation *)
(* or of an explicit transaction and keeps a stack of nested transactions. *)
(* Only the outermost one is a transaction of SQLite.                      *)
(*                                                                         *)
(* A session is used by its own thread alone and owns its connection, so a *)
(* call is one step, except an operation, which begins and ends (a custom  *)
(* function may execute other operations meanwhile), and yieldTransaction, *)
(* which lets other sessions run between its two halves.  The pool is what *)
(* the session sees of it: a free connection, sooner or later.  A call     *)
(* that throws before it changes anything is no step.  The SQL statements  *)
(* BEGIN, COMMIT and ROLLBACK are turned into the methods (executeSpecial).*)
(*                                                                         *)
(* Of the data, the model keeps for every connection the sessions whose    *)
(* explicit transactions have written something that is not committed.     *)
(***************************************************************************)
EXTENDS Naturals, FiniteSets, Sequences, SequencesExt

CONSTANTS
    Sessions,       \* sessions, one per thread
    Conns,          \* the connections of the pool
    Failures,       \* what SQLite does beyond refusing a BEGIN or a statement:
                    \*   "failedCommit"     COMMIT fails and rolls back
                    \*   "busyCommit"       COMMIT fails, the transaction stays
                    \*   "canceledRollback" ROLLBACK's signal is canceled: it stays
                    \*   "lostTransaction"  a failed statement rolls it back
    MaxNesting,     \* bound: nested transactions of a session
    MaxOperations,  \* bound: nested operations of a session
    None            \* null

ASSUME SessionAssumption ==
    /\ Failures \subseteq {"failedCommit", "busyCommit", "canceledRollback",
                      "lostTransaction"}
    /\ MaxNesting \in Nat \ {0}
    /\ MaxOperations \in Nat \ {0}
    /\ None \notin Conns

VARIABLES
    mConnection, mConnectionUseCount,      \* fields of a session
    mTransactionStack,   \* its transactions, the innermost last
    mTransactionPool,    \* its recycled Transaction objects
    operations,          \* how many of its operations are in progress
    pc,                  \* "idle", "waiting" for a connection, or "yielding"
    yielded,             \* the listener the transaction being yielded had
    sqlite,              \* the SQLite transaction of each connection; kept when
                         \* SQLite has refused to end it
    history,             \* what the application did in the transaction, and
                         \* whether SQLite rolled it back under way
    committed            \* sessions whose transaction's writes are committed

sessionVars == <<mConnection, mConnectionUseCount, mTransactionStack,
                 mTransactionPool, operations, pc, yielded>>
vars == <<sessionVars, sqlite, history, committed>>

Transaction == [mMarkedSuccessful : BOOLEAN, mChildFailed : BOOLEAN,
                listener : BOOLEAN]

TypeOK ==
    /\ mConnection \in [Sessions -> Conns \cup {None}]
    /\ mConnectionUseCount \in [Sessions -> 0..(MaxOperations + 1)]
    /\ mTransactionStack \in [Sessions -> Seq(Transaction)]
    /\ mTransactionPool \in [Sessions -> Seq(Transaction)]
    /\ operations \in [Sessions -> 0..MaxOperations]
    /\ pc \in [Sessions -> {"idle", "waiting", "yielding"}]
    /\ yielded \in [Sessions -> BOOLEAN]
    /\ sqlite \in [Conns -> [open : BOOLEAN, kept : BOOLEAN,
                          pending : SUBSET Sessions]]
    /\ history \in [Sessions -> [marks : Seq(BOOLEAN), failed : BOOLEAN,
                             lost : BOOLEAN]]
    /\ committed \in SUBSET Sessions

NoTransaction == [open |-> FALSE, kept |-> FALSE, pending |-> {}]
InTransaction(t) == mTransactionStack[t] # <<>>
Top(t) == Last(mTransactionStack[t])

-----------------------------------------------------------------------------
(***************************************************************************)
(* acquireConnection and releaseConnection                                 *)
(***************************************************************************)
Free == Conns \ {mConnection[t] : t \in Sessions}

\* The connections a session's acquireConnection can end up with.
Acquirable(t) == IF mConnection[t] # None THEN {mConnection[t]} ELSE Free

AcquireConnection(t, c) ==
    /\ c \in Acquirable(t)
    /\ mConnection' = [mConnection EXCEPT ![t] = c]
    /\ mConnectionUseCount' = [mConnectionUseCount EXCEPT ![t] = @ + 1]

\* Mutant: the use is not counted down.
ReleaseKeepingCount(t) ==
    /\ mConnection' = [mConnection EXCEPT ![t] =
           IF mConnectionUseCount[t] = 1 THEN None ELSE @]
    /\ UNCHANGED mConnectionUseCount

\* Mutant: the connection is released whatever the count.
ReleaseAlways(t) ==
    /\ mConnectionUseCount' = [mConnectionUseCount EXCEPT ![t] = @ - 1]
    /\ mConnection' = [mConnection EXCEPT ![t] = None]

ReleaseConnection(t) ==
    /\ mConnectionUseCount' = [mConnectionUseCount EXCEPT ![t] = @ - 1]
    /\ mConnection' = [mConnection EXCEPT ![t] =
           IF mConnectionUseCount[t] = 1 THEN None ELSE @]

\* A thread blocks in acquireConnection; the pool tells others that it should
\* be let in.
Wait(t) ==
    /\ pc[t] = "idle" /\ mConnection[t] = None /\ Free = {}
    /\ pc' = [pc EXCEPT ![t] = "waiting"]
    /\ UNCHANGED <<mConnection, mConnectionUseCount, mTransactionStack,
                   mTransactionPool, operations, yielded, sqlite, history,
                   committed>>

-----------------------------------------------------------------------------
(***************************************************************************)
(* Operations: prepare, execute and executeFor...                          *)
(***************************************************************************)
StartOperation(t, c) ==
    /\ pc[t] \in {"idle", "waiting"}
    /\ operations[t] < MaxOperations
    /\ AcquireConnection(t, c)
    /\ operations' = [operations EXCEPT ![t] = @ + 1]
    /\ pc' = [pc EXCEPT ![t] = "idle"]
    /\ UNCHANGED <<mTransactionStack, mTransactionPool, yielded, sqlite, history,
                   committed>>

\* What a statement does on connection c for session t: it writes (to the open
\* transaction, or to the database at once), does not, or fails and makes SQLite
\* roll back.
Effect(t, c, result) ==
    CASE result = "write" ->
           IF sqlite[c].open
           THEN /\ sqlite' = [sqlite EXCEPT ![c].pending =
                                  IF InTransaction(t) THEN @ \cup {t} ELSE @]
                /\ UNCHANGED committed
           ELSE /\ committed' = IF InTransaction(t) THEN committed \cup {t}
                                                    ELSE committed
                /\ UNCHANGED sqlite
      [] result = "none" -> UNCHANGED <<sqlite, committed>>
      [] result = "lost" ->
           /\ "lostTransaction" \in Failures
           /\ sqlite' = [sqlite EXCEPT ![c] = NoTransaction]
           /\ UNCHANGED committed

EndOperation(t, result) ==
    /\ operations[t] > 0
    /\ Effect(t, mConnection[t], result)
    /\ operations' = [operations EXCEPT ![t] = @ - 1]
    /\ history' = [history EXCEPT ![t].lost =
           @ \/ (result = "lost" /\ InTransaction(t))]
    /\ ReleaseConnection(t)
    /\ UNCHANGED <<mTransactionStack, mTransactionPool, pc, yielded>>

-----------------------------------------------------------------------------
(***************************************************************************)
(* beginTransaction                                                        *)
(***************************************************************************)
\* Mutant: the flags of a recycled transaction are not reset.
ObtainStale(t, listener) ==
    IF mTransactionPool[t] # <<>>
    THEN [Head(mTransactionPool[t]) EXCEPT !.listener = listener]
    ELSE [mMarkedSuccessful |-> FALSE, mChildFailed |-> FALSE,
          listener |-> listener]

\* obtainTransaction: a recycled one has its flags reset.
ObtainTransaction(t, listener) ==
    [mMarkedSuccessful |-> FALSE, mChildFailed |-> FALSE, listener |-> listener]

PushTransaction(t, listener) ==
    /\ mTransactionStack' = [mTransactionStack EXCEPT ![t] =
           Append(@, ObtainTransaction(t, listener))]
    /\ mTransactionPool' = [mTransactionPool EXCEPT ![t] =
           IF @ = <<>> THEN @ ELSE Tail(@)]
    /\ history' = [history EXCEPT ![t] =
           IF InTransaction(t) THEN [history[t] EXCEPT !.marks = Append(@, FALSE)]
           ELSE [marks |-> <<FALSE>>, failed |-> FALSE, lost |-> FALSE]]

MayBegin(t) ==
    /\ pc[t] \in {"idle", "waiting"}
    /\ operations[t] = 0
    /\ Len(mTransactionStack[t]) < MaxNesting
    /\ InTransaction(t) => ~Top(t).mMarkedSuccessful

\* A nested transaction is bookkeeping only.
BeginNested(t, listener) ==
    /\ MayBegin(t) /\ InTransaction(t)
    /\ PushTransaction(t, listener)
    /\ UNCHANGED <<mConnection, mConnectionUseCount, operations, pc, yielded,
                   sqlite, committed>>

\* BEGIN and the listener's onBegin() succeed.
BeginSucceeds(t, c, listener) ==
    /\ AcquireConnection(t, c)
    /\ ~sqlite[c].open
    /\ sqlite' = [sqlite EXCEPT ![c] = [NoTransaction EXCEPT !.open = TRUE]]
    /\ PushTransaction(t, listener)
    /\ committed' = committed \ {t}
    /\ pc' = [pc EXCEPT ![t] = "idle"]
    /\ UNCHANGED <<operations, yielded>>

\* Mutant: no ROLLBACK when onBegin() throws.
BeginFailsOpen(t, listener) ==
    /\ \E c \in Acquirable(t) : sqlite' = [sqlite EXCEPT ![c].open = TRUE]
    /\ pc' = [pc EXCEPT ![t] = "idle"]
    /\ UNCHANGED <<mConnection, mConnectionUseCount, mTransactionStack,
                   mTransactionPool, operations, yielded, history, committed>>

\* BEGIN throws, or onBegin() does and the transaction is rolled back, unless
\* ROLLBACK fails too: the connection is released as it was acquired.
BeginFails(t, listener) ==
    /\ \E c \in Acquirable(t) :
           \/ UNCHANGED sqlite
           \/ /\ listener /\ "canceledRollback" \in Failures
              /\ ~sqlite[c].open
              /\ sqlite' = [sqlite EXCEPT ![c].open = TRUE, ![c].kept = TRUE]
    /\ pc' = [pc EXCEPT ![t] = "idle"]
    /\ UNCHANGED <<mConnection, mConnectionUseCount, mTransactionStack,
                   mTransactionPool, operations, yielded, history, committed>>

BeginOutermost(t, listener) ==
    /\ MayBegin(t) /\ ~InTransaction(t)
    /\ \/ \E c \in Conns : BeginSucceeds(t, c, listener)
       \/ BeginFails(t, listener)

SetTransactionSuccessful(t) ==
    /\ pc[t] = "idle" /\ operations[t] = 0
    /\ InTransaction(t) /\ ~Top(t).mMarkedSuccessful
    /\ mTransactionStack' = [mTransactionStack EXCEPT
           ![t][Len(mTransactionStack[t])].mMarkedSuccessful = TRUE]
    /\ history' = [history EXCEPT ![t].marks[Len(mTransactionStack[t])] = TRUE]
    /\ UNCHANGED <<mConnection, mConnectionUseCount, mTransactionPool,
                   operations, pc, yielded, sqlite, committed>>

-----------------------------------------------------------------------------
(***************************************************************************)
(* endTransaction and yieldTransaction                                     *)
(***************************************************************************)
\* The decision of endTransactionUnchecked.
Successful(t, yielding, listenerThrows) ==
    /\ Top(t).mMarkedSuccessful \/ yielding
    /\ ~Top(t).mChildFailed
    /\ ~listenerThrows

PopTransaction(t, successful) ==
    /\ mTransactionStack' = [mTransactionStack EXCEPT ![t] =
           LET rest == Front(@) IN
           IF rest = <<>> \/ successful THEN rest
           ELSE [rest EXCEPT ![Len(rest)].mChildFailed = TRUE]]
    /\ mTransactionPool' = [mTransactionPool EXCEPT ![t] =
           <<[Top(t) EXCEPT !.listener = FALSE]>> \o @]
    /\ history' = [history EXCEPT ![t] =
           [history[t] EXCEPT !.marks = Front(@),
                              !.failed = @ \/ ~Last(history[t].marks)]]

ListenerOutcomes(t) == IF Top(t).listener THEN BOOLEAN ELSE {FALSE}

EndNested(t, listenerThrows) ==
    /\ pc[t] = "idle" /\ operations[t] = 0
    /\ Len(mTransactionStack[t]) > 1
    /\ listenerThrows \in ListenerOutcomes(t)
    /\ PopTransaction(t, Successful(t, FALSE, listenerThrows))
    /\ UNCHANGED <<mConnection, mConnectionUseCount, operations, pc, yielded,
                   sqlite, committed>>

\* COMMIT or ROLLBACK on connection c: "ok", or one of Failures.  With no
\* SQLite transaction both throw.
Settle(c, successful, outcome) ==
    LET closed == [sqlite EXCEPT ![c] = NoTransaction] IN
    \/ /\ sqlite[c].open /\ outcome = "ok"
       /\ sqlite' = closed
       /\ committed' = IF successful THEN committed \cup sqlite[c].pending
                                     ELSE committed
    \/ /\ sqlite[c].open /\ successful /\ "failedCommit" \in Failures
       /\ outcome = "failed"
       /\ sqlite' = closed /\ UNCHANGED committed
    \/ /\ sqlite[c].open =>
              (IF successful THEN "busyCommit" ELSE "canceledRollback") \in Failures
       /\ outcome = "failed"
       /\ sqlite' = [sqlite EXCEPT ![c].kept = @ \/ sqlite[c].open]
       /\ UNCHANGED committed

\* The outermost transaction ends.  The connection is released even if COMMIT
\* or ROLLBACK throws.
EndOutermost(t, yielding, listenerThrows, outcome) ==
    LET successful == Successful(t, yielding, listenerThrows) IN
    /\ pc[t] = "idle" /\ operations[t] = 0
    /\ Len(mTransactionStack[t]) = 1
    /\ listenerThrows \in ListenerOutcomes(t)
    /\ Settle(mConnection[t], successful, outcome)
    /\ PopTransaction(t, successful)
    /\ ReleaseConnection(t)
    /\ UNCHANGED operations

EndTransaction(t, listenerThrows, outcome) ==
    /\ EndOutermost(t, FALSE, listenerThrows, outcome)
    /\ UNCHANGED <<pc, yielded>>

\* Not nested, not marked successful, and no child has failed.
MayYield(t) ==
    /\ InTransaction(t) /\ Len(mTransactionStack[t]) = 1
    /\ ~Top(t).mMarkedSuccessful /\ ~Top(t).mChildFailed

\* yieldTransaction up to the sleep: commits when another thread waits.
YieldTransaction(t, listenerThrows, outcome) ==
    /\ MayYield(t)
    /\ \E u \in Sessions \ {t} : pc[u] = "waiting"
    /\ EndOutermost(t, TRUE, listenerThrows, outcome)
    /\ pc' = [pc EXCEPT ![t] =
           IF listenerThrows \/ outcome # "ok" THEN "idle" ELSE "yielding"]
    /\ yielded' = [yielded EXCEPT ![t] = Top(t).listener]

\* ... and after it: begins the new transaction.
YieldBegin(t) ==
    /\ pc[t] = "yielding"
    /\ \/ \E c \in Conns : BeginSucceeds(t, c, yielded[t])
       \/ BeginFails(t, yielded[t])

Init ==
    /\ mConnection = [t \in Sessions |-> None]
    /\ mConnectionUseCount = [t \in Sessions |-> 0]
    /\ mTransactionStack = [t \in Sessions |-> <<>>]
    /\ mTransactionPool = [t \in Sessions |-> <<>>]
    /\ operations = [t \in Sessions |-> 0]
    /\ pc = [t \in Sessions |-> "idle"]
    /\ yielded = [t \in Sessions |-> FALSE]
    /\ sqlite = [c \in Conns |-> NoTransaction]
    /\ history = [t \in Sessions |-> [marks |-> <<>>, failed |-> FALSE,
                                    lost |-> FALSE]]
    /\ committed = {}

Next == \E t \in Sessions :
    \/ Wait(t)
    \/ \E c \in Conns : StartOperation(t, c)
    \/ \E result \in {"write", "none", "lost"} : EndOperation(t, result)
    \/ \E listener \in BOOLEAN : BeginNested(t, listener) \/ BeginOutermost(t, listener)
    \/ SetTransactionSuccessful(t)
    \/ YieldBegin(t)
    \/ \E listenerThrows \in BOOLEAN :
           \/ EndNested(t, listenerThrows)
           \/ \E outcome \in {"ok", "failed"} :
                  \/ EndTransaction(t, listenerThrows, outcome)
                  \/ YieldTransaction(t, listenerThrows, outcome)

Spec == Init /\ [][Next]_vars

-----------------------------------------------------------------------------
(***************************************************************************)
(* Properties                                                              *)
(***************************************************************************)
\* "The session acquires a single database connection only for the duration of a
\* single (implicit or explicit) database transaction, then releases it": on no
\* path, exceptions included, is a connection kept without a reason, given back
\* while it is needed, or used by two sessions.
ConnectionHeldWhileNeeded ==
    \A t \in Sessions :
        /\ mConnectionUseCount[t] =
               operations[t] + IF InTransaction(t) THEN 1 ELSE 0
        /\ mConnection[t] # None <=> mConnectionUseCount[t] > 0
        /\ \A u \in Sessions : mConnection[u] = mConnection[t] /\ mConnection[t] # None
                                   => u = t

\* "Then the changes are committed if setTransactionSuccessful was called or
\* rolled back otherwise": after endTransaction() has returned or thrown, nothing
\* of the transaction is left pending, and the connection is given back outside
\* of a transaction.  The exception is a COMMIT or ROLLBACK that SQLite refuses
\* with the transaction still open: endTransaction() then releases the connection
\* as it is, and it stays so until a statement makes SQLite roll back.
EndedTransactionSettled ==
    \A c \in Conns : ~sqlite[c].kept =>
        /\ \A t \in sqlite[c].pending : InTransaction(t) /\ mConnection[t] = c
        /\ c \in Free => ~sqlite[c].open

\* The application meant the transaction of t to be committed by this step.
Intended(t) ==
    /\ ~history[t].failed
    /\ Len(history[t].marks) = 1
    /\ history[t].marks[1] \/ pc'[t] = "yielding"

\* A step commits nothing else.
CommitsIntended == \A t \in committed' \ committed : Intended(t) \/ history[t].lost

\* "If any nested transaction is not marked successful, then the entire
\* transaction including all of its nested transactions will be rolled back":
\* what a transaction wrote is committed only by a yield, or at its end if it and
\* all that were nested in it had been marked by the application.  The exception
\* is a transaction that SQLite has rolled back: the session does not notice, and
\* what is written in it from then on is committed statement by statement.
CommittedOnlyIfIntended == [][CommitsIntended]_vars

-----------------------------------------------------------------------------
(***************************************************************************)
(* The inductive invariant                                                 *)
(***************************************************************************)
\* The stack holds the marks that the application gave.
MarksMirrored == \A t \in Sessions :
    /\ Len(history[t].marks) = Len(mTransactionStack[t])
    /\ \A i \in DOMAIN mTransactionStack[t] :
           history[t].marks[i] = mTransactionStack[t][i].mMarkedSuccessful

\* A nested transaction that was not marked leaves its mark on one of those
\* that enclose it.
FailureRemembered == \A t \in Sessions :
    InTransaction(t) /\ history[t].failed =>
        \E i \in DOMAIN mTransactionStack[t] : mTransactionStack[t][i].mChildFailed

\* The transaction of a connection is that of the session that holds it, unless
\* SQLite has rolled it back, or has refused to end it.
TransactionOwned ==
    /\ \A t \in Sessions : InTransaction(t) /\ mConnection[t] \in Conns =>
           /\ ~sqlite[mConnection[t]].kept
           /\ sqlite[mConnection[t]].open \/ history[t].lost
    /\ \A c \in Conns :
           /\ sqlite[c].kept \/ sqlite[c].pending # {} => sqlite[c].open
           /\ sqlite[c].open /\ ~sqlite[c].kept =>
                  \E t \in Sessions : InTransaction(t) /\ mConnection[t] = c

\* A session that yields has given up its transaction.
YieldsOutside == \A t \in Sessions :
    pc[t] = "yielding" => ~InTransaction(t) /\ operations[t] = 0

\* The four above, the type and the two safety properties: what every call of
\* a session relies on and re-establishes.
SessionInv ==
    /\ TypeOK
    /\ ConnectionHeldWhileNeeded
    /\ EndedTransactionSettled
    /\ MarksMirrored
    /\ FailureRemembered
    /\ TransactionOwned
    /\ YieldsOutside
=============================================================================
