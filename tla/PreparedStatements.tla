-------------------------- MODULE PreparedStatements --------------------------
(***************************************************************************)
(* The prepared statements of one connection (SQLiteConnection.java): the  *)
(* LRU cache, the pool of recycled PreparedStatement objects, the native   *)
(* statements they point to, and the operations that use them.             *)
(*                                                                         *)
(* A connection is used by one thread at a time, but an operation can be   *)
(* re-entered: a custom function called by a running statement may execute *)
(* statements of its own.  The operations in progress are a stack, and     *)
(* only the topmost one takes steps.                                       *)
(*                                                                         *)
(* What prepare(), execute() and executeFor...() do with a statement is    *)
(* the same: acquire, maybe run, release.  Arguments and results are left  *)
(* out; a statement that fails to bind or is forbidden is released without *)
(* having run.                                                             *)
(***************************************************************************)
EXTENDS Naturals, FiniteSets, Sequences, SequencesExt

CONSTANTS
    Sqls,          \* the SQL texts executed
    Cacheable,     \* those that isCacheable() accepts (SELECT, INSERT, ...)
    MaxCacheSize,  \* maxSqlCacheSize
    Statements,    \* identities of PreparedStatement objects
    Pointers,      \* identities of native sqlite3_stmt objects
    HitsReenter,   \* statements found in the cache may be re-entered too
    MaxDepth,      \* bound: operations in progress
    None           \* null

ASSUME StatementsAssumption ==
    /\ Cacheable \subseteq Sqls
    /\ MaxCacheSize \in Nat \ {0}
    /\ MaxDepth \in Nat \ {0}
    /\ HitsReenter \in BOOLEAN
    /\ None \notin Sqls \cup Statements \cup Pointers

VARIABLES
    mPreparedStatementCache,  \* <<key, statement>> pairs, the eldest first
    mPreparedStatementPool,   \* the first recycled statement, or None
    statements,               \* the PreparedStatement objects
    native,                   \* the SQL of each native statement, None if freed
    stack,                    \* the operations in progress, the innermost last
    isOpen                    \* mConnectionPtr # 0

vars == <<mPreparedStatementCache, mPreparedStatementPool, statements, native,
          stack, isOpen>>

StatementType == [mSql : Sqls \cup {None}, mStatementPtr : Pointers \cup {None},
                  mInCache : BOOLEAN, mInUse : BOOLEAN,
                  mPoolNext : Statements \cup {None}]

FrameType == [sql : Sqls, statement : Statements, hit : BOOLEAN,
              running : BOOLEAN]

TypeOK ==
    /\ mPreparedStatementCache \in Seq(Sqls \X Statements)
    /\ Len(mPreparedStatementCache) <= MaxCacheSize
    /\ mPreparedStatementPool \in Statements \cup {None}
    /\ statements \in [Statements -> StatementType]
    /\ native \in [Pointers -> Sqls \cup {None}]
    /\ stack \in Seq(FrameType)
    /\ isOpen \in BOOLEAN

NewStatement == [mSql |-> None, mStatementPtr |-> None, mInCache |-> FALSE,
                 mInUse |-> FALSE, mPoolNext |-> None]

-----------------------------------------------------------------------------
(***************************************************************************)
(* The methods below change the cache, the pool, the objects and the       *)
(* native statements one after the other: they are functions of a record h *)
(* of the four.                                                            *)
(***************************************************************************)
Here == [cache |-> mPreparedStatementCache, pool |-> mPreparedStatementPool,
         objs |-> statements, native |-> native]

Becomes(h) == /\ mPreparedStatementCache' = h.cache
              /\ mPreparedStatementPool' = h.pool
              /\ statements' = h.objs
              /\ native' = h.native

Entries(cache, sql) == {i \in DOMAIN cache : cache[i][1] = sql}
Cached(sql) == Entries(mPreparedStatementCache, sql)

InProgress == {stack[i].statement : i \in DOMAIN stack}
InCache == {mPreparedStatementCache[i][2] : i \in DOMAIN mPreparedStatementCache}

\* The objects on a list: those in every set that has its head and, with an object,
\* the next one.
OnList(head, next) ==
    {s \in Statements :
        \A R \in SUBSET Statements :
            ({head} \cup {next[r] : r \in R}) \ {None} \subseteq R => s \in R}
PoolNext(objs) == [s \in Statements |-> objs[s].mPoolNext]
Recycled == OnList(mPreparedStatementPool, PoolNext(statements))

\* What "new" and sqlite3_prepare16_v2 return, as long as memory is left: something
\* nobody refers to.
Unused == Statements \ (InProgress \cup InCache \cup Recycled)
NewObject == CHOOSE s \in Unused : TRUE
NewPointer == CHOOSE p \in Pointers : native[p] = None
MemoryLeft == /\ mPreparedStatementPool # None \/ Unused # {}
              /\ \E p \in Pointers : native[p] = None

\* recyclePreparedStatement(s)
RecyclePreparedStatement(h, s) ==
    [h EXCEPT !.objs[s] = [@ EXCEPT !.mSql = None, !.mPoolNext = h.pool], !.pool = s]

\* Mutant: the native statement is not finalized.
ForgetPreparedStatement(h, s) == RecyclePreparedStatement(h, s)

\* finalizePreparedStatement(s)
FinalizePreparedStatement(h, s) ==
    RecyclePreparedStatement(
        [h EXCEPT !.native[h.objs[s].mStatementPtr] = None], s)

\* Mutant: "if (!oldValue.mInUse)" is missing.
EntryRemovedInUseToo(h, s) ==
    FinalizePreparedStatement([h EXCEPT !.objs[s].mInCache = FALSE], s)

\* PreparedStatementCache.entryRemoved for the statement s
EntryRemoved(h, s) ==
    LET g == [h EXCEPT !.objs[s].mInCache = FALSE] IN
    IF h.objs[s].mInUse THEN g ELSE FinalizePreparedStatement(g, s)

\* Mutant: the cache is not trimmed to its size.
LruPutUntrimmed(h, sql, s) == [h EXCEPT !.cache = Append(@, <<sql, s>>)]

\* The i-th entry leaves the cache, for LruCache.remove and trimToSize.
Evict(h, i) == EntryRemoved([h EXCEPT !.cache = RemoveAt(@, i)], h.cache[i][2])

\* LruCache.put of a key that is not in the cache, which evicts the eldest
\* entry when the cache is full.
LruPut(h, sql, s) ==
    LET g == [h EXCEPT !.cache = Append(@, <<sql, s>>)] IN
    IF Len(g.cache) <= MaxCacheSize THEN g ELSE Evict(g, 1)

\* LruCache.get: the entry becomes the youngest.
LruGet(h, sql) ==
    IF Entries(h.cache, sql) = {} THEN h
    ELSE LET i == CHOOSE i \in Entries(h.cache, sql) : TRUE IN
         [h EXCEPT !.cache = Append(RemoveAt(@, i), @[i])]

\* LruCache.remove
LruRemove(h, sql) ==
    IF Entries(h.cache, sql) = {} THEN h
    ELSE Evict(h, CHOOSE i \in Entries(h.cache, sql) : TRUE)

\* LruCache.evictAll: the eldest entry first.
LruEvictAll(h) ==
    LET after[n \in 0..Len(h.cache)] == IF n = 0 THEN h ELSE Evict(after[n - 1], 1)
    IN after[Len(h.cache)]

\* obtainPreparedStatement(sql, p): a recycled object, or a new one.
ObtainedObject == IF mPreparedStatementPool # None THEN mPreparedStatementPool
                                                   ELSE NewObject

\* Mutant: the object stays on the list.
ObtainKeepingPool(h, sql, p) ==
    [h EXCEPT !.objs[ObtainedObject] =
         [@ EXCEPT !.mSql = sql, !.mStatementPtr = p, !.mInCache = FALSE]]

ObtainPreparedStatement(h, sql, p) ==
    LET s == ObtainedObject
        recycled == h.pool # None
        was == IF recycled THEN h.objs[s] ELSE NewStatement IN
    [h EXCEPT !.pool = IF recycled THEN was.mPoolNext ELSE None,
              !.objs[s] = [mSql |-> sql, mStatementPtr |-> p,
                           mInCache |-> FALSE, mInUse |-> was.mInUse,
                           mPoolNext |-> None]]

-----------------------------------------------------------------------------
(***************************************************************************)
(* acquirePreparedStatement                                                *)
(***************************************************************************)
\* An operation may start when none is in progress, or inside the statement
\* that is running.
MayStart ==
    /\ isOpen
    /\ Len(stack) < MaxDepth
    /\ stack # <<>> => /\ Last(stack).running
                       /\ Last(stack).hit => HitsReenter

Push(sql, s, hit) ==
    stack' = Append(stack, [sql |-> sql, statement |-> s, hit |-> hit,
                            running |-> FALSE])

UsableHit(sql) ==
    {s \in InCache : /\ \E i \in Cached(sql) : mPreparedStatementCache[i][2] = s
                     /\ ~statements[s].mInUse}

\* The statement is in the cache and not marked as in use.
AcquireHit(sql) ==
    /\ MayStart
    /\ \E s \in UsableHit(sql) : Push(sql, s, TRUE)
    /\ Becomes(LruGet(Here, sql))
    /\ UNCHANGED isOpen

\* It is prepared, and put in the cache unless a copy of it is in use there.
AcquireMiss(sql) ==
    /\ MayStart
    /\ UsableHit(sql) = {}
    /\ MemoryLeft
    /\ LET p == NewPointer
           s == ObtainedObject
           prepared == [LruGet(Here, sql) EXCEPT !.native[p] = sql]
           obtained == ObtainPreparedStatement(prepared, sql, p)
           skipCache == Cached(sql) # {}
           stored == IF ~skipCache /\ sql \in Cacheable
                     THEN [LruPut(obtained, sql, s) EXCEPT !.objs[s].mInCache = TRUE]
                     ELSE obtained
       IN /\ Becomes([stored EXCEPT !.objs[s].mInUse = TRUE])
          /\ Push(sql, s, FALSE)
    /\ UNCHANGED isOpen

\* nativePrepareStatement throws.
AcquireFails(sql) ==
    /\ MayStart
    /\ UsableHit(sql) = {}
    /\ Becomes(LruGet(Here, sql))
    /\ UNCHANGED <<stack, isOpen>>

\* nativeExecute...() of the innermost operation begins.
Execute ==
    /\ stack # <<>> /\ ~Last(stack).running
    /\ stack' = [stack EXCEPT ![Len(stack)].running = TRUE]
    /\ UNCHANGED <<mPreparedStatementCache, mPreparedStatementPool, statements,
                   native, isOpen>>

(***************************************************************************)
(* releasePreparedStatement.  sqlite3_reset reports the error of the last  *)
(* execution: the statement of one that failed leaves the cache.           *)
(***************************************************************************)
\* Mutant: the statement of a failed execution is finalized, not removed.
ReleaseFinalizingFailed(h, s, failed) ==
    LET g == [h EXCEPT !.objs[s].mInUse = FALSE] IN
    IF ~g.objs[s].mInCache \/ failed THEN FinalizePreparedStatement(g, s) ELSE g

ReleasePreparedStatement(h, s, failed) ==
    LET g == [h EXCEPT !.objs[s].mInUse = FALSE] IN
    IF ~g.objs[s].mInCache THEN FinalizePreparedStatement(g, s)
    ELSE IF failed THEN LruRemove(g, g.objs[s].mSql)
    ELSE g

Release(failed) ==
    /\ stack # <<>>
    /\ failed => Last(stack).running
    /\ Becomes(ReleasePreparedStatement(Here, Last(stack).statement, failed))
    /\ stack' = Front(stack)
    /\ UNCHANGED isOpen

\* isPreparedStatementInCache(sql), asked by the pool of an idle connection.
IsPreparedStatementInCache(sql) ==
    /\ isOpen /\ stack = <<>>
    /\ Becomes(LruGet(Here, sql))
    /\ UNCHANGED <<stack, isOpen>>

\* dispose(): nativeClose throws, and the connection stays open, while native
\* statements are left.
Close ==
    /\ isOpen /\ stack = <<>>
    /\ Becomes(LruEvictAll(Here))
    /\ isOpen' = \E p \in Pointers : native'[p] # None
    /\ UNCHANGED stack

Init ==
    /\ mPreparedStatementCache = <<>>
    /\ mPreparedStatementPool = None
    /\ statements = [s \in Statements |-> NewStatement]
    /\ native = [p \in Pointers |-> None]
    /\ stack = <<>>
    /\ isOpen = TRUE

Next == \/ \E sql \in Sqls : \/ AcquireHit(sql) \/ AcquireMiss(sql)
                             \/ AcquireFails(sql)
                             \/ IsPreparedStatementInCache(sql)
        \/ Execute
        \/ \E failed \in BOOLEAN : Release(failed)
        \/ Close

Spec == Init /\ [][Next]_vars

-----------------------------------------------------------------------------
(***************************************************************************)
(* Properties                                                              *)
(***************************************************************************)
\* The native statement of s exists and was prepared from sql.
PreparedFrom(s, sql) ==
    /\ statements[s].mStatementPtr # None
    /\ native[statements[s].mStatementPtr] = sql

\* "We need to prevent in use statements from being finalized until they are no
\* longer in use": however deep operations nest, each has a statement to itself,
\* whose native statement exists and is the one prepared from its SQL.
InUseStatementsIntact ==
    /\ \A i \in DOMAIN stack : PreparedFrom(stack[i].statement, stack[i].sql)
    /\ \A i, j \in DOMAIN stack : stack[i].statement = stack[j].statement => i = j

\* The cache gives back what was put into it: its statements exist, were prepared
\* from the SQL they are found under, and no two operations or entries share one.
CachedStatementsIntact ==
    /\ \A i \in DOMAIN mPreparedStatementCache :
           LET e == mPreparedStatementCache[i] IN
           PreparedFrom(e[2], e[1]) /\ statements[e[2]].mInCache
    /\ \A s, u \in InCache \cup InProgress :
           statements[s].mStatementPtr = statements[u].mStatementPtr => s = u

\* "All native statement objects must be freed before the native database object
\* can be closed": each is in the cache, where close() finds it, or in use.
NoStatementLost ==
    \A p \in Pointers : native[p] # None =>
        \E s \in InCache \cup InProgress : statements[s].mStatementPtr = p

\* A recycled object is handed out again only after everyone else let go of it.
RecycledStatementsUnused == Recycled \cap (InCache \cup InProgress) = {}

-----------------------------------------------------------------------------
(***************************************************************************)
(* Why they hold: what is true of the entries E of the cache, the list     *)
(* that starts at head, the objects, the native statements, and the        *)
(* objects U that operations have marked as in use.                        *)
(***************************************************************************)
Owned(E, U) == {e[2] : e \in E} \cup U

\* An object is found under its own SQL, and its marks say who has it.
EntriesInv(E, objs, U) ==
    /\ \A e, f \in E : e[1] = f[1] \/ e[2] = f[2] => e = f
    /\ \A e \in E : /\ objs[e[2]].mSql = e[1] /\ objs[e[2]].mInCache
                    /\ objs[e[2]].mInUse => e[2] \in U
    /\ \A s \in U : /\ objs[s].mInUse
                    /\ objs[s].mInCache => \E e \in E : e[2] = s

\* Native statements and the objects that somebody has correspond.
PointersInv(E, objs, nat, U) ==
    /\ \A s \in Owned(E, U) :
           /\ objs[s].mSql \in Sqls /\ objs[s].mStatementPtr \in Pointers
           /\ nat[objs[s].mStatementPtr] = objs[s].mSql
    /\ \A s, u \in Owned(E, U) : objs[s].mStatementPtr = objs[u].mStatementPtr => s = u
    /\ \A p \in Pointers :
           nat[p] # None => \E s \in Owned(E, U) : objs[s].mStatementPtr = p

\* The list has no cycle: nothing on it precedes its head, and no two objects precede
\* the same one.
ListInv(head, next) ==
    /\ head # None => \A r \in OnList(head, next) : next[r] # head
    /\ \A r, t \in OnList(head, next) : next[r] = next[t] /\ next[r] # None => r = t

HeapInv(E, head, objs, nat, U) ==
    /\ EntriesInv(E, objs, U) /\ PointersInv(E, objs, nat, U)
    /\ ListInv(head, PoolNext(objs))
    /\ OnList(head, PoolNext(objs)) \cap Owned(E, U) = {}

\* Only the innermost operation may have a statement that is not marked: one that was
\* found in the cache.
Marked(stk) == {stk[i].statement : i \in {j \in DOMAIN stk : ~stk[j].hit}}
StackInv(stk, E, objs) ==
    /\ \A i \in DOMAIN stk :
           IF stk[i].hit THEN i = Len(stk) /\ <<stk[i].sql, stk[i].statement>> \in E
           ELSE objs[stk[i].statement].mSql = stk[i].sql
    /\ \A i, j \in DOMAIN stk : stk[i].statement = stk[j].statement => i = j

StatementsOwned ==
    /\ IsInjective(mPreparedStatementCache)
    /\ HeapInv(ToSet(mPreparedStatementCache), mPreparedStatementPool, statements, native,
               Marked(stack))
    /\ StackInv(stack, ToSet(mPreparedStatementCache), statements)

StatementsInv == TypeOK /\ StatementsOwned
=============================================================================
