# A verification project for the custom SQLite binding

The repository is an Android library: Java classes derived from
`android.database.sqlite`, a JNI layer, and a native SQLite 3.9.1 built with extra
tokenizers, a `REGEXP` function, SQL functions and a page codec. This project models
the parts of it that carry its own logic and its own concurrency, and the part of
SQLite on which its promise of atomic transactions rests: file locks, the rollback
journal and the write-ahead log. It checks them with TLC on small instances, and
proves the safety properties of the connection pool, of prepared statements, of
sessions, of the database object, of cancellation, of the file locks and of the
write-ahead log with TLAPS for every instance.

Paths below are relative to `src/sqlite-android/src/main/java/org/sqlite/` (Java) and
`src/sqlite-android/src/main/jni/sqlite/` (native).

## 1. Inventory

| Component | State | Operations | Hard behaviour | Status |
|---|---|---|---|---|
| `SQLiteConnectionPool` | available, acquired and primary connections, configuration, priority queue of waiters, leak flag | acquire, release, close, reconfigure, wake, cancel a waiter, leak recovery | threads parked outside the lock, wakeups, late cancellations, recycled waiters, reconfiguration of connections in use, garbage collection | modelled (`SQLiteConnectionPool`) |
| `SQLiteConnection`: prepared statements | LRU cache, list of recycled objects, native statements | acquire, execute, release, evict, close | re-entrant execution from custom functions, failure in the middle | modelled (`PreparedStatements`) |
| `CancellationSignal`, attachment to a connection, progress handler | signal flags and listener, attach count, native flag | cancel, set and remove the listener, attach, detach, reset, interrupt | `cancel()` from any thread at any moment, shared signals, nesting | modelled (`CancellationSignal`) |
| `SQLiteSession` | connection and its use count, transaction stack, recycled transactions | operations, begin, mark, end, yield | nesting, listeners that throw, failing `BEGIN`, `COMMIT`, `ROLLBACK` | modelled (`SQLiteSession`) |
| `SQLiteDatabase`, `SQLiteClosable` | reference count, pool, configuration, attached flag | operations, transactions, `ATTACH`, settings, close | `close()` under running methods, settings that fail half way | modelled in part (`SQLiteDatabase`) |
| Rest of `SQLiteConnection` | pragmas, journal mode, operation log | open, reconfigure, bind, dump | journal mode switches, a ring buffer with cookies | planned |
| `SQLiteOpenHelper` | the open database, WAL flag, initializing flag | get, close, WAL switch | exceptions in callbacks, recursion, read-only fallback | planned |
| `SQLiteCursor`, cursor window | window, row count, position | move, fill, requery, close | which rows a window holds, a window that fills up | planned |
| Opening, `DefaultDatabaseErrorHandler` | files | open, retry, delete | corruption found while opening | planned |
| Tokenizers (`fts3_html_tokenizer.c`, `tokenizers/character/character_tokenizer.c`) | cursor over a text | open, next, close | tags inside, before and after words, elements left out, offsets, UTF-8 sequences cut off | modelled in part (`Tokenizers`) |
| `regex/regex.c` | per-connection cache, one static mutex | compile, match | the mutex stays locked on an error path | planned |
| Page codec (`codec.c`, `codecext.c`) | read and write key | attach, rekey | a rekey that fails half way | planned (ciphers are out of reach) |
| `SQLiteProgram`, `SQLiteStatement`, `SQLiteQuery`, `SQLiteQueryBuilder`, debugging, SQL functions, demo app | little or none | | | not modelled |
| File locks (`os_unix` in `sqlite3.c`) | `eFileLock` of a connection, `unixInodeInfo` of a process, the POSIX locks | `unixLock`, `posixUnlock`, `unixClose` | several connections of a process share its POSIX locks, which are taken byte by byte | modelled (`FileLocks`, `UnixFileLocks`) |
| Pager with a rollback journal (`sqlite3.c`) | database file, journal, cache and state of a pager | read, write, spill, commit, roll back, recover | failing calls, death of a process, loss of power between any two writes, a cache that survives | modelled in part (`RollbackJournal`) |
| Write-ahead log (`sqlite3.c`) | log, wal-index with its header, marks and locks, database file | read, write, spill, commit, roll back, checkpoint, recover | readers, a writer and a checkpoint at once, a log that starts again, loss of power | modelled in part (`WriteAheadLog`) |
| Rest of `sqlite3.c` (compiler, virtual machine, B-trees, FTS), PCRE, Snowball, Rijndael, SHA-2, nativehelper | | | | vendored, not modelled |

How they interact. A method of `SQLiteDatabase` takes a reference, fetches the
session of its thread and calls it. The session acquires a connection from the pool,
once for an operation or for a whole transaction, and blocks there if there is none;
the pool parks the thread and unparks it when a release, a reconfiguration, a
cancellation or `close()` has decided its request. The connection prepares or finds a
statement, attaches the cancellation signal, runs the statement (which may call back
into the application, and so into the same connection) and undoes all that. Settings
go from the database through `reconfigure()` of the pool to every connection.
`cancel()` arrives from any thread and ends up either in the pool (a waiter) or in
the native progress handler (a statement). Below the JNI layer a statement reads and
writes pages through the pager, which takes file locks and uses a rollback journal
or, when the database is configured for it, a write-ahead log: then the readers of
the pool go on beside its writer. Full text search calls the tokenizers.

The hazards in this code, each at its line and with the properties that would catch
it, are listed under `hazards` in `PROJECT.json`.

## 2. Modules

### SQLiteConnectionPool

Every field of the pool is guarded by `mLock`, so a locked section that does not wake
waiters is one action. `wakeConnectionWaitersLocked()` is always the last call of a
section; it is a loop of one step per waiter (`WakeClosed`, `WakeAssign`, `WakeThrow`,
`WakeSkip`) that holds `mLock`, whose locals are the variable `wake`. Parking,
cancelling, the collector and the finalizer go on meanwhile.

| Code | Definitions |
|---|---|
| `waitForConnection` (627-741) | `AcquireNow`, `AcquireThrows`, `Enqueue`, `SetOnCancelListener`, `OnCancelBySelf`, `CheckLeaked`, `WakeAfterLeak`, `Unparked`, `ParkTimesOut`, `CheckDone`, `RemoveListener` |
| `tryAcquire...ConnectionLocked`, `finishAcquireConnectionLocked` | `PrimaryChoices`, `NonPrimaryChoices`, `TryAcquire`, `FinishAcquireConnection` |
| `cancelConnectionWaiterLocked`, and `cancel()` of the request's signal | `Cancel`, `OnCancelByCanceler`, `CancelFinished`, `OnCancel` |
| `releaseConnection`, `recycleConnectionLocked` | `ReleaseAndClose`, `ReleaseAndRecycle` |
| `dispose` | `Close` |
| `reconfigure` | `Reopen`, `ReopenThrows`, `ReconfigureInPlace` |
| finalizer, `onConnectionLeaked` | `Abandon`, `Collect`, `OnConnectionLeaked` |

Abstractions: which of several available connections a request gets (the code prefers
one with the statement in its cache) is any of them; a nonce is the Boolean "has not
been recycled since"; a configuration is the four things `reconfigure()` tells apart.
Logging and statistics are left out. `registerTokenizer`, `loadExtension` and
`enableLocalizedCollators`, which do not change the pool, are left out too.

### PreparedStatements

One connection, its statements, and a stack of operations in progress: a statement
that runs may call a custom function that executes other statements on the same
connection. The methods that touch the cache call each other, so they are written as
functions of a record of the four things they change. `android.util.LruCache` is
external and modelled by what the code uses of it: an entry that leaves it, for
whatever reason, is one `Evict`. The recycled objects are linked by `mPoolNext`;
`OnList` are those reachable from the head. `new` and `sqlite3_prepare16_v2` return
an object and a pointer that nobody refers to (`MemoryLeft`: there is one). The SQL
texts are model values; what tells them apart is whether `isCacheable()` accepts them.

### CancellationSignal

Signals with their flag, listener and `mCancelInProgress`; connections (one per
thread) with the attach count, the native cancel flag and whether the progress
handler is installed; operations nested up to `MaxDepth`. `cancel()` is three steps,
since the listener is called outside the lock, and so is `setOnCancelListener` on a
signal that is canceled already. Setting or removing a listener waits while a cancel
is in progress. Detaching is two steps: `Detach` decrements the count (`:981`) and
`RemoveListener` calls `setOnCancelListener(null)` (`:984`), which waits, so a
`cancel()` in progress may still call `onCancel()` when the count is 0 already.
`OnCancelOnlyWhileAttached` is therefore stated with the listener of the signal and not
with the count.

### SQLiteSession

One session per thread. A call is one step, because a session is used by its thread
alone and owns its connection; an operation begins and ends (others nest in it), and
`yieldTransaction` lets other sessions run between its halves. Of SQLite the model
keeps whether a connection is in a transaction and which sessions have uncommitted
writes there. `Failures` selects what SQLite may do beyond refusing a `BEGIN` or a
statement, so that what depends on such a failure is visible in the configuration.
`history` records what the application did, independently of the flags of the code;
`CommittedOnlyIfIntended` compares the two. Transaction methods are called between
operations, not from a custom function inside one.

### SQLiteDatabase

The reference count, `close()`, methods that hold a reference while they work, the
configuration, and its copy in the pool. `mLock` guards the configuration and is held
while the pool is reconfigured: one step. The last release clears the reference to
the pool under `mLock` and closes the pool after that: two steps. `executeSql` of an
`ATTACH` sets the flag, disables WAL, and then executes: three steps. The pool is
reduced to its configuration, whether it is open, and which threads have a
connection.

### FileLocks, UnixFileLocks

`FileLocks` is what the five levels of a lock on the database file promise: any
number of readers, one `RESERVED` beside them, `PENDING` keeps new readers out,
`EXCLUSIVE` is alone. `UnixFileLocks` is the code that implements it: connections of
several processes, of which those of one process share a `unixInodeInfo` (its mutex
is held for a whole call: one call in progress per process, variable `op`) and one
set of POSIX locks. One step is one `fcntl` call, so other processes lock and unlock
in between; a call may fail, and a process may die. The file is three locks,
`PENDING_BYTE`, `RESERVED_BYTE` and the shared range. `fcntl` is external: a lock is
granted if no other process has a conflicting one, and closing any descriptor drops
all locks of the process, which is why `unixClose` postpones it. Closing is part of
the model with its failure: `unixClose` calls `unixUnlock(NO_LOCK)` and ignores what it
returns, so `Close` may clear a handle whose first two bytes could not be released, and
the inode goes on counting it (`Orphaned`). The last connection of a process to the
file frees the inode information and closes every descriptor (`LastOpen`); `Open` takes
one that was put aside again (`findReusableFd`).

### AtomicDatabase, PageFile

`AtomicDatabase` is the specification that both journals implement: a reader sees one
committed image until it ends, one connection at a time prepares a new one, a commit
replaces the image at once, and nothing in between is ever found after a crash. With
`synchronous=NORMAL`, the default, a restart may bring back an image that recent
commits have replaced; `alternatives` are the images this is true of. `PageFile` is a
file of pages and what of it may be left by a loss of power: each page written since
the last sync is old, new or torn, and the size is old or new.

### RollbackJournal

Connections in different processes, on top of the levels of `FileLocks`, with
`journal_mode=DELETE` and `synchronous=NORMAL`. A page is the transaction that wrote
it; page 1 also has the change counter and the size of the database. One step is one
system call: locking, looking for a hot journal, taking `EXCLUSIVE` for a recovery,
validating the cache by the change counter, journalling a page, syncing the journal
with and after its record count, writing a page, syncing the file, deleting the
journal, truncating. Each may fail (`StepFails`, `PlaybackFails`, `RecoveryFails`),
after which the pager rolls back or goes to `PAGER_ERROR`. The truncation that ends a
transaction comes after the journal is gone; if it fails the transaction is committed and
the pager is in `PAGER_ERROR` (`Finish`). A page that was spilled may be changed and
written again (`MayChange`; at most twice in a transaction). `Crash` ends a process;
`PowerLoss` ends all and leaves any of the `Survivors`. The directory is not synced
after the journal is unlinked, so a loss of power may bring the journal of a committed
transaction back (`unlinked`).

The image of the refinement mapping is what a recovery would produce now:
the database file with the originals of a valid journal put back (`Recovered`).

Left out: the empty database file, master journals, savepoints, `PERSIST` and
`TRUNCATE` modes, pages spilled beyond the size of the database, extending the file
by `pager_truncate`.

### WriteAheadLog

The connections of one process (the pool), `synchronous=NORMAL`, and the passive
checkpoints that a connection runs when its commit has made the log long; here any
idle connection may run one. Modelled are the log with its salts and checksums (a
frame belongs to a generation of the log and is valid as far as the checksums go), the
wal-index with its header, `nBackfill` and the read marks, the locks, reading with
mark 0 or another one, spilled frames and their rewriting in place, rolling back,
starting the log again, checkpointing page by page, and recovery. What a lock
or the two copies of the header make atomic is one step: reading or writing the
header, recovery, writing and syncing the header of the log, appending to the index,
and choosing a mark together with raising a free one (under its exclusive lock).
Locking the mark for reading is the next step, and looks at mark and header again; a
reader that finds them changed starts over. `walRestartHdr` is two steps, as it writes
the header of the wal-index (`RestartLog`) before `nBackfill` and the marks
(`ResetCkptInfo`), and others look at both in between. Frames that were written in place
get new checksums before the commit, from the first of them on (`iReCksum`).

Each write of a frame, of a checksum and of the header of the log may fail
(`WriteFails`, `HeaderFails`). After a failed commit the transaction is undone and the
entries of its frames are taken out of the wal-index (`Rollback`). After a failed spill
the pager is in `PAGER_ERROR`, which only ends the read and gives up the locks
(`UnlockError`): the entries stay, and the next writer that appends a frame there cleans
them up (`IndexAppend`).

`Spec` are all behaviours. `SpecApart` are those in which the log does not start again
while a checkpoint is in progress (`RestartApart`): the run `wal_reset` shows what
happens otherwise.

Left out: the clean page cache and its reset, giving up with `SQLITE_PROTOCOL` after
100 attempts, `RESTART` and `TRUNCATE` checkpoints, `sqlite3WalClose`, several
processes and read-only use of the wal-index, savepoints, snapshots.

### Tokenizers

Both tokenizers as functions from a text and an offset to the next token. An HTML
text is a sequence of characters. A name that the tokenizer has in its lists is one of
them, and a longer name that begins or ends with it has more (`<header>`, `<thead>`), so
comparing a prefix (`strncasecmp`, without regard to case) and searching the end of an
element (`strstr`, with regard to case) behave as they do in the code. `pieces` is what
the author of the text meant by it (a word character, a delimiter, a tag that breaks or
does not break a word, an element that is left out, an unclosed one), from which
`HtmlTokensAreWords` computes the words that should come out. It excepts what the code
does not handle: the last three cases in the list of section 3, two of them pieces of
their own and one `TakenForIgnored`. A text for the character
tokenizer is a sequence of bytes, continuation bytes or not. The Unicode tables, the
stemmer, and `tokenchars=` and `separators=` are not modelled. The scanning loops are
`RECURSIVE`, so this module is only model-checked.

The MC modules only declare model values and the configurations, signal assignments,
pieces and symmetry sets used by the `.cfg` files.

## 3. Runs

| Run | What it shows |
|---|---|
| `pool` | Three threads, one of them interactive, cancelable and impatient, share a WAL pool of two while it is reconfigured (some connections cannot be reopened or reconfigured) and closed. No waiter that could be served is left asleep (`NoStarvedWaiter`), nobody taken out of the queue sleeps on (`NoLostUnpark`), a late cancellation never hits a recycled waiter (`CanceledOnlyByOwnSignal`), requests are not overtaken (`NoOvertaking`), connections have one owner (`ExclusiveOwnership`), the assertion of `releaseConnection` holds (`SinglePrimary`), the new settings reach every connection (`ConfigurationPropagated`); `QueueInv` is what is inductive about ownership, waiters, the queue and the wake loop |
| `pool_leak_recovery` | A session abandons its connection: every request still ends (`EveryRequestEnds`), through the timeout |
| `statements_nested` | Statements prepared, re-entered, evicted, failed, recycled: in-use and cached statements stay intact, none is lost, no recycled object is referenced; the inductive invariant is `StatementsInv` |
| `cancellation` | One thread has a signal of its own and shares another: a cancel that has returned reaches the operation it was meant for, which ends even if its statement would run for ever; `onCancel()` is called only while the connection is the listener of the signal (`OnCancelOnlyWhileAttached`); a connection comes back with nothing left of the signal; all of it from the inductive `CancellationInv` |
| `session` | Nested operations and transactions with yields, listeners that throw and every failure of SQLite: a session holds a connection exactly while it needs one, only what the application intended is committed, an ended transaction leaves nothing behind unless SQLite kept it; the inductive invariant is `SessionInv` |
| `database_shared` | The pool outlives every method that uses it and is closed afterwards; database and pool agree on the configuration, whatever fails; WAL does not come back once a database is attached; the inductive invariant is `DatabaseInv` |
| `unix_locks` | Two processes with two connections each: every level is backed by POSIX locks and the inode counts exactly the readers of the process, or one more once a connection was closed although its unlock had failed (`LockInv`), giving up part of a lock is never refused (`DowngradeUnobstructed`), and the levels behave as in `FileLocks` (`ImplementsFileLocks`) |
| `rollback_journal` | Two processes, a failing call, and a death or a loss of power anywhere: the original of a page is durable before the page is overwritten (`WriteAhead`), and the database is atomic (`ImplementsAtomicDatabase`) |
| `wal` | Two connections, a checkpoint and a log that may start again after it, with one fault anywhere: pages are not copied past a reader (`CheckpointBehindReaders`), what is copied is durable in the log and every commit is one that recovery finds (`DurableBeforeCopied`), and the database is atomic (`ImplementsAtomicDatabase`) |
| `tokenizers` | Every text of up to four pieces or seven bytes: the HTML tokenizer returns the words a reader sees, apart from the cases listed below (`HtmlTokensAreWords`), the character tokenizer cuts the text without a gap (`CharacterTokensPartition`), tokens lie in the text and follow each other (`TokensInOrder`) |

Two runs are expected to be violated. Each states something a comment of the
repository says, and shows a behaviour of the code that breaks it:

| Run | Statement | Behaviour |
|---|---|---|
| `statements_reentrant` | "prevent in use statements from being finalized" (`SQLiteConnection.java:1287`) | a statement found in the cache is not marked as in use, so a re-entrant execution shares it or evicts and finalizes it |
| `wal_reset` | "The nBackfill number is never greater than WalIndexHdr.mxFrame." (`sqlite3.c:54109`) | a checkpoint reads the header, a writer starts the log again, the checkpoint takes the `nBackfill` of the new log for progress to be made on the old one and stores the old length |

`statements_nested` therefore lets only newly prepared statements be re-entered
(`HitsReenter = FALSE`). `wal` has one checkpoint, and the behaviour of `wal_reset`
needs two (one that copies the whole log, so that it can start again, and the one
with the old header): both runs show what holds apart from these behaviours.

Other limits of the code met while modelling, which the properties are stated around:

- a waiter that was assigned a connection just before `close()` throws without looking
  at it (`SQLiteConnectionPool.java:713`); the connection stays acquired until its
  finalizer runs;
- the signal of an operation nested in one with another signal is not listened to
  (`SQLiteConnection.java:967`), and a signal used by two threads reports to the one
  that attached it last, so `CancelReachesOperation` and `CanceledOperationEnds` are
  about the outermost operation with a signal that no other thread uses;
- after SQLite has rolled back by itself a session believes to be in a transaction and
  its operations are committed one by one, so `CommittedOnlyIfIntended` excepts a
  transaction that SQLite rolled back; when `COMMIT` fails with `SQLITE_BUSY` the
  connection is released inside the transaction, so `EndedTransactionSettled` says
  "unless SQLite kept it";
- `close()` empties the queue of the pool without marking the waiters as done; a
  cancellation that arrives before such a waiter wakes up walks off the queue
  (`SQLiteConnectionPool.java:754`), which the step `WaiterMissing` stands for;
- an `ATTACH` that fails because WAL cannot be disabled has set the attached flag
  already, and the next one attaches with WAL enabled, so `WalNotEnabledOnceAttached`
  says that WAL is not enabled afterwards, not that it is off;
- `endTransaction()` throws after `close()`: a transaction in progress cannot be ended;
- in a text that ends inside a tag that does not break words, the HTML tokenizer steps
  over the terminating NUL (`fts3_html_tokenizer.c:803`) and goes on with whatever
  follows (variable `beyond`); `TokensInOrder` excepts exactly these texts;
- `unixClose` ignores a failed unlock (`sqlite3.c:31354`): the inode goes on counting
  the connection, stays above `SHARED` and keeps its locks for as long as another
  connection of the process has the file open, and these can only read. No level is
  without its lock, so `ImplementsFileLocks` holds all the same;
- between the two writes of `walRestartHdr` (`sqlite3.c:55468`, `:55469`) `nBackfill`
  is greater than `mxFrame`, which `BackfillWithinLog` excepts. A checkpoint that begins
  at this moment finds nothing to copy, and a reader does not take the empty log for one
  that has been copied (`RestartOf`);
- an ignored element whose closing tag is not in lower case is not recognised as closed
  (`fts3_html_tokenizer.c:714`, `:732`, `:822`), and its text is indexed;
- a tag whose name begins with that of an ignored element is taken for it (`:705`,
  `:725`), and if the name with a `>` occurs anywhere behind, as in `<header>`, text,
  `<thead>`, the text in between is not indexed (`TakenForIgnored`);
- inside a word, a tag whose name begins like that of an annotation (`<rtc>`, `:815`)
  is taken for the annotation and does not end the word.

### Bounds

- Pool: three threads and a pool of two (or two threads and a leak) are the smallest
  instance in which a request waits while others release, both kinds of connections
  are requested, and waiters overtake. Four connection objects are enough for a
  reconfiguration or a leak to replace those in use; two waiter objects make
  recycled ones come back soon (a third request queues when one of them is free). The shipped build has a codec, which makes the pool size
  1 whatever the mode; `HasCodec = FALSE` includes that case (a pool without WAL) and
  the larger one.
- Statements: a cache of two and three cacheable texts make evictions of statements
  in use happen; four objects and pointers are what a cache of two and a nesting of
  two can hold at once, so no step is cut off.
- Cancellation: two threads, two signals, one of them shared, nesting of
  three. A signal that was canceled is replaced by a new one, so nothing runs dry.
- Session: two sessions compete for one connection, with transactions and operations
  nested two deep.
- Database: three threads, one `close()`, four settings or `ATTACH`es. A second
  `close()` by the application would release a reference it does not own, which the
  code does not detect; the properties about references are about one.

- File locks: two processes, so that POSIX locks conflict, with two connections each,
  so that one of a process reads while the other writes or closes; two failing calls,
  as a failure while another is cleaned up takes two.
- Rollback journal: two processes, two transactions, two pages (page 1 and one that
  is added, changed, dropped and spilled), a failing call and a crash or loss of
  power. With three pages (2.6 million states) the properties hold as well; the run
  keeps two for its time.
- Write-ahead log: two connections, two transactions, two spilled pages (the second one
  rewrites a frame in place), a checkpoint, after which the log starts again, one fault
  of any kind. One mark beside mark 0 is shared by the
  readers. Larger instances were checked once and are not runs for their time: two
  marks and a crash; two checkpoints that do not overlap a restart (`SpecApart`, 0.84
  million states); with `LogInv`, three connections, so that a reader, a writer and a
  checkpoint overlap; with `ChainInv`, three pages and four spills, so that two frames
  are rewritten in place before a commit. The proofs of section 4 have no such bounds.
- Tokenizers: a word, two pieces of markup and another word are four pieces, where an
  element that is left out is one piece with its tags and its contents, so every pair of
  tags and elements stands before, inside and after words. A character of four bytes, a cut-off
  one and one more fit in seven bytes.

`Impatient` threads may return from `park` without being unparked, which stands for
the timeout and for spurious returns alike; others only return when unparked, so that
a lost wakeup is not hidden by the timeout.

Deadlock is checked except in the runs of `PreparedStatements` and `SQLiteDatabase`,
where a closed connection or database is not used any more.

### Fairness

Weak fairness of the steps a thread takes by itself (it is scheduled by the
operating system, and none of these steps waits for anything but `mLock`, which is
held for a bounded number of steps), and of the release of a connection (a session
releases in a `finally` block; a statement that never ends is the application's).
The collector and finalizer run; that a park times out (after 30 s) is assumed only
once a connection has leaked, so timeouts cannot hide a lost wakeup. In
`cancellation` a statement need not end, but the progress handler is called every few
instructions, also when operations nested in the statement come and go (strong
fairness).

## 4. Proofs

Each component that is proved about has a module of proofs that extends it. In each,
one invariant is shown to hold initially and to be preserved by every action. TLC
checks the same invariant in the component's run; for the write-ahead log, whose
invariants `LogInv` and `ChainInv` were checked in this way before they were proved,
the run has the properties only. The safety properties then follow from the
invariant, and an action property from the invariant and the step.

| Module | Theorems | Statement |
|---|---|---|
| `SQLiteConnectionPoolProofs` | `TypeCorrect`, `OwnershipInvariant`, `Ownership`, `OnePrimary` | `TypeOK`, `OwnershipInv`, `ExclusiveOwnership`, `SinglePrimary` |
| | `QueueInvariant`, `UnparkNotLost`, `OwnSignalOnly`, `NobodyStarves`, `InOrder`, `ConfigurationReachesAll` | `QueueInv`, `NoLostUnpark`, `CanceledOnlyByOwnSignal`, `NoStarvedWaiter`, `NoOvertaking` (an action property), `ConfigurationPropagated` |
| `PreparedStatementsProofs` | `StatementsInvariant`, `StatementsTypeCorrect`, `StatementsInUseStayIntact`, `StatementsInCacheStayIntact`, `StatementsAreNeverLost`, `RecycledStatementsAreUnused` | `StatementsInv`, `TypeOK`, `InUseStatementsIntact`, `CachedStatementsIntact`, `NoStatementLost`, `RecycledStatementsUnused`, if `~HitsReenter` |
| `WriteAheadLogProofs` | `LogInvariant`, `CheckpointsStayBehindReaders`, `BackfillStaysWithinLog`, `ChainInvariant`, `FramesDurableBeforeCopied` | `LogInv`, `CheckpointBehindReaders`, `BackfillWithinLog`, `ChainInv`, `DurableBeforeCopied`, for `SpecApart` |
| `SQLiteSessionProofs` | `SessionInvariant`, `ConnectionHeld`, `TransactionsSettled`, `OnlyIntendedCommits` | `SessionInv`, `ConnectionHeldWhileNeeded`, `EndedTransactionSettled`, `CommittedOnlyIfIntended` (an action property) |
| `SQLiteDatabaseProofs` | `DatabaseInvariant`, `PoolOpen`, `Agreement`, `WalStaysOff` | `DatabaseInv`, `PoolOpenWhileReferenced`, `ConfigurationsAgree`, `WalNotEnabledOnceAttached` (an action property) |
| `CancellationSignalProofs` | `CancellationInvariant`, `OnCancelAttached`, `ConnectionComesBackClean`, `CancelHasReached` | `CancellationInv`, `OnCancelOnlyWhileAttached`, `NothingLeftBehind`, `CancelReachesOperation` |
| `UnixFileLocksProofs` | `LockInvariant`, `DowngradeNeverObstructed`, `Implementation` | `LockInv`, `DowngradeUnobstructed`, `ImplementsFileLocks` (the specification of `FileLocks`) |
| `SequenceFacts` | lemmas only | what `Append`, `Front`, `RemoveAt`, `InsertAt` and the replacement of an element change and leave alone; least elements |

The theorems hold for any sets of threads, connections, waiters, signals and
processes, any pool and cache size, any depth of nesting and any value of the bounds.
The assumptions are those declared with the constants: `PoolAssumption`,
`ConnsAssumption`, `StatementsAssumption`, `SessionAssumption`, `DatabaseAssumption`,
`SignalsAssumption`, `LocksAssumption`, `LogAssumption`. They say that null is not one of the objects, that sizes are
positive numbers, and, where the code counts (acquired connections, references, the
readers of a process), that there are finitely many of what is counted.

Two groups of theorems have a hypothesis beyond these, and in both it excludes exactly
the behaviour that a run shows to break the property: `~HitsReenter`
(`statements_reentrant`) and `RestartApart` (`wal_reset`). The theorems say that
nothing else does.

### Connection pool: ownership

`ExclusiveOwnership` is not inductive: releasing makes the connection available as
what it is, so one has to know that an available primary connection is primary and
that non-primary ones are not; a finalizer closes a connection, so one has to know
that it is out of the pool; a thread that wakes up takes what its waiter was
assigned, so one has to know that it has a waiter; and a primary connection that is
released finds its place empty only because at most one acquired primary connection
is not marked `DISCARD`, which is `SinglePrimary`. `OwnershipInv` adds these facts.
`TypeOK` and `OwnershipInv` are proved together, by one lemma per group of conjuncts
(what the pool says of its connections, what threads and waiters refer to, where
threads are) with one case per action. It is part of `QueueInv`, which TLC checks in `pool`.

### Connection pool: the queue

`QueueInv` is proved on top of ownership, in two parts.

The first (`Waits`) relates waiters, queue, permits and signals. `NoLostUnpark` needs
to know whose thread a waiter that is taken out of the queue belongs to, hence that a
waiting thread and its waiter know each other and nobody else (`WaitersOwned`), and
that the queue holds each waiter once (`QueueInOrder`). That a stale `onCancel` misses
a recycled waiter is the same fact: a nonce that still matches belongs to the thread
in the waiter; and whoever calls `onCancel` does so for a canceled signal
(`SignalsInOrder`). Most steps leave queue and waiters alone (`WaitsFrame`), take one
waiter out of the queue (`WaitsDequeue`) or end a request (`WaitsRecycle`); `Enqueue`
is a case of its own.

The second (`Serves`) is `NoStarvedWaiter` and its form inside the wake loop
(`WakeLoopInOrder`: the waiters the loop has passed cannot be served, and the kinds of
connections it has given up on are not available). Taking a connection never makes
one available for others (`AcquireLess`, where connections are counted); a step that
ends in `wakeConnectionWaitersLocked` starts the loop with nobody passed
(`ServesWake`). The interesting steps are the ones that make room without waking
anybody: closing a connection in excess (`ExcessGivesNothing`: either another one is
available already, or the pool size is 1 and the primary connection is still in use),
and a `reconfigure()` that fails after closing what was available (it is refused
unless no connection is acquired, and then nobody waits). `NoOvertaking` follows:
those ahead could take nothing of what was available, and so not what is taken.

`ConfigurationPropagated` is inductive with ownership.

### Prepared statements

`StatementsInv` relates five things: the entries of the cache, the marks `mInCache` and
`mInUse` of the objects, the native statements, the list of recycled objects, and the
stack of operations. An object is owned if it is cached or marked as in use; owned
objects and native statements correspond one to one, and the list has no owned object.
Only the innermost operation may use an object that is not marked, one it has found in
the cache: with re-entrance of such an operation excluded, nothing can evict that
entry.

The operations of the code (recycle, finalize, put, get, remove, obtain, release) are
lemmas about the record they are functions of: each takes a consistent heap to a
consistent heap and says what it has done to entries, objects, pointers and list
(`HeapOK`). The list is the delicate part. Putting an object in front of it or taking
the first one off keeps the others exactly if no two objects on it have the same
successor and none precedes the head, and `OnList` being the least closed set replaces
an induction along the list. `evictAll` is a recursive function over the entries; that
every prefix of it keeps the heap consistent is shown by a least counterexample, since
the induction theorems of the library cannot be cited.

### Write-ahead log

`LogInv` is what makes `CheckpointBehindReaders` and `BackfillWithinLog` inductive:
at which step which lock of the wal-index is held and that write, checkpoint and
`READ(0)` locks exclude each other; that the header a connection has read is not newer
than the current one, and is the current one for a writer; that the mark of a reader
covers no more than its log; and that a checkpoint which has looked at a mark copies
nothing behind it. The steps that matter are a reader that locks a mark while a
checkpoint is looking at the marks, and the restart of the log: it sets the length and
then `nBackfill` to 0 under the feet of whoever has read the old header, which is
harmless to readers (they find the header changed when they have their lock) and harmful
to a checkpoint, hence `RestartApart`. Between the two writes `RestartOf` holds instead
of `BackfillWithinLog`: the writer has kept all readers out of the log, and nobody who
has read the new header is on the way to reading the database file alone. So no other
connection writes, reads the log or copies pages then (lemma `NobodyRestarts`).

`ChainInv` is on top of it and about durability. A writer appends frames behind the
last commit and rewrites those of its own transaction in place, which breaks the chain
of checksums at the first of them. The invariant says that the chain is unbroken up to
`iReCksum`, that a commit is published only when `iReCksum` has been dealt with, and
that a checkpoint copies nothing before the log is synced. Nothing is said of the
frames of a transaction that has failed, undone or not. So the frames of every commit are
found by a recovery, and those that were copied are durable.

Both need that the records have their fields and that lengths are numbers (`Shape`);
pages and frames are not looked into.

### Sessions

A step of a session changes its own fields and at most one connection, which it holds
or which is free. `SessionInv` is therefore taken apart into what is said of one
session, of one connection and of two sessions. It adds to the properties that the
stack carries exactly the marks the application gave, that a failure inside a
transaction is remembered by one of those around it, and to whom the transaction of a
connection belongs. `Failures` is any set of the failures of SQLite.

### Database object

`DatabaseInv` counts: the reference count is the number of methods in progress plus
one for the owner until `close()`. From it, with one `close()`, the pool is there as
long as anybody may use it, and when the count reaches zero exactly one thread has
taken the pool and will close it.

### Cancellation

A step is one of a thread, which changes its own stack and connection and the listener
of at most one signal, or one of a signal, which changes no stack. `CancellationInv`
says where the operations of a stack may be, that the attach count is the number of
attached operations, that a listener belongs to an operation that has attached the
signal and has not got past its removal (which may be after the count has been
decremented), and that a canceled signal which one thread uses has set the native flag or is
about to.

### File locks

`LockInv` says what the POSIX locks of a process back, for each stage of a call in
progress, because other processes act between any two `fcntl` calls of one call. The
inode counts the readers of the process, or one more: a connection that was closed
although its unlock had failed. In that case (`Orphaned`) the level of the inode stays
above `SHARED`, the shared range stays locked and every other connection of the process
is a reader, which is inductive because no call raises a level past that of the inode.
The refinement maps the level of a connection to itself; a step of the code is a step of
`FileLocks` or leaves the levels alone. That a step which raises a level is allowed
there uses the exclusion of POSIX locks between processes and the counts of the shared
`unixInodeInfo` within one.

### Only model-checked

- Liveness (`EveryRequestEnds`, `CanceledOperationEnds`): fairness is out of the
  prover's reach.
- `Tokenizers`: its loops are `RECURSIVE`, and what they compute would be proved by
  induction over the text.
- `RollbackJournal`: `WriteAhead` holds because a page that is not journalled is known
  to be unchanged on the disk, which depends on what the cache and the file agree on
  after every failure and recovery. An inductive invariant for it is nearly the one
  for the refinement, and has not been worked out; nor has one for `TypeOK`, whose
  bounds on sizes and counters follow from the bounds of the model.
- `TypeOK` of `WriteAheadLog`, for the same reason: that the log has room for the
  frames is arithmetic on the bounds of the model.
- The refinements of `AtomicDatabase` by both journals: their invariants speak of what a
  recovery makes of every possible remainder of the files.

## 5. Plan

Done: the modules above, their runs, and the proofs of section 4.

Next, in this order:

1. Proofs: an inductive invariant for `WriteAhead` of the rollback journal, then the
   refinements of `AtomicDatabase`, for the write-ahead log on top of `ChainInv`.
2. Models: the cache and the mutex of `REGEXP` (an error path leaves the mutex
   locked), the rekey protocol of the codec, `SQLiteOpenHelper` (open, create,
   upgrade, read-only fallback, the WAL flag set before opening), opening with the
   corruption retry and the error handler, journal mode switches in
   `SQLiteConnection.reconfigure()`, `OperationLog`.
3. Filling a cursor window (`nativeExecuteForCursorWindow`, `SQLiteCursor.fillWindow`)
   as a function checked against a reference over short inputs.
4. Composition: sessions on top of the pool; `RollbackJournal` on top of
   `UnixFileLocks` with several connections in a process, where `PENDING` left by a
   failed recovery looks like `RESERVED` to the other connections.

## 6. Not modelled

Argument binding and conversion, SQL building (`SQLiteQueryBuilder`, the CRUD helpers),
statistics, dumping and logging have no state that a property could be about. The
ciphers and the Unicode tables are data. The remote transport of `CancellationSignal`
is never set by the library. What is planned is listed above.

Of the native sources, 300,000 lines, two thirds are the SQLite amalgamation and most
of the rest is PCRE, the Snowball stemmers and cipher tables, all vendored. The SQL
compiler, the virtual machine, the B-trees and full text search of SQLite, and the
matching engines of PCRE, are sequential code whose correctness is about data
structures of arbitrary size; a model small enough to check would say nothing about
them. What is modelled of SQLite is the part with concurrency and failure, which is a
few thousand lines. The map therefore covers a small share of all lines, and a large
one of the code that locks, waits, writes and recovers.
