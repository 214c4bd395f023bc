----------------------------- MODULE RollbackJournal -----------------------------
(***************************************************************************)
(* The pager of SQLite with a rollback journal (sqlite3.c, pager.c), under *)
(* the defaults of the library: journal_mode=DELETE, synchronous=NORMAL.   *)
(* A writer saves the original of a page in the journal before it changes  *)
(* the page, syncs the journal before it writes the database file, and     *)
(* commits by deleting the journal.  A journal left by a writer that died  *)
(* is hot: the next reader plays it back.  A process may die and the power *)
(* may fail between any two system calls, and system calls may fail.       *)
(*                                                                         *)
(* Connections are in different processes and lock the file through        *)
(* FileLocks.  The data of a page tells which transaction wrote it, and    *)
(* whether it did so again after the page was spilled; page 1 also has the *)
(* change counter and the size of the database.  Directory operations and  *)
(* changes of a file's size become durable in the order they are made.     *)
(***************************************************************************)
EXTENDS Integers, Sequences, FiniteSets, FiniteSetsExt, SequencesExt, TLC

CONSTANTS
    Conns,              \* connections, each in a process of its own
    None,               \* no journal
    MaxPages,           \* bound: pages of the database
    MaxTransactions,    \* bound: write transactions
    MaxCrashes,         \* bound: processes that die and losses of power
    MaxErrors           \* bound: system calls that fail

ASSUME JournalAssumption ==
    /\ None \notin Conns
    /\ MaxPages \in Nat \ {0, 1}
    /\ {MaxTransactions, MaxCrashes, MaxErrors} \subseteq Nat

VARIABLES
    db,         \* the database file, as processes see it
    disk,       \* what of it a loss of power spares
    jrnl,       \* the journal file, or None
    unlinked,   \* a deleted journal that a loss of power may bring back, or None
    pager,      \* the Pager of a connection
    lock,       \* its lock on the database file
    reserved,   \* who has RESERVED or has had it before PENDING or EXCLUSIVE
    counts      \* transactions, crashes and errors so far

files == <<db, disk, jrnl, unlinked>>
locks == <<lock, reserved>>
vars == <<db, disk, jrnl, unlinked, pager, lock, reserved, counts>>

L == INSTANCE FileLocks

-----------------------------------------------------------------------------
(***************************************************************************)
(* Pages, files and pagers                                                 *)
(***************************************************************************)
Page == [data : -1..2 * MaxTransactions, counter : -1..MaxTransactions, size : 0..MaxPages]

\* A page, or a journal record, of which a loss of power has spared only a part.
Torn == [data |-> -1, counter |-> -1, size |-> 0]
Blank == [data |-> 0, counter |-> 0, size |-> 0]

INSTANCE PageFile

\* orig: the size of the database to return to; recs: the originals; n: how many
\* of them the headers count; synced: how many are durable, and inDir whether the
\* file itself is.
Journals == [orig : 1..MaxPages, recs : Seq([pgno : 1..MaxPages, page : Page]),
             n : 0..MaxPages, synced : 0..MaxPages, inDir : BOOLEAN]

States == {"OPEN", "READER", "WRITER_LOCKED", "WRITER_CACHEMOD", "WRITER_DBMOD",
           "WRITER_FINISHED", "ERROR"}
Steps == {"idle",
          "access", "reserved", "hot", "giveUp", "reopen", "validate",  \* SharedLock
          "syncJournal", "sync", "write", "syncDb", "delete", "finish", \* spill, commit
          "undo", "playback", "playbackSync"}                           \* pager_playback

ClosedPager == [state |-> "OPEN", pc |-> "idle", op |-> "none", cache |-> <<>>,
                dirty |-> {}, list |-> {}, dbSize |-> 0, dbOrigSize |-> 0,
                journalHdr |-> 0, next |-> 0, dbFileVers |-> <<0, 0>>]

TypeOK ==
    /\ db \in Seq(Page) /\ Len(db) \in 1..MaxPages
    /\ disk \in Seq(Page) /\ Len(disk) \in 1..MaxPages
    /\ {jrnl, unlinked} \subseteq Journals \cup {None}
    /\ \A c \in Conns :
           /\ pager[c].state \in States /\ pager[c].pc \in Steps
           /\ pager[c].op \in {"none", "spill", "commit", "rollback"}
           /\ DOMAIN pager[c].cache \subseteq 1..MaxPages
           /\ \A p \in DOMAIN pager[c].cache : pager[c].cache[p] \in Page
           /\ pager[c].dirty \subseteq DOMAIN pager[c].cache
           /\ pager[c].list \subseteq pager[c].dirty
           /\ {pager[c].dbSize, pager[c].dbOrigSize} \subseteq 0..MaxPages
           /\ pager[c].journalHdr \in 0..MaxPages /\ pager[c].next \in 0..MaxPages + 1
           /\ pager[c].dbFileVers \in (0..MaxTransactions) \X (0..MaxPages)
    /\ L!TypeOK
    /\ counts \in [transactions : 0..MaxTransactions, crashes : 0..MaxCrashes,
                   errors : 0..MaxErrors]

At(c, pc) == pager[c].pc = pc
Idle(c, states) == pager[c].pc = "idle" /\ pager[c].state \in states
Set(c, new) == pager' = [pager EXCEPT ![c] = new]
Goto(c, pc) == Set(c, [pager[c] EXCEPT !.pc = pc])
Fails == /\ counts.errors < MaxErrors
         /\ counts' = [counts EXCEPT !.errors = @ + 1]

\* The page as the connection sees it.
PageOf(c, p) == IF p \in DOMAIN pager[c].cache THEN pager[c].cache[p]
                ELSE PageAt(db, p)
HeaderSize(c) == pager[c].cache[1].size
Cached(cache, p, page) ==
    [q \in DOMAIN cache \cup {p} |-> IF q = p THEN page ELSE cache[q]]

-----------------------------------------------------------------------------
(***************************************************************************)
(* pager_unlock and pager_error                                            *)
(***************************************************************************)
\* Mutant: the cache survives an error.
UnlockedKeepingCache(c, failed) ==
    [ClosedPager EXCEPT !.cache = pager[c].cache, !.dbFileVers = pager[c].dbFileVers]

\* pager_unlock: the cache stays, unless an error has made it useless.
Unlocked(c, failed) ==
    [ClosedPager EXCEPT !.cache = IF failed THEN <<>> ELSE pager[c].cache,
                        !.dbFileVers = pager[c].dbFileVers]

EndRead(c) ==
    /\ Idle(c, {"READER", "ERROR"})
    /\ L!Unlock(c, L!NO_LOCK)
    /\ Set(c, Unlocked(c, pager[c].state = "ERROR"))
    /\ UNCHANGED <<files, counts>>

\* pager_error: nothing can be done but unlock, which leaves the journal to others.
Broken(c) == [Unlocked(c, FALSE) EXCEPT !.state = "ERROR"]

-----------------------------------------------------------------------------
(***************************************************************************)
(* sqlite3PagerSharedLock                                                  *)
(***************************************************************************)
SharedLock(c) ==
    /\ Idle(c, {"OPEN"})
    /\ L!LockShared(c)
    /\ Goto(c, "access")
    /\ UNCHANGED <<files, counts>>

\* hasHotJournal: is there a journal ...
Access(c) ==
    /\ At(c, "access")
    /\ Goto(c, IF jrnl = None THEN "validate" ELSE "reserved")
    /\ UNCHANGED <<files, locks, counts>>

\* ... that does not belong to a writer?
CheckReservedLock(c) ==
    /\ At(c, "reserved")
    /\ Goto(c, IF reserved # {} THEN "validate" ELSE "hot")
    /\ UNCHANGED <<files, locks, counts>>

\* EXCLUSIVE without RESERVED, which a connection that only reads cannot miss.
LockHot(c) ==
    /\ At(c, "hot")
    /\ \/ L!LockExclusive(c) /\ Goto(c, "reopen")
       \/ /\ \E d \in Conns \ {c} : lock[d] # L!NO_LOCK
          /\ L!LockPending(c) \/ UNCHANGED locks
          /\ Goto(c, "giveUp")
    /\ UNCHANGED <<files, counts>>

GiveUp(c) ==
    /\ At(c, "giveUp")
    /\ L!Unlock(c, L!NO_LOCK)
    /\ Set(c, Unlocked(c, FALSE))
    /\ UNCHANGED <<files, counts>>

\* An error while the journal is played back: the journal stays hot.
RecoveryFails(c) ==
    /\ Fails
    /\ L!Unlock(c, L!NO_LOCK)
    /\ Set(c, Unlocked(c, TRUE))
    /\ UNCHANGED files

\* The journal may be gone by now.  If not it is synced, the file gets its original
\* size and, when there is a record, the cache is discarded.
Reopen(c) ==
    /\ At(c, "reopen")
    /\ \/ /\ jrnl = None
          /\ L!Unlock(c, L!SHARED_LOCK)
          /\ Goto(c, "validate")
          /\ UNCHANGED <<files, counts>>
       \/ /\ jrnl # None
          /\ jrnl' = [jrnl EXCEPT !.synced = Len(jrnl.recs)]
          /\ db' = Truncate(db, jrnl.orig)
          /\ Set(c, [pager[c] EXCEPT !.pc = "playback", !.next = 1,
                         !.journalHdr = Len(jrnl.recs), !.dbSize = jrnl.orig,
                         !.cache = IF jrnl.n > 0 THEN <<>> ELSE @])
          /\ UNCHANGED <<disk, unlinked, locks, counts>>
       \/ jrnl # None /\ RecoveryFails(c)

\* A cache of another version is discarded.  Then lockBtree reads page 1.
Version(page) == <<page.counter, page.size>>
Reading(c, cache) ==
    [ClosedPager EXCEPT !.state = "READER", !.dbSize = Len(db),
        !.cache = IF 1 \in DOMAIN cache THEN cache ELSE 1 :> db[1],
        !.dbFileVers = IF 1 \in DOMAIN cache THEN pager[c].dbFileVers ELSE Version(db[1])]

Validate(c) ==
    /\ At(c, "validate")
    /\ Set(c, Reading(c, IF pager[c].dbFileVers = Version(db[1]) THEN pager[c].cache
                         ELSE <<>>))
    /\ UNCHANGED <<files, locks, counts>>

\* sqlite3PagerGet of a page that is not in the cache.
Get(c, p) ==
    /\ Idle(c, {"READER"})
    /\ p \in 2..HeaderSize(c) /\ p \notin DOMAIN pager[c].cache
    /\ Set(c, [pager[c] EXCEPT !.cache = Cached(@, p, db[p])])
    /\ UNCHANGED <<files, locks, counts>>

-----------------------------------------------------------------------------
(***************************************************************************)
(* sqlite3PagerBegin, sqlite3PagerWrite, sqlite3PagerTruncateImage         *)
(***************************************************************************)
Writing == {"WRITER_LOCKED", "WRITER_CACHEMOD", "WRITER_DBMOD"}

Begin(c) ==
    /\ Idle(c, {"READER"}) /\ counts.transactions < MaxTransactions
    /\ L!LockReserved(c)
    /\ Set(c, [pager[c] EXCEPT !.state = "WRITER_LOCKED", !.dbOrigSize = pager[c].dbSize])
    /\ counts' = [counts EXCEPT !.transactions = @ + 1]
    /\ UNCHANGED files

\* pager_open_journal, then the originals that are not in the journal yet.
Opened(c) == IF pager[c].state = "WRITER_LOCKED"
             THEN [orig |-> pager[c].dbOrigSize, recs |-> <<>>, n |-> 0, synced |-> 0,
                   inDir |-> FALSE]
             ELSE jrnl
InJournal(j) == {j.recs[i].pgno : i \in 1..Len(j.recs)}
Records(c, pages) ==
    LET order == SetToSortSeq(pages, <)
    IN [i \in 1..Len(order) |-> [pgno |-> order[i], page |-> PageOf(c, order[i])]]

\* Mutant: nothing is saved any more once the journal has been synced.
JournaledOnce(c, j, pages) ==
    LET new == {p \in pages : p <= pager[c].dbOrigSize} \ InJournal(j)
    IN IF j.synced > 0 THEN j ELSE [j EXCEPT !.recs = @ \o Records(c, new)]

Journaled(c, j, pages) ==
    LET new == {p \in pages : p <= pager[c].dbOrigSize} \ InJournal(j)
    IN [j EXCEPT !.recs = @ \o Records(c, new)]

\* The pager with some pages changed; the first change opens the journal.
Changed(c, new) ==
    [pager[c] EXCEPT
        !.state = IF @ = "WRITER_LOCKED" THEN "WRITER_CACHEMOD" ELSE @,
        !.journalHdr = IF pager[c].state = "WRITER_LOCKED" THEN 0 ELSE @,
        !.cache = [p \in DOMAIN @ \cup DOMAIN new |->
                       IF p \in DOMAIN new THEN new[p] ELSE @[p]],
        !.dirty = @ \cup DOMAIN new,
        !.dbSize = Max({@} \cup DOMAIN new)]

\* A transaction gives a page new data, and other data when it changes it again.
\* Changing again a page that is still dirty only touches the cache and is left out.
First == 2 * counts.transactions - 1
NewData(c, p) == IF PageOf(c, p).data = First THEN First + 1 ELSE First
MayChange(c, p) == \/ PageOf(c, p).data < First
                   \/ PageOf(c, p).data = First /\ p \notin pager[c].dirty

\* A page changes; a page after the last one is allocated, which changes page 1.
Write(c, p) ==
    LET page == [Blank EXCEPT !.data = NewData(c, p)]
        one == [PageOf(c, 1) EXCEPT !.data = First, !.size = Max({p, HeaderSize(c)})]
    IN /\ Idle(c, Writing)
       /\ p = HeaderSize(c) + 1 \/ (p <= HeaderSize(c) /\ MayChange(c, p))
       /\ LET new == IF p = 1 THEN 1 :> one
                     ELSE IF p <= HeaderSize(c) THEN p :> page
                     ELSE 1 :> one @@ p :> page
          IN /\ jrnl' = Journaled(c, Opened(c), DOMAIN new)
             /\ Set(c, Changed(c, new))
       /\ UNCHANGED <<db, disk, unlinked, locks, counts>>

\* The last page is given back: page 1 changes and the image is truncated.
Shrink(c) ==
    LET size == HeaderSize(c) - 1
        one == [PageOf(c, 1) EXCEPT !.data = First, !.size = size]
        changed == Changed(c, 1 :> one)
    IN /\ Idle(c, Writing) /\ size > 0
       /\ jrnl' = Journaled(c, Opened(c), {1})
       /\ Set(c, [changed EXCEPT !.dbSize = size])
       /\ UNCHANGED <<db, disk, unlinked, locks, counts>>

-----------------------------------------------------------------------------
(***************************************************************************)
(* pagerStress and sqlite3PagerCommitPhaseOne                              *)
(***************************************************************************)
\* A dirty page has to make room.  Page 1 is in use and never does.
NeedSync(c, p) ==
    \/ pager[c].state = "WRITER_CACHEMOD"
    \/ \E i \in pager[c].journalHdr + 1 .. Len(jrnl.recs) : jrnl.recs[i].pgno = p
Spill(c, p) ==
    /\ Idle(c, {"WRITER_CACHEMOD", "WRITER_DBMOD"})
    /\ p \in pager[c].dirty \ {1} /\ p <= pager[c].dbSize
    /\ Set(c, [pager[c] EXCEPT !.op = "spill", !.list = {p},
                   !.pc = IF NeedSync(c, p) THEN "syncJournal" ELSE "write"])
    /\ UNCHANGED <<files, locks, counts>>

\* pager_incr_changecounter writes page 1; then the journal is synced.
CommitPhaseOne(c) ==
    LET one == [PageOf(c, 1) EXCEPT !.counter = pager[c].dbFileVers[1] + 1]
        changed == Changed(c, 1 :> one)
    IN /\ Idle(c, {"WRITER_CACHEMOD", "WRITER_DBMOD"})
       /\ jrnl' = Journaled(c, jrnl, {1})
       /\ Set(c, [changed EXCEPT !.op = "commit", !.pc = "syncJournal",
                      !.list = {p \in changed.dirty : p <= changed.dbSize}])
       /\ UNCHANGED <<db, disk, unlinked, locks, counts>>

\* A failing step of a spill breaks the pager, one of a commit makes the caller
\* roll back.
StepFails(c) ==
    /\ Fails
    /\ Set(c, IF pager[c].op = "commit"
              THEN [pager[c] EXCEPT !.op = "rollback", !.pc = "undo", !.list = {}]
              ELSE Broken(c))
    /\ UNCHANGED <<files, locks>>

\* syncJournal: EXCLUSIVE, or SQLITE_BUSY with nothing done, then the number of
\* records goes to the header ...
SyncJournal(c) ==
    /\ At(c, "syncJournal")
    /\ \/ /\ L!LockExclusive(c) \/ (lock[c] = L!EXCLUSIVE_LOCK /\ UNCHANGED locks)
          /\ jrnl' = [jrnl EXCEPT !.n = Len(jrnl.recs)]
          /\ Goto(c, "sync")
          /\ UNCHANGED <<db, disk, unlinked, counts>>
       \/ /\ \E d \in Conns \ {c} : lock[d] # L!NO_LOCK
          /\ L!LockPending(c) \/ UNCHANGED locks
          /\ Set(c, [pager[c] EXCEPT !.pc = "idle", !.op = "none", !.list = {}])
          /\ UNCHANGED <<files, counts>>
       \/ lock[c] = L!EXCLUSIVE_LOCK /\ StepFails(c)

\* ... and is synced with the records and, the first time, with the directory.
Sync(c) ==
    /\ At(c, "sync")
    /\ \/ /\ jrnl' = [jrnl EXCEPT !.synced = Len(jrnl.recs), !.inDir = TRUE]
          /\ unlinked' = None
          /\ Set(c, [pager[c] EXCEPT !.pc = "write", !.state = "WRITER_DBMOD",
                                     !.journalHdr = Len(jrnl.recs)])
          /\ UNCHANGED <<db, disk, locks, counts>>
       \/ StepFails(c)

\* pager_write_pagelist, in the order of the pages.
WritePage(c) ==
    LET p == Min(pager[c].list)
        rest == pager[c].list \ {p}
    IN /\ At(c, "write")
       /\ \/ /\ pager[c].list # {}
             /\ db' = Put(db, p, pager[c].cache[p])
             /\ Set(c, [pager[c] EXCEPT !.list = rest, !.dirty = @ \ {p},
                            !.dbFileVers = IF p = 1 THEN Version(pager[c].cache[1]) ELSE @])
             /\ UNCHANGED <<disk, jrnl, unlinked, locks, counts>>
          \/ /\ pager[c].list = {}
             /\ Set(c, IF pager[c].op = "commit" THEN [pager[c] EXCEPT !.pc = "syncDb"]
                       ELSE [pager[c] EXCEPT !.pc = "idle", !.op = "none"])
             /\ UNCHANGED <<files, locks, counts>>
          \/ pager[c].list # {} /\ StepFails(c)

\* fsync of the database file.  With its size everything older in the directory is
\* durable.
SyncFile ==
    LET resized == Len(disk) # Len(db) IN
    /\ disk' = db
    /\ unlinked' = IF resized THEN None ELSE unlinked
    /\ jrnl' = IF resized THEN [jrnl EXCEPT !.inDir = TRUE] ELSE jrnl
    /\ UNCHANGED db

SyncDb(c) ==
    /\ At(c, "syncDb")
    /\ \/ /\ SyncFile
          /\ Set(c, [pager[c] EXCEPT !.pc = "delete", !.state = "WRITER_FINISHED"])
          /\ UNCHANGED <<locks, counts>>
       \/ StepFails(c)

-----------------------------------------------------------------------------
(***************************************************************************)
(* sqlite3PagerRollback, pager_playback and pager_end_transaction          *)
(***************************************************************************)
\* The cache, with the pages that the journal has as they were.
Restored(c) ==
    [p \in DOMAIN pager[c].cache \cap 1..jrnl.orig |->
        IF p \in InJournal(jrnl)
        THEN (CHOOSE r \in ToSet(jrnl.recs) : r.pgno = p).page
        ELSE pager[c].cache[p]]

\* The cache first; the file only if it may have been written.
Rollback(c) ==
    /\ Idle(c, {"WRITER_CACHEMOD", "WRITER_DBMOD"}) \/ At(c, "undo")
    /\ LET modified == pager[c].state = "WRITER_DBMOD"
           cache == Restored(c)
       IN /\ db' = IF modified THEN Truncate(db, jrnl.orig) ELSE db
          /\ Set(c, [pager[c] EXCEPT !.op = "rollback", !.list = {}, !.dirty = {},
                         !.cache = cache, !.dbSize = jrnl.orig, !.next = 1,
                         !.dbFileVers = IF 1 \in InJournal(jrnl) THEN Version(cache[1])
                                        ELSE @,
                         !.pc = IF modified THEN "playback" ELSE "delete"])
    /\ UNCHANGED <<disk, jrnl, unlinked, locks, counts>>

\* A failing step of the playback of a hot journal, or of a roll-back.
PlaybackFails(c) ==
    IF pager[c].state = "OPEN" THEN RecoveryFails(c)
    ELSE Fails /\ Set(c, Broken(c)) /\ UNCHANGED <<files, locks>>

\* Is there another record, counted by a header, synced, and whole?
More(c) ==
    /\ pager[c].next <= Min({jrnl.n, pager[c].journalHdr})
    /\ jrnl.recs[pager[c].next].page # Torn

\* pager_playback_one_page
PlaybackPage(c) ==
    /\ At(c, "playback")
    /\ \/ /\ More(c)
          /\ LET r == jrnl.recs[pager[c].next] IN db' = Put(db, r.pgno, r.page)
          /\ Set(c, [pager[c] EXCEPT !.next = @ + 1])
          /\ UNCHANGED <<disk, jrnl, unlinked, locks, counts>>
       \/ /\ ~More(c)
          /\ Goto(c, "playbackSync")
          /\ UNCHANGED <<files, locks, counts>>
       \/ PlaybackFails(c)

PlaybackSync(c) ==
    /\ At(c, "playbackSync")
    /\ \/ SyncFile /\ Goto(c, "delete") /\ UNCHANGED <<locks, counts>>
       \/ PlaybackFails(c)

\* The journal is deleted, which ends the transaction.  The directory is not synced.
Unlink == /\ jrnl' = None
          /\ unlinked' = IF jrnl.inDir THEN jrnl ELSE unlinked
          /\ UNCHANGED <<db, disk>>

\* Mutant: dirty pages stay dirty.
ReaderAgainDirty(c) ==
    LET size == pager[c].dbSize IN
    [ClosedPager EXCEPT
        !.state = "READER", !.dbSize = size, !.dbFileVers = pager[c].dbFileVers,
        !.dirty = pager[c].dirty,
        !.cache = [p \in DOMAIN pager[c].cache \cap 1..size |-> pager[c].cache[p]]]

\* The pager keeps the pages of the new image and goes on reading.
ReaderAgain(c) ==
    LET size == pager[c].dbSize IN
    [ClosedPager EXCEPT
        !.state = "READER", !.dbSize = size, !.dbFileVers = pager[c].dbFileVers,
        !.cache = [p \in DOMAIN pager[c].cache \cap 1..size |-> pager[c].cache[p]]]

Delete(c) ==
    /\ At(c, "delete")
    /\ \/ /\ Unlink /\ UNCHANGED counts
          /\ \/ /\ pager[c].state = "OPEN"
                /\ L!Unlock(c, L!SHARED_LOCK)
                /\ Goto(c, "validate")
             \/ /\ pager[c].op = "rollback"
                /\ L!Unlock(c, L!SHARED_LOCK)
                /\ Set(c, ReaderAgain(c))
             \/ /\ pager[c].op = "commit"
                /\ Goto(c, "finish")
                /\ UNCHANGED locks
       \/ pager[c].state = "OPEN" /\ RecoveryFails(c)
       \/ /\ pager[c].state # "OPEN" /\ Fails
          /\ L!Unlock(c, L!SHARED_LOCK)
          /\ Set(c, Broken(c))
          /\ UNCHANGED files

\* Only after the commit the file is truncated.  That may fail, which breaks the
\* pager of a transaction that is committed.
Finish(c) ==
    /\ At(c, "finish")
    /\ L!Unlock(c, L!SHARED_LOCK)
    /\ \/ /\ db' = Truncate(db, pager[c].dbSize)
          /\ Set(c, ReaderAgain(c))
          /\ UNCHANGED <<disk, jrnl, unlinked, counts>>
       \/ /\ Len(db) > pager[c].dbSize /\ Fails
          /\ Set(c, Broken(c))
          /\ UNCHANGED files

\* The end of a write transaction that has changed nothing.
EndUnmodified(c) ==
    /\ Idle(c, {"WRITER_LOCKED"})
    /\ L!Unlock(c, L!SHARED_LOCK)
    /\ Set(c, ReaderAgain(c))
    /\ UNCHANGED <<files, counts>>

-----------------------------------------------------------------------------
(***************************************************************************)
(* Crashes                                                                 *)
(***************************************************************************)
MayCrash == /\ counts.crashes < MaxCrashes
            /\ counts' = [counts EXCEPT !.crashes = @ + 1]

\* The process of a connection dies.
Crash(c) ==
    /\ MayCrash /\ pager[c] # ClosedPager
    /\ Set(c, ClosedPager)
    /\ L!Drop({c})
    /\ UNCHANGED files

\* Of a journal, the records that are not durable may be torn or not be counted.
JournalRemains(j) ==
    LET left(m, torn) ==
            [j EXCEPT !.n = m, !.synced = m, !.inDir = TRUE,
                      !.recs = [i \in 1..m |-> IF i \in torn THEN [@[i] EXCEPT !.page = Torn]
                                               ELSE @[i]]]
    IN UNION {{left(m, torn) : torn \in SUBSET (j.synced + 1 .. m)} : m \in {j.synced, j.n}}
JournalSurvivors(size) ==
    (IF jrnl = None THEN {None} ELSE JournalRemains(jrnl))
    \cup (IF jrnl # None /\ ~jrnl.inDir THEN {None} ELSE {})
    \cup (IF unlinked # None /\ size = Len(disk) THEN JournalRemains(unlinked) ELSE {})

PowerLoss ==
    /\ MayCrash
    /\ \E size \in {Len(disk), Len(db)} :
           /\ db' \in Survivors(db, disk, size)
           /\ jrnl' \in JournalSurvivors(size)
    /\ disk' = db' /\ unlinked' = None
    /\ pager' = [c \in Conns |-> ClosedPager]
    /\ L!Drop(Conns)

-----------------------------------------------------------------------------
\* A database of two pages.
Init ==
    /\ db = <<[Blank EXCEPT !.size = 2], Blank>> /\ disk = db
    /\ jrnl = None /\ unlinked = None
    /\ pager = [c \in Conns |-> ClosedPager]
    /\ L!Init
    /\ counts = [transactions |-> 0, crashes |-> 0, errors |-> 0]

Next ==
    \/ \E c \in Conns :
           \/ SharedLock(c) \/ Access(c) \/ CheckReservedLock(c) \/ LockHot(c) \/ GiveUp(c)
           \/ Reopen(c) \/ Validate(c) \/ EndRead(c)
           \/ Begin(c) \/ Shrink(c) \/ CommitPhaseOne(c) \/ SyncJournal(c) \/ Sync(c)
           \/ WritePage(c) \/ SyncDb(c) \/ Rollback(c) \/ PlaybackPage(c)
           \/ PlaybackSync(c) \/ Delete(c) \/ Finish(c) \/ EndUnmodified(c) \/ Crash(c)
           \/ \E p \in 1..MaxPages : Get(c, p) \/ Write(c, p) \/ Spill(c, p)
    \/ PowerLoss

Spec == Init /\ [][Next]_vars

-----------------------------------------------------------------------------
(***************************************************************************)
(* Properties                                                              *)
(***************************************************************************)
\* The database file after the journal has been played back.
Whole(j) == {j.recs[i] : i \in {k \in 1..j.n : \A h \in 1..k : j.recs[h].page # Torn}}
Recovered(file, j) ==
    IF j = None THEN file
    ELSE [p \in 1..j.orig |-> IF \E r \in Whole(j) : r.pgno = p
                              THEN (CHOOSE r \in Whole(j) : r.pgno = p).page
                              ELSE PageAt(file, p)]
ImageOf(file) ==
    [p \in 1..file[1].size |-> PageAt(file, p)]

View(c) == [p \in 1..HeaderSize(c) |-> PageOf(c, p)]
WriterStates == Writing \cup {"WRITER_FINISHED"}
Committed(c) == pager[c].pc = "finish"
Image == ImageOf(Recovered(db, jrnl))
Alternatives == IF unlinked = None THEN {} ELSE {ImageOf(Recovered(disk, unlinked))}
Snapshot == [c \in Conns |->
    IF pager[c].state = "READER" \/ Committed(c) THEN View(c)
    ELSE IF pager[c].state \in WriterStates THEN Image ELSE None]
Draft == [c \in Conns |->
    IF pager[c].state \in WriterStates /\ pager[c].op # "rollback" /\ ~Committed(c)
    THEN View(c) ELSE None]

\* "Atomic commit and rollback": what readers see, what a writer commits and what is
\* left after any crash, error or loss of power is what AtomicDatabase allows.
Abstract == INSTANCE AtomicDatabase
                WITH image <- Image, alternatives <- Alternatives,
                     snapshot <- Snapshot, draft <- Draft
ImplementsAtomicDatabase == Abstract!Spec

\* "Before writing a page to the database file, the original is synced to the
\* journal": what a loss of power may now leave of the file differs from the
\* committed image only in pages whose original is durable in the journal.
WriteAhead ==
    \A p \in 1..Min({Len(db), Len(disk)}) :
        db[p] # disk[p] =>
            /\ jrnl # None /\ jrnl.inDir
            /\ p > jrnl.orig \/ \E i \in 1..jrnl.synced : jrnl.recs[i].pgno = p
=============================================================================
