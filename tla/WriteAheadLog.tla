----------------------------- MODULE WriteAheadLog -----------------------------
(***************************************************************************)
(* The write-ahead log of SQLite (sqlite3.c, wal.c), as the connections of *)
(* one pool use it: all in one process, synchronous=NORMAL, and automatic  *)
(* checkpoints, which are passive.  A writer appends pages to the log and  *)
(* commits by publishing a new header of the wal-index, a reader sees the  *)
(* log up to the header it has read, and a checkpoint copies the log to    *)
(* the database file behind the readers.  Once all of the log has been     *)
(* copied and nobody reads it, the next writer starts it again.            *)
(*                                                                         *)
(* The wal-index does not survive the process: it is rebuilt from the log. *)
(* A page is a number that names the write that produced it.  The two      *)
(* copies of the header of the wal-index are written and read in one step. *)
(***************************************************************************)
EXTENDS Integers, Sequences, FiniteSets, FiniteSetsExt, SequencesExt, TLC

CONSTANTS
    Conns,              \* connections to the database
    None,               \* no image
    Marks,              \* WAL_NREADER - 1: read marks that readers of the log share
    MaxPages,           \* bound: pages of the database
    MaxTransactions,    \* bound: write transactions
    MaxSpills,          \* bound: changed pages written to the log before a commit
    MaxCheckpoints,     \* bound: checkpoints
    MaxFaults           \* bound: deaths of the process, losses of power, failed system calls

ASSUME LogAssumption ==
    /\ Marks \in Nat \ {0} /\ MaxPages \in Nat \ {0, 1}
    /\ {MaxTransactions, MaxSpills, MaxCheckpoints, MaxFaults} \subseteq Nat

VARIABLES
    db,         \* the database file, as the process sees it
    disk,       \* what of it a loss of power spares
    wal,        \* the log
    idx,        \* the wal-index
    conn,       \* the Wal object of a connection, and the changes it has not written
    counts      \* transactions, spills, checkpoints and faults so far

vars == <<db, disk, wal, idx, conn, counts>>

-----------------------------------------------------------------------------
(***************************************************************************)
(* The log, the wal-index and the connections                              *)
(***************************************************************************)
Torn == -1
Blank == 0
INSTANCE PageFile

\* A transaction writes a page at most twice.
Pages == -1..2 * MaxTransactions
MaxFrames == MaxTransactions * (MaxPages + 1)

\* Greater than any frame.
READMARK_NOT_USED == MaxFrames + 1

\* size: the size of the database after a commit, in the last frame of one.
Frames == [pgno : 1..MaxPages, page : Pages, size : 0..MaxPages]

\* valid: how many frames continue the chain of checksums that starts at the header;
\* synced: how many of these are durable.
EmptyLog == [frames |-> <<>>, valid |-> 0, synced |-> 0]

\* salt changes whenever the log starts again.
NoHdr == [mxFrame |-> 0, nPage |-> 0, salt |-> 0]

\* pgno: aPgno, the page of a frame; mark: aReadMark.
NoIndex == [isInit |-> FALSE, hdr |-> NoHdr, pgno |-> [f \in 1..MaxFrames |-> 0],
            nBackfill |-> 0, mark |-> [i \in 1..Marks |-> READMARK_NOT_USED]]

Steps == {"idle", "read", "write",
          "lock0", "pick", "lock",                                      \* walTryBeginRead
          "restart", "ckptInfo",                                        \* walRestartLog
          "header", "frames", "checksums", "append", "publish",         \* WalFrames
          "undo", "error",                                              \* it failed
          "iterate", "marks", "copy", "truncate", "syncDb"}             \* walCheckpoint

Closed == [pc |-> "idle", hdr |-> NoHdr, readLock |-> -1, minFrame |-> 0,
           mxI |-> 0, mxReadMark |-> 0,
           writeLock |-> FALSE, dirty |-> <<>>, size |-> 0, list |-> <<>>, spill |-> 0,
           iFirst |-> 0, iReCksum |-> 0, appended |-> <<>>,
           ckptLock |-> FALSE, lock0 |-> FALSE, iter |-> <<>>, i |-> 0, mxSafeFrame |-> 0,
           backfilled |-> 0]

TypeOK ==
    /\ db \in Seq(Pages) /\ Len(db) \in 1..MaxPages
    /\ disk \in Seq(Pages) /\ Len(disk) \in 1..MaxPages
    /\ wal.frames \in Seq(Frames) /\ Len(wal.frames) <= MaxFrames
    /\ wal.valid \in 0..Len(wal.frames) /\ wal.synced \in 0..wal.valid
    /\ idx.hdr.mxFrame \in 0..MaxFrames /\ idx.hdr.nPage \in 0..MaxPages
    /\ idx.pgno \in [1..MaxFrames -> 0..MaxPages]
    /\ idx.nBackfill \in 0..MaxFrames
    /\ idx.mark \in [1..Marks -> 0..READMARK_NOT_USED]
    /\ \A c \in Conns :
           /\ conn[c].pc \in Steps
           /\ conn[c].readLock \in -1..Marks /\ conn[c].mxI \in 0..Marks
           /\ conn[c].minFrame \in 0..MaxFrames + 1
           /\ DOMAIN conn[c].dirty \subseteq 1..MaxPages
           /\ conn[c].list \in Seq(1..MaxPages)
           /\ conn[c].mxSafeFrame \in 0..MaxFrames
    /\ counts \in [transactions : 0..MaxTransactions, spills : 0..MaxSpills,
                   checkpoints : 0..MaxCheckpoints, faults : 0..MaxFaults]

At(c, pc) == conn[c].pc = pc
Without(f, x) == [y \in DOMAIN f \ {x} |-> f[y]]
Set(c, new) == conn' = [conn EXCEPT ![c] = new]
Counted(n, max) == /\ counts[n] < max
                   /\ counts' = [counts EXCEPT ![n] = @ + 1]
Fault == Counted("faults", MaxFaults)

\* A writer starts the log again and has all of WAL_READ_LOCK(1) and up.
Restarting == \E d \in Conns : At(d, "ckptInfo")

\* Locks of the wal-index: WAL_WRITE_LOCK, WAL_CKPT_LOCK, WAL_READ_LOCK(i).
WriteFree == \A d \in Conns : ~conn[d].writeLock
CkptFree == \A d \in Conns : ~conn[d].ckptLock
ReadFree(i) == (\A d \in Conns : conn[d].readLock # i) /\ ~(i > 0 /\ Restarting)
Read0Busy == \E d \in Conns : conn[d].lock0

-----------------------------------------------------------------------------
(***************************************************************************)
(* walIndexReadHdr, walIndexRecover                                        *)
(***************************************************************************)
\* What recovery makes of the first k frames: the header, up to the last commit.
RecoveredHdr(k) ==
    LET commits == {f \in 1..k : wal.frames[f].size # 0}
    IN IF commits = {} THEN NoHdr
       ELSE [mxFrame |-> Max(commits), nPage |-> wal.frames[Max(commits)].size, salt |-> 0]

RecoveredIndex ==
    LET hdr == RecoveredHdr(wal.valid)
    IN [isInit |-> TRUE, hdr |-> hdr,
        pgno |-> [f \in 1..MaxFrames |-> IF f <= wal.valid THEN wal.frames[f].pgno ELSE 0],
        nBackfill |-> 0,
        mark |-> [i \in 1..Marks |-> IF i = 1 /\ hdr.mxFrame > 0 THEN hdr.mxFrame
                                     ELSE READMARK_NOT_USED]]

\* walIndexReadHdr: recovery is needed once, and by one connection, before anybody
\* has a lock.
ReadHdr == idx' = IF idx.isInit THEN idx ELSE RecoveredIndex

-----------------------------------------------------------------------------
(***************************************************************************)
(* sqlite3WalBeginReadTransaction, walTryBeginRead                         *)
(***************************************************************************)
\* If all of the log is in the database file, it need not be used.
TryHdr(c) ==
    /\ At(c, "idle")
    /\ ReadHdr
    /\ Set(c, [conn[c] EXCEPT !.hdr = idx'.hdr,
                              !.pc = IF idx'.nBackfill = idx'.hdr.mxFrame THEN "lock0" ELSE "pick"])
    /\ UNCHANGED <<db, disk, wal, counts>>

\* sqlite3WalFrames: an empty log needs a header.
FirstStep(hdr) == IF hdr.mxFrame = 0 THEN "header" ELSE "frames"

\* WAL_RETRY: a reader starts over, or gives up after many attempts; a writer keeps its
\* header.
Retry(c) ==
    IF conn[c].writeLock
    THEN [conn[c] EXCEPT !.pc = "pick", !.mxI = 0, !.mxReadMark = 0, !.minFrame = 0]
    ELSE Closed
Reading(c) == [conn[c] EXCEPT !.pc = IF conn[c].writeLock THEN FirstStep(conn[c].hdr) ELSE "read",
                              !.mxI = 0, !.mxReadMark = 0]

\* Mutant: the header is not compared after READ(0) was locked.
Lock0Unchecked(c) ==
    /\ At(c, "lock0")
    /\ Set(c, IF Read0Busy THEN [conn[c] EXCEPT !.pc = "pick"]
              ELSE [Reading(c) EXCEPT !.readLock = 0])
    /\ UNCHANGED <<db, disk, wal, idx, counts>>

Lock0(c) ==
    /\ At(c, "lock0")
    /\ Set(c, IF Read0Busy THEN [conn[c] EXCEPT !.pc = "pick"]
              ELSE IF idx.hdr # conn[c].hdr THEN Retry(c)
              ELSE [Reading(c) EXCEPT !.readLock = 0])
    /\ UNCHANGED <<db, disk, wal, idx, counts>>

\* The greatest mark that does not exceed the header, the last one of several; if it is
\* lower than the header, the first mark nobody uses takes the value of the header.
PickMark(c) ==
    /\ At(c, "pick")
    /\ LET mxFrame == conn[c].hdr.mxFrame
           usable == {i \in 1..Marks : idx.mark[i] <= mxFrame}
           best == Max({0} \cup {idx.mark[i] : i \in usable})
           mxI == Max({0} \cup {i \in usable : idx.mark[i] = best})
           free == {i \in 1..Marks : ReadFree(i)}
       IN IF (best < mxFrame \/ mxI = 0) /\ free # {}
          THEN /\ Set(c, [conn[c] EXCEPT !.pc = "lock", !.mxI = Min(free),
                                         !.mxReadMark = mxFrame])
               /\ idx' = [idx EXCEPT !.mark[Min(free)] = mxFrame]
          ELSE /\ Set(c, IF mxI = 0 THEN Retry(c)
                         ELSE [conn[c] EXCEPT !.pc = "lock", !.mxI = mxI, !.mxReadMark = best])
               /\ UNCHANGED idx
    /\ UNCHANGED <<db, disk, wal, counts>>

\* Between the choice of the mark and the lock, the mark or the header may have changed.
LockMark(c) ==
    /\ At(c, "lock")
    /\ Set(c, IF \/ Restarting
                 \/ idx.mark[conn[c].mxI] # conn[c].mxReadMark \/ idx.hdr # conn[c].hdr
              THEN Retry(c)
              ELSE [Reading(c) EXCEPT !.readLock = conn[c].mxI,
                                      !.minFrame = idx.nBackfill + 1])
    /\ UNCHANGED <<db, disk, wal, idx, counts>>

EndRead(c) ==
    /\ At(c, "read")
    /\ Set(c, Closed)
    /\ UNCHANGED <<db, disk, wal, idx, counts>>

\* sqlite3WalFindFrame: the last frame of page p that the connection sees, or 0.
FindFrame(c, p) ==
    LET frames == {f \in 1..conn[c].hdr.mxFrame : f >= conn[c].minFrame /\ idx.pgno[f] = p}
    IN IF conn[c].readLock > 0 /\ frames # {} THEN Max(frames) ELSE 0

\* A page as the connection reads it, and the size of its database (pagerPagecount).
PageOf(c, p) ==
    IF p \in DOMAIN conn[c].dirty THEN conn[c].dirty[p]
    ELSE LET f == FindFrame(c, p)
         IN IF f # 0 THEN wal.frames[f].page ELSE PageAt(db, p)
DbSize(hdr) == IF hdr.nPage = 0 THEN Len(db) ELSE hdr.nPage

-----------------------------------------------------------------------------
(***************************************************************************)
(* sqlite3WalBeginWriteTransaction and the changes of a transaction        *)
(***************************************************************************)
BeginWrite(c) ==
    /\ At(c, "read") /\ WriteFree
    /\ conn[c].hdr = idx.hdr                \* else SQLITE_BUSY_SNAPSHOT
    /\ Counted("transactions", MaxTransactions)
    /\ Set(c, [conn[c] EXCEPT !.pc = "write", !.writeLock = TRUE,
                              !.size = DbSize(conn[c].hdr)])
    /\ UNCHANGED <<db, disk, wal, idx>>

\* What the transaction writes to a page: another page again after it was spilled.
NewPage(c, p) ==
    LET first == 2 * counts.transactions - 1
    IN IF p \in DOMAIN conn[c].dirty THEN conn[c].dirty[p]
       ELSE IF p <= conn[c].size /\ PageOf(c, p) = first THEN first + 1 ELSE first

Changed(c, ps, size) ==
    [conn[c] EXCEPT !.dirty = [p \in ps |-> NewPage(c, p)] @@ @, !.size = size]

\* A page that is added changes page 1 as well, which has the size of the database.
Write(c, p) ==
    /\ At(c, "write")
    /\ p <= conn[c].size + 1 /\ p <= MaxPages
    /\ p <= conn[c].size => p \notin DOMAIN conn[c].dirty /\ PageOf(c, p) < 2 * counts.transactions
    /\ Set(c, Changed(c, IF p > conn[c].size THEN {1, p} ELSE {p}, Max({p, conn[c].size})))
    /\ UNCHANGED <<db, disk, wal, idx, counts>>

Shrink(c) ==
    /\ At(c, "write") /\ conn[c].size > 1
    /\ Set(c, Changed(c, {1}, conn[c].size - 1))
    /\ UNCHANGED <<db, disk, wal, idx, counts>>

-----------------------------------------------------------------------------
(***************************************************************************)
(* sqlite3WalFrames                                                        *)
(***************************************************************************)
\* A changed page that is being written to make room, or 0 for a commit.
IsCommit(c) == conn[c].spill = 0

\* Frames of this transaction are in the log already.
Spilled(c) == conn[c].hdr # idx.hdr

WalFrames(c, list, spill) ==
    Set(c, [conn[c] EXCEPT !.pc = IF conn[c].readLock = 0 THEN "restart"
                                  ELSE FirstStep(conn[c].hdr),
                           !.list = list, !.spill = spill, !.appended = <<>>,
                           !.iFirst = IF Spilled(c) THEN idx.hdr.mxFrame + 1 ELSE 0])

\* pagerStress: the cache is full, and a changed page makes room; page 1 is in use.
Spill(c, p) ==
    /\ At(c, "write") /\ p \in DOMAIN conn[c].dirty \ {1}
    /\ Counted("spills", MaxSpills)
    /\ WalFrames(c, <<p>>, p)
    /\ UNCHANGED <<db, disk, wal, idx>>

\* sqlite3PagerCommitPhaseOne: pages beyond the new size are left out, and there is
\* always a page to write.
Commit(c) ==
    /\ At(c, "write")
    /\ DOMAIN conn[c].dirty # {} \/ Spilled(c)
    /\ LET pages == {p \in DOMAIN conn[c].dirty : p <= conn[c].size}
       IN WalFrames(c, SetToSortSeq(IF pages = {} THEN {1} ELSE pages, <), 0)
    /\ UNCHANGED <<db, disk, wal, idx, counts>>

\* walRestartLog: if all of the log has been copied and nobody reads it, walRestartHdr
\* writes the header of an empty log.
RestartLog(c) ==
    /\ At(c, "restart")
    /\ LET hdr == [idx.hdr EXCEPT !.mxFrame = 0, !.salt = @ + 1]
       IN IF idx.nBackfill > 0 /\ \A i \in 1..Marks : ReadFree(i)
          THEN /\ idx' = [idx EXCEPT !.hdr = hdr]
               /\ Set(c, [conn[c] EXCEPT !.pc = "ckptInfo", !.hdr = hdr])
          ELSE /\ Set(c, [conn[c] EXCEPT !.pc = "pick", !.readLock = -1])
               /\ UNCHANGED idx
    /\ UNCHANGED <<db, disk, wal, counts>>

\* Then the checkpoint information; the writer goes on as a reader of the log.
ResetCkptInfo(c) ==
    /\ At(c, "ckptInfo")
    /\ idx' = [idx EXCEPT !.nBackfill = 0,
                          !.mark = [i \in 1..Marks |-> IF i = 1 THEN 0 ELSE READMARK_NOT_USED]]
    /\ Set(c, [conn[c] EXCEPT !.pc = "pick", !.readLock = -1])
    /\ UNCHANGED <<db, disk, wal, counts>>

\* Mutant: the header is not synced, and the old frames stay durable.
WriteHeaderUnsynced(c) ==
    /\ At(c, "header")
    /\ wal' = [wal EXCEPT !.valid = 0]
    /\ Set(c, [conn[c] EXCEPT !.pc = "frames"])
    /\ UNCHANGED <<db, disk, idx, counts>>

\* A new header, synced before any frame, takes their validity from the old frames.
WriteHeader(c) ==
    /\ At(c, "header")
    /\ wal' = [wal EXCEPT !.valid = 0, !.synced = 0]
    /\ Set(c, [conn[c] EXCEPT !.pc = "frames"])
    /\ UNCHANGED <<db, disk, idx, counts>>

NextFrame(c) == conn[c].hdr.mxFrame + Len(conn[c].appended) + 1

\* The last page of a commit is always appended; another one that this transaction
\* has written before is written again in place.
InPlace(c) ==
    LET f == FindFrame(c, Head(conn[c].list))
    IN conn[c].iFirst > 0 /\ f >= conn[c].iFirst /\ ~(IsCommit(c) /\ Len(conn[c].list) = 1)

\* The first page of the list has been written.
Written(c, iReCksum, appended) ==
    Set(c, [conn[c] EXCEPT !.list = Tail(@), !.iReCksum = iReCksum, !.appended = appended,
                           !.pc = IF Len(conn[c].list) > 1 THEN "frames"
                                  ELSE IF IsCommit(c) /\ iReCksum # 0 THEN "checksums"
                                  ELSE "append"])

\* A frame written in place no longer has the checksum its header says.
Rewrite(c) ==
    LET p == Head(conn[c].list)
        f == FindFrame(c, p)
    IN /\ At(c, "frames") /\ InPlace(c)
       /\ wal' = [wal EXCEPT !.frames[f].page = PageOf(c, p),
                             !.valid = Min({@, f - 1}), !.synced = Min({@, f - 1})]
       /\ Written(c, IF conn[c].iReCksum = 0 \/ f < conn[c].iReCksum THEN f ELSE conn[c].iReCksum,
                  conn[c].appended)
       /\ UNCHANGED <<db, disk, idx, counts>>

\* Whatever followed a frame in the file does not continue its checksum.
AppendFrame(c) ==
    LET p == Head(conn[c].list)
        f == NextFrame(c)
        last == IsCommit(c) /\ Len(conn[c].list) = 1
        frame == [pgno |-> p, page |-> PageOf(c, p), size |-> IF last THEN conn[c].size ELSE 0]
    IN /\ At(c, "frames") /\ ~InPlace(c)
       /\ wal' = [frames |-> [g \in 1..Max({f, Len(wal.frames)}) |->
                                 IF g = f THEN frame ELSE wal.frames[g]],
                  valid |-> IF wal.valid >= f - 1 THEN f ELSE wal.valid,
                  synced |-> Min({wal.synced, f - 1})]
       /\ Written(c, conn[c].iReCksum, Append(conn[c].appended, p))
       /\ UNCHANGED <<db, disk, idx, counts>>

\* Where a failed sqlite3WalFrames leads: a commit is rolled back, but a spill goes to
\* pager_error, after which nothing is undone.
Failed(c) == Set(c, [conn[c] EXCEPT !.pc = IF IsCommit(c) THEN "undo" ELSE "error"])

\* The header cannot be written, or not be synced.  Old frames that are valid still, or
\* again after a loss of power, say what the database file says.
HeaderFails(c) ==
    /\ At(c, "header") /\ Fault
    /\ wal' \in {wal, [wal EXCEPT !.valid = 0, !.synced = 0]}
    /\ Failed(c)
    /\ UNCHANGED <<db, disk, idx>>

\* A frame or a checksum cannot be written.  Frames that have got new checksums do no
\* harm without the last one.
WriteFails(c) ==
    /\ conn[c].pc \in {"frames", "checksums"} /\ Fault
    /\ wal' = LET f == IF InPlace(c) THEN FindFrame(c, Head(conn[c].list)) ELSE NextFrame(c)
              IN IF At(c, "checksums") THEN wal
                 ELSE [wal EXCEPT !.valid = Min({@, f - 1}), !.synced = Min({@, f - 1})]
    /\ Failed(c)
    /\ UNCHANGED <<db, disk, idx>>

\* walRewriteChecksums: the frames from iReCksum on continue the chain, if it reaches
\* them.
RewriteChecksums(c) ==
    /\ At(c, "checksums")
    /\ wal' = [wal EXCEPT !.valid = IF conn[c].iReCksum <= @ + 1 THEN NextFrame(c) - 1 ELSE @]
    /\ Set(c, [conn[c] EXCEPT !.pc = "append", !.iReCksum = 0])
    /\ UNCHANGED <<db, disk, idx, counts>>

\* walCleanupHash forgets what is behind mxFrame; walIndexAppend starts with an empty
\* table at the first frame, and cleans up at a frame that is in use.
CleanupHash(pgno, mxFrame) ==
    IF mxFrame = 0 THEN pgno ELSE [f \in DOMAIN pgno |-> IF f > mxFrame THEN 0 ELSE pgno[f]]

IndexAppend(c) ==
    LET mx == conn[c].hdr.mxFrame
        clean == IF mx = 0 THEN [f \in 1..MaxFrames |-> 0]
                 ELSE IF idx.pgno[mx + 1] # 0 THEN CleanupHash(idx.pgno, mx) ELSE idx.pgno
    IN [f \in 1..MaxFrames |-> IF f - mx \in DOMAIN conn[c].appended THEN conn[c].appended[f - mx]
                               ELSE clean[f]]

\* The frames are found through the index, by this connection only.
AppendIndex(c) ==
    /\ At(c, "append")
    /\ idx' = IF conn[c].appended = <<>> THEN idx ELSE [idx EXCEPT !.pgno = IndexAppend(c)]
    /\ LET hdr == [conn[c].hdr EXCEPT !.mxFrame = @ + Len(conn[c].appended)]
       IN Set(c, IF IsCommit(c)
                 THEN [conn[c] EXCEPT !.pc = "publish", !.appended = <<>>, !.dirty = <<>>,
                                      !.hdr = [hdr EXCEPT !.nPage = conn[c].size]]
                 ELSE [conn[c] EXCEPT !.pc = "write", !.appended = <<>>, !.hdr = hdr,
                                      !.spill = 0, !.dirty = Without(@, conn[c].spill)])
    /\ UNCHANGED <<db, disk, wal, counts>>

\* walIndexWriteHdr and sqlite3WalEndWriteTransaction: the commit.
Publish(c) ==
    /\ At(c, "publish")
    /\ idx' = [idx EXCEPT !.hdr = conn[c].hdr]
    /\ Set(c, [conn[c] EXCEPT !.pc = "read", !.writeLock = FALSE, !.iFirst = 0, !.size = 0])
    /\ UNCHANGED <<db, disk, wal, counts>>

\* pagerRollbackWal, sqlite3WalUndo and sqlite3WalEndWriteTransaction
Rollback(c) ==
    /\ conn[c].pc \in {"write", "undo"}
    /\ idx' = IF Spilled(c) THEN [idx EXCEPT !.pgno = CleanupHash(@, idx.hdr.mxFrame)] ELSE idx
    /\ Set(c, [Closed EXCEPT !.pc = "read", !.hdr = idx.hdr, !.readLock = conn[c].readLock,
                             !.minFrame = conn[c].minFrame])
    /\ UNCHANGED <<db, disk, wal, counts>>

\* pager_unlock in the state PAGER_ERROR, and sqlite3WalEndReadTransaction: the locks go,
\* and what was spilled before stays in the wal-index.
UnlockError(c) ==
    /\ At(c, "error")
    /\ Set(c, Closed)
    /\ UNCHANGED <<db, disk, wal, idx, counts>>

-----------------------------------------------------------------------------
(***************************************************************************)
(* sqlite3WalCheckpoint and walCheckpoint, SQLITE_CHECKPOINT_PASSIVE       *)
(***************************************************************************)
Checkpoint(c) ==
    /\ At(c, "idle") /\ CkptFree
    /\ Counted("checkpoints", MaxCheckpoints)
    /\ ReadHdr
    /\ Set(c, [conn[c] EXCEPT !.pc = "iterate", !.ckptLock = TRUE, !.hdr = idx'.hdr])
    /\ UNCHANGED <<db, disk, wal>>

\* walIteratorInit: the last frame of each page.
Iterator(c) ==
    LET frames(p) == {f \in 1..conn[c].hdr.mxFrame : idx.pgno[f] = p}
    IN [p \in {q \in 1..MaxPages : frames(q) # {}} |-> Max(frames(p))]

Iterate(c) ==
    /\ At(c, "iterate")
    /\ Set(c, IF idx.nBackfill < conn[c].hdr.mxFrame
              THEN [conn[c] EXCEPT !.pc = "marks", !.iter = Iterator(c), !.i = 1,
                                   !.mxSafeFrame = conn[c].hdr.mxFrame]
              ELSE Closed)
    /\ UNCHANGED <<db, disk, wal, idx, counts>>

\* Mutant: the mark of a reader does not hold the checkpoint back.
CheckMarkAnyway(c) ==
    /\ At(c, "marks") /\ conn[c].i <= Marks
    /\ Set(c, [conn[c] EXCEPT !.i = @ + 1])
    /\ UNCHANGED <<db, disk, wal, idx, counts>>

\* A mark below mxSafeFrame is raised, unless a reader uses it.
CheckMark(c) ==
    /\ At(c, "marks") /\ conn[c].i <= Marks
    /\ LET i == conn[c].i
           low == idx.mark[i] < conn[c].mxSafeFrame
       IN /\ idx' = IF low /\ ReadFree(i)
                    THEN [idx EXCEPT !.mark[i] = IF i = 1 THEN conn[c].mxSafeFrame
                                                 ELSE READMARK_NOT_USED]
                    ELSE idx
          /\ Set(c, [conn[c] EXCEPT !.i = @ + 1,
                                    !.mxSafeFrame = IF low /\ ~ReadFree(i) THEN idx.mark[i] ELSE @])
    /\ UNCHANGED <<db, disk, wal, counts>>

\* Mutant: the log is not synced.
BeginBackfillUnsynced(c) ==
    /\ At(c, "marks") /\ conn[c].i > Marks
    /\ idx.nBackfill < conn[c].mxSafeFrame /\ ReadFree(0)
    /\ Set(c, [conn[c] EXCEPT !.pc = "copy", !.lock0 = TRUE, !.backfilled = idx.nBackfill])
    /\ UNCHANGED <<db, disk, wal, idx, counts>>

\* No mark is left: READ(0) keeps readers of the database file out, and the log is
\* synced before any of it is copied.
BeginBackfill(c) ==
    /\ At(c, "marks") /\ conn[c].i > Marks
    /\ idx.nBackfill < conn[c].mxSafeFrame /\ ReadFree(0)
    /\ wal' = [wal EXCEPT !.synced = wal.valid]
    /\ Set(c, [conn[c] EXCEPT !.pc = "copy", !.lock0 = TRUE, !.backfilled = idx.nBackfill])
    /\ UNCHANGED <<db, disk, idx, counts>>

\* Nothing may be copied, or a system call fails.
EndCheckpoint(c) ==
    /\ \/ At(c, "marks") /\ conn[c].i > Marks
          /\ ~(idx.nBackfill < conn[c].mxSafeFrame /\ ReadFree(0))
          /\ UNCHANGED counts
       \/ conn[c].pc \in {"copy", "truncate", "syncDb"} /\ Fault
    /\ Set(c, Closed)
    /\ UNCHANGED <<db, disk, wal, idx>>

\* What is left to copy, in the order of the pages.
ToCopy(c) == {p \in DOMAIN conn[c].iter :
                 /\ conn[c].iter[p] > conn[c].backfilled
                 /\ conn[c].iter[p] <= conn[c].mxSafeFrame
                 /\ p <= conn[c].hdr.nPage}

CopyPage(c) ==
    /\ At(c, "copy") /\ ToCopy(c) # {}
    /\ LET p == Min(ToCopy(c))
       IN /\ db' = Put(db, p, wal.frames[conn[c].iter[p]].page)
          /\ Set(c, [conn[c] EXCEPT !.iter = Without(@, p)])
    /\ UNCHANGED <<disk, wal, idx, counts>>

\* The database file is truncated and synced only if all of the log has been copied.
Copied(c) ==
    /\ At(c, "copy") /\ ToCopy(c) = {}
    /\ IF conn[c].mxSafeFrame = idx.hdr.mxFrame
       THEN /\ Set(c, [conn[c] EXCEPT !.pc = "truncate"])
            /\ UNCHANGED idx
       ELSE /\ idx' = [idx EXCEPT !.nBackfill = conn[c].mxSafeFrame]
            /\ Set(c, Closed)
    /\ UNCHANGED <<db, disk, wal, counts>>

TruncateDb(c) ==
    /\ At(c, "truncate")
    /\ db' = Truncate(db, conn[c].hdr.nPage)
    /\ Set(c, [conn[c] EXCEPT !.pc = "syncDb"])
    /\ UNCHANGED <<disk, wal, idx, counts>>

SyncDb(c) ==
    /\ At(c, "syncDb")
    /\ disk' = db
    /\ idx' = [idx EXCEPT !.nBackfill = conn[c].mxSafeFrame]
    /\ Set(c, Closed)
    /\ UNCHANGED <<db, wal, counts>>

-----------------------------------------------------------------------------
(***************************************************************************)
(* Crashes                                                                 *)
(***************************************************************************)
AllClosed == conn' = [c \in Conns |-> Closed] /\ idx' = NoIndex

\* The process dies: what it has written stays.
Crash ==
    /\ idx.isInit /\ Fault
    /\ AllClosed
    /\ UNCHANGED <<db, disk, wal>>

\* Of the frames that are not durable some are lost, and with them the rest of the log;
\* frames behind the last commit that is left make no difference.
Remains == {wal.synced} \cup {k \in wal.synced + 1..wal.valid : wal.frames[k].size # 0}

PowerLoss ==
    /\ Fault
    /\ \E size \in {Len(disk), Len(db)} : db' \in Survivors(db, disk, size)
    /\ disk' = db'
    /\ \E k \in Remains :
           wal' = [frames |-> SubSeq(wal.frames, 1, k), valid |-> k, synced |-> k]
    /\ AllClosed

-----------------------------------------------------------------------------
\* A database of two pages whose log is empty.
Init ==
    /\ db = <<Blank, Blank>> /\ disk = db
    /\ wal = EmptyLog /\ idx = NoIndex
    /\ conn = [c \in Conns |-> Closed]
    /\ counts = [transactions |-> 0, spills |-> 0, checkpoints |-> 0, faults |-> 0]

Next ==
    \/ \E c \in Conns :
           \/ TryHdr(c) \/ Lock0(c) \/ PickMark(c) \/ LockMark(c) \/ EndRead(c)
           \/ BeginWrite(c) \/ Shrink(c) \/ Commit(c)
           \/ RestartLog(c) \/ ResetCkptInfo(c) \/ WriteHeader(c) \/ HeaderFails(c)
           \/ Rewrite(c) \/ AppendFrame(c) \/ WriteFails(c) \/ RewriteChecksums(c)
           \/ AppendIndex(c) \/ Publish(c) \/ Rollback(c) \/ UnlockError(c)
           \/ Checkpoint(c) \/ Iterate(c) \/ CheckMark(c) \/ BeginBackfill(c)
           \/ EndCheckpoint(c) \/ CopyPage(c) \/ Copied(c) \/ TruncateDb(c) \/ SyncDb(c)
           \/ \E p \in 1..MaxPages : Write(c, p) \/ Spill(c, p)
    \/ Crash \/ PowerLoss

Spec == Init /\ [][Next]_vars

-----------------------------------------------------------------------------
(***************************************************************************)
(* Properties                                                              *)
(***************************************************************************)
\* The database that the first frames of the log and the database file amount to.
ImageOf(hdr) ==
    [p \in 1..DbSize(hdr) |->
        LET frames == {g \in 1..hdr.mxFrame : wal.frames[g].pgno = p}
        IN IF frames = {} THEN PageAt(db, p) ELSE wal.frames[Max(frames)].page]
Image == ImageOf(IF idx.isInit THEN idx.hdr ELSE RecoveredHdr(wal.valid))
Alternatives == {ImageOf(hdr) : hdr \in {RecoveredHdr(k) : k \in Remains}}

View(c, size) == [p \in 1..size |-> PageOf(c, p)]
Snapshot == [c \in Conns |->
    IF conn[c].writeLock THEN Image
    ELSE IF conn[c].readLock >= 0 THEN View(c, DbSize(conn[c].hdr)) ELSE None]
Draft == [c \in Conns |->
    IF conn[c].writeLock THEN View(c, conn[c].size) ELSE None]

\* "Atomic commit and rollback": what readers see, what a writer commits and what is
\* left after any crash, error or loss of power is what AtomicDatabase allows.
Abstract == INSTANCE AtomicDatabase
                WITH image <- Image, alternatives <- Alternatives,
                     snapshot <- Snapshot, draft <- Draft
ImplementsAtomicDatabase == Abstract!Spec

\* "This routine will never overwrite a database page that a concurrent reader might
\* be using": neither what has been copied nor what is being copied lies behind the end
\* of a reader's log; who reads the database file alone finds all of its log there, and
\* nothing is copied meanwhile.  (A writer that has just started the log again reads
\* nothing before it has a mark.)
CheckpointBehindReaders ==
    \A c \in Conns :
        /\ conn[c].readLock > 0 =>
               /\ idx.nBackfill <= conn[c].hdr.mxFrame
               /\ \A d \in Conns :
                      conn[d].lock0 => conn[d].mxSafeFrame <= conn[c].hdr.mxFrame
        /\ conn[c].readLock = 0 /\ ~At(c, "ckptInfo") =>
               /\ ~Read0Busy
               /\ conn[c].hdr.salt = idx.hdr.salt => idx.nBackfill = conn[c].hdr.mxFrame

\* "The nBackfill number is never greater than WalIndexHdr.mxFrame", except between the
\* two writes of walRestartHdr, when nobody can use either.
BackfillWithinLog == Restarting \/ idx.nBackfill <= idx.hdr.mxFrame

\* "Sync the WAL to disk": a checkpoint copies durable frames only, so that after a loss
\* of power the log still has every page the database file may have got; and the frames
\* of every commit continue the chain of checksums, so that recovery finds them.
DurableBeforeCopied ==
    /\ idx.hdr.mxFrame <= wal.valid
    /\ idx.nBackfill <= wal.synced
    /\ \A c \in Conns : conn[c].lock0 => conn[c].mxSafeFrame <= wal.synced

-----------------------------------------------------------------------------
(***************************************************************************)
(* A checkpoint that overlaps a restart of the log breaks                  *)
(* BackfillWithinLog.  SpecApart are the behaviours without such an        *)
(* overlap, and LogInv is inductive for them.                              *)
(***************************************************************************)
RestartApart == \A c \in Conns : RestartLog(c) /\ idx' # idx => CkptFree

SpecApart == Init /\ [][Next /\ RestartApart]_vars

\* Where a connection holds which lock.
WriteSteps == {"write", "restart", "ckptInfo", "header", "frames", "checksums", "append",
               "publish", "undo", "error"}
CopySteps == {"copy", "truncate", "syncDb"}
LocksOf(c) ==
    /\ conn[c].pc \in WriteSteps => conn[c].writeLock
    /\ conn[c].writeLock => conn[c].pc \in WriteSteps \cup {"pick", "lock"}
    /\ conn[c].readLock >= 0 <=> conn[c].pc \in WriteSteps \cup {"read"}
    /\ conn[c].pc \in {"restart", "ckptInfo"} => conn[c].readLock = 0
    /\ conn[c].pc \in WriteSteps \ {"write", "restart", "ckptInfo"} => conn[c].readLock > 0
    /\ conn[c].ckptLock <=> conn[c].pc \in CopySteps \cup {"iterate", "marks"}
    /\ conn[c].lock0 <=> conn[c].pc \in CopySteps
LocksExclusive ==
    \A c, d \in Conns :
        /\ conn[c].writeLock /\ conn[d].writeLock => c = d
        /\ conn[c].ckptLock /\ conn[d].ckptLock => c = d
        /\ conn[c].readLock = 0 => ~conn[d].lock0

\* Before recovery nobody uses the wal-index.
ClosedUntilInit == ~idx.isInit => idx = NoIndex /\ \A c \in Conns : conn[c] = Closed

\* How old the header is that a connection has read.
HeaderOf(c) ==
    /\ conn[c].hdr.salt <= idx.hdr.salt
    /\ ~conn[c].writeLock /\ conn[c].hdr.salt = idx.hdr.salt =>
           conn[c].hdr.mxFrame <= idx.hdr.mxFrame
    /\ conn[c].writeLock => /\ conn[c].hdr.salt = idx.hdr.salt
                            /\ conn[c].hdr.mxFrame >= idx.hdr.mxFrame
                            /\ conn[c].readLock <= 0 => conn[c].hdr = idx.hdr
    /\ conn[c].ckptLock \/ conn[c].readLock > 0 => conn[c].hdr.salt = idx.hdr.salt

\* A writer that starts the log again has kept everybody out of it, and who has read its
\* header meanwhile does not take the empty log for one that has been copied.
RestartOf(c) ==
    At(c, "ckptInfo") =>
        /\ idx.hdr.mxFrame = 0 /\ idx.nBackfill > 0
        /\ \A d \in Conns : /\ conn[d].readLock <= 0
                            /\ At(d, "lock0") => conn[d].hdr.salt # idx.hdr.salt

\* What a reader relies on: its mark does not exceed its log.
ReaderOf(c) ==
    /\ At(c, "lock0") /\ conn[c].hdr.salt = idx.hdr.salt =>
           conn[c].hdr.mxFrame <= idx.nBackfill
    /\ At(c, "lock") => conn[c].mxI \in 1..Marks /\ conn[c].mxReadMark <= conn[c].hdr.mxFrame
    /\ conn[c].readLock > 0 =>
           /\ idx.mark[conn[c].readLock] <= conn[c].hdr.mxFrame
           /\ idx.mark[conn[c].readLock] <= idx.hdr.mxFrame

\* What a checkpoint may copy: nothing behind a reader whose mark it has looked at.
CheckpointOf(c) ==
    /\ conn[c].pc \in CopySteps \cup {"marks"} => conn[c].mxSafeFrame <= conn[c].hdr.mxFrame
    /\ conn[c].pc \in CopySteps => idx.nBackfill < conn[c].mxSafeFrame
    /\ At(c, "marks") => conn[c].i \in 1..Marks + 1
    /\ \A d \in Conns :
           /\ conn[d].readLock > 0
           /\ conn[c].lock0 \/ (At(c, "marks") /\ conn[d].readLock < conn[c].i)
           => conn[c].mxSafeFrame <= conn[d].hdr.mxFrame

\* All of this, which makes CheckpointBehindReaders and BackfillWithinLog inductive.
LogInv ==
    /\ LocksExclusive /\ ClosedUntilInit /\ BackfillWithinLog /\ CheckpointBehindReaders
    /\ \A c \in Conns : /\ LocksOf(c) /\ HeaderOf(c) /\ RestartOf(c) /\ ReaderOf(c)
                        /\ CheckpointOf(c)

\* Where the frames of a writer belong: behind the last commit, in a chain that is
\* unbroken up to the first that is to get a new checksum, which it has before the commit.
ChainOf(c) ==
    /\ conn[c].pc \notin {"frames", "checksums", "append", "undo", "error"} =>
           conn[c].appended = <<>>
    /\ At(c, "header") => conn[c].hdr.mxFrame = 0
    /\ At(c, "publish") \/ (At(c, "append") /\ IsCommit(c)) => conn[c].iReCksum = 0
    /\ conn[c].iFirst > 0 => conn[c].writeLock /\ conn[c].iFirst > idx.hdr.mxFrame
    /\ conn[c].iReCksum > 0 =>
           /\ conn[c].writeLock
           /\ conn[c].iReCksum > idx.hdr.mxFrame /\ conn[c].iReCksum <= conn[c].hdr.mxFrame
           /\ conn[c].pc \notin {"undo", "error"} => conn[c].iReCksum <= wal.valid + 1
    /\ conn[c].writeLock /\ conn[c].iReCksum = 0 /\ conn[c].pc \notin {"header", "undo", "error"}
           => NextFrame(c) <= wal.valid + 1

ChainInv == DurableBeforeCopied /\ \A c \in Conns : ChainOf(c)
=============================================================================
