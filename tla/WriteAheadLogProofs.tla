--------------------------- MODULE WriteAheadLogProofs ---------------------------
(***************************************************************************)
(* Proofs about WriteAheadLog: as long as no checkpoint overlaps a restart *)
(* of the log, a checkpoint stays behind the readers and nBackfill within  *)
(* the log, for any number of connections, marks, transactions, spills,    *)
(* checkpoints and faults.                                                 *)
(*                                                                         *)
(* Then what a checkpoint copies is durable in the log, and the chain of   *)
(* checksums covers every commit.                                          *)
(*                                                                         *)
(* The contents of pages and frames play no part: of the log it is enough  *)
(* that its lengths are natural numbers, of the index that it has a        *)
(* header, nBackfill and marks, of a writer which frame numbers it uses.   *)
(***************************************************************************)
EXTENDS WriteAheadLog, SequenceFacts, TLAPS

-----------------------------------------------------------------------------
(***************************************************************************)
(* Least and greatest numbers                                              *)
(***************************************************************************)
\* A bounded set of natural numbers that is not empty has a greatest element.
LEMMA GreatestNat ==
    ASSUME NEW n \in Nat, NEW S \in SUBSET (0..n), S # {}
    PROVE  \E m \in S : \A x \in S : x <= m
<1> DEFINE B == {k \in Nat : \A x \in S : x <= k}
<1>1. n \in B
  OBVIOUS
<1>2. PICK m \in B : \A k \in B : m <= k
  BY <1>1, LeastNat
<1>3. m \in Nat /\ \A x \in S : x \in Nat /\ x <= m
  BY <1>2
<1>4. m \in S
  <2> SUFFICES ASSUME m \notin S PROVE FALSE
    OBVIOUS
  <2>1. PICK x \in S : TRUE
    OBVIOUS
  <2>2. m - 1 \in B
    BY <1>3, <2>1
  <2> QED BY <1>2, <1>3, <2>2
<1> QED BY <1>3, <1>4

\* Min and Max of FiniteSetsExt, where they exist.
LEMMA MinNat ==
    ASSUME NEW S \in SUBSET Nat, S # {}
    PROVE  Min(S) \in S
BY LeastNat DEF Min

LEMMA MaxNat ==
    ASSUME NEW n \in Nat, NEW S \in SUBSET (0..n), S # {}
    PROVE  Max(S) \in S
<1>1. PICK m \in S : \A x \in S : x <= m
  BY GreatestNat
<1>2. \A x \in S : m >= x
  BY <1>1
<1> QED BY <1>2 DEF Max

LEMMA SumNat ==
    ASSUME NEW a \in Nat, NEW b \in Nat
    PROVE  a + b \in Nat /\ a + b >= a /\ a + b + 1 \in Nat /\ (a + b + 1) - 1 \in Nat
OBVIOUS

LEMMA MinOfTwo ==
    ASSUME NEW a \in Nat, NEW b \in Nat
    PROVE  Min({a, b}) \in Nat
<1>1. Min({a, b}) \in {a, b}
  BY MinNat
<1> QED BY <1>1

-----------------------------------------------------------------------------
(***************************************************************************)
(* The records of the model                                                *)
(***************************************************************************)
\* A header, the log, the index and a connection have their fields, and numbers where
\* the invariants compare numbers.
HdrShape(h) ==
    /\ h = [mxFrame |-> h.mxFrame, nPage |-> h.nPage, salt |-> h.salt]
    /\ h.mxFrame \in Nat /\ h.salt \in Nat

WalShape ==
    /\ wal = [frames |-> wal.frames, valid |-> wal.valid, synced |-> wal.synced]
    /\ wal.valid \in Nat /\ wal.synced \in Nat

IdxShape ==
    /\ idx = [isInit |-> idx.isInit, hdr |-> idx.hdr, pgno |-> idx.pgno,
              nBackfill |-> idx.nBackfill, mark |-> idx.mark]
    /\ idx.isInit \in BOOLEAN /\ HdrShape(idx.hdr) /\ idx.nBackfill \in Nat
    /\ idx.mark \in [1..Marks -> Nat]

IsSeq(s) == \E S : s \in Seq(S)

ConnShape(r) ==
    /\ r = [pc |-> r.pc, hdr |-> r.hdr, readLock |-> r.readLock, minFrame |-> r.minFrame,
            mxI |-> r.mxI, mxReadMark |-> r.mxReadMark,
            writeLock |-> r.writeLock, dirty |-> r.dirty, size |-> r.size, list |-> r.list,
            spill |-> r.spill, iFirst |-> r.iFirst, iReCksum |-> r.iReCksum,
            appended |-> r.appended, ckptLock |-> r.ckptLock, lock0 |-> r.lock0,
            iter |-> r.iter, i |-> r.i, mxSafeFrame |-> r.mxSafeFrame,
            backfilled |-> r.backfilled]
    /\ HdrShape(r.hdr) /\ r.readLock \in -1..Marks /\ r.mxI \in 0..Marks /\ r.mxReadMark \in Nat
    /\ r.writeLock \in BOOLEAN /\ r.ckptLock \in BOOLEAN /\ r.lock0 \in BOOLEAN
    /\ r.iFirst \in Nat /\ r.iReCksum \in Nat /\ IsSeq(r.appended) /\ r.i \in Nat /\ r.mxSafeFrame \in Nat

Shape ==
    /\ WalShape /\ IdxShape
    /\ conn = [c \in Conns |-> conn[c]] /\ \A c \in Conns : ConnShape(conn[c])

LEMMA EmptyIsSeq == IsSeq(<<>>)
<1>1. <<>> \in Seq(Nat)
  OBVIOUS
<1>2. \E S : <<>> \in Seq(S)
  BY <1>1, Zenon
<1> QED BY <1>2, Zenon DEF IsSeq

LEMMA AppendIsSeq ==
    ASSUME NEW s, NEW x, IsSeq(s)
    PROVE  IsSeq(Append(s, x)) /\ Len(s) \in Nat
<1>1. PICK S : s \in Seq(S)
  BY DEF IsSeq
<1>2. s \in Seq(S \cup {x}) /\ x \in S \cup {x}
  BY <1>1
<1>3. Append(s, x) \in Seq(S \cup {x})
  BY <1>2
<1> QED BY <1>1, <1>3 DEF IsSeq

LEMMA ClosedShape == ConnShape(Closed)
<1>1. HdrShape(NoHdr)
  BY DEF HdrShape, NoHdr
<1>2. PICK s : s = <<>>
  OBVIOUS
<1>3. IsSeq(s)
  BY <1>2, EmptyIsSeq, Zenon
<1>4. Closed = [pc |-> "idle", hdr |-> NoHdr, readLock |-> -1, minFrame |-> 0,
           mxI |-> 0, mxReadMark |-> 0,
           writeLock |-> FALSE, dirty |-> s, size |-> 0, list |-> s, spill |-> 0,
           iFirst |-> 0, iReCksum |-> 0, appended |-> s,
           ckptLock |-> FALSE, lock0 |-> FALSE, iter |-> s, i |-> 0, mxSafeFrame |-> 0,
           backfilled |-> 0]
  BY <1>2, Zenon DEF Closed
<1> QED BY <1>1, <1>3, <1>4, LogAssumption DEF ConnShape

USE LogAssumption

LEMMA ReadMarkNat == READMARK_NOT_USED \in Nat
<1>1. MaxTransactions \in Nat /\ MaxPages \in Nat
  OBVIOUS
<1>2. MaxTransactions * (MaxPages + 1) \in Nat
  BY <1>1
<1> QED BY <1>2 DEF READMARK_NOT_USED, MaxFrames

LEMMA InitShape == Init => Shape
<1> SUFFICES ASSUME Init PROVE Shape
  OBVIOUS
<1> USE DEF Init
<1>1. WalShape
  BY DEF WalShape, EmptyLog
<1>2. IdxShape
  BY ReadMarkNat DEF IdxShape, NoIndex, HdrShape, NoHdr
<1>3. \A c \in Conns : ConnShape(conn[c])
  BY ClosedShape
<1> QED BY <1>1, <1>2, <1>3 DEF Shape

-----------------------------------------------------------------------------
(***************************************************************************)
(* The shape is preserved                                                  *)
(***************************************************************************)
\* The last frame of a page is a frame of the log or 0.
LEMMA FindFrameNat ==
    ASSUME NEW c \in Conns, NEW p, ConnShape(conn[c])
    PROVE  FindFrame(c, p) \in Nat /\ FindFrame(c, p) <= conn[c].hdr.mxFrame
<1> DEFINE n == conn[c].hdr.mxFrame
           S == {f \in 1..n : f >= conn[c].minFrame /\ idx.pgno[f] = p}
<1>1. n \in Nat
  BY DEF ConnShape, HdrShape
<1>2. S \in SUBSET (0..n)
  BY <1>1
<1>3. S # {} => Max(S) \in 0..n
  BY <1>1, <1>2, MaxNat
<1>4. FindFrame(c, p) = IF conn[c].readLock > 0 /\ S # {} THEN Max(S) ELSE 0
  BY DEF FindFrame
<1> HIDE DEF n, S
<1>5. FindFrame(c, p) \in 0..n
  BY <1>1, <1>3, <1>4
<1> QED BY <1>1, <1>5 DEF n

LEMMA RecoveredHdrShape ==
    ASSUME NEW k \in Nat
    PROVE  HdrShape(RecoveredHdr(k)) /\ RecoveredHdr(k).mxFrame <= k
<1> DEFINE S == {f \in 1..k : wal.frames[f].size # 0}
           last == Max(S)
<1>1. S \in SUBSET (0..k)
  OBVIOUS
<1>2. S # {} => last \in 0..k
  BY <1>1, MaxNat
<1>3. RecoveredHdr(k) = IF S = {} THEN NoHdr
                        ELSE [mxFrame |-> last, nPage |-> wal.frames[last].size, salt |-> 0]
  BY DEF RecoveredHdr
<1> HIDE DEF S, last
<1> QED BY <1>2, <1>3 DEF HdrShape, NoHdr

LEMMA ReadHdrShape ==
    ASSUME Shape, ReadHdr
    PROVE  IdxShape'
<1>1. CASE idx.isInit
  BY <1>1 DEF ReadHdr, Shape, IdxShape, HdrShape
<1>2. CASE ~idx.isInit
  <2> DEFINE h == RecoveredHdr(wal.valid)
  <2>1. HdrShape(h)
    BY RecoveredHdrShape DEF Shape, WalShape
  <2> HIDE DEF h
  <2>2. idx' = [isInit |-> TRUE, hdr |-> h,
                pgno |-> [f \in 1..MaxFrames |-> IF f <= wal.valid THEN wal.frames[f].pgno ELSE 0],
                nBackfill |-> 0,
                mark |-> [i \in 1..Marks |-> IF i = 1 /\ h.mxFrame > 0 THEN h.mxFrame
                                             ELSE READMARK_NOT_USED]]
    BY <1>2, Zenon DEF ReadHdr, RecoveredIndex, h
  <2>3. [i \in 1..Marks |-> IF i = 1 /\ h.mxFrame > 0 THEN h.mxFrame ELSE READMARK_NOT_USED]
            \in [1..Marks -> Nat]
    BY <2>1, ReadMarkNat DEF HdrShape
  <2>4. idx'.isInit = TRUE /\ idx'.hdr = h /\ idx'.nBackfill = 0 /\ idx'.mark \in [1..Marks -> Nat]
    BY <2>2, <2>3
  <2> QED BY <2>1, <2>2, <2>4 DEF IdxShape, HdrShape
<1> QED BY <1>1, <1>2

\* A step that replaces one connection.
LEMMA SetShape ==
    ASSUME Shape, NEW c \in Conns, NEW r, ConnShape(r), Set(c, r), WalShape', IdxShape'
    PROVE  Shape'
<1>1. conn' = [conn EXCEPT ![c] = r] /\ conn = [d \in Conns |-> conn[d]]
  BY DEF Set, Shape
<1>2. conn' = [d \in Conns |-> conn'[d]]
  BY <1>1
<1>3. \A d \in Conns : conn'[d] = IF d = c THEN r ELSE conn[d]
  BY <1>1
<1>4. \A d \in Conns : ConnShape(conn'[d])
  BY <1>3 DEF Shape
<1> QED BY <1>2, <1>4 DEF Shape

-----------------------------------------------------------------------------
(***************************************************************************)
(* What a step does to the fields that LogInv is about                     *)
(***************************************************************************)
\* Connection c becomes r, the others stay.
Becomes(c, r) == \A d \in Conns : conn'[d] = IF d = c THEN r ELSE conn[d]

SameIdx == /\ idx'.isInit = idx.isInit /\ idx'.hdr = idx.hdr
           /\ idx'.nBackfill = idx.nBackfill /\ idx'.mark = idx.mark

SameLocks(r, q) == /\ r.readLock = q.readLock /\ r.writeLock = q.writeLock
                   /\ r.ckptLock = q.ckptLock /\ r.lock0 = q.lock0

SameCore(r, q) == /\ SameLocks(r, q) /\ r.hdr = q.hdr /\ r.mxSafeFrame = q.mxSafeFrame
                  /\ r.i = q.i /\ r.mxI = q.mxI /\ r.mxReadMark = q.mxReadMark

\* The numbers that are compared.
Numbers ==
    /\ idx.hdr.mxFrame \in Nat /\ idx.hdr.salt \in Nat /\ idx.nBackfill \in Nat
    /\ idx.mark \in [1..Marks -> Nat] /\ idx.isInit \in BOOLEAN
    /\ \A c \in Conns :
           /\ conn[c].hdr.mxFrame \in Nat /\ conn[c].hdr.salt \in Nat
           /\ conn[c].readLock \in -1..Marks /\ conn[c].mxI \in 0..Marks
           /\ conn[c].mxReadMark \in Nat /\ conn[c].i \in Nat /\ conn[c].mxSafeFrame \in Nat
           /\ conn[c].writeLock \in BOOLEAN /\ conn[c].ckptLock \in BOOLEAN
           /\ conn[c].lock0 \in BOOLEAN

LEMMA ShapeNumbers == Shape => Numbers
BY DEF Shape, Numbers, IdxShape, ConnShape, HdrShape

\* Nobody has closed what is in use.
LEMMA InUseInit ==
    ASSUME LogInv, NEW c \in Conns, conn[c].pc # "idle"
    PROVE  idx.isInit
BY DEF LogInv, ClosedUntilInit, Closed

\* A writer that starts the log again is the only writer, nobody reads the log, and no
\* checkpoint copies any of it.
LEMMA NobodyRestarts ==
    ASSUME LogInv, Numbers, NEW c \in Conns, conn[c].pc # "ckptInfo",
           conn[c].writeLock \/ conn[c].readLock > 0 \/ conn[c].pc \in CopySteps
    PROVE  ~Restarting
<1> SUFFICES ASSUME NEW d \in Conns, At(d, "ckptInfo") PROVE FALSE
  BY DEF Restarting
<1>1. /\ LocksOf(d) /\ RestartOf(d) /\ LocksOf(c) /\ HeaderOf(c) /\ CheckpointOf(c)
      /\ d # c
  BY DEF LogInv, At
<1>2. conn[d].writeLock
  BY <1>1 DEF LocksOf, At, WriteSteps
<1>3. ~conn[c].writeLock
  BY <1>1, <1>2 DEF LogInv, LocksExclusive
<1>4. /\ idx.hdr.mxFrame = 0 /\ idx.nBackfill \in Nat /\ conn[c].mxSafeFrame \in Nat
      /\ conn[c].hdr.mxFrame \in Nat /\ conn[c].readLock \in -1..Marks
  BY <1>1 DEF RestartOf, Numbers
<1>5. ~(conn[c].readLock > 0)
  BY <1>1, <1>4 DEF RestartOf
<1>6. CASE conn[c].pc \in CopySteps
  <2>1. /\ idx.nBackfill < conn[c].mxSafeFrame /\ conn[c].mxSafeFrame <= conn[c].hdr.mxFrame
        /\ conn[c].hdr.mxFrame <= 0
    BY <1>1, <1>3, <1>4, <1>6 DEF LocksOf, HeaderOf, CheckpointOf
  <2> QED BY <1>4, <2>1
<1> QED BY <1>3, <1>5, <1>6

\* Whether the log is being started again does not change, nor what goes with it.
LEMMA RestartKept ==
    ASSUME LogInv, Numbers, NEW c \in Conns, NEW r, Becomes(c, r),
           conn[c].pc # "ckptInfo", r.pc # "ckptInfo",
           Restarting => /\ idx'.hdr = idx.hdr /\ idx'.nBackfill = idx.nBackfill
                         /\ r.readLock <= 0 /\ r.pc # "lock0"
    PROVE  (Restarting' <=> Restarting) /\ \A d \in Conns : RestartOf(d)'
<1>1. \A d \in Conns : At(d, "ckptInfo")' <=> At(d, "ckptInfo")
  BY DEF Becomes, At
<1>2. Restarting' <=> Restarting
  BY <1>1 DEF Restarting
<1>3. ASSUME NEW d \in Conns, At(d, "ckptInfo")' PROVE RestartOf(d)'
  <2>1. At(d, "ckptInfo") /\ Restarting /\ RestartOf(d)
    BY <1>1, <1>3 DEF Restarting, LogInv
  <2>2. /\ idx'.hdr = idx.hdr /\ idx'.nBackfill = idx.nBackfill
        /\ r.readLock <= 0 /\ r.pc # "lock0"
    BY <2>1
  <2>3. conn'[c] = r /\ \A e \in Conns \ {c} : conn'[e] = conn[e]
    BY DEF Becomes
  <2>4. ASSUME NEW e \in Conns
        PROVE  conn'[e].readLock <= 0 /\ (At(e, "lock0")' => conn'[e].hdr.salt # idx'.hdr.salt)
    BY <2>1, <2>2, <2>3 DEF RestartOf, At
  <2> QED BY <2>1, <2>2, <2>4 DEF RestartOf
<1>4. ASSUME NEW d \in Conns PROVE RestartOf(d)'
  BY <1>3 DEF RestartOf
<1> QED BY <1>2, <1>4

\* A writer goes from one of its steps to another.
LEMMA WriterMoves ==
    ASSUME LogInv, Numbers, NEW c \in Conns, NEW r, Becomes(c, r), SameIdx,
           SameCore(r, conn[c]), conn[c].pc \in WriteSteps \ {"ckptInfo"},
           r.pc \in WriteSteps \ {"ckptInfo"}, r.pc = "restart" => r.readLock = 0,
           r.pc \in WriteSteps \ {"write", "restart"} => r.readLock > 0
    PROVE  LogInv'
<1> USE DEF Becomes, SameIdx, SameCore, SameLocks
<1>1. idx.isInit
  BY InUseInit DEF WriteSteps
<1>7. LocksOf(c) /\ conn[c].writeLock
  BY DEF LogInv, LocksOf
<1>8. (Restarting' <=> Restarting) /\ \A d \in Conns : RestartOf(d)'
  BY <1>7, NobodyRestarts, RestartKept DEF WriteSteps
<1>2. ClosedUntilInit' /\ BackfillWithinLog'
  BY <1>1, <1>8 DEF ClosedUntilInit, LogInv, BackfillWithinLog
<1>3. LocksExclusive' /\ CheckpointBehindReaders'
  BY DEF LogInv, LocksExclusive, CheckpointBehindReaders, Read0Busy, At
<1>4. \A d \in Conns : LocksOf(d)'
  BY DEF LogInv, LocksOf, WriteSteps, CopySteps
<1>5. \A d \in Conns : HeaderOf(d)' /\ ReaderOf(d)'
  BY DEF LogInv, HeaderOf, ReaderOf, At, WriteSteps
<1>6. \A d \in Conns : CheckpointOf(d)'
  BY DEF LogInv, CheckpointOf, At, WriteSteps, CopySteps
<1> QED BY <1>2, <1>3, <1>4, <1>5, <1>6, <1>8 DEF LogInv

\* A checkpoint goes on copying.
LEMMA CopyMoves ==
    ASSUME LogInv, Numbers, Numbers', NEW c \in Conns, NEW r, Becomes(c, r),
           SameIdx, SameCore(r, conn[c]), conn[c].pc \in CopySteps, r.pc \in CopySteps
    PROVE  LogInv'
<1> USE DEF Becomes, SameIdx, SameCore, SameLocks
<1>1. idx.isInit
  BY InUseInit DEF WriteSteps, CopySteps
<1>8. (Restarting' <=> Restarting) /\ \A d \in Conns : RestartOf(d)'
  BY NobodyRestarts, RestartKept DEF CopySteps
<1>2. ClosedUntilInit' /\ BackfillWithinLog'
  BY <1>1, <1>8 DEF ClosedUntilInit, LogInv, BackfillWithinLog
<1>3. LocksExclusive' /\ CheckpointBehindReaders'
  BY DEF LogInv, LocksExclusive, CheckpointBehindReaders, Read0Busy, At, CopySteps
<1>4. \A d \in Conns : LocksOf(d)'
  BY DEF LogInv, LocksOf, WriteSteps, CopySteps
<1>5. \A d \in Conns : HeaderOf(d)' /\ ReaderOf(d)'
  BY DEF LogInv, HeaderOf, ReaderOf, At, WriteSteps, CopySteps
<1>6. \A d \in Conns : CheckpointOf(d)'
  BY DEF LogInv, CheckpointOf, At, WriteSteps, CopySteps
<1> QED BY <1>2, <1>3, <1>4, <1>5, <1>6, <1>8 DEF LogInv

\* A connection ends what it does, a checkpoint maybe with progress.
LEMMA Closes ==
    ASSUME LogInv, Numbers, Numbers', NEW c \in Conns, NEW r, Becomes(c, r),
           r = Closed, conn[c].pc \notin {"idle", "ckptInfo"},
           idx'.isInit = idx.isInit, idx'.hdr = idx.hdr, idx'.mark = idx.mark,
           \/ idx'.nBackfill = idx.nBackfill
           \/ conn[c].pc \in CopySteps /\ idx'.nBackfill = conn[c].mxSafeFrame
    PROVE  LogInv'
<1> USE DEF Becomes, SameIdx, SameCore, SameLocks
<1>1. idx.isInit
  BY InUseInit DEF WriteSteps, CopySteps
<1>0. /\ r.pc = "idle" /\ r.hdr.mxFrame = 0 /\ r.hdr.salt = 0 /\ r.readLock = -1 /\ r.mxSafeFrame = 0
      /\ ~r.writeLock /\ ~r.ckptLock /\ ~r.lock0
  BY DEF Closed, NoHdr
<1>8. (Restarting' <=> Restarting) /\ \A d \in Conns : RestartOf(d)'
  BY <1>0, NobodyRestarts, RestartKept
<1>9. idx.nBackfill <= idx'.nBackfill /\ (~Restarting => idx'.nBackfill <= idx.hdr.mxFrame)
  <2>1. CASE conn[c].pc \in CopySteps
    <3>1. LocksOf(c) /\ HeaderOf(c) /\ CheckpointOf(c)
      BY DEF LogInv, BackfillWithinLog
    <3>2. conn[c].ckptLock /\ ~conn[c].writeLock
      BY <2>1, <3>1 DEF LocksOf, WriteSteps, CopySteps
    <3>3. /\ conn[c].mxSafeFrame <= conn[c].hdr.mxFrame /\ idx.nBackfill < conn[c].mxSafeFrame
          /\ conn[c].hdr.mxFrame <= idx.hdr.mxFrame
      BY <2>1, <3>1, <3>2 DEF HeaderOf, CheckpointOf
    <3>4. /\ idx.nBackfill \in Nat /\ idx.hdr.mxFrame \in Nat
          /\ conn[c].mxSafeFrame \in Nat /\ conn[c].hdr.mxFrame \in Nat
      BY DEF Numbers
    <3>5. idx'.nBackfill \in {idx.nBackfill, conn[c].mxSafeFrame}
      OBVIOUS
    <3> QED BY <3>3, <3>4, <3>5
  <2>2. CASE idx'.nBackfill = idx.nBackfill
    <3>1. idx.nBackfill \in Nat
      BY DEF Numbers
    <3>2. ~Restarting => idx.nBackfill <= idx.hdr.mxFrame
      BY DEF LogInv, BackfillWithinLog
    <3> QED BY <2>2, <3>1, <3>2
  <2> QED BY <2>1, <2>2
<1>2. ClosedUntilInit' /\ BackfillWithinLog'
  BY <1>1, <1>8, <1>9 DEF ClosedUntilInit, BackfillWithinLog
<1>3. LocksExclusive' /\ CheckpointBehindReaders'
  BY <1>0 DEF LogInv, LocksExclusive, CheckpointBehindReaders, Read0Busy, LocksOf, CheckpointOf, HeaderOf, CopySteps, At
<1>4. \A d \in Conns : LocksOf(d)'
  BY <1>0 DEF LogInv, LocksOf, WriteSteps, CopySteps
<1>5. \A d \in Conns : HeaderOf(d)' /\ ReaderOf(d)'
  <2> SUFFICES ASSUME NEW d \in Conns PROVE HeaderOf(d)' /\ ReaderOf(d)'
    OBVIOUS
  <2>1. CASE d = c
    BY <2>1, <1>0, SMTT(30) DEF HeaderOf, ReaderOf, At, Numbers
  <2>2. CASE d # c
    <3>1. conn'[d] = conn[d] /\ HeaderOf(d) /\ ReaderOf(d)
      BY <2>2 DEF LogInv
    <3>2. HeaderOf(d)'
      BY <3>1 DEF HeaderOf
    <3>3. ReaderOf(d)'
      <4>1. /\ conn[d].hdr.mxFrame \in Nat /\ idx.nBackfill \in Nat /\ idx'.nBackfill \in Nat
            /\ idx'.hdr = idx.hdr /\ idx'.mark = idx.mark
        BY DEF Numbers
      <4>2. At(d, "lock0") /\ conn[d].hdr.salt = idx.hdr.salt => conn[d].hdr.mxFrame <= idx'.nBackfill
        BY <3>1, <4>1, <1>9 DEF ReaderOf
      <4> QED BY <3>1, <4>1, <4>2 DEF ReaderOf, At
    <3> QED BY <3>2, <3>3
  <2> QED BY <2>1, <2>2
<1>6. \A d \in Conns : CheckpointOf(d)'
  BY <1>0 DEF LogInv, CheckpointOf, LocksExclusive, LocksOf, At, WriteSteps, CopySteps
<1> QED BY <1>2, <1>3, <1>4, <1>5, <1>6, <1>8 DEF LogInv

\* A connection has read the header, to read or to begin a checkpoint.
LEMMA HeaderRead ==
    ASSUME LogInv, Numbers, Numbers', NEW c \in Conns, NEW r, Becomes(c, r),
           conn[c].pc = "idle", r.pc \in {"lock0", "pick", "iterate"},
           r.hdr = idx'.hdr, r.readLock = -1, ~r.writeLock, ~r.lock0,
           r.ckptLock <=> r.pc = "iterate", r.ckptLock => CkptFree,
           r.pc = "lock0" => idx'.nBackfill = idx'.hdr.mxFrame,
           \/ SameIdx /\ idx.isInit
           \/ ~idx.isInit /\ idx'.isInit /\ idx'.nBackfill = 0
    PROVE  LogInv'
<1>0. LocksOf(c) /\ conn[c].readLock \in -1..Marks
  BY DEF LogInv, Numbers
<1>1. /\ ~conn[c].writeLock /\ conn[c].readLock = -1 /\ ~conn[c].ckptLock /\ ~conn[c].lock0
  <2>1. ~conn[c].writeLock /\ ~(conn[c].readLock >= 0) /\ ~conn[c].ckptLock /\ ~conn[c].lock0
    BY <1>0 DEF LocksOf, WriteSteps, CopySteps
  <2> QED BY <1>0, <2>1
<1>2. conn'[c] = r /\ \A d \in Conns \ {c} : conn'[d] = conn[d]
  BY DEF Becomes
<1>3. \A d \in Conns : LocksOf(d)
  BY DEF LogInv
<1>4. LocksExclusive'
  BY <1>1, <1>2 DEF LogInv, LocksExclusive, CkptFree
<1>5. \A d \in Conns : LocksOf(d)'
  BY <1>2, <1>3 DEF LocksOf, WriteSteps, CopySteps
<1>6. CASE SameIdx /\ idx.isInit
  <2> USE <1>6 DEF SameIdx
  <2>5. Restarting => idx.hdr.mxFrame = 0 /\ idx.nBackfill > 0
    BY DEF Restarting, LogInv, RestartOf
  <2>6. idx.nBackfill \in Nat
    BY DEF Numbers
  <2>7. (Restarting' <=> Restarting) /\ \A d \in Conns : RestartOf(d)'
    BY <2>5, <2>6, RestartKept
  <2>1. ClosedUntilInit' /\ BackfillWithinLog'
    BY <2>7 DEF ClosedUntilInit, LogInv, BackfillWithinLog
  <2>2. CheckpointBehindReaders'
    BY <1>1, <1>2 DEF LogInv, CheckpointBehindReaders, Read0Busy, At
  <2>3. ASSUME NEW d \in Conns PROVE HeaderOf(d)' /\ ReaderOf(d)'
    <3>1. CASE d = c
      BY <3>1, <1>2 DEF HeaderOf, ReaderOf, At, Numbers
    <3>2. CASE d # c
      BY <3>2, <1>2 DEF HeaderOf, ReaderOf, At, LogInv
    <3> QED BY <3>1, <3>2
  <2>4. ASSUME NEW d \in Conns PROVE CheckpointOf(d)'
    <3>1. CASE d = c
      BY <3>1, <1>2 DEF CheckpointOf, At, CopySteps
    <3>2. CASE d # c
      BY <3>2, <1>2 DEF CheckpointOf, At, LogInv
    <3> QED BY <3>1, <3>2
  <2> QED BY <1>4, <1>5, <2>1, <2>2, <2>3, <2>4, <2>7 DEF LogInv
<1>7. CASE ~idx.isInit /\ idx'.isInit /\ idx'.nBackfill = 0
  <2>1. ASSUME NEW d \in Conns, d # c
        PROVE  /\ conn'[d].pc = "idle" /\ conn'[d].hdr.mxFrame = 0 /\ conn'[d].hdr.salt = 0
               /\ conn'[d].readLock = -1 /\ ~conn'[d].writeLock /\ ~conn'[d].ckptLock
               /\ ~conn'[d].lock0
    BY <1>2, <1>7, <2>1 DEF LogInv, ClosedUntilInit, Closed, NoHdr
  <2>2. ClosedUntilInit' /\ BackfillWithinLog'
    BY <1>7 DEF ClosedUntilInit, BackfillWithinLog, Numbers
  <2>3. \A d \in Conns : conn'[d].readLock = -1 /\ ~conn'[d].lock0
    BY <1>2, <2>1
  <2>4. CheckpointBehindReaders'
    BY <2>3 DEF CheckpointBehindReaders
  <2>7. \A d \in Conns : RestartOf(d)'
    BY <1>2, <2>1 DEF RestartOf, At
  <2>5. ASSUME NEW d \in Conns PROVE HeaderOf(d)' /\ ReaderOf(d)'
    <3>0. idx'.hdr.salt \in Nat /\ idx'.hdr.mxFrame \in Nat /\ idx'.nBackfill \in Nat
      BY DEF Numbers
    <3>1. CASE d = c
      BY <3>0, <3>1, <1>2 DEF HeaderOf, ReaderOf, At
    <3>2. CASE d # c
      <4>1. HeaderOf(d)'
        BY <3>0, <3>2, <2>1 DEF HeaderOf
      <4>2. ReaderOf(d)'
        BY <3>2, <2>1 DEF ReaderOf, At
      <4> QED BY <4>1, <4>2
    <3> QED BY <3>1, <3>2
  <2>6. ASSUME NEW d \in Conns PROVE CheckpointOf(d)'
    <3>1. CASE d = c
      BY <3>1, <1>2, <2>3 DEF CheckpointOf, At, CopySteps
    <3>2. CASE d # c
      BY <3>2, <2>1, <2>3 DEF CheckpointOf, At, CopySteps
    <3> QED BY <3>1, <3>2
  <2> QED BY <1>4, <1>5, <2>2, <2>4, <2>5, <2>6, <2>7 DEF LogInv
<1> QED BY <1>6, <1>7

\* A connection begins or goes on looking for a mark; a mark nobody uses may change.
LEMMA Looks ==
    ASSUME LogInv, Numbers, Numbers', NEW c \in Conns, NEW r, Becomes(c, r),
           idx'.isInit = idx.isInit, idx'.hdr = idx.hdr, idx'.nBackfill = idx.nBackfill,
           \A i \in 1..Marks : idx'.mark[i] = idx.mark[i] \/ ReadFree(i),
           conn[c].pc \in {"lock0", "pick", "lock"}, r.pc \in {"pick", "lock"},
           SameLocks(r, conn[c]), r.hdr = conn[c].hdr,
           r.pc = "lock" => r.mxI \in 1..Marks /\ r.mxReadMark <= r.hdr.mxFrame
    PROVE  LogInv'
<1>1. idx.isInit
  BY InUseInit
<1>2. conn'[c] = r /\ \A d \in Conns \ {c} : conn'[d] = conn[d]
  BY DEF Becomes
<1>3. ASSUME NEW d \in Conns
      PROVE  LocksOf(d) /\ HeaderOf(d) /\ ReaderOf(d) /\ CheckpointOf(d)
  BY DEF LogInv
<1>4. \A d \in Conns : SameLocks(conn'[d], conn[d]) /\ conn'[d].hdr = conn[d].hdr
  BY <1>2 DEF SameLocks
<1>7. conn[c].readLock = -1 /\ ~conn[c].lock0
  <2>1. ~(conn[c].readLock >= 0) /\ ~conn[c].lock0 /\ conn[c].readLock \in -1..Marks
    BY <1>3 DEF LocksOf, WriteSteps, CopySteps, Numbers
  <2> QED BY <2>1
<1>10. (Restarting' <=> Restarting) /\ \A d \in Conns : RestartOf(d)'
  BY <1>7, RestartKept DEF SameLocks
<1>5. ClosedUntilInit' /\ BackfillWithinLog' /\ LocksExclusive' /\ CheckpointBehindReaders'
  <2>1. ClosedUntilInit' /\ BackfillWithinLog'
    BY <1>1, <1>10 DEF ClosedUntilInit, LogInv, BackfillWithinLog
  <2>2. LocksExclusive'
    BY <1>4 DEF LogInv, LocksExclusive, SameLocks
  <2>3. CheckpointBehindReaders'
    BY <1>2, <1>7 DEF LogInv, CheckpointBehindReaders, Read0Busy, SameLocks, At
  <2> QED BY <2>1, <2>2, <2>3
<1>6. ASSUME NEW d \in Conns PROVE LocksOf(d)' /\ HeaderOf(d)'
  <2>1. LocksOf(d)'
    BY <1>2, <1>3 DEF LocksOf, SameLocks, WriteSteps, CopySteps
  <2>2. HeaderOf(d)'
    BY <1>3, <1>4 DEF HeaderOf, SameLocks
  <2> QED BY <2>1, <2>2
<1>8. ASSUME NEW d \in Conns PROVE ReaderOf(d)'
  <2>1. CASE d = c
    BY <2>1, <1>2, <1>7 DEF ReaderOf, At, SameLocks
  <2>2. CASE d # c
    <3>1. conn[d].readLock > 0 => idx'.mark[conn[d].readLock] = idx.mark[conn[d].readLock]
      <4>1. conn[d].readLock \in -1..Marks
        BY DEF Numbers
      <4>2. conn[d].readLock > 0 => conn[d].readLock \in 1..Marks
        BY <4>1
      <4> QED BY <4>2 DEF ReadFree
    <3> QED BY <2>2, <1>2, <1>3, <3>1 DEF ReaderOf, At
  <2> QED BY <2>1, <2>2
<1>9. ASSUME NEW d \in Conns PROVE CheckpointOf(d)'
  <2>1. CASE d = c
    BY <2>1, <1>2, <1>7 DEF CheckpointOf, At, SameLocks, CopySteps
  <2>2. CASE d # c
    BY <2>2, <1>2, <1>3, <1>4 DEF CheckpointOf, At, SameLocks
  <2> QED BY <2>1, <2>2
<1> QED BY <1>5, <1>6, <1>8, <1>9, <1>10 DEF LogInv

\* A connection starts to read, the database file alone or the log with a mark.
LEMMA StartsReading ==
    ASSUME LogInv, Numbers, Numbers', NEW c \in Conns, NEW r, Becomes(c, r), SameIdx,
           r.hdr = idx.hdr, conn[c].hdr = idx.hdr, r.readLock \in 0..Marks,
           r.writeLock = conn[c].writeLock, ~r.ckptLock, ~r.lock0,
           \/ conn[c].pc = "lock0" /\ r.readLock = 0 /\ r.pc = "read" /\ ~Read0Busy
           \/ /\ conn[c].pc = "lock" /\ r.readLock > 0 /\ ~Restarting
              /\ idx.mark[r.readLock] <= conn[c].hdr.mxFrame
              /\ \/ r.pc = "read" /\ ~r.writeLock
                 \/ r.pc \in {"header", "frames"} /\ r.writeLock
    PROVE  LogInv'
<1>1. idx.isInit
  BY InUseInit
<1>2. conn'[c] = r /\ \A d \in Conns \ {c} : conn'[d] = conn[d]
  BY DEF Becomes
<1>3. ASSUME NEW d \in Conns
      PROVE  LocksOf(d) /\ HeaderOf(d) /\ ReaderOf(d) /\ CheckpointOf(d)
  BY DEF LogInv
<1>4. /\ ~(conn[c].readLock >= 0) /\ ~conn[c].lock0 /\ ~conn[c].ckptLock
      /\ conn[c].pc = "lock0" => ~conn[c].writeLock
  BY <1>3 DEF LocksOf, WriteSteps, CopySteps
<1>13. ~Restarting
  BY DEF LogInv, Restarting, RestartOf, At
<1>14. (Restarting' <=> Restarting) /\ \A d \in Conns : RestartOf(d)'
  BY <1>13, RestartKept
<1>5. ClosedUntilInit' /\ BackfillWithinLog'
  BY <1>1, <1>14 DEF ClosedUntilInit, LogInv, BackfillWithinLog, SameIdx
<1>6. LocksExclusive'
  BY <1>2, <1>4 DEF LogInv, LocksExclusive, Read0Busy
<1>7. ASSUME NEW d \in Conns PROVE LocksOf(d)'
  BY <1>2, <1>3, <1>4 DEF LocksOf, WriteSteps, CopySteps
<1>8. idx.hdr.mxFrame \in Nat /\ idx.hdr.salt \in Nat /\ idx.nBackfill \in Nat
  BY DEF Numbers
<1>9. ASSUME NEW d \in Conns PROVE HeaderOf(d)' /\ ReaderOf(d)'
  <2>1. CASE d = c
    <3>1. HeaderOf(c)'
      BY <1>2, <1>3, <1>4, <1>8 DEF HeaderOf, SameIdx
    <3>2. ReaderOf(c)'
      BY <1>2, <1>8 DEF ReaderOf, At, SameIdx
    <3> QED BY <2>1, <3>1, <3>2
  <2>2. CASE d # c
    BY <2>2, <1>2, <1>3 DEF HeaderOf, ReaderOf, At, SameIdx
  <2> QED BY <2>1, <2>2
<1>10. ASSUME NEW d \in Conns, conn[d].lock0 \/ At(d, "marks")
       PROVE  conn[d].mxSafeFrame <= idx.hdr.mxFrame
  <2>1. conn[d].ckptLock /\ ~conn[d].writeLock /\ conn[d].pc \in CopySteps \cup {"marks"}
    BY <1>3, <1>10 DEF LocksOf, At, WriteSteps, CopySteps
  <2>2. conn[d].mxSafeFrame <= conn[d].hdr.mxFrame /\ conn[d].hdr.mxFrame <= idx.hdr.mxFrame
    BY <1>3, <2>1 DEF HeaderOf, CheckpointOf
  <2>3. conn[d].mxSafeFrame \in Nat /\ conn[d].hdr.mxFrame \in Nat
    BY DEF Numbers
  <2> QED BY <1>8, <2>2, <2>3
<1>11. ASSUME NEW d \in Conns PROVE CheckpointOf(d)'
  <2>1. CASE d = c
    BY <2>1, <1>2 DEF CheckpointOf, At, CopySteps
  <2>2. CASE d # c
    <3>1. \A e \in Conns :
             /\ conn'[e].readLock > 0
             /\ conn[d].lock0 \/ (At(d, "marks") /\ conn'[e].readLock < conn[d].i)
             => conn[d].mxSafeFrame <= conn'[e].hdr.mxFrame
      BY <2>2, <1>2, <1>3, <1>10 DEF CheckpointOf
    <3> QED BY <2>2, <1>2, <1>3, <3>1 DEF CheckpointOf, At, SameIdx
  <2> QED BY <2>1, <2>2
<1>12. CheckpointBehindReaders'
  <2> SUFFICES ASSUME NEW d \in Conns
               PROVE  /\ conn'[d].readLock > 0 =>
                             /\ idx.nBackfill <= conn'[d].hdr.mxFrame
                             /\ \A e \in Conns :
                                    conn'[e].lock0 => conn'[e].mxSafeFrame <= conn'[d].hdr.mxFrame
                      /\ conn'[d].readLock = 0 /\ conn'[d].pc # "ckptInfo" =>
                             /\ ~Read0Busy'
                             /\ conn'[d].hdr.salt = idx.hdr.salt => idx.nBackfill = conn'[d].hdr.mxFrame
    BY DEF CheckpointBehindReaders, SameIdx, At
  <2>1. CASE d # c
    BY <2>1, <1>2, <1>4 DEF LogInv, CheckpointBehindReaders, Read0Busy, At
  <2>2. CASE d = c
    <3>1. idx.nBackfill <= idx.hdr.mxFrame
      BY <1>13 DEF LogInv, BackfillWithinLog
    <3>2. \A e \in Conns : conn'[e].lock0 => conn'[e].mxSafeFrame <= idx.hdr.mxFrame
      BY <1>2, <1>10
    <3>3. r.readLock = 0 => ~Read0Busy' /\ idx.hdr.mxFrame <= idx.nBackfill
      BY <1>2, <1>3 DEF Read0Busy, ReaderOf, At
    <3>4. r.readLock = 0 => ~Read0Busy' /\ idx.nBackfill = idx.hdr.mxFrame
      BY <3>1, <3>3, <1>8
    <3> QED BY <2>2, <1>2, <3>1, <3>2, <3>4
  <2> QED BY <2>1, <2>2
<1> QED BY <1>5, <1>6, <1>7, <1>9, <1>11, <1>12, <1>14 DEF LogInv

\* A reader becomes a writer.
LEMMA StartsWriting ==
    ASSUME LogInv, Numbers, NEW c \in Conns, NEW r, Becomes(c, r), SameIdx,
           conn[c].pc = "read", r.pc = "write", WriteFree, r.writeLock,
           conn[c].hdr = idx.hdr, r.hdr = conn[c].hdr, r.readLock = conn[c].readLock,
           r.ckptLock = conn[c].ckptLock, r.lock0 = conn[c].lock0
    PROVE  LogInv'
<1>1. idx.isInit
  BY InUseInit
<1>2. conn'[c] = r /\ \A d \in Conns \ {c} : conn'[d] = conn[d]
  BY DEF Becomes
<1>3. ASSUME NEW d \in Conns
      PROVE  LocksOf(d) /\ HeaderOf(d) /\ ReaderOf(d) /\ CheckpointOf(d)
  BY DEF LogInv
<1>4. ~conn[c].lock0 /\ ~conn[c].ckptLock /\ ~conn[c].writeLock
  BY <1>3 DEF LocksOf, WriteSteps, CopySteps
<1>11. ASSUME NEW d \in Conns PROVE ~At(d, "ckptInfo")
  BY <1>3 DEF LocksOf, WriteFree, At, WriteSteps
<1>12. (Restarting' <=> Restarting) /\ \A d \in Conns : RestartOf(d)'
  BY <1>11, RestartKept DEF Restarting
<1>5. ClosedUntilInit' /\ BackfillWithinLog'
  BY <1>1, <1>12 DEF ClosedUntilInit, LogInv, BackfillWithinLog, SameIdx
<1>6. LocksExclusive' /\ CheckpointBehindReaders'
  <2>1. LocksExclusive'
    BY <1>2, <1>4 DEF LogInv, LocksExclusive, WriteFree
  <2>2. CheckpointBehindReaders'
    BY <1>2, <1>4 DEF LogInv, CheckpointBehindReaders, Read0Busy, SameIdx, At
  <2> QED BY <2>1, <2>2
<1>7. ASSUME NEW d \in Conns PROVE LocksOf(d)'
  BY <1>2, <1>3 DEF LocksOf, WriteSteps, CopySteps
<1>8. idx.hdr.mxFrame \in Nat /\ idx.hdr.salt \in Nat
  BY DEF Numbers
<1>9. ASSUME NEW d \in Conns PROVE HeaderOf(d)' /\ ReaderOf(d)'
  <2>1. CASE d = c
    <3>1. HeaderOf(c)'
      BY <1>2, <1>3, <1>8 DEF HeaderOf, SameIdx
    <3>2. ReaderOf(c)'
      BY <1>2, <1>3 DEF ReaderOf, At, SameIdx
    <3> QED BY <2>1, <3>1, <3>2
  <2>2. CASE d # c
    BY <2>2, <1>2, <1>3 DEF HeaderOf, ReaderOf, At, SameIdx
  <2> QED BY <2>1, <2>2
<1>10. ASSUME NEW d \in Conns PROVE CheckpointOf(d)'
  <2>1. CASE d = c
    BY <2>1, <1>2, <1>4 DEF CheckpointOf, At, CopySteps
  <2>2. CASE d # c
    BY <2>2, <1>2, <1>3 DEF CheckpointOf, At, SameIdx
  <2> QED BY <2>1, <2>2
<1> QED BY <1>5, <1>6, <1>7, <1>9, <1>10, <1>12 DEF LogInv

\* A writer gives up its mark, to read again.
LEMMA ReadsAgain ==
    ASSUME LogInv, Numbers, Numbers', NEW c \in Conns, NEW r, Becomes(c, r), SameIdx,
           conn[c].pc = "restart", r.pc = "pick", r.readLock = -1, r.hdr = conn[c].hdr,
           r.writeLock = conn[c].writeLock, ~r.ckptLock, ~r.lock0
    PROVE  LogInv'
<1>1. idx.isInit
  BY InUseInit
<1>2. conn'[c] = r /\ \A d \in Conns \ {c} : conn'[d] = conn[d]
  BY DEF Becomes
<1>3. ASSUME NEW d \in Conns
      PROVE  LocksOf(d) /\ HeaderOf(d) /\ ReaderOf(d) /\ CheckpointOf(d)
  BY DEF LogInv
<1>4. ~conn[c].lock0 /\ ~conn[c].ckptLock /\ conn[c].writeLock /\ conn[c].readLock = 0
  BY <1>3 DEF LocksOf, WriteSteps, CopySteps
<1>11. (Restarting' <=> Restarting) /\ \A d \in Conns : RestartOf(d)'
  BY <1>4, NobodyRestarts, RestartKept
<1>5. ClosedUntilInit' /\ BackfillWithinLog'
  BY <1>1, <1>11 DEF ClosedUntilInit, LogInv, BackfillWithinLog, SameIdx
<1>6. LocksExclusive'
  BY <1>2, <1>4 DEF LogInv, LocksExclusive
<1>7. CheckpointBehindReaders'
  BY <1>2, <1>4 DEF LogInv, CheckpointBehindReaders, Read0Busy, SameIdx, At
<1>8. ASSUME NEW d \in Conns PROVE LocksOf(d)'
  BY <1>2, <1>3, <1>4 DEF LocksOf, WriteSteps, CopySteps
<1>9. ASSUME NEW d \in Conns PROVE HeaderOf(d)' /\ ReaderOf(d)'
  <2>1. CASE d = c
    BY <2>1, <1>2, <1>3, <1>4 DEF HeaderOf, ReaderOf, At, SameIdx
  <2>2. CASE d # c
    BY <2>2, <1>2, <1>3 DEF HeaderOf, ReaderOf, At, SameIdx
  <2> QED BY <2>1, <2>2
<1>10. ASSUME NEW d \in Conns PROVE CheckpointOf(d)'
  <2>1. CASE d = c
    BY <2>1, <1>2 DEF CheckpointOf, At, CopySteps
  <2>2. CASE d # c
    BY <2>2, <1>2, <1>3 DEF CheckpointOf, At, SameIdx
  <2> QED BY <2>1, <2>2
<1> QED BY <1>5, <1>6, <1>7, <1>8, <1>9, <1>10, <1>11 DEF LogInv

\* A writer starts the log again: nobody reads it, and no checkpoint is going on.
LEMMA Restarts ==
    ASSUME LogInv, Numbers, Numbers', NEW c \in Conns, NEW r, Becomes(c, r),
           conn[c].pc = "restart", r.pc = "ckptInfo", r.readLock = 0, r.hdr = idx'.hdr,
           r.writeLock = conn[c].writeLock, ~r.ckptLock, ~r.lock0,
           CkptFree, \A i \in 1..Marks : ReadFree(i),
           idx'.isInit = idx.isInit, idx'.nBackfill = idx.nBackfill, idx.nBackfill > 0, idx'.hdr.mxFrame = 0,
           idx'.hdr.salt = idx.hdr.salt + 1
    PROVE  LogInv'
<1>1. idx.isInit
  BY InUseInit
<1>2. conn'[c] = r /\ \A d \in Conns \ {c} : conn'[d] = conn[d]
  BY DEF Becomes
<1>3. ASSUME NEW d \in Conns
      PROVE  LocksOf(d) /\ HeaderOf(d) /\ ReaderOf(d) /\ CheckpointOf(d)
  BY DEF LogInv
<1>4. conn[c].writeLock /\ conn[c].readLock = 0
  BY <1>3 DEF LocksOf, WriteSteps, CopySteps
<1>5. ClosedUntilInit' /\ BackfillWithinLog'
  BY <1>1, <1>2 DEF ClosedUntilInit, BackfillWithinLog, Restarting, At
<1>6. LocksExclusive'
  BY <1>2, <1>4 DEF LogInv, LocksExclusive
<1>7. ASSUME NEW d \in Conns, d # c
      PROVE  /\ conn'[d] = conn[d] /\ ~conn[d].ckptLock /\ ~conn[d].lock0 /\ ~(conn[d].readLock > 0)
             /\ ~conn[d].writeLock /\ conn[d].hdr.salt # idx'.hdr.salt
             /\ conn[d].hdr.salt <= idx'.hdr.salt
  <2>1. ~conn[d].ckptLock /\ ~conn[d].writeLock
    BY <1>4, <1>7 DEF CkptFree, LogInv, LocksExclusive
  <2>2. ~conn[d].lock0
    BY <2>1, <1>3 DEF LocksOf
  <2>3. conn[d].readLock \in -1..Marks
    BY DEF Numbers
  <2>4. ~(conn[d].readLock > 0)
    BY <2>3 DEF ReadFree
  <2>5. conn[d].hdr.salt <= idx.hdr.salt /\ conn[d].hdr.salt \in Nat /\ idx.hdr.salt \in Nat
    BY <1>3 DEF HeaderOf, Numbers
  <2>6. conn[d].hdr.salt # idx'.hdr.salt /\ conn[d].hdr.salt <= idx'.hdr.salt
    BY <2>5
  <2> QED BY <1>2, <1>7, <2>1, <2>2, <2>4, <2>6
<1>8. CheckpointBehindReaders'
  <2>1. ~Read0Busy'
    BY <1>2, <1>7 DEF Read0Busy
  <2> QED BY <1>2, <1>7, <2>1 DEF CheckpointBehindReaders, At
<1>9. ASSUME NEW d \in Conns PROVE LocksOf(d)'
  <2>1. CASE d = c
    <3>1. /\ conn'[d].pc = "ckptInfo" /\ conn'[d].readLock = 0 /\ conn'[d].writeLock
          /\ ~conn'[d].ckptLock /\ ~conn'[d].lock0
      BY <2>1, <1>2, <1>4
    <3> QED BY <3>1 DEF LocksOf, WriteSteps, CopySteps
  <2>2. CASE d # c
    <3>1. conn'[d] = conn[d] /\ LocksOf(d)
      BY <2>2, <1>2, <1>3
    <3> QED BY <3>1 DEF LocksOf
  <2> QED BY <2>1, <2>2
<1>10. ASSUME NEW d \in Conns PROVE HeaderOf(d)' /\ ReaderOf(d)'
  <2>0. idx'.hdr.mxFrame \in Nat /\ idx'.hdr.salt \in Nat
    BY DEF Numbers
  <2>1. CASE d = c
    BY <2>0, <2>1, <1>2, <1>4 DEF HeaderOf, ReaderOf, At
  <2>2. CASE d # c
    <3>1. HeaderOf(d)'
      BY <2>2, <1>7 DEF HeaderOf
    <3>2. ReaderOf(d)'
      BY <2>2, <1>3, <1>7 DEF ReaderOf, At
    <3> QED BY <3>1, <3>2
  <2> QED BY <2>1, <2>2
<1>11. ASSUME NEW d \in Conns PROVE CheckpointOf(d)'
  <2>1. CASE d = c
    BY <2>1, <1>2 DEF CheckpointOf, At, CopySteps
  <2>2. CASE d # c
    <3>1. conn[d].pc \notin CopySteps \cup {"marks"}
      BY <2>2, <1>3, <1>7 DEF LocksOf
    <3> QED BY <2>2, <1>7, <3>1 DEF CheckpointOf, At
  <2> QED BY <2>1, <2>2
<1>12. ASSUME NEW d \in Conns PROVE RestartOf(d)'
  <2>1. \A e \in Conns : conn'[e].readLock \in -1..Marks
    BY DEF Numbers
  <2>2. \A e \in Conns : conn'[e].readLock <= 0 /\ (At(e, "lock0")' => conn'[e].hdr.salt # idx'.hdr.salt)
    BY <1>2, <1>7, <2>1 DEF At
  <2> QED BY <2>2 DEF RestartOf
<1> QED BY <1>5, <1>6, <1>8, <1>9, <1>10, <1>11, <1>12 DEF LogInv

\* Then it resets nBackfill and the marks, which nobody uses.
LEMMA Resets ==
    ASSUME LogInv, Numbers, Numbers', NEW c \in Conns, NEW r, Becomes(c, r),
           conn[c].pc = "ckptInfo", r.pc = "pick", r.readLock = -1, r.hdr = conn[c].hdr,
           r.writeLock = conn[c].writeLock, ~r.ckptLock, ~r.lock0,
           idx'.isInit = idx.isInit, idx'.hdr = idx.hdr, idx'.nBackfill = 0
    PROVE  LogInv'
<1>1. idx.isInit
  BY InUseInit
<1>2. conn'[c] = r /\ \A d \in Conns \ {c} : conn'[d] = conn[d]
  BY DEF Becomes
<1>3. ASSUME NEW d \in Conns
      PROVE  LocksOf(d) /\ HeaderOf(d) /\ ReaderOf(d) /\ CheckpointOf(d)
  BY DEF LogInv
<1>4. conn[c].writeLock /\ conn[c].readLock = 0 /\ RestartOf(c) /\ Restarting
  BY <1>3 DEF LogInv, LocksOf, Restarting, At, WriteSteps
<1>5. ASSUME NEW d \in Conns, d # c
      PROVE  /\ conn'[d] = conn[d] /\ ~(conn[d].readLock > 0) /\ ~conn[d].writeLock
             /\ conn[d].pc # "ckptInfo" /\ conn[d].pc \notin CopySteps
             /\ At(d, "lock0") => conn[d].hdr.salt # idx.hdr.salt
  <2>1. ~conn[d].writeLock
    BY <1>4, <1>5 DEF LogInv, LocksExclusive
  <2>2. conn[d].pc # "ckptInfo"
    BY <1>3, <2>1 DEF LocksOf, WriteSteps
  <2>3. conn[d].pc \notin CopySteps
    BY <1>4, <2>2, NobodyRestarts
  <2>4. /\ conn[d].readLock \in -1..Marks /\ conn[d].readLock <= 0
        /\ At(d, "lock0") => conn[d].hdr.salt # idx.hdr.salt
    BY <1>4 DEF RestartOf, At, Numbers
  <2> QED BY <1>2, <1>5, <2>1, <2>2, <2>3, <2>4
<1>6. ClosedUntilInit' /\ BackfillWithinLog'
  BY <1>1 DEF ClosedUntilInit, BackfillWithinLog, Numbers
<1>7. LocksExclusive'
  BY <1>2, <1>4 DEF LogInv, LocksExclusive
<1>8. ASSUME NEW d \in Conns PROVE LocksOf(d)' /\ ~conn'[d].lock0
  <2>1. LocksOf(d)'
    BY <1>2, <1>3, <1>4 DEF LocksOf, WriteSteps, CopySteps
  <2>2. ~conn'[d].lock0
    BY <1>2, <1>3, <1>5 DEF LocksOf
  <2> QED BY <2>1, <2>2
<1>9. CheckpointBehindReaders'
  <2>1. ASSUME NEW d \in Conns, d # c, conn[d].readLock = 0
        PROVE  conn[d].hdr.salt = idx.hdr.salt => 0 = conn[d].hdr.mxFrame
    <3>1. /\ conn[d].hdr.mxFrame \in Nat
          /\ conn[d].hdr.salt = idx.hdr.salt => conn[d].hdr.mxFrame <= idx.hdr.mxFrame
      BY <1>3, <1>5, <2>1 DEF HeaderOf, Numbers
    <3> QED BY <1>4, <3>1 DEF RestartOf, At
  <2> QED BY <1>2, <1>5, <1>8, <2>1 DEF CheckpointBehindReaders, Read0Busy
<1>10. ASSUME NEW d \in Conns PROVE HeaderOf(d)' /\ ReaderOf(d)'
  <2>1. CASE d = c
    BY <2>1, <1>2, <1>3, <1>4 DEF HeaderOf, ReaderOf, At
  <2>2. CASE d # c
    <3>1. HeaderOf(d)'
      BY <2>2, <1>3, <1>5 DEF HeaderOf
    <3>2. ReaderOf(d)'
      BY <2>2, <1>3, <1>5 DEF ReaderOf, At
    <3> QED BY <3>1, <3>2
  <2> QED BY <2>1, <2>2
<1>11. ASSUME NEW d \in Conns PROVE CheckpointOf(d)'
  <2>1. CASE d = c
    BY <2>1, <1>2 DEF CheckpointOf, At, CopySteps
  <2>2. CASE d # c
    <3>1. \A e \in Conns : ~(conn'[e].readLock > 0)
      BY <1>2, <1>5
    <3> QED BY <2>2, <1>3, <1>5, <3>1 DEF CheckpointOf, At
  <2> QED BY <2>1, <2>2
<1>12. \A d \in Conns : RestartOf(d)'
  BY <1>2, <1>5 DEF RestartOf, At
<1> QED BY <1>6, <1>7, <1>8, <1>9, <1>10, <1>11, <1>12 DEF LogInv

\* The log of a writer grows, for the writer only.
LEMMA Grows ==
    ASSUME LogInv, Numbers, Numbers', NEW c \in Conns, NEW r, Becomes(c, r), SameIdx,
           conn[c].pc = "append", r.pc \in {"write", "publish"}, SameLocks(r, conn[c]),
           r.hdr.salt = conn[c].hdr.salt, r.hdr.mxFrame >= conn[c].hdr.mxFrame
    PROVE  LogInv'
<1>1. idx.isInit
  BY InUseInit
<1>2. conn'[c] = r /\ \A d \in Conns \ {c} : conn'[d] = conn[d]
  BY DEF Becomes
<1>3. ASSUME NEW d \in Conns
      PROVE  LocksOf(d) /\ HeaderOf(d) /\ ReaderOf(d) /\ CheckpointOf(d)
  BY DEF LogInv
<1>4. ~conn[c].lock0 /\ ~conn[c].ckptLock /\ conn[c].writeLock /\ conn[c].readLock > 0
  BY <1>3 DEF LocksOf, WriteSteps, CopySteps
<1>5. \A d \in Conns : SameLocks(conn'[d], conn[d])
  BY <1>2 DEF SameLocks
<1>6. /\ r.hdr.mxFrame \in Nat /\ conn[c].hdr.mxFrame \in Nat /\ idx.nBackfill \in Nat
      /\ idx.hdr.mxFrame \in Nat /\ idx.hdr.salt \in Nat /\ conn[c].readLock \in 1..Marks
      /\ idx.mark[conn[c].readLock] \in Nat
  <2>1. conn'[c].hdr.mxFrame \in Nat
    BY DEF Numbers
  <2>2. /\ conn[c].hdr.mxFrame \in Nat /\ idx.nBackfill \in Nat
        /\ idx.hdr.mxFrame \in Nat /\ idx.hdr.salt \in Nat
        /\ conn[c].readLock \in -1..Marks /\ idx.mark \in [1..Marks -> Nat]
    BY DEF Numbers
  <2>3. conn[c].readLock \in 1..Marks
    BY <2>2, <1>4
  <2>4. idx.mark[conn[c].readLock] \in Nat
    BY <2>2, <2>3
  <2> QED BY <1>2, <2>1, <2>2, <2>3, <2>4
<1>14. (Restarting' <=> Restarting) /\ \A d \in Conns : RestartOf(d)'
  BY <1>4, NobodyRestarts, RestartKept
<1>7. ClosedUntilInit' /\ BackfillWithinLog'
  BY <1>1, <1>14 DEF ClosedUntilInit, LogInv, BackfillWithinLog, SameIdx
<1>8. LocksExclusive'
  BY <1>5 DEF LogInv, LocksExclusive, SameLocks
<1>9. ASSUME NEW d \in Conns PROVE LocksOf(d)'
  <2>1. CASE d = c
    <3>1. /\ r.pc = "write" \/ r.pc = "publish"
          /\ ~r.lock0 /\ ~r.ckptLock /\ r.writeLock /\ r.readLock > 0
      BY <1>4 DEF SameLocks
    <3>2. r.readLock >= 0 /\ r.readLock # 0
      BY <1>4, <1>6 DEF SameLocks
    <3> QED BY <1>2, <2>1, <3>1, <3>2 DEF LocksOf, WriteSteps, CopySteps
  <2>2. CASE d # c
    BY <1>2, <1>3, <2>2 DEF LocksOf
  <2> QED BY <2>1, <2>2
<1>10. ASSUME NEW d \in Conns PROVE HeaderOf(d)' /\ ReaderOf(d)'
  <2>1. CASE d = c
    <3>1. HeaderOf(c)'
      <4>1. conn[c].hdr.salt = idx.hdr.salt /\ conn[c].hdr.mxFrame >= idx.hdr.mxFrame
        BY <1>3, <1>4 DEF HeaderOf
      <4>2. r.hdr.salt = idx.hdr.salt /\ r.hdr.mxFrame >= idx.hdr.mxFrame
        BY <1>6, <4>1
      <4>3. r.writeLock /\ ~(r.readLock <= 0) /\ idx.hdr.salt <= idx.hdr.salt
        BY <1>4, <1>6 DEF SameLocks
      <4> QED BY <1>2, <4>2, <4>3 DEF HeaderOf, SameIdx
    <3>2. ReaderOf(c)'
      <4>1. idx.mark[conn[c].readLock] <= conn[c].hdr.mxFrame /\ idx.mark[conn[c].readLock] <= idx.hdr.mxFrame
        BY <1>3, <1>4 DEF ReaderOf
      <4>2. idx.mark[conn[c].readLock] <= r.hdr.mxFrame
        BY <1>6, <4>1
      <4> QED BY <1>2, <4>1, <4>2 DEF ReaderOf, At, SameIdx, SameLocks
    <3> QED BY <2>1, <3>1, <3>2
  <2>2. CASE d # c
    BY <2>2, <1>2, <1>3 DEF HeaderOf, ReaderOf, At, SameIdx
  <2> QED BY <2>1, <2>2
<1>11. ASSUME NEW d \in Conns, conn[d].mxSafeFrame <= conn[c].hdr.mxFrame
       PROVE  conn[d].mxSafeFrame <= r.hdr.mxFrame
  <2>1. conn[d].mxSafeFrame \in Nat
    BY DEF Numbers
  <2> QED BY <2>1, <1>6, <1>11
<1>12. ASSUME NEW d \in Conns PROVE CheckpointOf(d)'
  <2>1. CASE d = c
    BY <2>1, <1>2, <1>4 DEF CheckpointOf, At, CopySteps, SameLocks
  <2>2. CASE d # c
    <3>1. \A e \in Conns :
             /\ conn'[e].readLock > 0
             /\ conn[d].lock0 \/ (At(d, "marks") /\ conn'[e].readLock < conn[d].i)
             => conn[d].mxSafeFrame <= conn'[e].hdr.mxFrame
      BY <2>2, <1>2, <1>3, <1>11 DEF CheckpointOf, SameLocks
    <3> QED BY <2>2, <1>2, <1>3, <3>1 DEF CheckpointOf, At, SameIdx
  <2> QED BY <2>1, <2>2
<1>13. CheckpointBehindReaders'
  <2> SUFFICES ASSUME NEW d \in Conns
               PROVE  /\ conn'[d].readLock > 0 =>
                             /\ idx.nBackfill <= conn'[d].hdr.mxFrame
                             /\ \A e \in Conns :
                                    conn'[e].lock0 => conn'[e].mxSafeFrame <= conn'[d].hdr.mxFrame
                      /\ conn'[d].readLock = 0 /\ conn'[d].pc # "ckptInfo" =>
                             /\ ~Read0Busy'
                             /\ conn'[d].hdr.salt = idx.hdr.salt => idx.nBackfill = conn'[d].hdr.mxFrame
    BY DEF CheckpointBehindReaders, SameIdx, At
  <2>1. CASE d # c
    BY <2>1, <1>2, <1>4 DEF LogInv, CheckpointBehindReaders, Read0Busy, SameLocks, At
  <2>2. CASE d = c
    <3>1. /\ idx.nBackfill <= conn[c].hdr.mxFrame
          /\ \A e \in Conns : conn[e].lock0 => conn[e].mxSafeFrame <= conn[c].hdr.mxFrame
      BY <1>4 DEF LogInv, CheckpointBehindReaders
    <3>2. idx.nBackfill <= r.hdr.mxFrame
      BY <3>1, <1>6
    <3>3. \A e \in Conns : conn'[e].lock0 => conn'[e].mxSafeFrame <= r.hdr.mxFrame
      BY <3>1, <1>2, <1>4, <1>11 DEF SameLocks
    <3>4. r.readLock > 0
      BY <1>4 DEF SameLocks
    <3> QED BY <2>2, <1>2, <1>6, <3>2, <3>3, <3>4 DEF SameLocks
  <2> QED BY <2>1, <2>2
<1> QED BY <1>7, <1>8, <1>9, <1>10, <1>12, <1>13, <1>14 DEF LogInv

\* A commit: the header of the writer is published.
LEMMA Publishes ==
    ASSUME LogInv, Numbers, Numbers', NEW c \in Conns, NEW r, Becomes(c, r),
           conn[c].pc = "publish", r.pc = "read", ~r.writeLock, r.hdr = conn[c].hdr,
           r.readLock = conn[c].readLock, r.ckptLock = conn[c].ckptLock,
           r.lock0 = conn[c].lock0,
           idx'.isInit = idx.isInit, idx'.hdr = conn[c].hdr,
           idx'.nBackfill = idx.nBackfill, idx'.mark = idx.mark
    PROVE  LogInv'
<1>1. idx.isInit
  BY InUseInit
<1>2. conn'[c] = r /\ \A d \in Conns \ {c} : conn'[d] = conn[d]
  BY DEF Becomes
<1>3. ASSUME NEW d \in Conns
      PROVE  LocksOf(d) /\ HeaderOf(d) /\ ReaderOf(d) /\ CheckpointOf(d)
  BY DEF LogInv
<1>4. ~conn[c].lock0 /\ ~conn[c].ckptLock /\ conn[c].writeLock /\ conn[c].readLock > 0
  BY <1>3 DEF LocksOf, WriteSteps, CopySteps
<1>5. /\ idx.hdr.mxFrame \in Nat /\ idx'.hdr.mxFrame \in Nat /\ idx.nBackfill \in Nat
      /\ idx'.hdr.salt \in Nat
  BY DEF Numbers
<1>6. idx'.hdr.salt = idx.hdr.salt /\ idx.hdr.mxFrame <= idx'.hdr.mxFrame
  <2>1. conn[c].hdr.salt = idx.hdr.salt /\ conn[c].hdr.mxFrame >= idx.hdr.mxFrame
    BY <1>3, <1>4 DEF HeaderOf
  <2> QED BY <2>1, <1>5
<1>13. ~Restarting /\ (Restarting' <=> Restarting) /\ \A d \in Conns : RestartOf(d)'
  BY <1>4, NobodyRestarts, RestartKept
<1>7. ClosedUntilInit' /\ BackfillWithinLog'
  <2>1. idx.nBackfill <= idx.hdr.mxFrame
    BY <1>13 DEF LogInv, BackfillWithinLog
  <2>2. idx'.nBackfill <= idx'.hdr.mxFrame
    BY <2>1, <1>5, <1>6
  <2> QED BY <1>1, <2>2 DEF ClosedUntilInit, BackfillWithinLog
<1>8. LocksExclusive'
  BY <1>2, <1>4 DEF LogInv, LocksExclusive
<1>9. CheckpointBehindReaders'
  BY <1>2, <1>4, <1>6 DEF LogInv, CheckpointBehindReaders, Read0Busy, At
<1>10. ASSUME NEW d \in Conns PROVE LocksOf(d)'
  BY <1>2, <1>3, <1>4 DEF LocksOf, WriteSteps, CopySteps
<1>11. ASSUME NEW d \in Conns PROVE HeaderOf(d)' /\ ReaderOf(d)'
  <2>1. CASE d = c
    <3>1. HeaderOf(c)'
      BY <1>2, <1>4, <1>5 DEF HeaderOf
    <3>2. ReaderOf(c)'
      BY <1>2, <1>3, <1>4 DEF ReaderOf, At
    <3> QED BY <2>1, <3>1, <3>2
  <2>2. CASE d # c
    <3>1. conn'[d] = conn[d] /\ ~conn[d].writeLock
      BY <2>2, <1>2, <1>4 DEF LogInv, LocksExclusive
    <3>2. conn[d].hdr.mxFrame \in Nat /\ conn[d].hdr.salt \in Nat
          /\ conn[d].readLock \in -1..Marks /\ idx.mark \in [1..Marks -> Nat]
      BY DEF Numbers
    <3>3. HeaderOf(d)'
      <4>1. conn[d].hdr.salt = idx.hdr.salt => conn[d].hdr.mxFrame <= idx'.hdr.mxFrame
        BY <1>3, <1>5, <1>6, <3>1, <3>2, SMTT(30) DEF HeaderOf
      <4> QED BY <1>3, <1>6, <3>1, <4>1 DEF HeaderOf
    <3>4. ReaderOf(d)'
      <4>1. conn[d].readLock > 0 => idx.mark[conn[d].readLock] \in Nat
        BY <3>2
      <4>2. conn[d].readLock > 0 => idx.mark[conn[d].readLock] <= idx'.hdr.mxFrame
        BY <1>3, <1>5, <1>6, <4>1 DEF ReaderOf
      <4> QED BY <1>3, <1>6, <3>1, <4>2 DEF ReaderOf, At
    <3> QED BY <3>3, <3>4
  <2> QED BY <2>1, <2>2
<1>12. ASSUME NEW d \in Conns PROVE CheckpointOf(d)'
  <2>1. CASE d = c
    BY <2>1, <1>2, <1>4 DEF CheckpointOf, At, CopySteps
  <2>2. CASE d # c
    BY <2>2, <1>2, <1>3 DEF CheckpointOf, At
  <2> QED BY <2>1, <2>2
<1> QED BY <1>7, <1>8, <1>9, <1>10, <1>11, <1>12, <1>13 DEF LogInv

\* A checkpoint copies nothing behind the end of the log.
LEMMA CheckpointWithinLog ==
    ASSUME LogInv, Numbers, NEW d \in Conns, conn[d].lock0 \/ At(d, "marks")
    PROVE  conn[d].mxSafeFrame <= idx.hdr.mxFrame
<1>1. LocksOf(d) /\ HeaderOf(d) /\ CheckpointOf(d)
  BY DEF LogInv
<1>2. conn[d].ckptLock /\ ~conn[d].writeLock /\ conn[d].pc \in CopySteps \cup {"marks"}
  BY <1>1 DEF LocksOf, At, WriteSteps, CopySteps
<1>3. conn[d].mxSafeFrame <= conn[d].hdr.mxFrame /\ conn[d].hdr.mxFrame <= idx.hdr.mxFrame
  BY <1>1, <1>2 DEF HeaderOf, CheckpointOf
<1>4. conn[d].mxSafeFrame \in Nat /\ conn[d].hdr.mxFrame \in Nat /\ idx.hdr.mxFrame \in Nat
  BY DEF Numbers
<1> QED BY <1>3, <1>4

\* A writer is a reader again, of what had been committed when it began.
LEMMA RollsBack ==
    ASSUME LogInv, Numbers, Numbers', NEW c \in Conns, NEW r, Becomes(c, r), SameIdx,
           conn[c].pc \in {"write", "undo"}, r.pc = "read", ~r.writeLock, r.hdr = idx.hdr,
           r.readLock = conn[c].readLock, ~r.ckptLock, ~r.lock0
    PROVE  LogInv'
<1>1. idx.isInit
  BY InUseInit
<1>2. conn'[c] = r /\ \A d \in Conns \ {c} : conn'[d] = conn[d]
  BY DEF Becomes
<1>3. ASSUME NEW d \in Conns
      PROVE  LocksOf(d) /\ HeaderOf(d) /\ ReaderOf(d) /\ CheckpointOf(d)
  BY DEF LogInv
<1>4. ~conn[c].lock0 /\ ~conn[c].ckptLock /\ conn[c].writeLock /\ conn[c].readLock >= 0
  BY <1>3 DEF LocksOf, WriteSteps, CopySteps
<1>5. idx.hdr.mxFrame \in Nat /\ idx.hdr.salt \in Nat /\ idx.nBackfill \in Nat
  BY DEF Numbers
<1>12. ~Restarting /\ (Restarting' <=> Restarting) /\ \A d \in Conns : RestartOf(d)'
  BY <1>4, NobodyRestarts, RestartKept
<1>6. ClosedUntilInit' /\ BackfillWithinLog'
  BY <1>1, <1>12 DEF ClosedUntilInit, LogInv, BackfillWithinLog, SameIdx
<1>7. LocksExclusive'
  BY <1>2, <1>4 DEF LogInv, LocksExclusive
<1>8. CheckpointBehindReaders'
  <2> SUFFICES ASSUME NEW d \in Conns
               PROVE  /\ conn'[d].readLock > 0 =>
                             /\ idx.nBackfill <= conn'[d].hdr.mxFrame
                             /\ \A e \in Conns :
                                    conn'[e].lock0 => conn'[e].mxSafeFrame <= conn'[d].hdr.mxFrame
                      /\ conn'[d].readLock = 0 /\ conn'[d].pc # "ckptInfo" =>
                             /\ ~Read0Busy'
                             /\ conn'[d].hdr.salt = idx.hdr.salt => idx.nBackfill = conn'[d].hdr.mxFrame
    BY DEF CheckpointBehindReaders, SameIdx, At
  <2>1. CASE d # c
    BY <2>1, <1>2, <1>4 DEF LogInv, CheckpointBehindReaders, Read0Busy, At
  <2>2. CASE d = c
    <3>1. idx.nBackfill <= idx.hdr.mxFrame
      BY <1>12 DEF LogInv, BackfillWithinLog
    <3>2. \A e \in Conns : conn'[e].lock0 => conn'[e].mxSafeFrame <= idx.hdr.mxFrame
      BY <1>2, CheckpointWithinLog
    <3>3. ASSUME r.readLock = 0 PROVE ~Read0Busy' /\ idx.nBackfill = idx.hdr.mxFrame
      <4>1. conn[c].hdr = idx.hdr
        BY <1>3, <1>4, <3>3 DEF HeaderOf
      <4>2. ~Read0Busy /\ idx.nBackfill = idx.hdr.mxFrame
        BY <3>3, <4>1 DEF LogInv, CheckpointBehindReaders, At
      <4> QED BY <1>2, <4>2 DEF Read0Busy
    <3> QED BY <2>2, <1>2, <3>1, <3>2, <3>3
  <2> QED BY <2>1, <2>2
<1>9. ASSUME NEW d \in Conns PROVE LocksOf(d)'
  BY <1>2, <1>3, <1>4 DEF LocksOf, WriteSteps, CopySteps
<1>10. ASSUME NEW d \in Conns PROVE HeaderOf(d)' /\ ReaderOf(d)'
  <2>1. CASE d = c
    <3>1. HeaderOf(c)'
      BY <1>2, <1>5 DEF HeaderOf, SameIdx
    <3>2. ReaderOf(c)'
      BY <1>2, <1>3 DEF ReaderOf, At, SameIdx
    <3> QED BY <2>1, <3>1, <3>2
  <2>2. CASE d # c
    BY <2>2, <1>2, <1>3 DEF HeaderOf, ReaderOf, At, SameIdx
  <2> QED BY <2>1, <2>2
<1>11. ASSUME NEW d \in Conns PROVE CheckpointOf(d)'
  <2>1. CASE d = c
    BY <2>1, <1>2 DEF CheckpointOf, At, CopySteps
  <2>2. CASE d # c
    <3>1. \A e \in Conns :
             /\ conn'[e].readLock > 0
             /\ conn[d].lock0 \/ (At(d, "marks") /\ conn'[e].readLock < conn[d].i)
             => conn[d].mxSafeFrame <= conn'[e].hdr.mxFrame
      BY <2>2, <1>2, <1>3, CheckpointWithinLog DEF CheckpointOf
    <3> QED BY <2>2, <1>2, <1>3, <3>1 DEF CheckpointOf, At, SameIdx
  <2> QED BY <2>1, <2>2
<1> QED BY <1>6, <1>7, <1>8, <1>9, <1>10, <1>11, <1>12 DEF LogInv

\* A checkpoint looks at a mark: it stays behind a reader that uses it, and may change
\* a mark that nobody uses.
LEMMA Inspects ==
    ASSUME LogInv, Numbers, Numbers', NEW c \in Conns, NEW r, Becomes(c, r),
           idx'.isInit = idx.isInit, idx'.hdr = idx.hdr, idx'.nBackfill = idx.nBackfill,
           \A j \in 1..Marks : idx'.mark[j] = idx.mark[j] \/ ReadFree(j),
           r.pc = "marks", SameLocks(r, conn[c]), r.hdr = conn[c].hdr,
           \/ conn[c].pc = "iterate" /\ r.i = 1 /\ r.mxSafeFrame = conn[c].hdr.mxFrame
           \/ /\ conn[c].pc = "marks" /\ conn[c].i <= Marks /\ r.i = conn[c].i + 1
              /\ r.mxSafeFrame <= conn[c].mxSafeFrame
              /\ ~ReadFree(conn[c].i) => r.mxSafeFrame <= idx.mark[conn[c].i]
    PROVE  LogInv'
<1>1. idx.isInit
  BY InUseInit
<1>2. conn'[c] = r /\ \A d \in Conns \ {c} : conn'[d] = conn[d]
  BY DEF Becomes
<1>3. ASSUME NEW d \in Conns
      PROVE  LocksOf(d) /\ HeaderOf(d) /\ ReaderOf(d) /\ CheckpointOf(d)
  BY DEF LogInv
<1>4. \A d \in Conns : SameLocks(conn'[d], conn[d]) /\ conn'[d].hdr = conn[d].hdr
  BY <1>2 DEF SameLocks
<1>5. ~conn[c].writeLock /\ ~(conn[c].readLock >= 0) /\ ~conn[c].lock0 /\ conn[c].ckptLock
  BY <1>3 DEF LocksOf, WriteSteps, CopySteps
<1>13. (Restarting' <=> Restarting) /\ \A d \in Conns : RestartOf(d)'
  <2>1. r.readLock \in -1..Marks /\ r.readLock = conn[c].readLock
    BY <1>2 DEF Numbers, SameLocks
  <2> QED BY <1>5, <2>1, RestartKept
<1>6. ClosedUntilInit' /\ BackfillWithinLog'
  BY <1>1, <1>13 DEF ClosedUntilInit, LogInv, BackfillWithinLog
<1>7. LocksExclusive'
  BY <1>4 DEF LogInv, LocksExclusive, SameLocks
<1>8. CheckpointBehindReaders'
  <2>1. \A d \in Conns : conn'[d].lock0 => d # c
    BY <1>4, <1>5 DEF SameLocks
  <2>2. Read0Busy' <=> Read0Busy
    BY <1>4 DEF Read0Busy, SameLocks
  <2> QED BY <1>2, <1>4, <2>1, <2>2 DEF LogInv, CheckpointBehindReaders, SameLocks, At
<1>9. ASSUME NEW d \in Conns PROVE LocksOf(d)' /\ HeaderOf(d)'
  <2>1. LocksOf(d)'
    <3>1. CASE d = c
      BY <1>2, <1>5, <3>1 DEF LocksOf, SameLocks, WriteSteps, CopySteps
    <3>2. CASE d # c
      BY <1>2, <1>3, <3>2 DEF LocksOf
    <3> QED BY <3>1, <3>2
  <2>2. HeaderOf(d)'
    BY <1>3, <1>4 DEF HeaderOf, SameLocks
  <2> QED BY <2>1, <2>2
<1>10. ASSUME NEW d \in Conns PROVE ReaderOf(d)'
  <2>0. conn[d].readLock \in -1..Marks
    BY DEF Numbers
  <2>1. CASE d = c
    <3>1. ~(r.readLock > 0)
      BY <1>5, <2>0, <2>1 DEF SameLocks
    <3> QED BY <2>1, <1>2, <3>1 DEF ReaderOf, At
  <2>2. CASE d # c
    <3>1. conn[d].readLock > 0 => conn[d].readLock \in 1..Marks
      BY <2>0
    <3>2. conn[d].readLock > 0 => idx'.mark[conn[d].readLock] = idx.mark[conn[d].readLock]
      BY <3>1 DEF ReadFree
    <3> QED BY <2>2, <1>2, <1>3, <3>2 DEF ReaderOf, At
  <2> QED BY <2>1, <2>2
<1>11. CheckpointOf(c)'
  <2>1. /\ conn[c].hdr.mxFrame \in Nat /\ conn[c].i \in Nat /\ conn[c].mxSafeFrame \in Nat
        /\ conn'[c].mxSafeFrame \in Nat /\ idx.mark \in [1..Marks -> Nat]
    BY DEF Numbers
  <2>2. r.mxSafeFrame \in Nat
    BY <1>2, <2>1
  <2>3. r.i \in 1..Marks + 1 /\ r.mxSafeFrame <= conn[c].hdr.mxFrame
    <3>1. CASE conn[c].pc = "iterate"
      BY <2>1, <3>1
    <3>2. CASE conn[c].pc = "marks"
      <4>1. conn[c].mxSafeFrame <= conn[c].hdr.mxFrame /\ conn[c].i \in 1..Marks + 1
        BY <1>3, <3>2 DEF CheckpointOf, At
      <4>2. conn[c].i <= Marks /\ r.i = conn[c].i + 1 /\ r.mxSafeFrame <= conn[c].mxSafeFrame
        BY <3>2
      <4>3. conn[c].i \in 1..Marks /\ conn[c].i + 1 \in 1..Marks + 1
        BY <2>1, <4>1, <4>2, SMTT(30)
      <4>4. r.mxSafeFrame <= conn[c].hdr.mxFrame
        BY <2>1, <2>2, <4>1, <4>2, SMTT(30)
      <4> QED BY <4>2, <4>3, <4>4
    <3> QED BY <3>1, <3>2
  <2>4. ASSUME NEW d \in Conns, conn[d].readLock > 0, conn[d].readLock < r.i
        PROVE  r.mxSafeFrame <= conn[d].hdr.mxFrame
    <3>1. conn[d].readLock \in -1..Marks /\ conn[d].hdr.mxFrame \in Nat
      BY DEF Numbers
    <3>2. CASE conn[c].pc = "iterate"
      BY <2>4, <3>1, <3>2
    <3>3. CASE conn[c].pc = "marks"
      <4>1. CASE conn[d].readLock = conn[c].i
        <5>1. ~ReadFree(conn[c].i)
          BY <4>1 DEF ReadFree
        <5>2. idx.mark[conn[c].i] <= conn[d].hdr.mxFrame
          BY <1>3, <2>4, <4>1 DEF ReaderOf
        <5>3. idx.mark[conn[c].i] \in Nat
          <6>1. idx.mark \in [1..Marks -> Nat] /\ Marks \in Nat
            BY LogAssumption DEF Numbers
          <6>2. conn[d].readLock \in 1..Marks
            BY <2>4, <3>1, <6>1
          <6> QED BY <4>1, <6>1, <6>2
        <5> QED BY <2>2, <3>1, <3>3, <5>1, <5>2, <5>3
      <4>2. CASE conn[d].readLock # conn[c].i
        <5>1. conn[d].readLock < conn[c].i
          BY <2>1, <2>4, <3>1, <3>3, <4>2, SMTT(30)
        <5>2. conn[c].mxSafeFrame <= conn[d].hdr.mxFrame
          BY <1>3, <2>4, <3>3, <5>1 DEF CheckpointOf, At
        <5> QED BY <2>1, <2>2, <3>1, <3>3, <5>2, SMTT(30)
      <4> QED BY <4>1, <4>2
    <3> QED BY <3>2, <3>3
  <2> QED BY <1>2, <1>4, <1>5, <2>3, <2>4 DEF CheckpointOf, At, CopySteps, SameLocks
<1>12. ASSUME NEW d \in Conns PROVE CheckpointOf(d)'
  <2>1. CASE d # c
    BY <2>1, <1>2, <1>3, <1>4 DEF CheckpointOf, At, SameLocks
  <2> QED BY <2>1, <1>11
<1> QED BY <1>6, <1>7, <1>8, <1>9, <1>10, <1>12, <1>13 DEF LogInv

\* A checkpoint has looked at every mark and begins to copy.
LEMMA BeginsCopying ==
    ASSUME LogInv, Numbers, NEW c \in Conns, NEW r, Becomes(c, r), SameIdx,
           conn[c].pc = "marks", conn[c].i > Marks, r.pc = "copy", r.lock0, ReadFree(0),
           idx.nBackfill < conn[c].mxSafeFrame, r.mxSafeFrame = conn[c].mxSafeFrame,
           r.hdr = conn[c].hdr, r.readLock = conn[c].readLock,
           r.writeLock = conn[c].writeLock, r.ckptLock = conn[c].ckptLock
    PROVE  LogInv'
<1>1. idx.isInit
  BY InUseInit
<1>2. conn'[c] = r /\ \A d \in Conns \ {c} : conn'[d] = conn[d]
  BY DEF Becomes
<1>3. ASSUME NEW d \in Conns
      PROVE  LocksOf(d) /\ HeaderOf(d) /\ ReaderOf(d) /\ CheckpointOf(d)
  BY DEF LogInv
<1>4. ~conn[c].writeLock /\ ~(conn[c].readLock >= 0) /\ conn[c].ckptLock
  BY <1>3 DEF LocksOf, WriteSteps, CopySteps
<1>13. (Restarting' <=> Restarting) /\ \A d \in Conns : RestartOf(d)'
  <2>1. conn[c].readLock \in -1..Marks
    BY DEF Numbers
  <2>2. r.readLock <= 0
    BY <1>4, <2>1
  <2>3. idx'.hdr = idx.hdr /\ idx'.nBackfill = idx.nBackfill
    BY DEF SameIdx
  <2> QED BY <2>2, <2>3, RestartKept
<1>5. ClosedUntilInit' /\ BackfillWithinLog'
  BY <1>1, <1>13 DEF ClosedUntilInit, LogInv, BackfillWithinLog, SameIdx
<1>6. \A d \in Conns : conn'[d].readLock = conn[d].readLock /\ conn'[d].hdr = conn[d].hdr
  BY <1>2
<1>7. LocksExclusive'
  BY <1>2, <1>4, <1>6 DEF LogInv, LocksExclusive, ReadFree
<1>8. ASSUME NEW d \in Conns, conn[d].readLock > 0
      PROVE  conn[c].mxSafeFrame <= conn[d].hdr.mxFrame
  <2>1. conn[d].readLock \in -1..Marks /\ conn[c].i \in Nat
    BY DEF Numbers
  <2>2. conn[d].readLock < conn[c].i
    BY <2>1
  <2> QED BY <1>3, <1>8, <2>2 DEF CheckpointOf, At
<1>9. CheckpointBehindReaders'
  <2>1. ASSUME NEW d \in Conns, conn[d].readLock > 0
        PROVE  /\ idx.nBackfill <= conn[d].hdr.mxFrame
               /\ \A e \in Conns : conn'[e].lock0 => conn'[e].mxSafeFrame <= conn[d].hdr.mxFrame
    BY <1>2, <1>8, <2>1 DEF LogInv, CheckpointBehindReaders
  <2> QED BY <1>6, <2>1 DEF CheckpointBehindReaders, ReadFree, SameIdx
<1>10. ASSUME NEW d \in Conns PROVE LocksOf(d)'
  <2>1. CASE d = c
    BY <1>2, <1>4, <2>1 DEF LocksOf, WriteSteps, CopySteps
  <2>2. CASE d # c
    BY <1>2, <1>3, <2>2 DEF LocksOf
  <2> QED BY <2>1, <2>2
<1>11. ASSUME NEW d \in Conns PROVE HeaderOf(d)' /\ ReaderOf(d)'
  BY <1>2, <1>3 DEF HeaderOf, ReaderOf, At, SameIdx
<1>12. ASSUME NEW d \in Conns PROVE CheckpointOf(d)'
  <2>1. CASE d = c
    <3>1. conn[c].mxSafeFrame <= conn[c].hdr.mxFrame
      BY <1>3 DEF CheckpointOf, At
    <3> QED BY <2>1, <1>2, <1>6, <1>8, <3>1 DEF CheckpointOf, At, CopySteps, SameIdx
  <2>2. CASE d # c
    BY <2>2, <1>2, <1>3, <1>6 DEF CheckpointOf, At, SameIdx
  <2> QED BY <2>1, <2>2
<1> QED BY <1>5, <1>7, <1>9, <1>10, <1>11, <1>12, <1>13 DEF LogInv

\* Nothing is open: at the start, and after a crash.
LEMMA AllClosedInv ==
    ASSUME Numbers', idx' = NoIndex, \A d \in Conns : conn'[d] = Closed
    PROVE  LogInv'
<1>1. /\ idx'.nBackfill = 0 /\ idx'.hdr.mxFrame = 0 /\ idx'.hdr.salt = 0
  BY DEF NoIndex, NoHdr
<1>2. \A d \in Conns : /\ conn'[d].pc = "idle" /\ conn'[d].hdr.mxFrame = 0 /\ conn'[d].hdr.salt = 0
                       /\ conn'[d].readLock = -1 /\ ~conn'[d].writeLock /\ ~conn'[d].ckptLock
                       /\ ~conn'[d].lock0
  BY DEF Closed, NoHdr
<1>3. ClosedUntilInit' /\ BackfillWithinLog' /\ LocksExclusive' /\ CheckpointBehindReaders'
  BY <1>1, <1>2 DEF ClosedUntilInit, BackfillWithinLog, LocksExclusive, CheckpointBehindReaders
<1>4. ASSUME NEW d \in Conns PROVE LocksOf(d)' /\ HeaderOf(d)'
  BY <1>1, <1>2 DEF LocksOf, HeaderOf, WriteSteps, CopySteps
<1>5. ASSUME NEW d \in Conns PROVE RestartOf(d)' /\ ReaderOf(d)' /\ CheckpointOf(d)'
  BY <1>1, <1>2 DEF RestartOf, ReaderOf, CheckpointOf, At, CopySteps
<1> QED BY <1>3, <1>4, <1>5 DEF LogInv

LEMMA InitInv == Init => LogInv
<1> SUFFICES ASSUME Init PROVE LogInv
  OBVIOUS
<1>1. /\ idx = NoIndex /\ idx.nBackfill = 0 /\ idx.hdr.mxFrame = 0 /\ idx.hdr.salt = 0
  BY DEF Init, NoIndex, NoHdr
<1>2. \A d \in Conns : /\ conn[d].pc = "idle" /\ conn[d].hdr.mxFrame = 0 /\ conn[d].hdr.salt = 0
                       /\ conn[d].readLock = -1 /\ ~conn[d].writeLock /\ ~conn[d].ckptLock
                       /\ ~conn[d].lock0
  BY DEF Init, Closed, NoHdr
<1>3. ClosedUntilInit
  BY <1>1 DEF ClosedUntilInit, Init
<1>4. BackfillWithinLog /\ LocksExclusive /\ CheckpointBehindReaders
  BY <1>1, <1>2 DEF BackfillWithinLog, LocksExclusive, CheckpointBehindReaders
<1>5. ASSUME NEW d \in Conns PROVE LocksOf(d) /\ HeaderOf(d)
  BY <1>1, <1>2 DEF LocksOf, HeaderOf, WriteSteps, CopySteps
<1>6. ASSUME NEW d \in Conns PROVE RestartOf(d) /\ ReaderOf(d) /\ CheckpointOf(d)
  BY <1>1, <1>2 DEF RestartOf, ReaderOf, CheckpointOf, At, CopySteps
<1> QED BY <1>3, <1>4, <1>5, <1>6 DEF LogInv

-----------------------------------------------------------------------------
(***************************************************************************)
(* Every action is one of these steps                                      *)
(***************************************************************************)
LEMMA SetBecomes ==
    ASSUME Shape, NEW c \in Conns, NEW r, ConnShape(r), Set(c, r), WalShape', IdxShape'
    PROVE  Shape' /\ Numbers /\ Numbers' /\ Becomes(c, r)
<1>1. Shape'
  BY SetShape
<1>2. Becomes(c, r)
  BY DEF Becomes, Set, Shape
<1> QED BY <1>1, <1>2, ShapeNumbers, PTL

LEMMA SameWal == ASSUME Shape, UNCHANGED wal PROVE WalShape'
BY DEF Shape, WalShape

LEMMA SameIndex == ASSUME Shape, UNCHANGED idx PROVE IdxShape' /\ SameIdx
BY DEF Shape, IdxShape, HdrShape, SameIdx

\* walTryBeginRead
LEMMA TryHdrInv ==
    ASSUME Shape, LogInv, NEW c \in Conns, TryHdr(c)
    PROVE  Shape' /\ LogInv'
<1>1. IdxShape' /\ WalShape' /\ ConnShape(conn[c])
  BY ReadHdrShape, SameWal DEF TryHdr, Shape
<1>2. PICK r : r = [conn[c] EXCEPT !.hdr = idx'.hdr,
                   !.pc = IF idx'.nBackfill = idx'.hdr.mxFrame THEN "lock0" ELSE "pick"]
  OBVIOUS
<1>3. ConnShape(r)
  <2>1. HdrShape(idx'.hdr)
    BY <1>1 DEF IdxShape
  <2> QED BY <1>1, <1>2, <2>1 DEF ConnShape
<1>4. /\ r.hdr = idx'.hdr /\ r.pc \in {"lock0", "pick"} /\ SameLocks(r, conn[c])
      /\ r.pc = "lock0" => idx'.nBackfill = idx'.hdr.mxFrame
  BY <1>1, <1>2 DEF ConnShape, SameLocks
<1>5. Shape' /\ Numbers /\ Numbers' /\ Becomes(c, r)
  BY <1>1, <1>2, <1>3, SetBecomes DEF TryHdr
<1>6. LocksOf(c) /\ conn[c].readLock \in -1..Marks
  BY <1>5 DEF LogInv, Numbers
<1>7. ~r.writeLock /\ ~(r.readLock >= 0) /\ ~r.ckptLock /\ ~r.lock0
  BY <1>4, <1>6 DEF LocksOf, WriteSteps, CopySteps, TryHdr, SameLocks, At
<1>8. r.readLock = -1
  BY <1>4, <1>6, <1>7 DEF SameLocks
<1>9. \/ SameIdx /\ idx.isInit
      \/ ~idx.isInit /\ idx'.isInit /\ idx'.nBackfill = 0
  BY DEF TryHdr, ReadHdr, SameIdx, RecoveredIndex
<1>10. conn[c].pc = "idle"
  BY DEF TryHdr, At
<1>11. LogInv'
  BY <1>4, <1>5, <1>7, <1>8, <1>9, <1>10, HeaderRead
<1> QED BY <1>5, <1>11

LEMMA CheckpointInv ==
    ASSUME Shape, LogInv, NEW c \in Conns, Checkpoint(c)
    PROVE  Shape' /\ LogInv'
<1>1. IdxShape' /\ WalShape' /\ ConnShape(conn[c])
  BY ReadHdrShape, SameWal DEF Checkpoint, Shape
<1>2. PICK r : r = [conn[c] EXCEPT !.pc = "iterate", !.ckptLock = TRUE, !.hdr = idx'.hdr]
  OBVIOUS
<1>3. ConnShape(r)
  <2>1. HdrShape(idx'.hdr)
    BY <1>1 DEF IdxShape
  <2> QED BY <1>1, <1>2, <2>1 DEF ConnShape
<1>4. /\ r.hdr = idx'.hdr /\ r.pc = "iterate" /\ r.ckptLock /\ r.readLock = conn[c].readLock
      /\ r.writeLock = conn[c].writeLock /\ r.lock0 = conn[c].lock0
  BY <1>1, <1>2 DEF ConnShape
<1>5. Shape' /\ Numbers /\ Numbers' /\ Becomes(c, r)
  BY <1>1, <1>2, <1>3, SetBecomes DEF Checkpoint
<1>6. LocksOf(c) /\ conn[c].readLock \in -1..Marks
  BY <1>5 DEF LogInv, Numbers
<1>7. ~r.writeLock /\ ~(r.readLock >= 0) /\ ~r.lock0
  BY <1>4, <1>6 DEF LocksOf, WriteSteps, CopySteps, Checkpoint, At
<1>8. r.readLock = -1
  BY <1>4, <1>6, <1>7
<1>9. \/ SameIdx /\ idx.isInit
      \/ ~idx.isInit /\ idx'.isInit /\ idx'.nBackfill = 0
  BY DEF Checkpoint, ReadHdr, SameIdx, RecoveredIndex
<1>10. conn[c].pc = "idle" /\ CkptFree
  BY DEF Checkpoint, At
<1>11. LogInv'
  BY <1>4, <1>5, <1>7, <1>8, <1>9, <1>10, HeaderRead
<1> QED BY <1>5, <1>11

LEMMA RetryShape ==
    ASSUME NEW c \in Conns, ConnShape(conn[c])
    PROVE  /\ ConnShape(Retry(c))
           /\ conn[c].writeLock => /\ SameLocks(Retry(c), conn[c]) /\ Retry(c).hdr = conn[c].hdr
                                  /\ Retry(c).pc = "pick"
           /\ ~conn[c].writeLock => Retry(c) = Closed
<1>1. CASE conn[c].writeLock
  <2>1. PICK r : r = [conn[c] EXCEPT !.pc = "pick", !.mxI = 0, !.mxReadMark = 0, !.minFrame = 0]
    OBVIOUS
  <2>2. r = Retry(c)
    BY <1>1, <2>1, Zenon DEF Retry
  <2>3. ConnShape(r)
    <3>1. 0 \in Nat /\ 0 \in 0..Marks
      OBVIOUS
    <3> QED BY <2>1, <3>1 DEF ConnShape
  <2>4. r.pc = "pick" /\ SameLocks(r, conn[c]) /\ r.hdr = conn[c].hdr
    BY <2>1 DEF ConnShape, SameLocks
  <2> QED BY <1>1, <2>2, <2>3, <2>4
<1>2. CASE ~conn[c].writeLock
  BY <1>2, ClosedShape DEF Retry
<1> QED BY <1>1, <1>2

\* A connection that looks for a mark starts over.
LEMMA Retries ==
    ASSUME Shape, LogInv, NEW c \in Conns, Set(c, Retry(c)), UNCHANGED <<wal, idx>>,
           conn[c].pc \in {"lock0", "pick", "lock"}
    PROVE  Shape' /\ LogInv'
<1>1. IdxShape' /\ SameIdx /\ WalShape' /\ ConnShape(conn[c])
  BY SameIndex, SameWal DEF Shape
<1>2. PICK r : r = Retry(c)
  OBVIOUS
<1>3. /\ ConnShape(r)
      /\ conn[c].writeLock => SameLocks(r, conn[c]) /\ r.hdr = conn[c].hdr /\ r.pc = "pick"
      /\ ~conn[c].writeLock => r = Closed
  BY <1>1, <1>2, RetryShape
<1>4. Shape' /\ Numbers /\ Numbers' /\ Becomes(c, r)
  BY <1>1, <1>2, <1>3, SetBecomes
<1>5. CASE conn[c].writeLock
  BY <1>1, <1>3, <1>4, <1>5, Looks DEF SameIdx
<1>6. CASE ~conn[c].writeLock
  BY <1>1, <1>3, <1>4, <1>6, Closes DEF SameIdx
<1> QED BY <1>4, <1>5, <1>6

LEMMA ReadingShape ==
    ASSUME NEW c \in Conns, ConnShape(conn[c])
    PROVE  /\ ConnShape(Reading(c)) /\ SameLocks(Reading(c), conn[c])
           /\ Reading(c).hdr = conn[c].hdr
           /\ Reading(c).pc = IF conn[c].writeLock THEN FirstStep(conn[c].hdr) ELSE "read"
<1>1. PICK pc : pc = IF conn[c].writeLock THEN FirstStep(conn[c].hdr) ELSE "read"
  OBVIOUS
<1>2. PICK r : r = [conn[c] EXCEPT !.pc = pc, !.mxI = 0, !.mxReadMark = 0]
  OBVIOUS
<1>3. r = Reading(c)
  BY <1>1, <1>2, Zenon DEF Reading
<1>4. ConnShape(r)
  <2>1. 0 \in Nat /\ 0 \in 0..Marks
    OBVIOUS
  <2> QED BY <1>2, <2>1 DEF ConnShape
<1>5. r.pc = pc /\ SameLocks(r, conn[c]) /\ r.hdr = conn[c].hdr
  BY <1>2 DEF ConnShape, SameLocks
<1> QED BY <1>1, <1>3, <1>4, <1>5

LEMMA Lock0Inv ==
    ASSUME Shape, LogInv, NEW c \in Conns, Lock0(c)
    PROVE  Shape' /\ LogInv'
<1>1. IdxShape' /\ SameIdx /\ WalShape' /\ ConnShape(conn[c])
  BY SameIndex, SameWal DEF Lock0, Shape
<1>2. PICK r : r = IF Read0Busy THEN [conn[c] EXCEPT !.pc = "pick"]
                   ELSE IF idx.hdr # conn[c].hdr THEN Retry(c)
                   ELSE [Reading(c) EXCEPT !.readLock = 0]
  OBVIOUS
<1>0. PICK q : q = Reading(c) /\ ConnShape(q)
  BY <1>1, ReadingShape
<1>3. ConnShape(r)
  <2>1. ConnShape([conn[c] EXCEPT !.pc = "pick"])
    BY <1>1 DEF ConnShape
  <2>2. ConnShape([q EXCEPT !.readLock = 0])
    BY <1>0 DEF ConnShape
  <2> QED BY <1>0, <1>1, <1>2, <2>1, <2>2, RetryShape
<1>4. Shape' /\ Numbers /\ Numbers' /\ Becomes(c, r)
  BY <1>1, <1>2, <1>3, SetBecomes DEF Lock0
<1>5. conn[c].pc = "lock0" /\ LocksOf(c)
  BY DEF Lock0, At, LogInv
<1>6. ~conn[c].writeLock /\ ~conn[c].ckptLock /\ ~conn[c].lock0
  BY <1>5 DEF LocksOf, WriteSteps, CopySteps
<1>9. CASE ~Read0Busy /\ idx.hdr # conn[c].hdr
  BY <1>5, <1>9, Retries DEF Lock0
<1>7. CASE Read0Busy
  <2>1. r.pc = "pick" /\ SameLocks(r, conn[c]) /\ r.hdr = conn[c].hdr
    BY <1>1, <1>2, <1>7 DEF ConnShape, SameLocks
  <2>2. LogInv'
    BY <1>1, <1>4, <1>5, <1>6, <2>1, Looks DEF SameIdx
  <2> QED BY <1>4, <2>2
<1>8. CASE ~Read0Busy /\ idx.hdr = conn[c].hdr
  <2>1. /\ r.pc = "read" /\ r.readLock = 0 /\ r.hdr = conn[c].hdr
        /\ r.writeLock = conn[c].writeLock /\ ~r.ckptLock /\ ~r.lock0
    BY <1>1, <1>2, <1>6, <1>8 DEF ConnShape, Reading
  <2>2. LogInv'
    BY <1>1, <1>4, <1>5, <1>8, <2>1, StartsReading
  <2> QED BY <1>4, <2>2
<1> QED BY <1>7, <1>8, <1>9

LEMMA PickMarkInv ==
    ASSUME Shape, LogInv, NEW c \in Conns, PickMark(c)
    PROVE  Shape' /\ LogInv'
<1> DEFINE mxFrame == conn[c].hdr.mxFrame
           usable == {i \in 1..Marks : idx.mark[i] <= mxFrame}
           bests == {0} \cup {idx.mark[i] : i \in usable}
           best == Max(bests)
           mxIs == {0} \cup {i \in usable : idx.mark[i] = best}
           mxI == Max(mxIs)
           free == {i \in 1..Marks : ReadFree(i)}
<1>1. ConnShape(conn[c]) /\ IdxShape /\ WalShape' /\ mxFrame \in Nat
  BY SameWal DEF PickMark, Shape, ConnShape, HdrShape
<1>2. best \in Nat /\ best <= mxFrame
  <2>1. idx.mark \in [1..Marks -> Nat]
    BY <1>1 DEF IdxShape
  <2>2. bests \in SUBSET (0..mxFrame) /\ bests # {}
    BY <1>1, <2>1
  <2> HIDE DEF bests, mxFrame
  <2>3. best \in bests
    BY <1>1, <2>2, MaxNat
  <2> HIDE DEF best
  <2>4. best \in 0..mxFrame
    BY <2>2, <2>3
  <2> QED BY <1>1, <2>4
<1> HIDE DEF best
<1>3. mxI \in 0..Marks
  <2>1. mxIs \in SUBSET (0..Marks) /\ mxIs # {} /\ Marks \in Nat
    OBVIOUS
  <2> HIDE DEF mxIs
  <2>2. mxI \in mxIs
    BY <2>1, MaxNat
  <2> QED BY <2>1, <2>2
<1> HIDE DEF mxI
<1>4. conn[c].pc = "pick"
  BY DEF PickMark, At
<1>5. CASE (best < mxFrame \/ mxI = 0) /\ free # {}
  <2>1. PICK m : m = Min(free)
    OBVIOUS
  <2>2. m \in 1..Marks /\ ReadFree(m)
    <3>1. free \in SUBSET Nat
      OBVIOUS
    <3>2. m \in free
      BY <1>5, <2>1, <3>1, MinNat
    <3> QED BY <3>2
  <2>3. /\ Set(c, [conn[c] EXCEPT !.pc = "lock", !.mxI = m, !.mxReadMark = mxFrame])
        /\ idx' = [idx EXCEPT !.mark[m] = mxFrame]
    BY <1>5, <2>1, Zenon DEF PickMark, best, mxI
  <2>4. PICK r : r = [conn[c] EXCEPT !.pc = "lock", !.mxI = m, !.mxReadMark = mxFrame]
    OBVIOUS
  <2>5. ConnShape(r)
    <3>1. m \in 0..Marks
      BY <2>2
    <3> QED BY <1>1, <2>4, <3>1 DEF ConnShape
  <2>6. /\ r.pc = "lock" /\ r.mxI = m /\ r.mxReadMark = mxFrame /\ r.hdr = conn[c].hdr
        /\ SameLocks(r, conn[c])
    BY <1>1, <2>4 DEF ConnShape, SameLocks
  <2>7. /\ idx'.isInit = idx.isInit /\ idx'.hdr = idx.hdr /\ idx'.nBackfill = idx.nBackfill
        /\ idx'.mark = [idx.mark EXCEPT ![m] = mxFrame] /\ idx'.pgno = idx.pgno
        /\ idx' = [isInit |-> idx'.isInit, hdr |-> idx'.hdr, pgno |-> idx'.pgno,
                   nBackfill |-> idx'.nBackfill, mark |-> idx'.mark]
    BY <1>1, <2>3 DEF IdxShape
  <2>8. idx'.mark \in [1..Marks -> Nat]
    BY <1>1, <2>7 DEF IdxShape
  <2>9. IdxShape'
    BY <1>1, <2>7, <2>8 DEF IdxShape
  <2>10. \A i \in 1..Marks : idx'.mark[i] = idx.mark[i] \/ ReadFree(i)
    BY <1>1, <2>2, <2>7 DEF IdxShape
  <2>11. Shape' /\ Numbers /\ Numbers' /\ Becomes(c, r)
    BY <1>1, <2>3, <2>4, <2>5, <2>9, SetBecomes
  <2>12. r.mxReadMark <= r.hdr.mxFrame
    BY <1>1, <2>6
  <2>13. LogInv'
    BY <1>4, <2>2, <2>6, <2>7, <2>10, <2>11, <2>12, Looks
  <2> QED BY <2>11, <2>13
<1>6. CASE ~((best < mxFrame \/ mxI = 0) /\ free # {})
  <2>1. /\ UNCHANGED idx
        /\ Set(c, IF mxI = 0 THEN Retry(c)
                  ELSE [conn[c] EXCEPT !.pc = "lock", !.mxI = mxI, !.mxReadMark = best])
    BY <1>6, Zenon DEF PickMark, best, mxI
  <2>2. IdxShape' /\ SameIdx
    BY <2>1, SameIndex
  <2>3. CASE mxI = 0
    <3>1. Set(c, Retry(c)) /\ UNCHANGED <<wal, idx>>
      BY <2>1, <2>3 DEF PickMark
    <3> QED BY <1>4, <3>1, Retries
  <2>4. CASE mxI # 0
    <3>1. PICK r : r = [conn[c] EXCEPT !.pc = "lock", !.mxI = mxI, !.mxReadMark = best]
      OBVIOUS
    <3>2. ConnShape(r)
      BY <1>1, <1>2, <1>3, <3>1 DEF ConnShape
    <3>3. /\ r.pc = "lock" /\ r.mxI = mxI /\ r.mxReadMark = best /\ r.hdr = conn[c].hdr
          /\ SameLocks(r, conn[c])
      BY <1>1, <3>1 DEF ConnShape, SameLocks
    <3>4. Shape' /\ Numbers /\ Numbers' /\ Becomes(c, r)
      BY <1>1, <2>1, <2>2, <2>4, <3>1, <3>2, SetBecomes
    <3>5. r.mxI \in 1..Marks /\ r.mxReadMark <= r.hdr.mxFrame
      BY <1>2, <1>3, <2>4, <3>3
    <3>6. LogInv'
      BY <1>4, <2>2, <3>3, <3>4, <3>5, Looks DEF SameIdx
    <3> QED BY <3>4, <3>6
  <2> QED BY <2>3, <2>4
<1> QED BY <1>5, <1>6

LEMMA LockMarkInv ==
    ASSUME Shape, LogInv, NEW c \in Conns, LockMark(c)
    PROVE  Shape' /\ LogInv'
<1>1. IdxShape /\ IdxShape' /\ SameIdx /\ WalShape' /\ ConnShape(conn[c])
  BY SameIndex, SameWal DEF LockMark, Shape
<1>2. conn[c].pc = "lock" /\ LocksOf(c) /\ ReaderOf(c)
  BY DEF LockMark, At, LogInv
<1>3. /\ ~conn[c].ckptLock /\ ~conn[c].lock0
      /\ conn[c].mxI \in 1..Marks /\ conn[c].mxReadMark <= conn[c].hdr.mxFrame
  BY <1>2 DEF LocksOf, ReaderOf, At, WriteSteps, CopySteps
<1>4. CASE \/ Restarting
            \/ idx.mark[conn[c].mxI] # conn[c].mxReadMark \/ idx.hdr # conn[c].hdr
  BY <1>2, <1>4, Retries DEF LockMark
<1>5. CASE ~Restarting /\ idx.mark[conn[c].mxI] = conn[c].mxReadMark /\ idx.hdr = conn[c].hdr
  <2>1. PICK q : /\ q = Reading(c) /\ ConnShape(q) /\ SameLocks(q, conn[c])
                 /\ q.hdr = conn[c].hdr
                 /\ q.pc = IF conn[c].writeLock THEN FirstStep(conn[c].hdr) ELSE "read"
    BY <1>1, ReadingShape
  <2>2. PICK r : r = [q EXCEPT !.readLock = conn[c].mxI, !.minFrame = idx.nBackfill + 1]
    OBVIOUS
  <2>3. ConnShape(r)
    <3>1. conn[c].mxI \in -1..Marks
      BY <1>3
    <3> QED BY <2>1, <2>2, <3>1 DEF ConnShape
  <2>4. /\ r.readLock = conn[c].mxI /\ r.pc = q.pc /\ r.hdr = q.hdr /\ r.writeLock = q.writeLock
        /\ r.ckptLock = q.ckptLock /\ r.lock0 = q.lock0
    BY <2>1, <2>2 DEF ConnShape
  <2>5. Set(c, r)
    BY <1>5, <2>1, <2>2 DEF LockMark
  <2>6. Shape' /\ Numbers /\ Numbers' /\ Becomes(c, r)
    BY <1>1, <2>3, <2>5, SetBecomes
  <2>7. r.readLock \in 0..Marks /\ r.readLock > 0
    BY <1>3, <2>4
  <2>8. \/ r.pc = "read" /\ ~r.writeLock
        \/ r.pc \in {"header", "frames"} /\ r.writeLock
    BY <2>1, <2>4 DEF FirstStep, SameLocks
  <2>9. /\ r.hdr = idx.hdr /\ conn[c].hdr = idx.hdr /\ r.writeLock = conn[c].writeLock
        /\ ~r.ckptLock /\ ~r.lock0 /\ idx.mark[r.readLock] <= conn[c].hdr.mxFrame
    BY <1>3, <1>5, <2>1, <2>4 DEF SameLocks
  <2>10. LogInv'
    BY <1>1, <1>2, <1>5, <2>6, <2>7, <2>8, <2>9, StartsReading
  <2> QED BY <2>6, <2>10
<1> QED BY <1>4, <1>5

\* A connection ends what it does.
LEMMA EndReadInv ==
    ASSUME Shape, LogInv, NEW c \in Conns, EndRead(c)
    PROVE  Shape' /\ LogInv'
<1>1. IdxShape' /\ SameIdx /\ WalShape' /\ Set(c, Closed) /\ conn[c].pc = "read"
  BY SameIndex, SameWal DEF EndRead, At
<1>2. Shape' /\ Numbers /\ Numbers' /\ Becomes(c, Closed)
  BY <1>1, ClosedShape, SetBecomes
<1>3. ~conn[c].writeLock
  BY <1>1 DEF LogInv, LocksOf, WriteSteps
<1>4. LogInv'
  BY <1>1, <1>2, <1>3, Closes DEF SameIdx
<1> QED BY <1>2, <1>4

LEMMA UnlockErrorInv ==
    ASSUME Shape, LogInv, NEW c \in Conns, UnlockError(c)
    PROVE  Shape' /\ LogInv'
<1>1. IdxShape' /\ SameIdx /\ WalShape' /\ Set(c, Closed) /\ conn[c].pc = "error"
  BY SameIndex, SameWal DEF UnlockError, At
<1>2. Shape' /\ Numbers /\ Numbers' /\ Becomes(c, Closed)
  BY <1>1, ClosedShape, SetBecomes
<1>3. LogInv'
  BY <1>1, <1>2, Closes DEF SameIdx
<1> QED BY <1>2, <1>3

LEMMA EndCheckpointInv ==
    ASSUME Shape, LogInv, NEW c \in Conns, EndCheckpoint(c)
    PROVE  Shape' /\ LogInv'
<1>1. /\ IdxShape' /\ SameIdx /\ WalShape' /\ Set(c, Closed)
      /\ conn[c].pc \in {"marks", "copy", "truncate", "syncDb"}
  BY SameIndex, SameWal DEF EndCheckpoint, At
<1>2. Shape' /\ Numbers /\ Numbers' /\ Becomes(c, Closed)
  BY <1>1, ClosedShape, SetBecomes
<1>3. ~conn[c].writeLock
  BY <1>1 DEF LogInv, LocksOf, WriteSteps
<1>4. LogInv'
  BY <1>1, <1>2, <1>3, Closes DEF SameIdx
<1> QED BY <1>2, <1>4

\* nBackfill is what a checkpoint leaves behind.
LEMMA BackfillShape ==
    ASSUME Shape, NEW n \in Nat, idx' = [idx EXCEPT !.nBackfill = n]
    PROVE  /\ IdxShape' /\ idx'.isInit = idx.isInit /\ idx'.hdr = idx.hdr
           /\ idx'.mark = idx.mark /\ idx'.nBackfill = n
<1>1. IdxShape
  BY DEF Shape
<1>2. /\ idx'.isInit = idx.isInit /\ idx'.hdr = idx.hdr /\ idx'.nBackfill = n
      /\ idx'.mark = idx.mark /\ idx'.pgno = idx.pgno
      /\ idx' = [isInit |-> idx'.isInit, hdr |-> idx'.hdr, pgno |-> idx'.pgno,
                 nBackfill |-> idx'.nBackfill, mark |-> idx'.mark]
  BY <1>1 DEF IdxShape
<1>3. IdxShape'
  BY <1>1, <1>2 DEF IdxShape, HdrShape
<1> QED BY <1>2, <1>3

LEMMA SyncDbInv ==
    ASSUME Shape, LogInv, NEW c \in Conns, SyncDb(c)
    PROVE  Shape' /\ LogInv'
<1>1. PICK n : n = conn[c].mxSafeFrame /\ n \in Nat
  BY DEF Shape, ConnShape
<1>2. /\ WalShape' /\ Set(c, Closed) /\ conn[c].pc = "syncDb"
      /\ idx' = [idx EXCEPT !.nBackfill = n]
  BY <1>1, SameWal DEF SyncDb, At
<1>3. /\ IdxShape' /\ idx'.isInit = idx.isInit /\ idx'.hdr = idx.hdr
      /\ idx'.mark = idx.mark /\ idx'.nBackfill = n
  BY <1>1, <1>2, BackfillShape
<1>4. Shape' /\ Numbers /\ Numbers' /\ Becomes(c, Closed)
  BY <1>2, <1>3, ClosedShape, SetBecomes
<1>5. ~conn[c].writeLock /\ conn[c].pc \in CopySteps
  BY <1>2 DEF LogInv, LocksOf, WriteSteps, CopySteps
<1>6. LogInv'
  BY <1>1, <1>2, <1>3, <1>4, <1>5, Closes
<1> QED BY <1>4, <1>6

LEMMA CopiedInv ==
    ASSUME Shape, LogInv, NEW c \in Conns, Copied(c)
    PROVE  Shape' /\ LogInv'
<1>1. WalShape' /\ conn[c].pc = "copy" /\ ConnShape(conn[c]) /\ conn[c].mxSafeFrame \in Nat
  BY SameWal DEF Copied, At, Shape, ConnShape
<1>2. CASE conn[c].mxSafeFrame = idx.hdr.mxFrame
  <2>1. PICK r : r = [conn[c] EXCEPT !.pc = "truncate"]
    OBVIOUS
  <2>2. Set(c, r) /\ IdxShape' /\ SameIdx
    BY <1>2, <2>1, SameIndex DEF Copied
  <2>3. ConnShape(r) /\ r.pc = "truncate" /\ SameCore(r, conn[c])
    BY <1>1, <2>1 DEF ConnShape, SameCore, SameLocks
  <2>4. Shape' /\ Numbers /\ Numbers' /\ Becomes(c, r)
    BY <1>1, <2>2, <2>3, SetBecomes
  <2>5. LogInv'
    BY <1>1, <2>2, <2>3, <2>4, CopyMoves DEF CopySteps
  <2> QED BY <2>4, <2>5
<1>3. CASE conn[c].mxSafeFrame # idx.hdr.mxFrame
  <2>1. PICK n : n = conn[c].mxSafeFrame /\ n \in Nat
    BY <1>1
  <2>2. Set(c, Closed) /\ idx' = [idx EXCEPT !.nBackfill = n]
    BY <1>3, <2>1 DEF Copied
  <2>3. /\ IdxShape' /\ idx'.isInit = idx.isInit /\ idx'.hdr = idx.hdr
        /\ idx'.mark = idx.mark /\ idx'.nBackfill = n
    BY <2>1, <2>2, BackfillShape
  <2>4. Shape' /\ Numbers /\ Numbers' /\ Becomes(c, Closed)
    BY <1>1, <2>2, <2>3, ClosedShape, SetBecomes
  <2>5. ~conn[c].writeLock /\ conn[c].pc \in CopySteps
    BY <1>1 DEF LogInv, LocksOf, WriteSteps, CopySteps
  <2>6. LogInv'
    BY <1>1, <2>1, <2>3, <2>4, <2>5, Closes
  <2> QED BY <2>4, <2>6
<1> QED BY <1>2, <1>3

LEMMA CopyPageInv ==
    ASSUME Shape, LogInv, NEW c \in Conns, CopyPage(c)
    PROVE  Shape' /\ LogInv'
<1>1. IdxShape' /\ SameIdx /\ WalShape' /\ conn[c].pc = "copy" /\ ConnShape(conn[c])
  BY SameIndex, SameWal DEF CopyPage, At, Shape
<1>2. PICK iter : Set(c, [conn[c] EXCEPT !.iter = iter])
  BY DEF CopyPage
<1>3. PICK r : r = [conn[c] EXCEPT !.iter = iter]
  OBVIOUS
<1>4. ConnShape(r) /\ r.pc = conn[c].pc /\ SameCore(r, conn[c])
  BY <1>1, <1>3 DEF ConnShape, SameCore, SameLocks
<1>5. Shape' /\ Numbers /\ Numbers' /\ Becomes(c, r)
  BY <1>1, <1>2, <1>3, <1>4, SetBecomes
<1>6. LogInv'
  BY <1>1, <1>4, <1>5, CopyMoves DEF CopySteps
<1> QED BY <1>5, <1>6

LEMMA TruncateDbInv ==
    ASSUME Shape, LogInv, NEW c \in Conns, TruncateDb(c)
    PROVE  Shape' /\ LogInv'
<1>1. IdxShape' /\ SameIdx /\ WalShape' /\ conn[c].pc = "truncate" /\ ConnShape(conn[c])
  BY SameIndex, SameWal DEF TruncateDb, At, Shape
<1>2. PICK r : r = [conn[c] EXCEPT !.pc = "syncDb"]
  OBVIOUS
<1>3. ConnShape(r) /\ r.pc = "syncDb" /\ SameCore(r, conn[c])
  BY <1>1, <1>2 DEF ConnShape, SameCore, SameLocks
<1>4. Shape' /\ Numbers /\ Numbers' /\ Becomes(c, r)
  BY <1>1, <1>2, <1>3, SetBecomes DEF TruncateDb
<1>5. LogInv'
  BY <1>1, <1>3, <1>4, CopyMoves DEF CopySteps
<1> QED BY <1>4, <1>5

LEMMA IterateInv ==
    ASSUME Shape, LogInv, NEW c \in Conns, Iterate(c)
    PROVE  Shape' /\ LogInv'
<1>1. IdxShape' /\ SameIdx /\ WalShape' /\ conn[c].pc = "iterate" /\ ConnShape(conn[c])
  BY SameIndex, SameWal DEF Iterate, At, Shape
<1>2. CASE idx.nBackfill < conn[c].hdr.mxFrame
  <2>1. PICK iter : iter = Iterator(c)
    OBVIOUS
  <2>2. PICK n : n = conn[c].hdr.mxFrame /\ n \in Nat
    BY <1>1 DEF ConnShape, HdrShape
  <2>3. PICK r : r = [conn[c] EXCEPT !.pc = "marks", !.iter = iter, !.i = 1, !.mxSafeFrame = n]
    OBVIOUS
  <2>4. Set(c, r)
    BY <1>2, <2>1, <2>2, <2>3, Zenon DEF Iterate
  <2>5. ConnShape(r)
    BY <1>1, <2>2, <2>3 DEF ConnShape
  <2>6. /\ r.pc = "marks" /\ r.i = 1 /\ r.mxSafeFrame = conn[c].hdr.mxFrame
        /\ r.hdr = conn[c].hdr /\ SameLocks(r, conn[c])
    BY <1>1, <2>2, <2>3 DEF ConnShape, SameLocks
  <2>7. Shape' /\ Numbers /\ Numbers' /\ Becomes(c, r)
    BY <1>1, <2>4, <2>5, SetBecomes
  <2>8. LogInv'
    BY <1>1, <2>6, <2>7, Inspects DEF SameIdx
  <2> QED BY <2>7, <2>8
<1>3. CASE ~(idx.nBackfill < conn[c].hdr.mxFrame)
  <2>1. Set(c, Closed)
    BY <1>3 DEF Iterate
  <2>2. Shape' /\ Numbers /\ Numbers' /\ Becomes(c, Closed)
    BY <1>1, <2>1, ClosedShape, SetBecomes
  <2>3. ~conn[c].writeLock
    BY <1>1 DEF LogInv, LocksOf, WriteSteps
  <2>4. LogInv'
    BY <1>1, <2>2, <2>3, Closes DEF SameIdx
  <2> QED BY <2>2, <2>4
<1> QED BY <1>2, <1>3

LEMMA CheckMarkInv ==
    ASSUME Shape, LogInv, NEW c \in Conns, CheckMark(c)
    PROVE  Shape' /\ LogInv'
<1>1. WalShape' /\ IdxShape /\ ConnShape(conn[c])
  BY SameWal DEF CheckMark, Shape
<1>2. conn[c].pc = "marks" /\ conn[c].i <= Marks /\ CheckpointOf(c)
  BY DEF CheckMark, At, LogInv
<1>3. PICK i : i = conn[c].i /\ i \in 1..Marks
  <2>1. conn[c].i \in 1..Marks + 1
    BY <1>2 DEF CheckpointOf, At
  <2> QED BY <1>2, <2>1
<1>4. PICK n : n = IF i = 1 THEN conn[c].mxSafeFrame ELSE READMARK_NOT_USED
  OBVIOUS
<1>5. /\ idx.mark[i] \in Nat /\ conn[c].mxSafeFrame \in Nat /\ n \in Nat /\ i + 1 \in Nat
      /\ idx.mark \in [1..Marks -> Nat]
  <2>1. conn[c].mxSafeFrame \in Nat /\ idx.mark \in [1..Marks -> Nat]
    BY <1>1 DEF IdxShape, ConnShape
  <2>2. idx.mark[i] \in Nat
    BY <1>3, <2>1
  <2>3. i + 1 \in Nat
    BY <1>3
  <2> QED BY <1>4, <2>1, <2>2, <2>3, ReadMarkNat
<1>6. PICK m : m = IF idx.mark[i] < conn[c].mxSafeFrame /\ ~ReadFree(i) THEN idx.mark[i]
                   ELSE conn[c].mxSafeFrame
  OBVIOUS
<1>7. m \in Nat /\ m <= conn[c].mxSafeFrame /\ (~ReadFree(i) => m <= idx.mark[i])
  <2>1. CASE idx.mark[i] < conn[c].mxSafeFrame /\ ~ReadFree(i)
    BY <1>5, <1>6, <2>1
  <2>2. CASE ~(idx.mark[i] < conn[c].mxSafeFrame) \/ ReadFree(i)
    <3>1. m = conn[c].mxSafeFrame
      BY <1>6, <2>2
    <3>2. m \in Nat /\ m <= conn[c].mxSafeFrame
      BY <1>5, <3>1
    <3>3. ~(idx.mark[i] < conn[c].mxSafeFrame) => m <= idx.mark[i]
      BY <1>5, <3>1
    <3> QED BY <2>2, <3>2, <3>3
  <2> QED BY <2>1, <2>2
<1>8. PICK r : r = [conn[c] EXCEPT !.i = i + 1, !.mxSafeFrame = m]
  OBVIOUS
<1>9. Set(c, r)
  <2>1. Set(c, [conn[c] EXCEPT !.i = conn[c].i + 1,
                 !.mxSafeFrame = IF idx.mark[conn[c].i] < conn[c].mxSafeFrame /\ ~ReadFree(conn[c].i)
                                 THEN idx.mark[conn[c].i] ELSE conn[c].mxSafeFrame])
    BY <1>1 DEF CheckMark, ConnShape
  <2> QED BY <1>3, <1>6, <1>8, <2>1
<1>10. ConnShape(r)
  BY <1>1, <1>5, <1>7, <1>8 DEF ConnShape
<1>11. /\ r.pc = "marks" /\ r.i = i + 1 /\ r.mxSafeFrame = m /\ r.hdr = conn[c].hdr
       /\ SameLocks(r, conn[c])
  BY <1>1, <1>2, <1>8 DEF ConnShape, SameLocks
<1>12. idx' = IF idx.mark[i] < conn[c].mxSafeFrame /\ ReadFree(i)
              THEN [idx EXCEPT !.mark[i] = n] ELSE idx
  BY <1>3, <1>4 DEF CheckMark
<1>13. /\ IdxShape' /\ idx'.isInit = idx.isInit /\ idx'.hdr = idx.hdr
       /\ idx'.nBackfill = idx.nBackfill
       /\ \A j \in 1..Marks : idx'.mark[j] = idx.mark[j] \/ ReadFree(j)
  <2>1. CASE idx' = idx
    BY <1>1, <2>1 DEF IdxShape, HdrShape
  <2>2. CASE ReadFree(i) /\ idx' = [idx EXCEPT !.mark[i] = n]
    <3>1. /\ idx'.isInit = idx.isInit /\ idx'.hdr = idx.hdr /\ idx'.nBackfill = idx.nBackfill
          /\ idx'.mark = [idx.mark EXCEPT ![i] = n] /\ idx'.pgno = idx.pgno
          /\ idx' = [isInit |-> idx'.isInit, hdr |-> idx'.hdr, pgno |-> idx'.pgno,
                     nBackfill |-> idx'.nBackfill, mark |-> idx'.mark]
      BY <1>1, <2>2 DEF IdxShape
    <3>2. idx'.mark \in [1..Marks -> Nat]
      BY <1>5, <3>1
    <3>3. IdxShape'
      BY <1>1, <3>1, <3>2 DEF IdxShape, HdrShape
    <3>4. \A j \in 1..Marks : idx'.mark[j] = idx.mark[j] \/ ReadFree(j)
      BY <1>5, <2>2, <3>1
    <3> QED BY <3>1, <3>3, <3>4
  <2> QED BY <1>12, <2>1, <2>2
<1>14. Shape' /\ Numbers /\ Numbers' /\ Becomes(c, r)
  BY <1>1, <1>9, <1>10, <1>13, SetBecomes
<1>15. LogInv'
  BY <1>2, <1>3, <1>7, <1>11, <1>13, <1>14, Inspects
<1> QED BY <1>14, <1>15

LEMMA BeginBackfillInv ==
    ASSUME Shape, LogInv, NEW c \in Conns, BeginBackfill(c)
    PROVE  Shape' /\ LogInv'
<1>1. IdxShape' /\ SameIdx /\ conn[c].pc = "marks" /\ ConnShape(conn[c]) /\ WalShape
  BY SameIndex DEF BeginBackfill, At, Shape
<1>2. WalShape'
  BY <1>1 DEF BeginBackfill, WalShape
<1>3. PICK r : r = [conn[c] EXCEPT !.pc = "copy", !.lock0 = TRUE, !.backfilled = idx.nBackfill]
  OBVIOUS
<1>4. ConnShape(r)
  BY <1>1, <1>3 DEF ConnShape
<1>5. /\ r.pc = "copy" /\ r.lock0 /\ r.mxSafeFrame = conn[c].mxSafeFrame /\ r.hdr = conn[c].hdr
      /\ r.readLock = conn[c].readLock /\ r.writeLock = conn[c].writeLock
      /\ r.ckptLock = conn[c].ckptLock
  BY <1>1, <1>3 DEF ConnShape
<1>6. Shape' /\ Numbers /\ Numbers' /\ Becomes(c, r)
  BY <1>1, <1>2, <1>3, <1>4, SetBecomes DEF BeginBackfill
<1>7. conn[c].i > Marks /\ idx.nBackfill < conn[c].mxSafeFrame /\ ReadFree(0)
  BY DEF BeginBackfill
<1>8. LogInv'
  BY <1>1, <1>5, <1>6, <1>7, BeginsCopying
<1> QED BY <1>6, <1>8

\* sqlite3WalBeginWriteTransaction and the changes of a transaction
LEMMA BeginWriteInv ==
    ASSUME Shape, LogInv, NEW c \in Conns, BeginWrite(c)
    PROVE  Shape' /\ LogInv'
<1>1. IdxShape' /\ SameIdx /\ WalShape' /\ conn[c].pc = "read" /\ ConnShape(conn[c])
  BY SameIndex, SameWal DEF BeginWrite, At, Shape
<1>2. PICK r : r = [conn[c] EXCEPT !.pc = "write", !.writeLock = TRUE,
                                   !.size = DbSize(conn[c].hdr)]
  OBVIOUS
<1>3. ConnShape(r)
  BY <1>1, <1>2 DEF ConnShape
<1>4. /\ r.pc = "write" /\ r.writeLock /\ r.hdr = conn[c].hdr /\ r.readLock = conn[c].readLock
      /\ r.ckptLock = conn[c].ckptLock /\ r.lock0 = conn[c].lock0
  BY <1>1, <1>2 DEF ConnShape
<1>5. Shape' /\ Numbers /\ Numbers' /\ Becomes(c, r)
  BY <1>1, <1>2, <1>3, SetBecomes DEF BeginWrite
<1>6. WriteFree /\ conn[c].hdr = idx.hdr
  BY DEF BeginWrite
<1>7. LogInv'
  BY <1>1, <1>4, <1>5, <1>6, StartsWriting
<1> QED BY <1>5, <1>7

LEMMA ChangedInv ==
    ASSUME Shape, LogInv, NEW c \in Conns, NEW ps, NEW size, At(c, "write"),
           Set(c, Changed(c, ps, size)), UNCHANGED <<wal, idx>>
    PROVE  Shape' /\ LogInv'
<1>1. IdxShape' /\ SameIdx /\ WalShape' /\ conn[c].pc = "write" /\ ConnShape(conn[c])
  BY SameIndex, SameWal DEF At, Shape
<1>2. PICK dirty : Set(c, [conn[c] EXCEPT !.dirty = dirty, !.size = size])
  BY DEF Changed
<1>3. PICK r : r = [conn[c] EXCEPT !.dirty = dirty, !.size = size]
  OBVIOUS
<1>4. ConnShape(r) /\ r.pc = "write" /\ SameCore(r, conn[c])
  BY <1>1, <1>3 DEF ConnShape, SameCore, SameLocks
<1>5. Shape' /\ Numbers /\ Numbers' /\ Becomes(c, r)
  BY <1>1, <1>2, <1>3, <1>4, SetBecomes
<1>6. LogInv'
  BY <1>1, <1>4, <1>5, WriterMoves DEF WriteSteps
<1> QED BY <1>5, <1>6

\* sqlite3WalFrames
LEMMA WalFramesInv ==
    ASSUME Shape, LogInv, NEW c \in Conns, NEW list, NEW spill, At(c, "write"),
           WalFrames(c, list, spill), UNCHANGED <<wal, idx>>
    PROVE  Shape' /\ LogInv'
<1>1. IdxShape' /\ SameIdx /\ WalShape' /\ conn[c].pc = "write" /\ ConnShape(conn[c]) /\ IdxShape
  BY SameIndex, SameWal DEF At, Shape
<1>2. PICK s : s = <<>>
  OBVIOUS
<1>3. PICK pc : pc = IF conn[c].readLock = 0 THEN "restart" ELSE FirstStep(conn[c].hdr)
  OBVIOUS
<1>4. PICK f : f = IF Spilled(c) THEN idx.hdr.mxFrame + 1 ELSE 0
  OBVIOUS
<1>5. PICK r : r = [conn[c] EXCEPT !.pc = pc, !.list = list, !.spill = spill, !.appended = s,
                                   !.iFirst = f]
  OBVIOUS
<1>6. Set(c, r)
  BY <1>2, <1>3, <1>4, <1>5, Zenon DEF WalFrames
<1>7. f \in Nat /\ IsSeq(s)
  <2>1. idx.hdr.mxFrame \in Nat
    BY <1>1 DEF IdxShape, HdrShape
  <2>2. f \in Nat
    BY <1>4, <2>1
  <2>3. IsSeq(s)
    BY <1>2, EmptyIsSeq, Zenon
  <2> QED BY <2>2, <2>3
<1>8. ConnShape(r)
  BY <1>1, <1>5, <1>7 DEF ConnShape
<1>9. r.pc = pc /\ SameCore(r, conn[c])
  BY <1>1, <1>5 DEF ConnShape, SameCore, SameLocks
<1>10. Shape' /\ Numbers /\ Numbers' /\ Becomes(c, r)
  BY <1>1, <1>6, <1>8, SetBecomes
<1>11. conn[c].readLock \in -1..Marks /\ conn[c].readLock >= 0
  BY <1>1 DEF LogInv, LocksOf, WriteSteps, ConnShape
<1>12. r.pc \in {"restart", "header", "frames"} /\ r.readLock = conn[c].readLock
  BY <1>3, <1>9 DEF FirstStep, SameCore, SameLocks
<1>13. (r.pc = "restart" => r.readLock = 0) /\ (r.pc # "restart" => r.readLock > 0)
  BY <1>3, <1>9, <1>11, <1>12 DEF FirstStep
<1>14. LogInv'
  BY <1>1, <1>9, <1>10, <1>12, <1>13, WriterMoves DEF WriteSteps
<1> QED BY <1>10, <1>14

\* A page is written, or writing it fails.
LEMMA FramesMove ==
    ASSUME Shape, LogInv, NEW c \in Conns, NEW r, Set(c, r), ConnShape(r), SameCore(r, conn[c]),
           conn[c].pc \in {"header", "frames", "checksums"},
           r.pc \in {"frames", "checksums", "append", "undo", "error"}, WalShape', UNCHANGED idx
    PROVE  Shape' /\ LogInv'
<1>1. IdxShape' /\ SameIdx
  BY SameIndex
<1>2. Shape' /\ Numbers /\ Numbers' /\ Becomes(c, r)
  BY <1>1, SetBecomes
<1>3. conn[c].readLock > 0
  BY DEF LogInv, LocksOf, WriteSteps
<1>4. r.readLock > 0
  BY <1>3 DEF SameCore, SameLocks
<1>5. LogInv'
  BY <1>1, <1>2, <1>4, WriterMoves DEF WriteSteps
<1> QED BY <1>2, <1>5

LEMMA WrittenFields ==
    ASSUME NEW c \in Conns, NEW n \in Nat, NEW s, ConnShape(conn[c]), IsSeq(s), Written(c, n, s)
    PROVE  \E r : /\ Set(c, r) /\ ConnShape(r) /\ SameCore(r, conn[c])
                  /\ r.pc \in {"frames", "checksums", "append"}
<1>1. PICK pc : pc = IF Len(conn[c].list) > 1 THEN "frames"
                     ELSE IF IsCommit(c) /\ n # 0 THEN "checksums" ELSE "append"
  OBVIOUS
<1>2. PICK list : Set(c, [conn[c] EXCEPT !.list = list, !.iReCksum = n, !.appended = s, !.pc = pc])
  BY <1>1 DEF Written
<1>3. PICK r : r = [conn[c] EXCEPT !.list = list, !.iReCksum = n, !.appended = s, !.pc = pc]
  OBVIOUS
<1>4. ConnShape(r) /\ r.pc = pc /\ SameCore(r, conn[c])
  BY <1>3 DEF ConnShape, SameCore, SameLocks
<1>5. pc \in {"frames", "checksums", "append"}
  BY <1>1
<1> QED BY <1>2, <1>3, <1>4, <1>5

\* The frame that is written is not frame 0.
LEMMA FrameNumbers ==
    ASSUME Shape, NEW c \in Conns
    PROVE  /\ NextFrame(c) \in Nat /\ NextFrame(c) - 1 \in Nat
           /\ InPlace(c) => FindFrame(c, Head(conn[c].list)) - 1 \in Nat
<1>1. /\ ConnShape(conn[c]) /\ conn[c].hdr.mxFrame \in Nat /\ conn[c].iFirst \in Nat
      /\ IsSeq(conn[c].appended)
  BY DEF Shape, ConnShape, HdrShape
<1>2. Len(conn[c].appended) \in Nat
  BY <1>1, AppendIsSeq
<1>3. NextFrame(c) \in Nat /\ NextFrame(c) - 1 \in Nat
  <2>1. PICK a, b : a = conn[c].hdr.mxFrame /\ b = Len(conn[c].appended) /\ a \in Nat /\ b \in Nat
    BY <1>1, <1>2
  <2>2. NextFrame(c) = a + b + 1
    BY <2>1 DEF NextFrame
  <2>3. a + b + 1 \in Nat /\ (a + b + 1) - 1 \in Nat
    BY <2>1, SumNat
  <2> QED BY <2>2, <2>3
<1>4. PICK f : f = FindFrame(c, Head(conn[c].list)) /\ f \in Nat
  BY <1>1, FindFrameNat
<1>5. InPlace(c) => conn[c].iFirst > 0 /\ f >= conn[c].iFirst
  BY <1>4 DEF InPlace
<1>6. InPlace(c) => f - 1 \in Nat
  BY <1>1, <1>4, <1>5
<1> QED BY <1>3, <1>4, <1>6

\* What may become of the log.
LEMMA WalBecomes ==
    ASSUME NEW frames, NEW v \in Nat, NEW n \in Nat,
           wal' = [frames |-> frames, valid |-> v, synced |-> n]
    PROVE  WalShape'
BY DEF WalShape

LEMMA WriteHeaderInv ==
    ASSUME Shape, LogInv, NEW c \in Conns, WriteHeader(c)
    PROVE  Shape' /\ LogInv'
<1>1. ConnShape(conn[c]) /\ conn[c].pc = "header" /\ UNCHANGED idx
  BY DEF WriteHeader, At, Shape
<1>2. WalShape'
  BY DEF WriteHeader, Shape, WalShape
<1>3. PICK r : r = [conn[c] EXCEPT !.pc = "frames"]
  OBVIOUS
<1>4. ConnShape(r) /\ r.pc = "frames" /\ SameCore(r, conn[c])
  BY <1>1, <1>3 DEF ConnShape, SameCore, SameLocks
<1>5. Set(c, r)
  BY <1>3 DEF WriteHeader
<1> QED BY <1>1, <1>2, <1>4, <1>5, FramesMove

LEMMA RewriteInv ==
    ASSUME Shape, LogInv, NEW c \in Conns, Rewrite(c)
    PROVE  Shape' /\ LogInv'
<1>1. /\ ConnShape(conn[c]) /\ conn[c].pc = "frames" /\ UNCHANGED idx /\ InPlace(c) /\ WalShape
      /\ IsSeq(conn[c].appended)
  BY DEF Rewrite, At, Shape, ConnShape
<1>2. PICK g : g = FindFrame(c, Head(conn[c].list)) - 1 /\ g \in Nat
  BY <1>1, FrameNumbers
<1>3. PICK v : v = Min({wal.valid, g}) /\ v \in Nat
  BY <1>1, <1>2, MinOfTwo DEF WalShape
<1>4. PICK n : n = Min({wal.synced, g}) /\ n \in Nat
  BY <1>1, <1>2, MinOfTwo DEF WalShape
<1>5. \E frames : wal' = [frames |-> frames, valid |-> v, synced |-> n]
  BY <1>1, <1>2, <1>3, <1>4 DEF Rewrite, WalShape
<1>6. WalShape'
  BY <1>3, <1>4, <1>5, WalBecomes
<1>7. \E m \in Nat : Written(c, m, conn[c].appended)
  <2>1. FindFrame(c, Head(conn[c].list)) \in Nat /\ conn[c].iReCksum \in Nat
    BY <1>1, FindFrameNat DEF ConnShape
  <2> QED BY <2>1 DEF Rewrite
<1>8. PICK r : /\ Set(c, r) /\ ConnShape(r) /\ SameCore(r, conn[c])
               /\ r.pc \in {"frames", "checksums", "append"}
  BY <1>1, <1>7, WrittenFields
<1> QED BY <1>1, <1>6, <1>8, FramesMove

LEMMA AppendFrameInv ==
    ASSUME Shape, LogInv, NEW c \in Conns, AppendFrame(c)
    PROVE  Shape' /\ LogInv'
<1>1. /\ ConnShape(conn[c]) /\ conn[c].pc = "frames" /\ UNCHANGED idx /\ WalShape
      /\ IsSeq(conn[c].appended)
  BY DEF AppendFrame, At, Shape, ConnShape
<1>2. PICK f : f = NextFrame(c) /\ f \in Nat /\ f - 1 \in Nat
  BY FrameNumbers
<1>3. PICK v : v = (IF wal.valid >= f - 1 THEN f ELSE wal.valid) /\ v \in Nat
  BY <1>1, <1>2 DEF WalShape
<1>4. PICK n : n = Min({wal.synced, f - 1}) /\ n \in Nat
  BY <1>1, <1>2, MinOfTwo DEF WalShape
<1>5. \E frames : wal' = [frames |-> frames, valid |-> v, synced |-> n]
  BY <1>2, <1>3, <1>4 DEF AppendFrame
<1>6. WalShape'
  BY <1>3, <1>4, <1>5, WalBecomes
<1>7. PICK s : s = Append(conn[c].appended, Head(conn[c].list)) /\ IsSeq(s)
  BY <1>1, AppendIsSeq
<1>8. Written(c, conn[c].iReCksum, s) /\ conn[c].iReCksum \in Nat
  BY <1>1, <1>7 DEF AppendFrame, ConnShape
<1>9. PICK r : /\ Set(c, r) /\ ConnShape(r) /\ SameCore(r, conn[c])
               /\ r.pc \in {"frames", "checksums", "append"}
  BY <1>1, <1>7, <1>8, WrittenFields
<1> QED BY <1>1, <1>6, <1>9, FramesMove

\* sqlite3WalFrames has failed.
LEMMA FailedFields ==
    ASSUME NEW c \in Conns, ConnShape(conn[c]), Failed(c)
    PROVE  \E r : /\ Set(c, r) /\ ConnShape(r) /\ SameCore(r, conn[c]) /\ r.pc \in {"undo", "error"}
                  /\ r.iFirst = conn[c].iFirst /\ r.iReCksum = conn[c].iReCksum
                  /\ r.appended = conn[c].appended /\ r.spill = conn[c].spill
<1>1. PICK pc : pc = (IF IsCommit(c) THEN "undo" ELSE "error") /\ pc \in {"undo", "error"}
  OBVIOUS
<1>2. PICK r : r = [conn[c] EXCEPT !.pc = pc]
  OBVIOUS
<1>3. Set(c, r)
  BY <1>1, <1>2, Zenon DEF Failed
<1>4. ConnShape(r) /\ SameCore(r, conn[c]) /\ r.pc = pc
  BY <1>2 DEF ConnShape, SameCore, SameLocks
<1>5. /\ r.iFirst = conn[c].iFirst /\ r.iReCksum = conn[c].iReCksum
      /\ r.appended = conn[c].appended /\ r.spill = conn[c].spill
  BY <1>2 DEF ConnShape
<1> QED BY <1>1, <1>3, <1>4, <1>5

LEMMA HeaderFailsInv ==
    ASSUME Shape, LogInv, NEW c \in Conns, HeaderFails(c)
    PROVE  Shape' /\ LogInv'
<1>1. ConnShape(conn[c]) /\ conn[c].pc = "header" /\ UNCHANGED idx /\ WalShape /\ Failed(c)
  BY DEF HeaderFails, At, Shape
<1>2. WalShape'
  <2>1. CASE wal' = wal
    BY <1>1, <2>1 DEF WalShape
  <2>2. CASE wal' = [wal EXCEPT !.valid = 0, !.synced = 0]
    BY <1>1, <2>2 DEF WalShape
  <2> QED BY <2>1, <2>2 DEF HeaderFails
<1>3. PICK r : /\ Set(c, r) /\ ConnShape(r) /\ SameCore(r, conn[c]) /\ r.pc \in {"undo", "error"}
  BY <1>1, FailedFields
<1> QED BY <1>1, <1>2, <1>3, FramesMove

LEMMA WriteFailsInv ==
    ASSUME Shape, LogInv, NEW c \in Conns, WriteFails(c)
    PROVE  Shape' /\ LogInv'
<1>1. /\ ConnShape(conn[c]) /\ conn[c].pc \in {"frames", "checksums"} /\ UNCHANGED idx
      /\ WalShape /\ Failed(c)
  BY DEF WriteFails, Shape
<1>2. WalShape'
  <2>1. CASE conn[c].pc = "checksums"
    BY <1>1, <2>1 DEF WriteFails, At, WalShape
  <2>2. CASE conn[c].pc = "frames"
    <3>1. PICK f : f = IF InPlace(c) THEN FindFrame(c, Head(conn[c].list)) ELSE NextFrame(c)
      OBVIOUS
    <3>2. f - 1 \in Nat
      BY <3>1, FrameNumbers
    <3>3. PICK v : v = Min({wal.valid, f - 1}) /\ v \in Nat
      BY <1>1, <3>2, MinOfTwo DEF WalShape
    <3>4. PICK n : n = Min({wal.synced, f - 1}) /\ n \in Nat
      BY <1>1, <3>2, MinOfTwo DEF WalShape
    <3>5. wal' = [wal EXCEPT !.valid = v, !.synced = n]
      BY <1>1, <2>2, <3>1, <3>3, <3>4 DEF WriteFails, WalShape, At
    <3> QED BY <1>1, <3>3, <3>4, <3>5 DEF WalShape
  <2> QED BY <1>1, <2>1, <2>2
<1>3. PICK r : /\ Set(c, r) /\ ConnShape(r) /\ SameCore(r, conn[c]) /\ r.pc \in {"undo", "error"}
  BY <1>1, FailedFields
<1> QED BY <1>1, <1>2, <1>3, FramesMove

LEMMA RewriteChecksumsInv ==
    ASSUME Shape, LogInv, NEW c \in Conns, RewriteChecksums(c)
    PROVE  Shape' /\ LogInv'
<1>1. ConnShape(conn[c]) /\ conn[c].pc = "checksums" /\ UNCHANGED idx /\ WalShape
  BY DEF RewriteChecksums, At, Shape
<1>2. PICK v : /\ v = (IF conn[c].iReCksum <= wal.valid + 1 THEN NextFrame(c) - 1 ELSE wal.valid)
               /\ v \in Nat
  BY <1>1, FrameNumbers DEF WalShape
<1>3. wal' = [wal EXCEPT !.valid = v]
  BY <1>1, <1>2 DEF RewriteChecksums, WalShape
<1>4. WalShape'
  BY <1>1, <1>2, <1>3 DEF WalShape
<1>5. PICK r : r = [conn[c] EXCEPT !.pc = "append", !.iReCksum = 0]
  OBVIOUS
<1>6. ConnShape(r) /\ r.pc = "append" /\ SameCore(r, conn[c])
  BY <1>1, <1>5 DEF ConnShape, SameCore, SameLocks
<1>7. Set(c, r)
  BY <1>5 DEF RewriteChecksums
<1> QED BY <1>1, <1>4, <1>6, <1>7, FramesMove

\* walRestartLog, when no checkpoint is going on.
LEMMA RestartLogInv ==
    ASSUME Shape, LogInv, NEW c \in Conns, RestartLog(c), idx' # idx => CkptFree
    PROVE  Shape' /\ LogInv'
<1>1. /\ WalShape' /\ IdxShape /\ ConnShape(conn[c]) /\ conn[c].pc = "restart" /\ LocksOf(c)
      /\ HdrShape(idx.hdr)
  BY SameWal DEF RestartLog, At, Shape, LogInv, IdxShape
<1>2. ~conn[c].ckptLock /\ ~conn[c].lock0 /\ conn[c].readLock = 0
  BY <1>1 DEF LocksOf, WriteSteps, CopySteps
<1>3. CASE idx.nBackfill > 0 /\ \A i \in 1..Marks : ReadFree(i)
  <2>0. PICK salt : salt = idx.hdr.salt + 1 /\ salt \in Nat
    BY <1>1 DEF HdrShape
  <2>1. PICK hdr : hdr = [idx.hdr EXCEPT !.mxFrame = 0, !.salt = salt]
    OBVIOUS
  <2>2. HdrShape(hdr) /\ hdr.mxFrame = 0 /\ hdr.salt = idx.hdr.salt + 1
    <3>1. HdrShape(hdr) /\ hdr.mxFrame = 0 /\ hdr.salt = salt
      BY <1>1, <2>0, <2>1 DEF HdrShape
    <3> QED BY <2>0, <3>1
  <2>5. PICK r : r = [conn[c] EXCEPT !.pc = "ckptInfo", !.hdr = hdr]
    OBVIOUS
  <2>6. Set(c, r) /\ idx' = [idx EXCEPT !.hdr = hdr]
    <3>1. hdr = [idx.hdr EXCEPT !.mxFrame = 0, !.salt = @ + 1]
      BY <1>1, <2>0, <2>1 DEF HdrShape
    <3> QED BY <1>3, <2>5, <3>1, Zenon DEF RestartLog
  <2>7. /\ idx'.isInit = idx.isInit /\ idx'.hdr = hdr /\ idx'.nBackfill = idx.nBackfill
        /\ idx'.mark = idx.mark
        /\ idx' = [isInit |-> idx'.isInit, hdr |-> idx'.hdr, pgno |-> idx'.pgno,
                   nBackfill |-> idx'.nBackfill, mark |-> idx'.mark]
    BY <1>1, <2>6 DEF IdxShape
  <2>8. IdxShape'
    BY <1>1, <2>2, <2>7 DEF IdxShape
  <2>9. CkptFree
    <3>1. idx'.hdr.salt # idx.hdr.salt
      BY <1>1, <2>2, <2>7 DEF HdrShape
    <3> QED BY <3>1
  <2>10. ConnShape(r)
    BY <1>1, <2>2, <2>5 DEF ConnShape
  <2>11. /\ r.pc = "ckptInfo" /\ r.readLock = 0 /\ r.hdr = hdr /\ r.writeLock = conn[c].writeLock
         /\ ~r.ckptLock /\ ~r.lock0
    BY <1>1, <1>2, <2>5 DEF ConnShape
  <2>12. Shape' /\ Numbers /\ Numbers' /\ Becomes(c, r)
    BY <1>1, <2>6, <2>8, <2>10, SetBecomes
  <2>13. LogInv'
    BY <1>1, <1>3, <2>2, <2>7, <2>9, <2>11, <2>12, Restarts
  <2> QED BY <2>12, <2>13
<1>4. CASE ~(idx.nBackfill > 0 /\ \A i \in 1..Marks : ReadFree(i))
  <2>1. PICK r : r = [conn[c] EXCEPT !.pc = "pick", !.readLock = -1]
    OBVIOUS
  <2>2. Set(c, r) /\ UNCHANGED idx
    BY <1>4, <2>1, Zenon DEF RestartLog
  <2>3. IdxShape' /\ SameIdx
    BY <2>2, SameIndex
  <2>4. ConnShape(r)
    <3>1. -1 \in -1..Marks
      OBVIOUS
    <3> QED BY <1>1, <2>1, <3>1 DEF ConnShape
  <2>5. /\ r.pc = "pick" /\ r.readLock = -1 /\ r.hdr = conn[c].hdr
        /\ r.writeLock = conn[c].writeLock /\ ~r.ckptLock /\ ~r.lock0
    BY <1>1, <1>2, <2>1 DEF ConnShape
  <2>6. Shape' /\ Numbers /\ Numbers' /\ Becomes(c, r)
    BY <1>1, <2>2, <2>3, <2>4, SetBecomes
  <2>7. LogInv'
    BY <1>1, <2>3, <2>5, <2>6, ReadsAgain
  <2> QED BY <2>6, <2>7
<1> QED BY <1>3, <1>4

LEMMA ResetCkptInfoInv ==
    ASSUME Shape, LogInv, NEW c \in Conns, ResetCkptInfo(c)
    PROVE  Shape' /\ LogInv'
<1>1. /\ WalShape' /\ IdxShape /\ ConnShape(conn[c]) /\ conn[c].pc = "ckptInfo" /\ LocksOf(c)
  BY SameWal DEF ResetCkptInfo, At, Shape, LogInv
<1>2. ~conn[c].ckptLock /\ ~conn[c].lock0
  BY <1>1 DEF LocksOf, WriteSteps, CopySteps
<1>3. PICK mark : /\ mark = [i \in 1..Marks |-> IF i = 1 THEN 0 ELSE READMARK_NOT_USED]
                  /\ mark \in [1..Marks -> Nat]
  <2>1. PICK n \in Nat : n = READMARK_NOT_USED
    BY ReadMarkNat
  <2>2. [i \in 1..Marks |-> IF i = 1 THEN 0 ELSE n] \in [1..Marks -> Nat]
    OBVIOUS
  <2> QED BY <2>1, <2>2
<1>4. PICK r : r = [conn[c] EXCEPT !.pc = "pick", !.readLock = -1]
  OBVIOUS
<1>5. Set(c, r) /\ idx' = [idx EXCEPT !.nBackfill = 0, !.mark = mark]
  BY <1>3, <1>4, Zenon DEF ResetCkptInfo
<1>6. /\ idx'.isInit = idx.isInit /\ idx'.hdr = idx.hdr /\ idx'.nBackfill = 0 /\ idx'.mark = mark
      /\ idx' = [isInit |-> idx'.isInit, hdr |-> idx'.hdr, pgno |-> idx'.pgno,
                 nBackfill |-> idx'.nBackfill, mark |-> idx'.mark]
  BY <1>1, <1>5 DEF IdxShape
<1>7. IdxShape'
  BY <1>1, <1>3, <1>6 DEF IdxShape
<1>8. ConnShape(r)
  <2>1. -1 \in -1..Marks
    OBVIOUS
  <2> QED BY <1>1, <1>4, <2>1 DEF ConnShape
<1>9. /\ r.pc = "pick" /\ r.readLock = -1 /\ r.hdr = conn[c].hdr
      /\ r.writeLock = conn[c].writeLock /\ ~r.ckptLock /\ ~r.lock0
  BY <1>1, <1>2, <1>4 DEF ConnShape
<1>10. Shape' /\ Numbers /\ Numbers' /\ Becomes(c, r)
  BY <1>1, <1>5, <1>7, <1>8, SetBecomes
<1>11. LogInv'
  BY <1>1, <1>6, <1>9, <1>10, Resets
<1> QED BY <1>10, <1>11

\* The table of pages does not matter.
LEMMA PgnoShape ==
    ASSUME Shape, idx' = idx \/ \E pgno : idx' = [idx EXCEPT !.pgno = pgno]
    PROVE  IdxShape' /\ SameIdx
<1>1. IdxShape
  BY DEF Shape
<1>2. CASE idx' = idx
  BY <1>1, <1>2 DEF IdxShape, HdrShape, SameIdx
<1>3. CASE \E pgno : idx' = [idx EXCEPT !.pgno = pgno]
  <2>1. SameIdx /\ idx' = [isInit |-> idx'.isInit, hdr |-> idx'.hdr, pgno |-> idx'.pgno,
                           nBackfill |-> idx'.nBackfill, mark |-> idx'.mark]
    BY <1>1, <1>3 DEF IdxShape, SameIdx
  <2>2. IdxShape'
    BY <1>1, <2>1 DEF IdxShape, HdrShape, SameIdx
  <2> QED BY <2>1, <2>2
<1> QED BY <1>2, <1>3

LEMMA AppendIndexInv ==
    ASSUME Shape, LogInv, NEW c \in Conns, AppendIndex(c)
    PROVE  Shape' /\ LogInv'
<1>1. /\ WalShape' /\ IdxShape /\ ConnShape(conn[c]) /\ conn[c].pc = "append"
      /\ HdrShape(conn[c].hdr) /\ IsSeq(conn[c].appended)
  BY SameWal DEF AppendIndex, At, Shape, ConnShape
<1>2. IdxShape' /\ SameIdx
  <2>1. idx' = idx \/ \E pgno : idx' = [idx EXCEPT !.pgno = pgno]
    BY DEF AppendIndex
  <2> QED BY <2>1, PgnoShape
<1>3. PICK n : n = Len(conn[c].appended) /\ n \in Nat
  BY <1>1, AppendIsSeq
<1>0. PICK m : m = conn[c].hdr.mxFrame + n /\ m \in Nat /\ m >= conn[c].hdr.mxFrame
  <2>1. conn[c].hdr.mxFrame \in Nat
    BY <1>1 DEF HdrShape
  <2> QED BY <1>3, <2>1, SumNat
<1>4. PICK h : h = [conn[c].hdr EXCEPT !.mxFrame = m]
  OBVIOUS
<1>5. HdrShape(h) /\ h.salt = conn[c].hdr.salt /\ h.mxFrame >= conn[c].hdr.mxFrame
  <2>1. HdrShape(h) /\ h.salt = conn[c].hdr.salt /\ h.mxFrame = m
    BY <1>0, <1>1, <1>4 DEF HdrShape
  <2> QED BY <1>0, <2>1
<1>6. PICK s : s = <<>> /\ IsSeq(s)
  BY EmptyIsSeq, Zenon
<1>7. h = [conn[c].hdr EXCEPT !.mxFrame = @ + Len(conn[c].appended)]
  BY <1>0, <1>1, <1>3, <1>4 DEF HdrShape
<1>8. PICK r : /\ Set(c, r) /\ ConnShape(r) /\ r.pc \in {"write", "publish"}
               /\ SameLocks(r, conn[c]) /\ r.hdr.salt = conn[c].hdr.salt
               /\ r.hdr.mxFrame >= conn[c].hdr.mxFrame
  <2>1. CASE IsCommit(c)
    <3>1. PICK g : g = [h EXCEPT !.nPage = conn[c].size]
      OBVIOUS
    <3>2. HdrShape(g) /\ g.salt = conn[c].hdr.salt /\ g.mxFrame >= conn[c].hdr.mxFrame
      BY <1>5, <3>1 DEF HdrShape
    <3>3. PICK r : r = [conn[c] EXCEPT !.pc = "publish", !.appended = s, !.dirty = s, !.hdr = g]
      OBVIOUS
    <3>4. Set(c, r)
      BY <1>6, <1>7, <2>1, <3>1, <3>3, Zenon DEF AppendIndex
    <3>5. ConnShape(r)
      BY <1>1, <1>6, <3>2, <3>3 DEF ConnShape
    <3>6. r.pc = "publish" /\ SameLocks(r, conn[c]) /\ r.hdr = g
      BY <1>1, <3>3 DEF ConnShape, SameLocks
    <3> QED BY <3>2, <3>4, <3>5, <3>6
  <2>2. CASE ~IsCommit(c)
    <3>1. PICK dirty : dirty = Without(conn[c].dirty, conn[c].spill)
      OBVIOUS
    <3>2. PICK r : r = [conn[c] EXCEPT !.pc = "write", !.appended = s, !.hdr = h, !.spill = 0,
                                       !.dirty = dirty]
      OBVIOUS
    <3>3. Set(c, r)
      <4>1. Set(c, [conn[c] EXCEPT !.pc = "write", !.appended = s, !.hdr = h, !.spill = 0,
                                   !.dirty = Without(@, conn[c].spill)])
        BY <1>6, <1>7, <2>2, Zenon DEF AppendIndex
      <4> QED BY <1>1, <3>1, <3>2, <4>1 DEF ConnShape
    <3>4. ConnShape(r)
      BY <1>1, <1>5, <1>6, <3>2 DEF ConnShape
    <3>5. r.pc = "write" /\ SameLocks(r, conn[c]) /\ r.hdr = h
      BY <1>1, <3>2 DEF ConnShape, SameLocks
    <3> QED BY <1>5, <3>3, <3>4, <3>5
  <2> QED BY <2>1, <2>2
<1>9. Shape' /\ Numbers /\ Numbers' /\ Becomes(c, r)
  BY <1>1, <1>2, <1>8, SetBecomes
<1>10. LogInv'
  BY <1>1, <1>2, <1>8, <1>9, Grows
<1> QED BY <1>9, <1>10

LEMMA PublishInv ==
    ASSUME Shape, LogInv, NEW c \in Conns, Publish(c)
    PROVE  Shape' /\ LogInv'
<1>1. /\ WalShape' /\ IdxShape /\ ConnShape(conn[c]) /\ conn[c].pc = "publish"
      /\ HdrShape(conn[c].hdr)
  BY SameWal DEF Publish, At, Shape, ConnShape
<1>2. /\ idx'.isInit = idx.isInit /\ idx'.hdr = conn[c].hdr /\ idx'.nBackfill = idx.nBackfill
      /\ idx'.mark = idx.mark
      /\ idx' = [isInit |-> idx'.isInit, hdr |-> idx'.hdr, pgno |-> idx'.pgno,
                 nBackfill |-> idx'.nBackfill, mark |-> idx'.mark]
  BY <1>1 DEF IdxShape, Publish
<1>3. IdxShape'
  BY <1>1, <1>2 DEF IdxShape
<1>4. PICK r : r = [conn[c] EXCEPT !.pc = "read", !.writeLock = FALSE, !.iFirst = 0, !.size = 0]
  OBVIOUS
<1>5. ConnShape(r)
  BY <1>1, <1>4 DEF ConnShape
<1>6. /\ r.pc = "read" /\ ~r.writeLock /\ r.hdr = conn[c].hdr /\ r.readLock = conn[c].readLock
      /\ r.ckptLock = conn[c].ckptLock /\ r.lock0 = conn[c].lock0
  BY <1>1, <1>4 DEF ConnShape
<1>7. Shape' /\ Numbers /\ Numbers' /\ Becomes(c, r)
  BY <1>1, <1>3, <1>4, <1>5, SetBecomes DEF Publish
<1>8. LogInv'
  BY <1>1, <1>2, <1>6, <1>7, Publishes
<1> QED BY <1>7, <1>8

LEMMA RollbackInv ==
    ASSUME Shape, LogInv, NEW c \in Conns, Rollback(c)
    PROVE  Shape' /\ LogInv'
<1>1. /\ WalShape' /\ ConnShape(conn[c]) /\ conn[c].pc \in {"write", "undo"}
      /\ HdrShape(idx.hdr) /\ conn[c].readLock \in -1..Marks
  BY SameWal DEF Rollback, Shape, ConnShape, IdxShape
<1>2. IdxShape' /\ SameIdx
  <2>1. idx' = idx \/ \E pgno : idx' = [idx EXCEPT !.pgno = pgno]
    BY DEF Rollback
  <2> QED BY <2>1, PgnoShape
<1>3. PICK q : q = Closed /\ ConnShape(q) /\ ~q.writeLock /\ ~q.ckptLock /\ ~q.lock0
  BY ClosedShape DEF Closed
<1>4. PICK r : r = [q EXCEPT !.pc = "read", !.hdr = idx.hdr, !.readLock = conn[c].readLock,
                             !.minFrame = conn[c].minFrame]
  OBVIOUS
<1>5. ConnShape(r)
  BY <1>1, <1>3, <1>4 DEF ConnShape
<1>6. /\ r.pc = "read" /\ ~r.writeLock /\ r.hdr = idx.hdr /\ r.readLock = conn[c].readLock
      /\ ~r.ckptLock /\ ~r.lock0
  BY <1>3, <1>4 DEF ConnShape
<1>7. Set(c, r)
  BY <1>3, <1>4 DEF Rollback
<1>8. Shape' /\ Numbers /\ Numbers' /\ Becomes(c, r)
  BY <1>1, <1>2, <1>5, <1>7, SetBecomes
<1>9. LogInv'
  BY <1>1, <1>2, <1>6, <1>8, RollsBack
<1> QED BY <1>8, <1>9

\* A crash leaves a log whose lengths are numbers, and nothing open.
LEMMA ClosedInv ==
    ASSUME WalShape', AllClosed
    PROVE  Shape' /\ LogInv'
<1>1. conn' = [d \in Conns |-> conn'[d]] /\ \A d \in Conns : conn'[d] = Closed
  BY DEF AllClosed
<1>2. \A d \in Conns : ConnShape(conn'[d])
  BY <1>1, ClosedShape
<1>3. IdxShape'
  BY ReadMarkNat DEF AllClosed, IdxShape, NoIndex, HdrShape, NoHdr
<1>4. Shape'
  BY <1>1, <1>2, <1>3 DEF Shape
<1>5. Numbers'
  BY <1>4, ShapeNumbers, PTL
<1>6. LogInv'
  BY <1>1, <1>5, AllClosedInv DEF AllClosed
<1> QED BY <1>4, <1>6

LEMMA CrashInv ==
    ASSUME Shape, Crash \/ PowerLoss
    PROVE  Shape' /\ LogInv'
<1>1. CASE Crash
  BY <1>1, SameWal, ClosedInv DEF Crash
<1>2. CASE PowerLoss
  <2>1. PICK k \in Remains :
            wal' = [frames |-> SubSeq(wal.frames, 1, k), valid |-> k, synced |-> k]
    BY <1>2 DEF PowerLoss
  <2>2. wal.synced \in Nat /\ wal.valid \in Nat
    BY DEF Shape, WalShape
  <2>3. k \in Nat
    BY <2>1, <2>2 DEF Remains
  <2>4. WalShape'
    BY <2>1, <2>3, WalBecomes
  <2> QED BY <1>2, <2>4, ClosedInv DEF PowerLoss
<1> QED BY <1>1, <1>2

-----------------------------------------------------------------------------
(***************************************************************************)
(* The chain of checksums                                                  *)
(***************************************************************************)
\* ChainOf for a connection r, when v frames are valid and m are committed.
FrameSteps == {"frames", "checksums", "append", "undo", "error"}
ChainRecord(r, v, m) ==
    /\ r.pc \notin FrameSteps => r.appended = <<>>
    /\ r.pc = "header" => r.hdr.mxFrame = 0
    /\ r.pc = "publish" \/ (r.pc = "append" /\ r.spill = 0) => r.iReCksum = 0
    /\ r.iFirst > 0 => r.writeLock /\ r.iFirst > m
    /\ r.iReCksum > 0 => /\ r.writeLock /\ r.iReCksum > m /\ r.iReCksum <= r.hdr.mxFrame
                         /\ r.pc \notin {"undo", "error"} => r.iReCksum <= v + 1
    /\ r.writeLock /\ r.iReCksum = 0 /\ r.pc \notin {"header", "undo", "error"} =>
           r.hdr.mxFrame + Len(r.appended) + 1 <= v + 1

LEMMA ChainOfRecord ==
    ASSUME NEW c \in Conns
    PROVE  /\ ChainOf(c) <=> ChainRecord(conn[c], wal.valid, idx.hdr.mxFrame)
           /\ ChainOf(c)' <=> ChainRecord(conn'[c], wal'.valid, idx'.hdr.mxFrame)
BY DEF ChainOf, ChainRecord, FrameSteps, At, IsCommit, NextFrame

\* One connection takes a step; the log and the header change for others only if they
\* are not writing.
LEMMA ChainStep ==
    ASSUME ChainInv, NEW c \in Conns, NEW r, Becomes(c, r),
           ChainRecord(r, wal'.valid, idx'.hdr.mxFrame),
           \A d \in Conns \ {c} :
               conn[d].writeLock => wal'.valid = wal.valid /\ idx'.hdr = idx.hdr,
           idx'.hdr.mxFrame <= wal'.valid, idx'.nBackfill <= wal'.synced,
           r.lock0 => r.mxSafeFrame <= wal'.synced,
           \A d \in Conns \ {c} : conn[d].lock0 => conn[d].mxSafeFrame <= wal'.synced
    PROVE  ChainInv'
<1>1. DurableBeforeCopied'
  BY DEF DurableBeforeCopied, Becomes
<1>2. ASSUME NEW d \in Conns PROVE ChainOf(d)'
  <2>1. CASE d = c
    <3>1. ChainRecord(conn'[d], wal'.valid, idx'.hdr.mxFrame)
      BY <2>1 DEF Becomes
    <3> QED BY <3>1, ChainOfRecord
  <2>2. CASE d # c
    <3>1. conn'[d] = conn[d] /\ ChainRecord(conn[d], wal.valid, idx.hdr.mxFrame)
      BY <2>2, ChainOfRecord DEF Becomes, ChainInv
    <3>2. ChainRecord(conn[d], wal'.valid, idx'.hdr.mxFrame)
      BY <2>2, <3>1 DEF ChainRecord
    <3> QED BY <3>1, <3>2, ChainOfRecord
  <2> QED BY <2>1, <2>2
<1> QED BY <1>1, <1>2 DEF ChainInv

\* A step that leaves the log, the header and nBackfill alone.
Quiet(c, r) ==
    /\ Becomes(c, r) /\ wal' = wal
    /\ idx'.hdr = idx.hdr /\ idx'.nBackfill = idx.nBackfill
    /\ r.lock0 => conn[c].lock0 /\ r.mxSafeFrame = conn[c].mxSafeFrame

LEMMA ChainQuiet ==
    ASSUME ChainInv, NEW c \in Conns, NEW r, Quiet(c, r),
           ChainRecord(r, wal.valid, idx.hdr.mxFrame)
    PROVE  ChainInv'
<1>1. DurableBeforeCopied
  BY DEF ChainInv
<1>2. /\ Becomes(c, r) /\ wal'.valid = wal.valid /\ wal'.synced = wal.synced
      /\ idx'.hdr = idx.hdr /\ idx'.nBackfill = idx.nBackfill
  BY DEF Quiet
<1>3. /\ idx'.hdr.mxFrame <= wal'.valid /\ idx'.nBackfill <= wal'.synced
      /\ \A d \in Conns : conn[d].lock0 => conn[d].mxSafeFrame <= wal'.synced
  BY <1>1, <1>2 DEF DurableBeforeCopied
<1>4. r.lock0 => r.mxSafeFrame <= wal'.synced
  BY <1>3 DEF Quiet
<1>5. ChainRecord(r, wal'.valid, idx'.hdr.mxFrame)
  BY <1>2
<1> QED BY <1>2, <1>3, <1>4, <1>5, ChainStep

\* Who is not writing needs little.
LEMMA ChainOfReader ==
    ASSUME NEW r, NEW v, NEW m, ~r.writeLock, ~(r.iFirst > 0), ~(r.iReCksum > 0), r.appended = <<>>,
           r.pc \notin {"header", "publish", "append"}
    PROVE  ChainRecord(r, v, m)
BY DEF ChainRecord

LEMMA ChainClosed == \A v, m : ChainRecord(Closed, v, m)
BY DEF ChainRecord, Closed

\* A writer that keeps its frames.
SameFrames(r, q) ==
    /\ r.hdr = q.hdr /\ r.appended = q.appended /\ r.writeLock = q.writeLock
    /\ r.iFirst = q.iFirst /\ r.iReCksum = q.iReCksum

LEMMA ChainKept ==
    ASSUME NEW r, NEW q, NEW v, NEW m, ChainRecord(q, v, m), SameFrames(r, q),
           q.pc \notin FrameSteps \cup {"header", "publish"},
           r.pc \notin FrameSteps \cup {"header", "publish"}
    PROVE  ChainRecord(r, v, m)
BY DEF ChainRecord, SameFrames, FrameSteps

LEMMA SetsConn ==
    ASSUME Shape, NEW c \in Conns, NEW r, Set(c, r)
    PROVE  Becomes(c, r)
BY DEF Becomes, Set, Shape

\* What a connection outside the steps of a writer has.
LEMMA NotWriting ==
    ASSUME LogInv, ChainInv, NEW c \in Conns, conn[c].pc \notin WriteSteps \cup {"pick", "lock"}
    PROVE  ~conn[c].writeLock /\ ~(conn[c].iFirst > 0) /\ ~(conn[c].iReCksum > 0) /\ conn[c].appended = <<>>
<1>1. LocksOf(c) /\ ChainRecord(conn[c], wal.valid, idx.hdr.mxFrame)
  BY ChainOfRecord DEF LogInv, ChainInv
<1>2. ~conn[c].writeLock
  BY <1>1 DEF LocksOf
<1>3. conn[c].pc \notin FrameSteps
  BY DEF FrameSteps, WriteSteps
<1> QED BY <1>1, <1>2, <1>3 DEF ChainRecord

\* walIndexReadHdr: recovery finds no more than what is valid.
LEMMA ReadHdrChain ==
    ASSUME Shape, LogInv, ChainInv, ReadHdr, UNCHANGED wal, NEW c \in Conns, NEW r, Becomes(c, r),
           ~r.writeLock, ~r.lock0, ~(r.iFirst > 0), ~(r.iReCksum > 0), r.appended = <<>>,
           r.pc \in {"lock0", "pick", "iterate"}
    PROVE  ChainInv'
<1>1. \A v, m : ChainRecord(r, v, m)
  BY ChainOfReader
<1>2. CASE idx.isInit
  <2>1. idx' = idx
    BY <1>2 DEF ReadHdr
  <2>2. Quiet(c, r)
    BY <2>1 DEF Quiet
  <2> QED BY <1>1, <2>2, ChainQuiet
<1>3. CASE ~idx.isInit
  <2>1. \A d \in Conns : conn[d] = Closed
    BY <1>3 DEF LogInv, ClosedUntilInit
  <2>2. \A d \in Conns : ~conn[d].writeLock /\ ~conn[d].lock0
    BY <2>1 DEF Closed
  <2>3. wal.valid \in Nat /\ wal.synced \in Nat
    BY DEF Shape, WalShape
  <2>4. PICK h : h = RecoveredHdr(wal.valid) /\ h.mxFrame <= wal.valid
    BY <2>3, RecoveredHdrShape
  <2>5. idx'.hdr = h /\ idx'.nBackfill = 0
    BY <1>3, <2>4 DEF ReadHdr, RecoveredIndex
  <2>6. idx'.hdr.mxFrame <= wal'.valid /\ idx'.nBackfill <= wal'.synced
    BY <2>3, <2>4, <2>5
  <2> QED BY <1>1, <2>2, <2>6, ChainStep
<1> QED BY <1>2, <1>3

LEMMA TryHdrChain ==
    ASSUME Shape, LogInv, ChainInv, NEW c \in Conns, TryHdr(c)
    PROVE  ChainInv'
<1>1. ConnShape(conn[c]) /\ conn[c].pc = "idle" /\ LocksOf(c) /\ ReadHdr /\ UNCHANGED wal
  BY DEF TryHdr, At, Shape, LogInv
<1>2. PICK r : r = [conn[c] EXCEPT !.hdr = idx'.hdr,
                   !.pc = IF idx'.nBackfill = idx'.hdr.mxFrame THEN "lock0" ELSE "pick"]
  OBVIOUS
<1>3. /\ r.pc \in {"lock0", "pick"} /\ r.writeLock = conn[c].writeLock
      /\ r.lock0 = conn[c].lock0 /\ r.appended = conn[c].appended
      /\ r.iFirst = conn[c].iFirst /\ r.iReCksum = conn[c].iReCksum
  BY <1>1, <1>2 DEF ConnShape
<1>4. ~conn[c].writeLock /\ ~(conn[c].iFirst > 0) /\ ~(conn[c].iReCksum > 0) /\ conn[c].appended = <<>>
  BY <1>1, NotWriting DEF WriteSteps
<1>5. ~conn[c].lock0
  BY <1>1 DEF LocksOf, CopySteps
<1>6. Becomes(c, r)
  BY <1>2, SetsConn DEF TryHdr
<1> QED BY <1>1, <1>3, <1>4, <1>5, <1>6, ReadHdrChain

LEMMA CheckpointChain ==
    ASSUME Shape, LogInv, ChainInv, NEW c \in Conns, Checkpoint(c)
    PROVE  ChainInv'
<1>1. ConnShape(conn[c]) /\ conn[c].pc = "idle" /\ LocksOf(c) /\ ReadHdr /\ UNCHANGED wal
  BY DEF Checkpoint, At, Shape, LogInv
<1>2. PICK r : r = [conn[c] EXCEPT !.pc = "iterate", !.ckptLock = TRUE, !.hdr = idx'.hdr]
  OBVIOUS
<1>3. /\ r.pc = "iterate" /\ r.writeLock = conn[c].writeLock
      /\ r.lock0 = conn[c].lock0 /\ r.appended = conn[c].appended
      /\ r.iFirst = conn[c].iFirst /\ r.iReCksum = conn[c].iReCksum
  BY <1>1, <1>2 DEF ConnShape
<1>4. ~conn[c].writeLock /\ ~(conn[c].iFirst > 0) /\ ~(conn[c].iReCksum > 0) /\ conn[c].appended = <<>>
  BY <1>1, NotWriting DEF WriteSteps
<1>5. ~conn[c].lock0
  BY <1>1 DEF LocksOf, CopySteps
<1>6. Becomes(c, r)
  BY <1>2, SetsConn DEF Checkpoint
<1> QED BY <1>1, <1>3, <1>4, <1>5, <1>6, ReadHdrChain

LEMMA CloseChain ==
    ASSUME Shape, ChainInv, NEW c \in Conns, Set(c, Closed), UNCHANGED <<wal, idx>>
    PROVE  ChainInv'
<1>1. Becomes(c, Closed)
  BY SetsConn
<1>2. ~Closed.lock0
  BY DEF Closed
<1>3. Quiet(c, Closed)
  BY <1>1, <1>2 DEF Quiet
<1> QED BY <1>3, ChainClosed, ChainQuiet

\* walTryBeginRead, by a reader or by a writer that starts the log again.
LEMMA RetryChain ==
    ASSUME LogInv, NEW c \in Conns, ConnShape(conn[c]), conn[c].pc \in {"pick", "lock"},
           NEW v, NEW m, ChainRecord(conn[c], v, m)
    PROVE  ChainRecord(Retry(c), v, m) /\ ~Retry(c).lock0
<1>1. ~conn[c].lock0
  BY DEF LogInv, LocksOf, CopySteps
<1>2. CASE conn[c].writeLock
  <2>1. /\ SameFrames(Retry(c), conn[c]) /\ Retry(c).pc = "pick"
        /\ Retry(c).lock0 = conn[c].lock0
    BY <1>2 DEF Retry, ConnShape, SameFrames
  <2>2. ChainRecord(Retry(c), v, m)
    BY <2>1, ChainKept DEF FrameSteps
  <2> QED BY <1>1, <2>1, <2>2
<1>3. CASE ~conn[c].writeLock
  <2>1. Retry(c) = Closed /\ ~Closed.lock0
    BY <1>3 DEF Retry, Closed
  <2> QED BY <2>1, ChainClosed
<1> QED BY <1>2, <1>3

LEMMA Lock0Chain ==
    ASSUME Shape, LogInv, ChainInv, NEW c \in Conns, Lock0(c)
    PROVE  ChainInv'
<1>1. /\ ConnShape(conn[c]) /\ conn[c].pc = "lock0" /\ LocksOf(c) /\ UNCHANGED <<wal, idx>>
      /\ ChainRecord(conn[c], wal.valid, idx.hdr.mxFrame)
  BY ChainOfRecord DEF Lock0, At, Shape, LogInv, ChainInv
<1>2. /\ ~conn[c].writeLock /\ ~(conn[c].iFirst > 0) /\ ~(conn[c].iReCksum > 0)
      /\ conn[c].appended = <<>> /\ ~conn[c].lock0
  BY <1>1, NotWriting DEF WriteSteps, LocksOf, CopySteps
<1>3. CASE Set(c, Closed)
  BY <1>1, <1>3, CloseChain
<1>4. ASSUME NEW r, r \in {[conn[c] EXCEPT !.pc = "pick"], [Reading(c) EXCEPT !.readLock = 0]},
             Set(c, r)
      PROVE  ChainInv'
  <2>1. /\ r.pc \in {"pick", "read"} /\ r.writeLock = conn[c].writeLock
        /\ r.lock0 = conn[c].lock0 /\ r.appended = conn[c].appended
        /\ r.iFirst = conn[c].iFirst /\ r.iReCksum = conn[c].iReCksum
    <3>1. CASE r = [conn[c] EXCEPT !.pc = "pick"]
      BY <1>1, <3>1 DEF ConnShape
    <3>2. CASE r = [Reading(c) EXCEPT !.readLock = 0]
      <4>1. Reading(c) = [conn[c] EXCEPT !.pc = "read", !.mxI = 0, !.mxReadMark = 0]
        BY <1>2 DEF Reading
      <4> QED BY <1>1, <3>2, <4>1 DEF ConnShape
    <3> QED BY <1>4, <3>1, <3>2
  <2>2. ChainRecord(r, wal.valid, idx.hdr.mxFrame)
    BY <1>2, <2>1, ChainOfReader
  <2>3. Becomes(c, r)
    BY <1>4, SetsConn
  <2>4. Quiet(c, r)
    BY <1>1, <1>2, <2>1, <2>3 DEF Quiet
  <2> QED BY <2>2, <2>4, ChainQuiet
<1>5. Retry(c) = Closed
  BY <1>2 DEF Retry
<1> QED BY <1>3, <1>4, <1>5 DEF Lock0

LEMMA PickMarkChain ==
    ASSUME Shape, LogInv, ChainInv, NEW c \in Conns, PickMark(c)
    PROVE  ChainInv'
<1>1. /\ ConnShape(conn[c]) /\ conn[c].pc = "pick" /\ UNCHANGED wal /\ IdxShape
      /\ ChainRecord(conn[c], wal.valid, idx.hdr.mxFrame)
  BY ChainOfRecord DEF PickMark, At, Shape, ChainInv
<1>2. ~conn[c].lock0
  BY <1>1 DEF LogInv, LocksOf, CopySteps
<1>3. idx'.hdr = idx.hdr /\ idx'.nBackfill = idx.nBackfill
  BY <1>1 DEF PickMark, IdxShape
<1>4. \/ Set(c, Retry(c))
      \/ \E n, k : Set(c, [conn[c] EXCEPT !.pc = "lock", !.mxI = n, !.mxReadMark = k])
  BY DEF PickMark
<1>5. CASE Set(c, Retry(c))
  <2>1. Becomes(c, Retry(c))
    BY <1>5, SetsConn
  <2>2. ChainRecord(Retry(c), wal.valid, idx.hdr.mxFrame) /\ ~Retry(c).lock0
    BY <1>1, RetryChain
  <2>3. Quiet(c, Retry(c))
    BY <1>1, <1>3, <2>1, <2>2 DEF Quiet
  <2> QED BY <2>2, <2>3, ChainQuiet
<1>6. CASE \E n, k : Set(c, [conn[c] EXCEPT !.pc = "lock", !.mxI = n, !.mxReadMark = k])
  <2>1. PICK n, k : Set(c, [conn[c] EXCEPT !.pc = "lock", !.mxI = n, !.mxReadMark = k])
    BY <1>6
  <2>2. PICK r : r = [conn[c] EXCEPT !.pc = "lock", !.mxI = n, !.mxReadMark = k]
    OBVIOUS
  <2>3. SameFrames(r, conn[c]) /\ r.pc = "lock" /\ r.lock0 = conn[c].lock0
    BY <1>1, <2>2 DEF ConnShape, SameFrames
  <2>4. ChainRecord(r, wal.valid, idx.hdr.mxFrame)
    BY <1>1, <2>3, ChainKept DEF FrameSteps
  <2>5. Becomes(c, r)
    BY <2>1, <2>2, SetsConn
  <2>6. Quiet(c, r)
    BY <1>1, <1>2, <1>3, <2>3, <2>5 DEF Quiet
  <2> QED BY <2>4, <2>6, ChainQuiet
<1> QED BY <1>4, <1>5, <1>6

\* A writer has nothing appended yet where it starts with the header or the frames.
LEMMA FirstStepChain ==
    ASSUME NEW r, NEW q, NEW v, NEW m, ChainRecord(q, v, m), SameFrames(r, q),
           q.pc \in {"lock", "write"}, r.pc = FirstStep(r.hdr), r.writeLock
    PROVE  ChainRecord(r, v, m)
<1>1. q.appended = <<>> /\ r.appended = <<>> /\ r.hdr = q.hdr
  BY DEF ChainRecord, SameFrames, FrameSteps
<1>2. \/ r.pc = "header" /\ r.hdr.mxFrame = 0
      \/ r.pc = "frames"
  BY DEF FirstStep
<1> QED BY <1>1, <1>2 DEF ChainRecord, SameFrames, FrameSteps

LEMMA LockMarkChain ==
    ASSUME Shape, LogInv, ChainInv, NEW c \in Conns, LockMark(c)
    PROVE  ChainInv'
<1>1. /\ ConnShape(conn[c]) /\ conn[c].pc = "lock" /\ UNCHANGED <<wal, idx>>
      /\ ChainRecord(conn[c], wal.valid, idx.hdr.mxFrame)
  BY ChainOfRecord DEF LockMark, At, Shape, ChainInv
<1>2. ~conn[c].lock0
  BY <1>1 DEF LogInv, LocksOf, CopySteps
<1>3. \/ Set(c, Retry(c))
      \/ \E n, k : Set(c, [Reading(c) EXCEPT !.readLock = n, !.minFrame = k])
  BY DEF LockMark
<1>4. CASE Set(c, Retry(c))
  <2>1. Becomes(c, Retry(c))
    BY <1>4, SetsConn
  <2>2. ChainRecord(Retry(c), wal.valid, idx.hdr.mxFrame) /\ ~Retry(c).lock0
    BY <1>1, RetryChain
  <2>3. Quiet(c, Retry(c))
    BY <1>1, <2>1, <2>2 DEF Quiet
  <2> QED BY <2>2, <2>3, ChainQuiet
<1>5. CASE \E n, k : Set(c, [Reading(c) EXCEPT !.readLock = n, !.minFrame = k])
  <2>1. PICK n, k : Set(c, [Reading(c) EXCEPT !.readLock = n, !.minFrame = k])
    BY <1>5
  <2>2. PICK r : r = [Reading(c) EXCEPT !.readLock = n, !.minFrame = k]
    OBVIOUS
  <2>3. PICK pc : pc = IF conn[c].writeLock THEN FirstStep(conn[c].hdr) ELSE "read"
    OBVIOUS
  <2>4. SameFrames(r, conn[c]) /\ r.pc = pc /\ r.lock0 = conn[c].lock0
    BY <1>1, <2>2, <2>3 DEF Reading, ConnShape, SameFrames
  <2>5. ChainRecord(r, wal.valid, idx.hdr.mxFrame)
    <3>1. CASE conn[c].writeLock
      <4>1. r.pc = FirstStep(r.hdr) /\ r.writeLock
        BY <2>3, <2>4, <3>1 DEF SameFrames
      <4> QED BY <1>1, <2>4, <4>1, FirstStepChain
    <3>2. CASE ~conn[c].writeLock
      BY <1>1, <2>3, <2>4, <3>2, ChainKept DEF FrameSteps
    <3> QED BY <3>1, <3>2
  <2>6. Becomes(c, r)
    BY <2>1, <2>2, SetsConn
  <2>7. Quiet(c, r)
    BY <1>1, <1>2, <2>4, <2>6 DEF Quiet
  <2> QED BY <2>5, <2>7, ChainQuiet
<1> QED BY <1>3, <1>4, <1>5

\* Nobody else writes.
LEMMA OneWriter ==
    ASSUME LogInv, NEW c \in Conns, conn[c].pc \in WriteSteps
    PROVE  conn[c].writeLock /\ ~conn[c].lock0 /\ \A d \in Conns \ {c} : ~conn[d].writeLock
<1>1. LocksOf(c) /\ LocksExclusive
  BY DEF LogInv
<1>2. conn[c].writeLock /\ ~conn[c].lock0
  BY <1>1 DEF LocksOf, WriteSteps, CopySteps
<1> QED BY <1>1, <1>2 DEF LocksExclusive

LEMMA BeginWriteChain ==
    ASSUME Shape, LogInv, ChainInv, NEW c \in Conns, BeginWrite(c)
    PROVE  ChainInv'
<1>1. /\ ConnShape(conn[c]) /\ conn[c].pc = "read" /\ UNCHANGED <<wal, idx>>
      /\ conn[c].hdr = idx.hdr
  BY DEF BeginWrite, At, Shape
<1>2. conn[c].appended = <<>> /\ ~(conn[c].iFirst > 0) /\ ~(conn[c].iReCksum > 0)
  BY <1>1, NotWriting DEF WriteSteps
<1>3. ~conn[c].lock0
  BY <1>1 DEF LogInv, LocksOf, CopySteps
<1>4. PICK r : r = [conn[c] EXCEPT !.pc = "write", !.writeLock = TRUE,
                                   !.size = DbSize(conn[c].hdr)]
  OBVIOUS
<1>5. /\ r.pc = "write" /\ r.hdr = conn[c].hdr /\ r.appended = conn[c].appended
      /\ r.iFirst = conn[c].iFirst /\ r.lock0 = conn[c].lock0
      /\ r.iReCksum = conn[c].iReCksum
  BY <1>1, <1>4 DEF ConnShape
<1>6. r.hdr.mxFrame + Len(r.appended) + 1 <= wal.valid + 1
  <2>1. PICK s : s = <<>> /\ Len(s) = 0
    OBVIOUS
  <2>2. Len(r.appended) = 0
    BY <1>2, <1>5, <2>1
  <2>3. r.hdr.mxFrame \in Nat /\ wal.valid \in Nat
    BY <1>1, <1>5 DEF Shape, WalShape, ConnShape, HdrShape
  <2>4. r.hdr.mxFrame <= wal.valid
    BY <1>1, <1>5 DEF ChainInv, DurableBeforeCopied
  <2> QED BY <2>2, <2>3, <2>4
<1>7. ChainRecord(r, wal.valid, idx.hdr.mxFrame)
  BY <1>2, <1>5, <1>6 DEF ChainRecord
<1>8. Becomes(c, r)
  BY <1>4, SetsConn DEF BeginWrite
<1>9. Quiet(c, r)
  BY <1>1, <1>3, <1>5, <1>8 DEF Quiet
<1> QED BY <1>7, <1>9, ChainQuiet

LEMMA ChangedChain ==
    ASSUME Shape, LogInv, ChainInv, NEW c \in Conns, NEW ps, NEW size, At(c, "write"),
           Set(c, Changed(c, ps, size)), UNCHANGED <<wal, idx>>
    PROVE  ChainInv'
<1>1. /\ ConnShape(conn[c]) /\ conn[c].pc = "write"
      /\ ChainRecord(conn[c], wal.valid, idx.hdr.mxFrame)
  BY ChainOfRecord DEF At, Shape, ChainInv
<1>2. PICK dirty : Set(c, [conn[c] EXCEPT !.dirty = dirty, !.size = size])
  BY DEF Changed
<1>3. PICK r : r = [conn[c] EXCEPT !.dirty = dirty, !.size = size]
  OBVIOUS
<1>4. SameFrames(r, conn[c]) /\ r.pc = "write" /\ r.lock0 = conn[c].lock0
  BY <1>1, <1>3 DEF ConnShape, SameFrames
<1>5. ChainRecord(r, wal.valid, idx.hdr.mxFrame)
  BY <1>1, <1>4, ChainKept DEF FrameSteps
<1>6. Becomes(c, r)
  BY <1>2, <1>3, SetsConn
<1>7. ~conn[c].lock0
  BY <1>1, OneWriter DEF WriteSteps
<1>8. Quiet(c, r)
  BY <1>4, <1>6, <1>7 DEF Quiet
<1> QED BY <1>5, <1>8, ChainQuiet

LEMMA WalFramesChain ==
    ASSUME Shape, LogInv, ChainInv, NEW c \in Conns, NEW list, NEW spill, At(c, "write"),
           WalFrames(c, list, spill), UNCHANGED <<wal, idx>>
    PROVE  ChainInv'
<1>1. /\ ConnShape(conn[c]) /\ conn[c].pc = "write"
      /\ ChainRecord(conn[c], wal.valid, idx.hdr.mxFrame) /\ idx.hdr.mxFrame \in Nat
  BY ChainOfRecord DEF At, Shape, ChainInv, IdxShape, HdrShape
<1>2. conn[c].writeLock /\ ~conn[c].lock0
  BY <1>1, OneWriter DEF WriteSteps
<1>3. PICK s : s = conn[c].appended /\ s = <<>>
  BY <1>1 DEF ChainRecord, FrameSteps
<1>4. PICK pc : pc = IF conn[c].readLock = 0 THEN "restart" ELSE FirstStep(conn[c].hdr)
  OBVIOUS
<1>5. PICK f : f = (IF Spilled(c) THEN idx.hdr.mxFrame + 1 ELSE 0) /\ (f > 0 => f > idx.hdr.mxFrame)
  BY <1>1
<1>6. PICK r : r = [conn[c] EXCEPT !.pc = pc, !.list = list, !.spill = spill, !.appended = s,
                                   !.iFirst = f]
  OBVIOUS
<1>7. Becomes(c, r)
  <2>1. Set(c, r)
    BY <1>3, <1>4, <1>5, <1>6, Zenon DEF WalFrames
  <2> QED BY <2>1, SetsConn
<1>8. /\ r.pc = pc /\ r.hdr = conn[c].hdr /\ r.appended = s /\ r.iFirst = f
      /\ r.lock0 = conn[c].lock0 /\ r.writeLock = conn[c].writeLock
      /\ r.iReCksum = conn[c].iReCksum
  BY <1>1, <1>6 DEF ConnShape
<1>9. pc \in {"restart", "header", "frames"} /\ (pc = "header" => conn[c].hdr.mxFrame = 0)
  BY <1>4 DEF FirstStep
<1>10. conn[c].iReCksum = 0 => conn[c].hdr.mxFrame + Len(s) + 1 <= wal.valid + 1
  BY <1>1, <1>2, <1>3 DEF ChainRecord
<1>13. conn[c].iReCksum > 0 =>
           /\ conn[c].writeLock /\ conn[c].iReCksum > idx.hdr.mxFrame
           /\ conn[c].iReCksum <= conn[c].hdr.mxFrame /\ conn[c].iReCksum <= wal.valid + 1
  BY <1>1 DEF ChainRecord
<1>11. ChainRecord(r, wal.valid, idx.hdr.mxFrame)
  BY <1>2, <1>3, <1>5, <1>8, <1>9, <1>10, <1>13 DEF ChainRecord
<1>12. Quiet(c, r)
  BY <1>2, <1>7, <1>8 DEF Quiet
<1> QED BY <1>11, <1>12, ChainQuiet

\* A writer changes the log behind the last commit only: v frames are valid and n
\* durable afterwards.
WriterStep(c, r, v, n) ==
    /\ conn[c].pc \in WriteSteps \ {"ckptInfo"} /\ Becomes(c, r)
    /\ r.lock0 = conn[c].lock0 /\ SameIdx
    /\ wal'.valid = v /\ wal'.synced = n /\ v \in Nat /\ n \in Nat
    /\ idx.hdr.mxFrame <= v /\ (n = wal.synced \/ idx.hdr.mxFrame <= n)
    /\ ChainRecord(r, v, idx.hdr.mxFrame)

LEMMA WriterChain ==
    ASSUME Shape, LogInv, ChainInv, NEW c \in Conns, NEW r, NEW v, NEW n, WriterStep(c, r, v, n)
    PROVE  ChainInv'
<1>0. /\ conn[c].pc \in WriteSteps \ {"ckptInfo"} /\ Becomes(c, r)
      /\ r.lock0 = conn[c].lock0 /\ SameIdx
      /\ wal'.valid = v /\ wal'.synced = n /\ v \in Nat /\ n \in Nat
      /\ idx.hdr.mxFrame <= v /\ (n = wal.synced \/ idx.hdr.mxFrame <= n)
      /\ ChainRecord(r, v, idx.hdr.mxFrame)
  BY DEF WriterStep
<1>1. Numbers
  BY ShapeNumbers
<1>2. conn[c].writeLock /\ ~conn[c].lock0 /\ \A d \in Conns \ {c} : ~conn[d].writeLock
  BY <1>0, OneWriter
<1>3. idx'.hdr = idx.hdr /\ idx'.nBackfill = idx.nBackfill
  BY <1>0 DEF SameIdx
<1>4. idx.nBackfill <= wal'.synced
  <2>0. ~Restarting
    BY <1>0, <1>1, <1>2, NobodyRestarts
  <2>1. idx.nBackfill <= idx.hdr.mxFrame /\ idx.nBackfill <= wal.synced
    BY <2>0 DEF LogInv, BackfillWithinLog, ChainInv, DurableBeforeCopied
  <2>2. idx.nBackfill \in Nat /\ idx.hdr.mxFrame \in Nat
    BY <1>1 DEF Numbers
  <2> QED BY <1>0, <2>1, <2>2
<1>5. ASSUME NEW d \in Conns \ {c}, conn[d].lock0
      PROVE  conn[d].mxSafeFrame <= wal'.synced
  <2>1. conn[d].mxSafeFrame <= idx.hdr.mxFrame /\ conn[d].mxSafeFrame <= wal.synced
    BY <1>1, <1>5, CheckpointWithinLog DEF ChainInv, DurableBeforeCopied
  <2>2. conn[d].mxSafeFrame \in Nat /\ idx.hdr.mxFrame \in Nat
    BY <1>1 DEF Numbers
  <2> QED BY <1>0, <2>1, <2>2
<1>6. idx'.hdr.mxFrame <= wal'.valid /\ idx'.nBackfill <= wal'.synced
  BY <1>0, <1>3, <1>4
<1>7. ChainRecord(r, wal'.valid, idx'.hdr.mxFrame)
  BY <1>0, <1>3
<1> QED BY <1>0, <1>2, <1>5, <1>6, <1>7, ChainStep

LEMMA SumAbove ==
    ASSUME NEW m \in Nat, NEW a \in Nat, NEW b \in Nat, m <= a
    PROVE  m <= (a + b + 1) - 1
OBVIOUS

LEMMA LowerBy ==
    ASSUME NEW a \in Nat, NEW b \in Nat, NEW v \in Nat, a + b + 1 <= v + 1
    PROVE  a <= v
OBVIOUS

LEMMA OneMore ==
    ASSUME NEW m \in Nat, NEW l \in Nat
    PROVE  m + (l + 1) + 1 <= (m + l + 1) + 1
OBVIOUS

LEMMA SameAgain ==
    ASSUME NEW m \in Nat, NEW l \in Nat
    PROVE  m + l + 1 <= ((m + l + 1) - 1) + 1
OBVIOUS

\* Where a writer writes is behind the last commit.
LEMMA WritesBehindCommits ==
    ASSUME Shape, LogInv, ChainInv, NEW c \in Conns, conn[c].pc \in WriteSteps
    PROVE  /\ idx.hdr.mxFrame <= conn[c].hdr.mxFrame
           /\ idx.hdr.mxFrame <= NextFrame(c) - 1
           /\ InPlace(c) => idx.hdr.mxFrame <= FindFrame(c, Head(conn[c].list)) - 1
           /\ conn[c].hdr.mxFrame \in Nat /\ idx.hdr.mxFrame \in Nat
           /\ Len(conn[c].appended) \in Nat
<1>1. /\ ConnShape(conn[c]) /\ conn[c].hdr.mxFrame \in Nat /\ idx.hdr.mxFrame \in Nat
      /\ IsSeq(conn[c].appended) /\ conn[c].iFirst \in Nat
  BY DEF Shape, ConnShape, IdxShape, HdrShape
<1>2. Len(conn[c].appended) \in Nat
  BY <1>1, AppendIsSeq
<1>3. conn[c].writeLock
  BY OneWriter
<1>4. idx.hdr.mxFrame <= conn[c].hdr.mxFrame
  BY <1>1, <1>3 DEF LogInv, HeaderOf
<1>5. idx.hdr.mxFrame <= NextFrame(c) - 1
  <2>1. PICK a, b : a = conn[c].hdr.mxFrame /\ b = Len(conn[c].appended) /\ a \in Nat /\ b \in Nat
    BY <1>1, <1>2
  <2>2. NextFrame(c) = a + b + 1
    BY <2>1 DEF NextFrame
  <2>3. PICK m \in Nat : m = idx.hdr.mxFrame /\ m <= a
    BY <1>1, <1>4, <2>1
  <2>4. m <= (a + b + 1) - 1
    BY <2>1, <2>3, SumAbove
  <2> QED BY <2>2, <2>3, <2>4
<1>6. ASSUME InPlace(c) PROVE idx.hdr.mxFrame <= FindFrame(c, Head(conn[c].list)) - 1
  <2>1. PICK f : f = FindFrame(c, Head(conn[c].list)) /\ f \in Nat
    BY <1>1, FindFrameNat
  <2>2. conn[c].iFirst > 0 /\ f >= conn[c].iFirst
    BY <1>6, <2>1 DEF InPlace
  <2>3. conn[c].iFirst > idx.hdr.mxFrame
    BY <2>2 DEF ChainInv, ChainOf
  <2>4. idx.hdr.mxFrame <= f - 1
    BY <1>1, <2>1, <2>2, <2>3
  <2> QED BY <2>1, <2>4
<1> QED BY <1>1, <1>2, <1>4, <1>5, <1>6

LEMMA LowerOfTwo ==
    ASSUME NEW a \in Nat, NEW b \in Nat
    PROVE  Min({a, b}) \in Nat /\ (Min({a, b}) = a \/ Min({a, b}) = b)
<1>1. Min({a, b}) \in {a, b}
  BY MinNat
<1> QED BY <1>1

LEMMA WriteHeaderChain ==
    ASSUME Shape, LogInv, ChainInv, NEW c \in Conns, WriteHeader(c)
    PROVE  ChainInv'
<1>1. /\ ConnShape(conn[c]) /\ conn[c].pc = "header" /\ UNCHANGED idx /\ WalShape
      /\ ChainRecord(conn[c], wal.valid, idx.hdr.mxFrame)
  BY ChainOfRecord DEF WriteHeader, At, Shape, ChainInv
<1>2. PICK r : r = [conn[c] EXCEPT !.pc = "frames"]
  OBVIOUS
<1>3. SameFrames(r, conn[c]) /\ r.pc = "frames" /\ r.lock0 = conn[c].lock0
  BY <1>1, <1>2 DEF ConnShape, SameFrames
<1>4. Becomes(c, r)
  BY <1>2, SetsConn DEF WriteHeader
<1>5. wal'.valid = 0 /\ wal'.synced = 0
  BY <1>1 DEF WriteHeader, WalShape
<1>6. conn[c].hdr.mxFrame = 0 /\ conn[c].appended = <<>>
  BY <1>1 DEF ChainRecord, FrameSteps
<1>7. idx.hdr.mxFrame <= 0
  BY <1>1, <1>6, WritesBehindCommits DEF WriteSteps
<1>8. ChainRecord(r, wal'.valid, idx.hdr.mxFrame)
  <2>1. PICK s : s = <<>> /\ Len(s) = 0
    OBVIOUS
  <2>2. r.hdr.mxFrame = 0 /\ Len(r.appended) = 0
    BY <1>3, <1>6, <2>1 DEF SameFrames
  <2>3. r.hdr.mxFrame + Len(r.appended) + 1 <= wal'.valid + 1
    BY <1>5, <2>2
  <2>4. ~(r.iReCksum > 0)
    <3>1. conn[c].iReCksum \in Nat /\ idx.hdr.mxFrame \in Nat
      BY <1>1 DEF ConnShape, Shape, IdxShape, HdrShape
    <3>2. conn[c].iReCksum > 0 => conn[c].iReCksum <= 0
      BY <1>1, <1>6 DEF ChainRecord
    <3> QED BY <1>3, <3>1, <3>2 DEF SameFrames
  <2> QED BY <1>1, <1>3, <2>3, <2>4 DEF ChainRecord, SameFrames, FrameSteps
<1>9. SameIdx
  BY <1>1 DEF SameIdx
<1>10. WriterStep(c, r, 0, 0)
  BY <1>1, <1>3, <1>4, <1>5, <1>7, <1>8, <1>9 DEF WriterStep, WriteSteps
<1> QED BY <1>10, WriterChain

\* After a failure the chain may be broken behind the last commit.
LEMMA FailedChain ==
    ASSUME Shape, LogInv, ChainInv, NEW c \in Conns, Failed(c), UNCHANGED idx,
           conn[c].pc \in {"header", "frames", "checksums"}, NEW v \in Nat, NEW n \in Nat,
           wal'.valid = v, wal'.synced = n, idx.hdr.mxFrame <= v,
           n = wal.synced \/ idx.hdr.mxFrame <= n
    PROVE  ChainInv'
<1>1. ConnShape(conn[c]) /\ ChainRecord(conn[c], wal.valid, idx.hdr.mxFrame)
  BY ChainOfRecord DEF Shape, ChainInv
<1>2. PICK r : /\ Set(c, r) /\ SameCore(r, conn[c]) /\ r.pc \in {"undo", "error"}
               /\ r.iFirst = conn[c].iFirst /\ r.iReCksum = conn[c].iReCksum
               /\ r.appended = conn[c].appended
  BY <1>1, FailedFields
<1>3. SameFrames(r, conn[c]) /\ r.lock0 = conn[c].lock0
  BY <1>2 DEF SameCore, SameLocks, SameFrames
<1>4. ChainRecord(r, v, idx.hdr.mxFrame)
  BY <1>1, <1>2, <1>3 DEF ChainRecord, SameFrames, FrameSteps
<1>5. Becomes(c, r) /\ SameIdx
  BY <1>2, SetsConn DEF SameIdx
<1>6. WriterStep(c, r, v, n)
  BY <1>3, <1>4, <1>5 DEF WriterStep, WriteSteps
<1> QED BY <1>6, WriterChain

\* The header cannot be written: the old frames are left, or none of them.
LEMMA HeaderFailsChain ==
    ASSUME Shape, LogInv, ChainInv, NEW c \in Conns, HeaderFails(c)
    PROVE  ChainInv'
<1>1. /\ ConnShape(conn[c]) /\ conn[c].pc = "header" /\ UNCHANGED idx /\ WalShape
      /\ ChainRecord(conn[c], wal.valid, idx.hdr.mxFrame) /\ Failed(c)
  BY ChainOfRecord DEF HeaderFails, At, Shape, ChainInv
<1>2. conn[c].hdr.mxFrame = 0
  BY <1>1 DEF ChainRecord
<1>3. idx.hdr.mxFrame <= 0
  BY <1>1, <1>2, WritesBehindCommits DEF WriteSteps
<1>4. PICK v, n : /\ wal'.valid = v /\ wal'.synced = n /\ v \in Nat /\ n \in Nat
                  /\ idx.hdr.mxFrame <= v /\ (n = wal.synced \/ idx.hdr.mxFrame <= n)
  <2>1. CASE wal' = wal
    BY <1>1, <2>1 DEF WalShape, ChainInv, DurableBeforeCopied
  <2>2. CASE wal' = [wal EXCEPT !.valid = 0, !.synced = 0]
    <3>1. wal'.valid = 0 /\ wal'.synced = 0
      BY <1>1, <2>2 DEF WalShape
    <3> QED BY <1>3, <3>1
  <2> QED BY <2>1, <2>2 DEF HeaderFails
<1> QED BY <1>1, <1>4, FailedChain DEF WriteSteps

\* The connection after Written(c, n, s).
WrittenTo(c, r, n, s) ==
    /\ Set(c, r) /\ r.lock0 = conn[c].lock0 /\ r.writeLock = conn[c].writeLock
    /\ r.hdr = conn[c].hdr /\ r.iFirst = conn[c].iFirst /\ r.iReCksum = n
    /\ r.appended = s /\ r.pc \in {"frames", "checksums", "append"}
    /\ r.pc = "append" /\ r.spill = 0 => n = 0

LEMMA WrittenChain ==
    ASSUME NEW c \in Conns, NEW n, NEW s, ConnShape(conn[c]), Written(c, n, s)
    PROVE  \E r : WrittenTo(c, r, n, s)
<1>1. PICK pc : pc = IF Len(conn[c].list) > 1 THEN "frames"
                     ELSE IF IsCommit(c) /\ n # 0 THEN "checksums" ELSE "append"
  OBVIOUS
<1>2. PICK list : Set(c, [conn[c] EXCEPT !.list = list, !.iReCksum = n, !.appended = s, !.pc = pc])
  BY <1>1 DEF Written
<1>3. PICK r : r = [conn[c] EXCEPT !.list = list, !.iReCksum = n, !.appended = s, !.pc = pc]
  OBVIOUS
<1>4. /\ r.lock0 = conn[c].lock0 /\ r.writeLock = conn[c].writeLock
      /\ r.hdr = conn[c].hdr /\ r.iFirst = conn[c].iFirst /\ r.iReCksum = n
      /\ r.appended = s /\ r.pc = pc /\ r.spill = conn[c].spill
  BY <1>3 DEF ConnShape
<1>5. pc \in {"frames", "checksums", "append"} /\ (pc = "append" /\ conn[c].spill = 0 => n = 0)
  BY <1>1 DEF IsCommit
<1>6. WrittenTo(c, r, n, s)
  BY <1>2, <1>3, <1>4, <1>5 DEF WrittenTo
<1> QED BY <1>6

LEMMA RewriteChain ==
    ASSUME Shape, LogInv, ChainInv, NEW c \in Conns, Rewrite(c)
    PROVE  ChainInv'
<1>1. /\ ConnShape(conn[c]) /\ conn[c].pc = "frames" /\ UNCHANGED idx /\ WalShape /\ InPlace(c)
      /\ ChainRecord(conn[c], wal.valid, idx.hdr.mxFrame)
  BY ChainOfRecord DEF Rewrite, At, Shape, ChainInv
<1>2. PICK f : /\ f = FindFrame(c, Head(conn[c].list)) /\ f \in Nat /\ f > 0
               /\ f <= conn[c].hdr.mxFrame
  <2>1. PICK f : f = FindFrame(c, Head(conn[c].list)) /\ f \in Nat /\ f <= conn[c].hdr.mxFrame
    BY <1>1, FindFrameNat
  <2>2. f - 1 \in Nat
    BY <1>1, <2>1, FrameNumbers
  <2> QED BY <2>1, <2>2
<1>3. PICK g : g = FindFrame(c, Head(conn[c].list)) - 1 /\ g \in Nat /\ idx.hdr.mxFrame <= g
  BY <1>1, FrameNumbers, WritesBehindCommits DEF WriteSteps
<1>4. PICK v : v = Min({wal.valid, g}) /\ v \in Nat /\ (v = wal.valid \/ v = g)
  BY <1>1, <1>3, LowerOfTwo DEF WalShape
<1>5. PICK n : n = Min({wal.synced, g}) /\ n \in Nat /\ (n = wal.synced \/ n = g)
  BY <1>1, <1>3, LowerOfTwo DEF WalShape
<1>6. wal'.valid = v /\ wal'.synced = n
  BY <1>1, <1>3, <1>4, <1>5 DEF Rewrite, WalShape
<1>7. idx.hdr.mxFrame <= v
  BY <1>3, <1>4 DEF ChainInv, DurableBeforeCopied
<1>8. PICK k : /\ k = IF conn[c].iReCksum = 0 \/ f < conn[c].iReCksum THEN f ELSE conn[c].iReCksum
               /\ k # 0
  BY <1>2
<1>9. Written(c, k, conn[c].appended)
  BY <1>2, <1>8 DEF Rewrite
<1>10. PICK r : WrittenTo(c, r, k, conn[c].appended)
  BY <1>1, <1>9, WrittenChain
<1>14. k > idx.hdr.mxFrame /\ k <= conn[c].hdr.mxFrame /\ k <= v + 1
  <2>1. /\ idx.hdr.mxFrame \in Nat /\ conn[c].hdr.mxFrame \in Nat /\ wal.valid \in Nat
        /\ conn[c].iReCksum \in Nat /\ conn[c].writeLock
    BY <1>1, WritesBehindCommits, OneWriter DEF ConnShape, WalShape, WriteSteps
  <2>2. f > idx.hdr.mxFrame /\ f = g + 1
    BY <1>2, <1>3, <2>1
  <2>3. CASE conn[c].iReCksum = 0
    <3>1. PICK a, b \in Nat : /\ a = conn[c].hdr.mxFrame /\ b = Len(conn[c].appended)
                             /\ a + b + 1 <= wal.valid + 1
      BY <1>1, <2>1, <2>3, WritesBehindCommits DEF ChainRecord, WriteSteps
    <3>2. a <= wal.valid
      BY <2>1, <3>1, LowerBy
    <3>3. f <= wal.valid + 1
      BY <1>2, <2>1, <3>1, <3>2
    <3> QED BY <1>2, <1>4, <1>8, <2>2, <2>3, <3>3
  <2>4. CASE conn[c].iReCksum > 0
    <3>1. /\ conn[c].iReCksum > idx.hdr.mxFrame /\ conn[c].iReCksum <= conn[c].hdr.mxFrame
          /\ conn[c].iReCksum <= wal.valid + 1
      BY <1>1, <2>4 DEF ChainRecord
    <3> QED BY <1>2, <1>3, <1>4, <1>8, <2>1, <2>2, <2>4, <3>1
  <2> QED BY <2>1, <2>3, <2>4
<1>11. ChainRecord(r, v, idx.hdr.mxFrame)
  <2>1. conn[c].writeLock
    BY <1>1, OneWriter DEF WriteSteps
  <2> QED BY <1>1, <1>8, <1>10, <1>14, <2>1 DEF ChainRecord, FrameSteps, WrittenTo
<1>12. Becomes(c, r) /\ SameIdx
  BY <1>1, <1>10, SetsConn DEF SameIdx, WrittenTo
<1>13. WriterStep(c, r, v, n)
  BY <1>1, <1>3, <1>4, <1>5, <1>6, <1>7, <1>10, <1>11, <1>12 DEF WriterStep, WriteSteps, WrittenTo
<1> QED BY <1>13, WriterChain

LEMMA AppendFrameChain ==
    ASSUME Shape, LogInv, ChainInv, NEW c \in Conns, AppendFrame(c)
    PROVE  ChainInv'
<1>1. /\ ConnShape(conn[c]) /\ conn[c].pc = "frames" /\ UNCHANGED idx /\ WalShape
      /\ ChainRecord(conn[c], wal.valid, idx.hdr.mxFrame) /\ IsSeq(conn[c].appended)
  BY ChainOfRecord DEF AppendFrame, At, Shape, ChainInv, ConnShape
<1>2. PICK m, l : /\ m = conn[c].hdr.mxFrame /\ l = Len(conn[c].appended) /\ m \in Nat /\ l \in Nat
                  /\ idx.hdr.mxFrame \in Nat /\ idx.hdr.mxFrame <= m
  BY <1>1, WritesBehindCommits DEF WriteSteps
<1>3. PICK f \in Nat : f = NextFrame(c) /\ f = m + l + 1
  BY <1>2 DEF NextFrame
<1>4. PICK g : g = f - 1 /\ g \in Nat /\ idx.hdr.mxFrame <= g
  <2>1. PICK x \in Nat : x = idx.hdr.mxFrame /\ x <= m
    BY <1>2
  <2>2. x <= (m + l + 1) - 1 /\ (m + l + 1) - 1 \in Nat
    BY <1>2, <2>1, SumAbove, SumNat
  <2> QED BY <1>3, <2>1, <2>2
<1>5. wal.valid \in Nat /\ wal.synced \in Nat /\ idx.hdr.mxFrame <= wal.valid
  BY <1>1 DEF WalShape, ChainInv, DurableBeforeCopied
<1>6. PICK v \in Nat : /\ v = (IF wal.valid >= f - 1 THEN f ELSE wal.valid)
                       /\ idx.hdr.mxFrame <= v /\ (f <= wal.valid + 1 => v = f)
  BY <1>2, <1>4, <1>5
<1>7. PICK n : n = Min({wal.synced, f - 1}) /\ n \in Nat /\ (n = wal.synced \/ n = g)
  BY <1>4, <1>5, LowerOfTwo
<1>8. wal'.valid = v /\ wal'.synced = n
  BY <1>3, <1>6, <1>7 DEF AppendFrame
<1>9. PICK s, k : /\ s = Append(conn[c].appended, Head(conn[c].list)) /\ k = conn[c].iReCksum
                  /\ Written(c, k, s)
  BY DEF AppendFrame
<1>10. Len(s) = l + 1
  <2>1. PICK S : conn[c].appended \in Seq(S)
    BY <1>1 DEF IsSeq
  <2> QED BY <1>2, <1>9, <2>1
<1>11. PICK r : WrittenTo(c, r, k, s)
  BY <1>1, <1>9, WrittenChain
<1>12. ASSUME r.writeLock, r.iReCksum = 0
       PROVE  r.hdr.mxFrame + Len(r.appended) + 1 <= v + 1
  <2>1. m + l + 1 <= wal.valid + 1
    BY <1>1, <1>2, <1>9, <1>11, <1>12 DEF ChainRecord, WrittenTo
  <2>2. v = m + l + 1
    BY <1>3, <1>6, <2>1
  <2>3. r.hdr.mxFrame = m /\ Len(r.appended) = l + 1
    BY <1>2, <1>10, <1>11 DEF WrittenTo
  <2>4. m + (l + 1) + 1 <= (m + l + 1) + 1
    BY <1>2, OneMore
  <2> QED BY <2>2, <2>3, <2>4
<1>16. k > 0 => /\ conn[c].writeLock /\ k > idx.hdr.mxFrame /\ k <= conn[c].hdr.mxFrame
                /\ k <= v + 1
  <2>1. k > 0 => /\ conn[c].writeLock /\ k > idx.hdr.mxFrame /\ k <= conn[c].hdr.mxFrame
                 /\ k <= wal.valid + 1
    BY <1>1, <1>9 DEF ChainRecord
  <2>2. k \in Nat
    BY <1>1, <1>9 DEF ConnShape
  <2>3. k > 0 => k <= f
    <3>1. m <= (m + l + 1) - 1
      BY <1>2, SumAbove
    <3> QED BY <1>2, <1>3, <2>1, <2>2, <3>1
  <2> QED BY <1>5, <1>6, <2>1, <2>2, <2>3
<1>13. ChainRecord(r, v, idx.hdr.mxFrame)
  BY <1>1, <1>9, <1>11, <1>12, <1>16 DEF ChainRecord, FrameSteps, WrittenTo
<1>14. Becomes(c, r) /\ SameIdx
  BY <1>1, <1>11, SetsConn DEF SameIdx, WrittenTo
<1>15. WriterStep(c, r, v, n)
  BY <1>1, <1>4, <1>6, <1>7, <1>8, <1>11, <1>13, <1>14 DEF WriterStep, WriteSteps, WrittenTo
<1> QED BY <1>15, WriterChain

LEMMA WriteFailsChain ==
    ASSUME Shape, LogInv, ChainInv, NEW c \in Conns, WriteFails(c)
    PROVE  ChainInv'
<1>1. /\ ConnShape(conn[c]) /\ conn[c].pc \in {"frames", "checksums"} /\ UNCHANGED idx
      /\ WalShape /\ ChainRecord(conn[c], wal.valid, idx.hdr.mxFrame)
  BY ChainOfRecord DEF WriteFails, Shape, ChainInv
<1>2. PICK v, n : /\ wal'.valid = v /\ wal'.synced = n /\ v \in Nat /\ n \in Nat
                  /\ idx.hdr.mxFrame <= v /\ (n = wal.synced \/ idx.hdr.mxFrame <= n)
  <2>1. CASE conn[c].pc = "checksums"
    <3>1. wal' = wal
      BY <2>1 DEF WriteFails, At
    <3> QED BY <1>1, <3>1 DEF WalShape, ChainInv, DurableBeforeCopied
  <2>2. CASE conn[c].pc = "frames"
    <3>1. PICK f : f = IF InPlace(c) THEN FindFrame(c, Head(conn[c].list)) ELSE NextFrame(c)
      OBVIOUS
    <3>2. PICK g : g = f - 1 /\ g \in Nat /\ idx.hdr.mxFrame <= g
      <4>1. CASE InPlace(c)
        BY <2>2, <3>1, <4>1, FrameNumbers, WritesBehindCommits DEF WriteSteps
      <4>2. CASE ~InPlace(c)
        BY <2>2, <3>1, <4>2, FrameNumbers, WritesBehindCommits DEF WriteSteps
      <4> QED BY <4>1, <4>2
    <3>3. PICK v : v = Min({wal.valid, g}) /\ v \in Nat /\ (v = wal.valid \/ v = g)
      BY <1>1, <3>2, LowerOfTwo DEF WalShape
    <3>4. PICK n : n = Min({wal.synced, g}) /\ n \in Nat /\ (n = wal.synced \/ n = g)
      BY <1>1, <3>2, LowerOfTwo DEF WalShape
    <3>5. wal'.valid = v /\ wal'.synced = n
      <4>1. wal' = [wal EXCEPT !.valid = Min({@, f - 1}), !.synced = Min({@, f - 1})]
        <5>1. ~At(c, "checksums")
          BY <2>2 DEF At
        <5> QED BY <3>1, <5>1, Zenon DEF WriteFails
      <4> QED BY <1>1, <3>2, <3>3, <3>4, <4>1 DEF WalShape
    <3>6. idx.hdr.mxFrame <= v
      BY <3>2, <3>3 DEF ChainInv, DurableBeforeCopied
    <3> QED BY <3>2, <3>3, <3>4, <3>5, <3>6
  <2> QED BY <1>1, <2>1, <2>2
<1> QED BY <1>1, <1>2, FailedChain DEF WriteFails

LEMMA RewriteChecksumsChain ==
    ASSUME Shape, LogInv, ChainInv, NEW c \in Conns, RewriteChecksums(c)
    PROVE  ChainInv'
<1>1. /\ ConnShape(conn[c]) /\ conn[c].pc = "checksums" /\ UNCHANGED idx /\ WalShape
      /\ ChainRecord(conn[c], wal.valid, idx.hdr.mxFrame) /\ wal.synced \in Nat
  BY ChainOfRecord DEF RewriteChecksums, At, Shape, ChainInv, WalShape
<1>2. PICK v : v = NextFrame(c) - 1 /\ v \in Nat /\ idx.hdr.mxFrame <= v
  BY <1>1, FrameNumbers, WritesBehindCommits DEF WriteSteps
<1>0. conn[c].iReCksum <= wal.valid + 1
  <2>1. conn[c].iReCksum \in Nat /\ wal.valid \in Nat
    BY <1>1 DEF ConnShape, WalShape
  <2>2. conn[c].iReCksum > 0 => conn[c].iReCksum <= wal.valid + 1
    BY <1>1 DEF ChainRecord
  <2> QED BY <2>1, <2>2
<1>3. wal'.valid = v /\ wal'.synced = wal.synced
  BY <1>0, <1>1, <1>2 DEF RewriteChecksums, WalShape
<1>4. PICK r : r = [conn[c] EXCEPT !.pc = "append", !.iReCksum = 0]
  OBVIOUS
<1>5. /\ r.pc = "append" /\ r.lock0 = conn[c].lock0 /\ r.hdr = conn[c].hdr
      /\ r.appended = conn[c].appended /\ r.iFirst = conn[c].iFirst
      /\ r.writeLock = conn[c].writeLock /\ r.iReCksum = 0
  BY <1>1, <1>4 DEF ConnShape
<1>6. r.hdr.mxFrame + Len(r.appended) + 1 <= v + 1
  <2>1. PICK a, b : a = conn[c].hdr.mxFrame /\ b = Len(conn[c].appended) /\ a \in Nat /\ b \in Nat
    BY <1>1, WritesBehindCommits DEF WriteSteps
  <2>2. v = (a + b + 1) - 1
    BY <1>2, <2>1 DEF NextFrame
  <2>3. a + b + 1 <= ((a + b + 1) - 1) + 1
    BY <2>1, SameAgain
  <2> QED BY <1>5, <2>1, <2>2, <2>3
<1>7. ChainRecord(r, v, idx.hdr.mxFrame)
  BY <1>1, <1>5, <1>6 DEF ChainRecord, FrameSteps
<1>8. Becomes(c, r) /\ SameIdx
  BY <1>1, <1>4, SetsConn DEF RewriteChecksums, SameIdx
<1>9. WriterStep(c, r, v, wal.synced)
  BY <1>1, <1>2, <1>3, <1>5, <1>7, <1>8 DEF WriterStep, WriteSteps
<1> QED BY <1>9, WriterChain

LEMMA AppendIndexChain ==
    ASSUME Shape, LogInv, ChainInv, NEW c \in Conns, AppendIndex(c)
    PROVE  ChainInv'
<1>1. /\ ConnShape(conn[c]) /\ conn[c].pc = "append" /\ UNCHANGED wal /\ HdrShape(conn[c].hdr)
      /\ ChainRecord(conn[c], wal.valid, idx.hdr.mxFrame) /\ wal.synced \in Nat /\ wal.valid \in Nat
  BY ChainOfRecord DEF AppendIndex, At, Shape, ChainInv, WalShape, ConnShape
<1>2. SameIdx
  <2>1. idx' = idx \/ \E pgno : idx' = [idx EXCEPT !.pgno = pgno]
    BY DEF AppendIndex
  <2> QED BY <2>1, PgnoShape
<1>3. PICK m, l : /\ m = conn[c].hdr.mxFrame /\ l = Len(conn[c].appended) /\ m \in Nat /\ l \in Nat
  BY <1>1, WritesBehindCommits DEF WriteSteps
<1>4. PICK s : s = <<>> /\ Len(s) = 0
  OBVIOUS
<1>5. PICK h : h = [conn[c].hdr EXCEPT !.mxFrame = m + l]
  OBVIOUS
<1>6. h = [conn[c].hdr EXCEPT !.mxFrame = @ + Len(conn[c].appended)] /\ h.mxFrame = m + l
  BY <1>1, <1>3, <1>5 DEF HdrShape
<1>7. PICK r : /\ Set(c, r) /\ r.lock0 = conn[c].lock0 /\ r.writeLock = conn[c].writeLock
               /\ r.hdr.mxFrame = m + l /\ r.appended = s /\ r.iFirst = conn[c].iFirst
               /\ r.iReCksum = conn[c].iReCksum
               /\ r.pc = "write" \/ (r.pc = "publish" /\ IsCommit(c))
  <2>1. CASE IsCommit(c)
    <3>1. PICK g : g = [h EXCEPT !.nPage = conn[c].size]
      OBVIOUS
    <3>2. g.mxFrame = m + l
      BY <1>1, <1>5, <1>6, <3>1 DEF HdrShape
    <3>3. PICK r : r = [conn[c] EXCEPT !.pc = "publish", !.appended = s, !.dirty = s, !.hdr = g]
      OBVIOUS
    <3>4. Set(c, r)
      BY <1>4, <1>6, <2>1, <3>1, <3>3, Zenon DEF AppendIndex
    <3>5. /\ r.lock0 = conn[c].lock0 /\ r.writeLock = conn[c].writeLock
          /\ r.hdr = g /\ r.appended = s /\ r.iFirst = conn[c].iFirst
          /\ r.iReCksum = conn[c].iReCksum /\ r.pc = "publish"
      BY <1>1, <3>3 DEF ConnShape
    <3> QED BY <2>1, <3>2, <3>4, <3>5
  <2>2. CASE ~IsCommit(c)
    <3>1. PICK r : r = [conn[c] EXCEPT !.pc = "write", !.appended = s, !.hdr = h, !.spill = 0,
                                       !.dirty = Without(@, conn[c].spill)]
      OBVIOUS
    <3>2. Set(c, r)
      BY <1>4, <1>6, <2>2, <3>1, Zenon DEF AppendIndex
    <3>3. /\ r.lock0 = conn[c].lock0 /\ r.writeLock = conn[c].writeLock
          /\ r.hdr = h /\ r.appended = s /\ r.iFirst = conn[c].iFirst
          /\ r.iReCksum = conn[c].iReCksum /\ r.pc = "write"
      BY <1>1, <3>1 DEF ConnShape
    <3> QED BY <1>6, <3>2, <3>3
  <2> QED BY <2>1, <2>2
<1>8. ASSUME r.writeLock, r.iReCksum = 0
      PROVE  r.hdr.mxFrame + Len(r.appended) + 1 <= wal.valid + 1
  <2>1. m + l + 1 <= wal.valid + 1
    BY <1>1, <1>3, <1>7, <1>8 DEF ChainRecord
  <2>2. (m + l) + 0 + 1 = m + l + 1
    BY <1>3
  <2>3. r.hdr.mxFrame = m + l /\ Len(r.appended) = 0
    BY <1>4, <1>7
  <2> QED BY <2>1, <2>2, <2>3
<1>9. r.pc = "publish" => r.iReCksum = 0
  BY <1>1, <1>7 DEF ChainRecord, IsCommit
<1>14. r.iReCksum > 0 =>
           /\ r.writeLock /\ r.iReCksum > idx.hdr.mxFrame
           /\ r.iReCksum <= r.hdr.mxFrame /\ r.iReCksum <= wal.valid + 1
  <2>1. conn[c].iReCksum > 0 =>
           /\ conn[c].writeLock /\ conn[c].iReCksum > idx.hdr.mxFrame
           /\ conn[c].iReCksum <= m /\ conn[c].iReCksum <= wal.valid + 1
    BY <1>1, <1>3 DEF ChainRecord
  <2>2. conn[c].iReCksum \in Nat
    BY <1>1 DEF ConnShape
  <2>3. conn[c].iReCksum <= m => conn[c].iReCksum <= m + l
    BY <1>3, <2>2
  <2> QED BY <1>7, <2>1, <2>3
<1>10. ChainRecord(r, wal.valid, idx.hdr.mxFrame)
  BY <1>1, <1>4, <1>7, <1>8, <1>9, <1>14 DEF ChainRecord, FrameSteps
<1>11. Becomes(c, r)
  BY <1>7, SetsConn
<1>12. idx.hdr.mxFrame <= wal.valid
  BY DEF ChainInv, DurableBeforeCopied
<1>13. WriterStep(c, r, wal.valid, wal.synced)
  BY <1>1, <1>2, <1>7, <1>10, <1>11, <1>12 DEF WriterStep, WriteSteps
<1> QED BY <1>13, WriterChain

\* The commit: its frames continue the chain.
LEMMA PublishChain ==
    ASSUME Shape, LogInv, ChainInv, NEW c \in Conns, Publish(c)
    PROVE  ChainInv'
<1>1. /\ ConnShape(conn[c]) /\ conn[c].pc = "publish" /\ UNCHANGED wal /\ IdxShape
      /\ ChainRecord(conn[c], wal.valid, idx.hdr.mxFrame) /\ HdrShape(conn[c].hdr)
      /\ wal.valid \in Nat
  BY ChainOfRecord DEF Publish, At, Shape, ChainInv, WalShape, ConnShape
<1>2. conn[c].writeLock /\ ~conn[c].lock0 /\ \A d \in Conns \ {c} : ~conn[d].writeLock
  BY <1>1, OneWriter DEF WriteSteps
<1>3. PICK s : s = <<>> /\ Len(s) = 0
  OBVIOUS
<1>4. conn[c].appended = s /\ conn[c].iReCksum = 0
  BY <1>1, <1>3 DEF ChainRecord, FrameSteps
<1>5. PICK m : m = conn[c].hdr.mxFrame /\ m \in Nat
  BY <1>1 DEF HdrShape
<1>6. m <= wal.valid
  <2>1. m + 0 + 1 <= wal.valid + 1
    BY <1>1, <1>2, <1>3, <1>4, <1>5 DEF ChainRecord
  <2> QED BY <1>1, <1>5, <2>1
<1>7. PICK r : r = [conn[c] EXCEPT !.pc = "read", !.writeLock = FALSE, !.iFirst = 0, !.size = 0]
  OBVIOUS
<1>8. /\ r.pc = "read" /\ ~r.writeLock /\ r.iFirst = 0 /\ r.iReCksum = 0 /\ r.appended = s
      /\ r.lock0 = conn[c].lock0
  BY <1>1, <1>4, <1>7 DEF ConnShape
<1>9. \A v, n : ChainRecord(r, v, n)
  BY <1>3, <1>8, ChainOfReader
<1>10. Becomes(c, r)
  BY <1>7, SetsConn DEF Publish
<1>11. idx'.hdr = conn[c].hdr /\ idx'.nBackfill = idx.nBackfill
  BY <1>1 DEF Publish, IdxShape
<1>12. idx'.hdr.mxFrame <= wal'.valid /\ idx'.nBackfill <= wal'.synced
  BY <1>1, <1>5, <1>6, <1>11 DEF ChainInv, DurableBeforeCopied
<1>13. \A d \in Conns \ {c} : conn[d].lock0 => conn[d].mxSafeFrame <= wal'.synced
  BY <1>1 DEF ChainInv, DurableBeforeCopied
<1> QED BY <1>2, <1>8, <1>9, <1>10, <1>12, <1>13, ChainStep

LEMMA RollbackChain ==
    ASSUME Shape, LogInv, ChainInv, NEW c \in Conns, Rollback(c)
    PROVE  ChainInv'
<1>1. UNCHANGED wal
  BY DEF Rollback
<1>2. SameIdx
  <2>1. idx' = idx \/ \E pgno : idx' = [idx EXCEPT !.pgno = pgno]
    BY DEF Rollback
  <2> QED BY <2>1, PgnoShape
<1>3. PICK q : /\ q = Closed /\ ConnShape(q) /\ ~q.writeLock /\ ~q.lock0 /\ q.iFirst = 0
               /\ q.iReCksum = 0 /\ q.appended = <<>>
  BY ClosedShape DEF Closed
<1>4. PICK r : r = [q EXCEPT !.pc = "read", !.hdr = idx.hdr, !.readLock = conn[c].readLock,
                             !.minFrame = conn[c].minFrame]
  OBVIOUS
<1>5. /\ r.pc = "read" /\ ~r.writeLock /\ ~r.lock0 /\ r.iFirst = 0 /\ r.iReCksum = 0
      /\ r.appended = <<>>
  BY <1>3, <1>4 DEF ConnShape
<1>6. Becomes(c, r)
  BY <1>3, <1>4, SetsConn DEF Rollback
<1>7. ChainRecord(r, wal.valid, idx.hdr.mxFrame)
  BY <1>5, ChainOfReader
<1>8. Quiet(c, r)
  BY <1>1, <1>2, <1>5, <1>6 DEF Quiet, SameIdx
<1> QED BY <1>7, <1>8, ChainQuiet

\* The log starts again only when no checkpoint is running.
LEMMA RestartLogChain ==
    ASSUME Shape, LogInv, ChainInv, NEW c \in Conns, RestartLog(c), idx' # idx => CkptFree
    PROVE  ChainInv'
<1>1. /\ ConnShape(conn[c]) /\ conn[c].pc = "restart" /\ UNCHANGED wal /\ IdxShape
      /\ ChainRecord(conn[c], wal.valid, idx.hdr.mxFrame)
      /\ wal.valid \in Nat /\ wal.synced \in Nat
  BY ChainOfRecord DEF RestartLog, At, Shape, ChainInv, WalShape
<1>2. ~conn[c].lock0 /\ \A d \in Conns \ {c} : ~conn[d].writeLock
  BY <1>1, OneWriter DEF WriteSteps
<1>3. CASE idx.nBackfill > 0 /\ \A i \in 1..Marks : ReadFree(i)
  <2>1. PICK hdr : hdr = [idx.hdr EXCEPT !.mxFrame = 0, !.salt = @ + 1]
    OBVIOUS
  <2>3. PICK r : r = [conn[c] EXCEPT !.pc = "ckptInfo", !.hdr = hdr]
    OBVIOUS
  <2>4. Set(c, r) /\ idx' = [idx EXCEPT !.hdr = hdr]
    BY <1>3, <2>1, <2>3, Zenon DEF RestartLog
  <2>5. idx'.hdr = hdr /\ idx'.nBackfill = idx.nBackfill /\ hdr.mxFrame = 0
    BY <1>1, <2>1, <2>4 DEF IdxShape, HdrShape
  <2>6. idx' # idx
    <3>1. idx.hdr.salt \in Nat /\ hdr.salt = idx.hdr.salt + 1
      BY <1>1, <2>1 DEF IdxShape, HdrShape
    <3> QED BY <2>5, <3>1
  <2>7. \A d \in Conns : ~conn[d].lock0
    BY <2>6 DEF CkptFree, LogInv, LocksOf
  <2>8. /\ r.pc = "ckptInfo" /\ r.hdr = hdr /\ r.appended = conn[c].appended
        /\ r.iFirst = conn[c].iFirst /\ r.writeLock = conn[c].writeLock
        /\ r.lock0 = conn[c].lock0 /\ r.iReCksum = conn[c].iReCksum
    BY <1>1, <2>3 DEF ConnShape
  <2>9. ChainRecord(r, wal'.valid, idx'.hdr.mxFrame)
    <3>1. PICK s : s = <<>> /\ Len(s) = 0
      OBVIOUS
    <3>2. r.appended = s /\ (r.iFirst > 0 => r.writeLock)
      BY <1>1, <2>8, <3>1 DEF ChainRecord, FrameSteps
    <3>3. r.hdr.mxFrame + Len(r.appended) + 1 <= wal'.valid + 1
      BY <1>1, <2>5, <2>8, <3>1, <3>2
    <3>4. r.iFirst > 0 => r.writeLock /\ r.iFirst > idx'.hdr.mxFrame
      BY <2>5, <3>2
    <3>5. ~(r.iReCksum > 0)
      <4>1. conn[c].hdr = idx.hdr
        <5>1. conn[c].writeLock /\ conn[c].readLock <= 0
          BY <1>1, OneWriter DEF LogInv, LocksOf, WriteSteps
        <5> QED BY <5>1 DEF LogInv, HeaderOf
      <4>2. conn[c].iReCksum \in Nat /\ idx.hdr.mxFrame \in Nat
        BY <1>1 DEF ConnShape, IdxShape, HdrShape
      <4>3. conn[c].iReCksum > 0 =>
                conn[c].iReCksum > idx.hdr.mxFrame /\ conn[c].iReCksum <= conn[c].hdr.mxFrame
        BY <1>1 DEF ChainRecord
      <4> QED BY <2>8, <4>1, <4>2, <4>3
    <3> QED BY <2>8, <3>1, <3>2, <3>3, <3>4, <3>5 DEF ChainRecord
  <2>10. Becomes(c, r)
    BY <2>4, SetsConn
  <2>11. idx'.hdr.mxFrame <= wal'.valid /\ idx'.nBackfill <= wal'.synced
    BY <1>1, <2>5 DEF ChainInv, DurableBeforeCopied
  <2> QED BY <1>2, <2>7, <2>8, <2>9, <2>10, <2>11, ChainStep
<1>4. CASE ~(idx.nBackfill > 0 /\ \A i \in 1..Marks : ReadFree(i))
  <2>1. PICK r : r = [conn[c] EXCEPT !.pc = "pick", !.readLock = -1]
    OBVIOUS
  <2>2. Set(c, r) /\ UNCHANGED idx
    BY <1>4, <2>1, Zenon DEF RestartLog
  <2>3. SameFrames(r, conn[c]) /\ r.pc = "pick" /\ r.lock0 = conn[c].lock0
    BY <1>1, <2>1 DEF ConnShape, SameFrames
  <2>4. ChainRecord(r, wal.valid, idx.hdr.mxFrame)
    BY <1>1, <2>3, ChainKept DEF FrameSteps
  <2>5. Becomes(c, r)
    BY <2>2, SetsConn
  <2>6. Quiet(c, r)
    BY <1>1, <1>2, <2>2, <2>3, <2>5 DEF Quiet
  <2> QED BY <2>4, <2>6, ChainQuiet
<1> QED BY <1>3, <1>4

LEMMA ResetCkptInfoChain ==
    ASSUME Shape, LogInv, ChainInv, NEW c \in Conns, ResetCkptInfo(c)
    PROVE  ChainInv'
<1>1. /\ ConnShape(conn[c]) /\ conn[c].pc = "ckptInfo" /\ UNCHANGED wal /\ IdxShape
      /\ ChainRecord(conn[c], wal.valid, idx.hdr.mxFrame) /\ wal.synced \in Nat
  BY ChainOfRecord DEF ResetCkptInfo, At, Shape, ChainInv, WalShape
<1>2. ~conn[c].lock0 /\ \A d \in Conns \ {c} : ~conn[d].writeLock
  BY <1>1, OneWriter DEF WriteSteps
<1>3. PICK r : r = [conn[c] EXCEPT !.pc = "pick", !.readLock = -1]
  OBVIOUS
<1>4. SameFrames(r, conn[c]) /\ r.pc = "pick" /\ r.lock0 = conn[c].lock0
  BY <1>1, <1>3 DEF ConnShape, SameFrames
<1>5. Becomes(c, r)
  BY <1>3, SetsConn DEF ResetCkptInfo
<1>6. idx'.hdr = idx.hdr /\ idx'.nBackfill = 0
  BY <1>1 DEF ResetCkptInfo, IdxShape
<1>7. ChainRecord(r, wal'.valid, idx'.hdr.mxFrame)
  BY <1>1, <1>4, <1>6, ChainKept DEF FrameSteps
<1>8. /\ idx'.hdr.mxFrame <= wal'.valid /\ idx'.nBackfill <= wal'.synced
      /\ \A d \in Conns \ {c} : conn[d].lock0 => conn[d].mxSafeFrame <= wal'.synced
  BY <1>1, <1>6 DEF ChainInv, DurableBeforeCopied
<1> QED BY <1>1, <1>2, <1>4, <1>5, <1>6, <1>7, <1>8, ChainStep

\* A checkpoint has no frames of its own.
CkptSteps == CopySteps \cup {"iterate", "marks"}
LEMMA CheckpointRecord ==
    ASSUME LogInv, ChainInv, NEW c \in Conns, conn[c].pc \in CkptSteps,
           NEW r, SameFrames(r, conn[c]), r.pc \in CkptSteps
    PROVE  \A v, m : ChainRecord(r, v, m)
<1>1. ~conn[c].writeLock /\ ~(conn[c].iFirst > 0) /\ ~(conn[c].iReCksum > 0) /\ conn[c].appended = <<>>
  BY NotWriting DEF WriteSteps, CkptSteps, CopySteps
<1>2. /\ ~r.writeLock /\ ~(r.iFirst > 0) /\ ~(r.iReCksum > 0) /\ r.appended = <<>>
      /\ r.pc \notin {"header", "publish", "append"}
  BY <1>1 DEF SameFrames, CkptSteps, CopySteps
<1> QED BY <1>2, ChainOfReader

\* A checkpoint goes on, with the same bound once it copies.
LEMMA CheckpointGoesOn ==
    ASSUME Shape, LogInv, ChainInv, NEW c \in Conns, conn[c].pc \in CkptSteps,
           NEW r, Set(c, r), SameFrames(r, conn[c]), r.pc \in CkptSteps, UNCHANGED wal,
           idx'.hdr = idx.hdr, idx'.nBackfill = idx.nBackfill,
           r.lock0 => conn[c].lock0 /\ r.mxSafeFrame = conn[c].mxSafeFrame
    PROVE  ChainInv'
<1>1. ChainRecord(r, wal.valid, idx.hdr.mxFrame)
  BY CheckpointRecord
<1>2. Becomes(c, r)
  BY SetsConn
<1>3. Quiet(c, r)
  BY <1>2 DEF Quiet
<1> QED BY <1>1, <1>3, ChainQuiet

LEMMA IterateChain ==
    ASSUME Shape, LogInv, ChainInv, NEW c \in Conns, Iterate(c)
    PROVE  ChainInv'
<1>1. conn[c].pc = "iterate" /\ ConnShape(conn[c]) /\ UNCHANGED <<wal, idx>>
  BY DEF Iterate, At, Shape
<1>2. CASE idx.nBackfill < conn[c].hdr.mxFrame
  <2>1. PICK iter : iter = Iterator(c)
    OBVIOUS
  <2>2. PICK r : r = [conn[c] EXCEPT !.pc = "marks", !.iter = iter, !.i = 1,
                                     !.mxSafeFrame = conn[c].hdr.mxFrame]
    OBVIOUS
  <2>3. Set(c, r)
    BY <1>2, <2>1, <2>2, Zenon DEF Iterate
  <2>4. SameFrames(r, conn[c]) /\ r.pc = "marks" /\ r.lock0 = conn[c].lock0
    BY <1>1, <2>2 DEF ConnShape, SameFrames
  <2>5. ~conn[c].lock0
    BY <1>1 DEF LogInv, LocksOf, CopySteps
  <2> QED BY <1>1, <2>3, <2>4, <2>5, CheckpointGoesOn DEF CkptSteps
<1>3. CASE ~(idx.nBackfill < conn[c].hdr.mxFrame)
  BY <1>1, <1>3, CloseChain DEF Iterate
<1> QED BY <1>2, <1>3

LEMMA CheckMarkChain ==
    ASSUME Shape, LogInv, ChainInv, NEW c \in Conns, CheckMark(c)
    PROVE  ChainInv'
<1>1. conn[c].pc = "marks" /\ ConnShape(conn[c]) /\ UNCHANGED wal /\ IdxShape
  BY DEF CheckMark, At, Shape
<1>2. PICK n, m : Set(c, [conn[c] EXCEPT !.i = n, !.mxSafeFrame = m])
  BY DEF CheckMark
<1>3. PICK r : r = [conn[c] EXCEPT !.i = n, !.mxSafeFrame = m]
  OBVIOUS
<1>4. SameFrames(r, conn[c]) /\ r.pc = "marks" /\ r.lock0 = conn[c].lock0
  BY <1>1, <1>3 DEF ConnShape, SameFrames
<1>5. ~conn[c].lock0
  BY <1>1 DEF LogInv, LocksOf, CopySteps
<1>6. idx'.hdr = idx.hdr /\ idx'.nBackfill = idx.nBackfill
  <2>1. idx' = idx \/ \E i, x : idx' = [idx EXCEPT !.mark[i] = x]
    BY DEF CheckMark
  <2> QED BY <1>1, <2>1 DEF IdxShape
<1> QED BY <1>1, <1>2, <1>3, <1>4, <1>5, <1>6, CheckpointGoesOn DEF CkptSteps

\* "Sync the WAL to disk": what is going to be copied is durable from here on.
LEMMA BeginBackfillChain ==
    ASSUME Shape, LogInv, ChainInv, NEW c \in Conns, BeginBackfill(c)
    PROVE  ChainInv'
<1>1. /\ conn[c].pc = "marks" /\ ConnShape(conn[c]) /\ UNCHANGED idx /\ WalShape
      /\ idx.hdr.mxFrame <= wal.valid
  BY DEF BeginBackfill, At, Shape, ChainInv, DurableBeforeCopied
<1>2. wal'.valid = wal.valid /\ wal'.synced = wal.valid
  BY <1>1 DEF BeginBackfill, WalShape
<1>3. PICK r : r = [conn[c] EXCEPT !.pc = "copy", !.lock0 = TRUE, !.backfilled = idx.nBackfill]
  OBVIOUS
<1>4. SameFrames(r, conn[c]) /\ r.pc = "copy" /\ r.mxSafeFrame = conn[c].mxSafeFrame
  BY <1>1, <1>3 DEF ConnShape, SameFrames
<1>5. \A v, m : ChainRecord(r, v, m)
  BY <1>1, <1>4, CheckpointRecord DEF CkptSteps, CopySteps
<1>6. Becomes(c, r)
  BY <1>3, SetsConn DEF BeginBackfill
<1>7. Numbers /\ wal.valid \in Nat
  BY <1>1, ShapeNumbers DEF WalShape
<1>8. ASSUME NEW d \in Conns, conn[d].lock0 \/ d = c
      PROVE  conn[d].mxSafeFrame <= wal'.synced
  <2>1. conn[d].mxSafeFrame <= idx.hdr.mxFrame
    BY <1>1, <1>7, <1>8, CheckpointWithinLog DEF At
  <2>2. conn[d].mxSafeFrame \in Nat /\ idx.hdr.mxFrame \in Nat
    BY <1>7 DEF Numbers
  <2> QED BY <1>1, <1>2, <1>7, <2>1, <2>2
<1>9. idx'.nBackfill <= wal'.synced
  <2>1. idx.nBackfill < conn[c].mxSafeFrame /\ conn[c].mxSafeFrame <= wal'.synced
    BY <1>8 DEF BeginBackfill
  <2>2. idx.nBackfill \in Nat /\ conn[c].mxSafeFrame \in Nat
    BY <1>7 DEF Numbers
  <2> QED BY <1>1, <1>2, <1>7, <2>1, <2>2
<1>10. idx'.hdr.mxFrame <= wal'.valid /\ r.mxSafeFrame <= wal'.synced
  BY <1>1, <1>2, <1>4, <1>8
<1>11. \A d \in Conns \ {c} : conn[d].writeLock => wal'.valid = wal.valid /\ idx'.hdr = idx.hdr
  BY <1>1, <1>2
<1>12. \A d \in Conns \ {c} : conn[d].lock0 => conn[d].mxSafeFrame <= wal'.synced
  BY <1>8
<1> QED BY <1>5, <1>6, <1>9, <1>10, <1>11, <1>12, ChainStep

LEMMA CopyPageChain ==
    ASSUME Shape, LogInv, ChainInv, NEW c \in Conns, CopyPage(c)
    PROVE  ChainInv'
<1>1. conn[c].pc = "copy" /\ ConnShape(conn[c]) /\ UNCHANGED <<wal, idx>>
  BY DEF CopyPage, At, Shape
<1>2. PICK iter : Set(c, [conn[c] EXCEPT !.iter = iter])
  BY DEF CopyPage
<1>3. PICK r : r = [conn[c] EXCEPT !.iter = iter]
  OBVIOUS
<1>4. /\ SameFrames(r, conn[c]) /\ r.pc = "copy" /\ r.lock0 = conn[c].lock0
      /\ r.mxSafeFrame = conn[c].mxSafeFrame
  BY <1>1, <1>3 DEF ConnShape, SameFrames
<1> QED BY <1>1, <1>2, <1>3, <1>4, CheckpointGoesOn DEF CkptSteps, CopySteps

LEMMA TruncateDbChain ==
    ASSUME Shape, LogInv, ChainInv, NEW c \in Conns, TruncateDb(c)
    PROVE  ChainInv'
<1>1. conn[c].pc = "truncate" /\ ConnShape(conn[c]) /\ UNCHANGED <<wal, idx>>
  BY DEF TruncateDb, At, Shape
<1>2. PICK r : r = [conn[c] EXCEPT !.pc = "syncDb"]
  OBVIOUS
<1>3. /\ SameFrames(r, conn[c]) /\ r.pc = "syncDb" /\ r.lock0 = conn[c].lock0
      /\ r.mxSafeFrame = conn[c].mxSafeFrame
  BY <1>1, <1>2 DEF ConnShape, SameFrames
<1>4. Set(c, r)
  BY <1>2 DEF TruncateDb
<1> QED BY <1>1, <1>3, <1>4, CheckpointGoesOn DEF CkptSteps, CopySteps

\* nBackfill: what has been copied is durable in the log.
LEMMA BackfillChain ==
    ASSUME Shape, LogInv, ChainInv, NEW c \in Conns, conn[c].pc \in CopySteps, UNCHANGED wal,
           idx' = [idx EXCEPT !.nBackfill = conn[c].mxSafeFrame], Set(c, Closed)
    PROVE  ChainInv'
<1>1. conn[c].lock0
  BY DEF LogInv, LocksOf
<1>2. IdxShape /\ DurableBeforeCopied
  BY DEF Shape, ChainInv
<1>3. idx'.hdr = idx.hdr /\ idx'.nBackfill = conn[c].mxSafeFrame
  BY <1>2 DEF IdxShape
<1>4. Becomes(c, Closed) /\ ~Closed.lock0
  BY SetsConn DEF Closed
<1>5. idx'.hdr.mxFrame <= wal'.valid /\ idx'.nBackfill <= wal'.synced
  BY <1>1, <1>2, <1>3 DEF DurableBeforeCopied
<1>6. \A d \in Conns \ {c} : conn[d].lock0 => conn[d].mxSafeFrame <= wal'.synced
  BY <1>2 DEF DurableBeforeCopied
<1> QED BY <1>3, <1>4, <1>5, <1>6, ChainClosed, ChainStep

LEMMA CopiedChain ==
    ASSUME Shape, LogInv, ChainInv, NEW c \in Conns, Copied(c)
    PROVE  ChainInv'
<1>1. conn[c].pc = "copy" /\ ConnShape(conn[c]) /\ UNCHANGED wal
  BY DEF Copied, At, Shape
<1>2. CASE conn[c].mxSafeFrame = idx.hdr.mxFrame
  <2>1. PICK r : r = [conn[c] EXCEPT !.pc = "truncate"]
    OBVIOUS
  <2>2. Set(c, r) /\ UNCHANGED idx
    BY <1>2, <2>1 DEF Copied
  <2>3. /\ SameFrames(r, conn[c]) /\ r.pc = "truncate" /\ r.lock0 = conn[c].lock0
        /\ r.mxSafeFrame = conn[c].mxSafeFrame
    BY <1>1, <2>1 DEF ConnShape, SameFrames
  <2> QED BY <1>1, <2>2, <2>3, CheckpointGoesOn DEF CkptSteps, CopySteps
<1>3. CASE conn[c].mxSafeFrame # idx.hdr.mxFrame
  BY <1>1, <1>3, BackfillChain DEF Copied, CopySteps
<1> QED BY <1>2, <1>3

\* A crash: nothing is open, and the wal-index is gone.
LEMMA CrashChain ==
    ASSUME Shape, Crash \/ PowerLoss
    PROVE  ChainInv'
<1>1. WalShape'
  BY CrashInv DEF Shape
<1>2. conn' = [d \in Conns |-> Closed] /\ idx' = NoIndex
  BY DEF Crash, PowerLoss, AllClosed
<1>3. idx'.hdr.mxFrame = 0 /\ idx'.nBackfill = 0
  BY <1>2 DEF NoIndex, NoHdr
<1>4. wal'.valid \in Nat /\ wal'.synced \in Nat
  BY <1>1 DEF WalShape
<1>5. \A d \in Conns : conn'[d] = Closed /\ ~Closed.lock0
  BY <1>2 DEF Closed
<1>6. DurableBeforeCopied'
  BY <1>3, <1>4, <1>5 DEF DurableBeforeCopied
<1>7. ASSUME NEW d \in Conns PROVE ChainOf(d)'
  BY <1>5, ChainClosed, ChainOfRecord
<1> QED BY <1>6, <1>7 DEF ChainInv

LEMMA InitChain == Init => ChainInv
<1> SUFFICES ASSUME Init PROVE ChainInv
  OBVIOUS
<1>1. idx.hdr.mxFrame = 0 /\ idx.nBackfill = 0 /\ wal.valid = 0 /\ wal.synced = 0
  BY DEF Init, NoIndex, NoHdr, EmptyLog
<1>2. \A d \in Conns : conn[d] = Closed /\ ~Closed.lock0
  BY DEF Init, Closed
<1>3. DurableBeforeCopied
  BY <1>1, <1>2 DEF DurableBeforeCopied
<1>4. ASSUME NEW d \in Conns PROVE ChainOf(d)
  BY <1>2, ChainClosed, ChainOfRecord
<1> QED BY <1>3, <1>4 DEF ChainInv

-----------------------------------------------------------------------------
(***************************************************************************)
(* The theorems                                                            *)
(***************************************************************************)
LEMMA NextInv ==
    ASSUME Shape, LogInv, Next, RestartApart
    PROVE  Shape' /\ LogInv'
<1>1. CASE Crash \/ PowerLoss
  BY <1>1, CrashInv
<1>2. ASSUME NEW c \in Conns,
             \/ TryHdr(c) \/ Lock0(c) \/ PickMark(c) \/ LockMark(c) \/ EndRead(c)
      PROVE  Shape' /\ LogInv'
  BY <1>2, TryHdrInv, Lock0Inv, PickMarkInv, LockMarkInv, EndReadInv
<1>3. ASSUME NEW c \in Conns, BeginWrite(c) \/ Publish(c) \/ Rollback(c) \/ UnlockError(c)
      PROVE  Shape' /\ LogInv'
  BY <1>3, BeginWriteInv, PublishInv, RollbackInv, UnlockErrorInv
<1>4. ASSUME NEW c \in Conns,
             Shrink(c) \/ Commit(c) \/ \E p \in 1..MaxPages : Write(c, p) \/ Spill(c, p)
      PROVE  Shape' /\ LogInv'
  <2>1. CASE Shrink(c)
    BY <2>1, ChangedInv DEF Shrink
  <2>2. ASSUME NEW p \in 1..MaxPages, Write(c, p)
        PROVE  Shape' /\ LogInv'
    BY <2>2, ChangedInv DEF Write
  <2>3. CASE Commit(c)
    BY <2>3, WalFramesInv DEF Commit
  <2>4. ASSUME NEW p \in 1..MaxPages, Spill(c, p)
        PROVE  Shape' /\ LogInv'
    BY <2>4, WalFramesInv DEF Spill
  <2> QED BY <1>4, <2>1, <2>2, <2>3, <2>4
<1>5. ASSUME NEW c \in Conns, RestartLog(c) \/ ResetCkptInfo(c)
      PROVE  Shape' /\ LogInv'
  BY <1>5, RestartLogInv, ResetCkptInfoInv DEF RestartApart
<1>6. ASSUME NEW c \in Conns,
             \/ WriteHeader(c) \/ HeaderFails(c) \/ Rewrite(c) \/ AppendFrame(c) \/ WriteFails(c)
             \/ RewriteChecksums(c) \/ AppendIndex(c)
      PROVE  Shape' /\ LogInv'
  BY <1>6, WriteHeaderInv, HeaderFailsInv, RewriteInv, AppendFrameInv, WriteFailsInv, RewriteChecksumsInv,
     AppendIndexInv
<1>7. ASSUME NEW c \in Conns,
             \/ Checkpoint(c) \/ Iterate(c) \/ CheckMark(c) \/ BeginBackfill(c)
             \/ EndCheckpoint(c) \/ CopyPage(c) \/ Copied(c) \/ TruncateDb(c) \/ SyncDb(c)
      PROVE  Shape' /\ LogInv'
  BY <1>7, CheckpointInv, IterateInv, CheckMarkInv, BeginBackfillInv, EndCheckpointInv,
     CopyPageInv, CopiedInv, TruncateDbInv, SyncDbInv
<1> QED BY <1>1, <1>2, <1>3, <1>4, <1>5, <1>6, <1>7 DEF Next

LEMMA StutterInv ==
    ASSUME Shape, LogInv, UNCHANGED vars
    PROVE  Shape' /\ LogInv'
<1> USE DEF vars
<1>1. WalShape' /\ IdxShape'
  BY SameWal, SameIndex
<1>2. Shape'
  BY <1>1 DEF Shape
<1>3. ClosedUntilInit' /\ BackfillWithinLog' /\ LocksExclusive' /\ CheckpointBehindReaders'
  BY DEF LogInv, ClosedUntilInit, BackfillWithinLog, LocksExclusive, CheckpointBehindReaders,
         Read0Busy, Restarting, At
<1>4. ASSUME NEW d \in Conns
      PROVE  LocksOf(d)' /\ HeaderOf(d)' /\ RestartOf(d)' /\ ReaderOf(d)' /\ CheckpointOf(d)'
  BY DEF LogInv, LocksOf, HeaderOf, RestartOf, ReaderOf, CheckpointOf, At
<1> QED BY <1>2, <1>3, <1>4 DEF LogInv

\* As long as no checkpoint overlaps a restart of the log, LogInv holds: for every
\* connection, which locks of the wal-index it holds, how old its header is, that its
\* mark does not exceed its log, and what a checkpoint may copy.
THEOREM LogInvariant == SpecApart => []LogInv
<1>1. Init => Shape /\ LogInv
  BY InitShape, InitInv
<1>2. Shape /\ LogInv /\ [Next /\ RestartApart]_vars => (Shape /\ LogInv)'
  BY NextInv, StutterInv
<1> QED BY <1>1, <1>2, PTL DEF SpecApart

\* Then a checkpoint never copies what a reader does not see yet, and nobody copies
\* while a reader reads the database file alone ("This routine will never overwrite a
\* database page that a concurrent reader might be using").
THEOREM CheckpointsStayBehindReaders == SpecApart => []CheckpointBehindReaders
<1>1. LogInv => CheckpointBehindReaders
  BY DEF LogInv
<1> QED BY <1>1, LogInvariant, PTL

\* And nBackfill is never greater than the last frame of the log, except between the two
\* writes of walRestartHdr.
THEOREM BackfillStaysWithinLog == SpecApart => []BackfillWithinLog
<1>1. LogInv => BackfillWithinLog
  BY DEF LogInv
<1> QED BY <1>1, LogInvariant, PTL

LEMMA ChainNext ==
    ASSUME Shape, LogInv, ChainInv, Next, RestartApart
    PROVE  ChainInv'
<1>1. CASE Crash \/ PowerLoss
  BY <1>1, CrashChain
<1>2. ASSUME NEW c \in Conns, TryHdr(c) \/ Lock0(c) \/ PickMark(c) \/ LockMark(c)
      PROVE  ChainInv'
  BY <1>2, TryHdrChain, Lock0Chain, PickMarkChain, LockMarkChain
<1>3. ASSUME NEW c \in Conns, EndRead(c) \/ EndCheckpoint(c) \/ UnlockError(c)
      PROVE  ChainInv'
  BY <1>3, CloseChain DEF EndRead, EndCheckpoint, UnlockError
<1>4. ASSUME NEW c \in Conns,
             \/ BeginWrite(c) \/ Publish(c) \/ Rollback(c)
             \/ Shrink(c) \/ Commit(c) \/ \E p \in 1..MaxPages : Write(c, p) \/ Spill(c, p)
      PROVE  ChainInv'
  <2>1. CASE BeginWrite(c) \/ Publish(c) \/ Rollback(c)
    BY <2>1, BeginWriteChain, PublishChain, RollbackChain
  <2>2. CASE Shrink(c)
    BY <2>2, ChangedChain DEF Shrink
  <2>3. ASSUME NEW p \in 1..MaxPages, Write(c, p)
        PROVE  ChainInv'
    BY <2>3, ChangedChain DEF Write
  <2>4. CASE Commit(c)
    BY <2>4, WalFramesChain DEF Commit
  <2>5. ASSUME NEW p \in 1..MaxPages, Spill(c, p)
        PROVE  ChainInv'
    BY <2>5, WalFramesChain DEF Spill
  <2> QED BY <1>4, <2>1, <2>2, <2>3, <2>4, <2>5
<1>5. ASSUME NEW c \in Conns, RestartLog(c) \/ ResetCkptInfo(c)
      PROVE  ChainInv'
  BY <1>5, RestartLogChain, ResetCkptInfoChain DEF RestartApart
<1>6. ASSUME NEW c \in Conns,
             \/ WriteHeader(c) \/ HeaderFails(c) \/ Rewrite(c) \/ AppendFrame(c) \/ WriteFails(c)
             \/ RewriteChecksums(c) \/ AppendIndex(c)
      PROVE  ChainInv'
  BY <1>6, WriteHeaderChain, HeaderFailsChain, RewriteChain, AppendFrameChain, WriteFailsChain,
     RewriteChecksumsChain, AppendIndexChain
<1>7. ASSUME NEW c \in Conns,
             \/ Checkpoint(c) \/ Iterate(c) \/ CheckMark(c) \/ BeginBackfill(c)
             \/ CopyPage(c) \/ Copied(c) \/ TruncateDb(c)
      PROVE  ChainInv'
  BY <1>7, CheckpointChain, IterateChain, CheckMarkChain, BeginBackfillChain,
     CopyPageChain, CopiedChain, TruncateDbChain
<1>8. ASSUME NEW c \in Conns, SyncDb(c)
      PROVE  ChainInv'
  BY <1>8, BackfillChain DEF SyncDb, At, CopySteps
<1> QED BY <1>1, <1>2, <1>3, <1>4, <1>5, <1>6, <1>7, <1>8 DEF Next

LEMMA ChainStutter ==
    ASSUME ChainInv, UNCHANGED vars
    PROVE  ChainInv'
<1> USE DEF vars
<1>1. DurableBeforeCopied'
  BY DEF ChainInv, DurableBeforeCopied
<1>2. ASSUME NEW d \in Conns PROVE ChainOf(d)'
  BY ChainOfRecord DEF ChainInv
<1> QED BY <1>1, <1>2 DEF ChainInv

\* On top of LogInv, ChainInv holds: the frames that a writer has written lie behind the
\* last commit and continue the chain of checksums, but for those that were written in
\* place, which get new checksums before the commit (iReCksum).
THEOREM ChainInvariant == SpecApart => []ChainInv
<1>1. Init => Shape /\ LogInv /\ ChainInv
  BY InitShape, InitInv, InitChain
<1>2. Shape /\ LogInv /\ ChainInv /\ [Next /\ RestartApart]_vars
      => (Shape /\ LogInv /\ ChainInv)'
  <2>1. ASSUME Shape, LogInv, ChainInv, Next, RestartApart
        PROVE  (Shape /\ LogInv /\ ChainInv)'
    BY <2>1, NextInv, ChainNext
  <2>2. ASSUME Shape, LogInv, ChainInv, UNCHANGED vars
        PROVE  (Shape /\ LogInv /\ ChainInv)'
    BY <2>2, StutterInv, ChainStutter
  <2> QED BY <2>1, <2>2
<1> QED BY <1>1, <1>2, PTL DEF SpecApart

\* So whatever a checkpoint copies, or has copied, is durable in the log ("Sync the WAL
\* to disk"), and every committed frame is one that recovery finds.
THEOREM FramesDurableBeforeCopied == SpecApart => []DurableBeforeCopied
<1>1. ChainInv => DurableBeforeCopied
  BY DEF ChainInv
<1> QED BY <1>1, ChainInvariant, PTL
=============================================================================
