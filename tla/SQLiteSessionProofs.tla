-------------------------- MODULE SQLiteSessionProofs --------------------------
(***************************************************************************)
(* Proofs about SQLiteSession, for any sessions, connections, depth of     *)
(* nesting and behaviour of SQLite: SessionInv is inductive, and from it a *)
(* connection is held exactly while it is needed, an ended transaction     *)
(* leaves nothing pending, and only what the application meant to commit   *)
(* is committed.                                                           *)
(*                                                                         *)
(* A step of session t changes t's own fields and at most one connection,  *)
(* the one that t holds or a free one.  So SessionInv is taken apart into  *)
(* what is said of one session (Local), of one connection (Settled) and of *)
(* two sessions (they hold different connections), and a step is shown to  *)
(* keep the parts about t and about its connection.                        *)
(***************************************************************************)
EXTENDS SQLiteSession, SequenceFacts, TLAPS

-----------------------------------------------------------------------------
(***************************************************************************)
(* The invariant by sessions and by connections                            *)
(***************************************************************************)
Held(t) ==
    /\ mConnectionUseCount[t] = operations[t] + IF InTransaction(t) THEN 1 ELSE 0
    /\ mConnection[t] # None <=> mConnectionUseCount[t] > 0
Mirrored(t) ==
    /\ Len(history[t].marks) = Len(mTransactionStack[t])
    /\ \A i \in 1..Len(mTransactionStack[t]) :
           history[t].marks[i] = mTransactionStack[t][i].mMarkedSuccessful
Remembered(t) ==
    InTransaction(t) /\ history[t].failed =>
        \E i \in 1..Len(mTransactionStack[t]) : mTransactionStack[t][i].mChildFailed
Owned(t) ==
    InTransaction(t) /\ mConnection[t] \in Conns =>
        /\ ~sqlite[mConnection[t]].kept
        /\ sqlite[mConnection[t]].open \/ history[t].lost
YieldsOut(t) == pc[t] = "yielding" => ~InTransaction(t) /\ operations[t] = 0

Local(t) == Held(t) /\ Mirrored(t) /\ Remembered(t) /\ Owned(t) /\ YieldsOut(t)

Settled(c) ==
    /\ sqlite[c].kept \/ sqlite[c].pending # {} => sqlite[c].open
    /\ ~sqlite[c].kept =>
           \A t \in sqlite[c].pending : InTransaction(t) /\ mConnection[t] = c
    /\ sqlite[c].open /\ ~sqlite[c].kept =>
           \E t \in Sessions : InTransaction(t) /\ mConnection[t] = c

Distinct == \A t, u \in Sessions :
    mConnection[u] = mConnection[t] /\ mConnection[t] # None => u = t

\* The parts make up the invariant.
LEMMA Parts ==
    TypeOK => (SessionInv <=> /\ \A t \in Sessions : Local(t)
                              /\ \A c \in Conns : Settled(c)
                              /\ Distinct)
<1> SUFFICES ASSUME TypeOK
             PROVE  SessionInv <=> /\ \A t \in Sessions : Local(t)
                                   /\ \A c \in Conns : Settled(c)
                                   /\ Distinct
  OBVIOUS
<1>1. \A t \in Sessions : DOMAIN mTransactionStack[t] = 1..Len(mTransactionStack[t])
  BY Empty DEF TypeOK
<1>2. ConnectionHeldWhileNeeded <=> (\A t \in Sessions : Held(t)) /\ Distinct
  BY DEF ConnectionHeldWhileNeeded, Held, Distinct
<1>3. MarksMirrored <=> \A t \in Sessions : Mirrored(t)
  BY <1>1 DEF MarksMirrored, Mirrored
<1>4. FailureRemembered <=> \A t \in Sessions : Remembered(t)
  BY <1>1 DEF FailureRemembered, Remembered
<1>5. YieldsOutside <=> \A t \in Sessions : YieldsOut(t)
  BY DEF YieldsOutside, YieldsOut
<1>6. EndedTransactionSettled /\ TransactionOwned <=>
          (\A c \in Conns : Settled(c)) /\ (\A t \in Sessions : Owned(t))
  <2>1. ASSUME \A c \in Conns : Settled(c)
        PROVE  \A c \in Conns : ~sqlite[c].kept /\ c \in Free => ~sqlite[c].open
    BY <2>1 DEF Settled, Free
  <2> QED
    BY <2>1 DEF EndedTransactionSettled, TransactionOwned, Settled, Owned
<1> QED
  BY <1>2, <1>3, <1>4, <1>5, <1>6 DEF SessionInv, Local

\* The same of the state after a step.
LEMMA PartsAfter ==
    ASSUME TypeOK', \A t \in Sessions : Local(t)',
           \A c \in Conns : Settled(c)', Distinct'
    PROVE  SessionInv'
<1>1. (\A t \in Sessions : Local(t))' /\ (\A c \in Conns : Settled(c))'
  OBVIOUS
<1> QED
  BY <1>1, Parts, PTL

-----------------------------------------------------------------------------
(***************************************************************************)
(* What a step of session t leaves alone                                   *)
(***************************************************************************)
OthersKept(t) == \A u \in Sessions : u # t =>
    /\ mConnection'[u] = mConnection[u]
    /\ mConnectionUseCount'[u] = mConnectionUseCount[u]
    /\ mTransactionStack'[u] = mTransactionStack[u]
    /\ operations'[u] = operations[u]
    /\ pc'[u] = pc[u]
    /\ history'[u] = history[u]

ConnectionsKept(c) == \A d \in Conns : d # c => sqlite'[d] = sqlite[d]

\* A session that holds a connection in a transaction.
LEMMA HoldsInTransaction ==
    ASSUME SessionAssumption, SessionInv, NEW t \in Sessions,
           InTransaction(t) \/ operations[t] > 0
    PROVE  mConnection[t] \in Conns
<1>1. Held(t)
  BY Parts DEF SessionInv, Local
<1> QED
  BY <1>1 DEF Held, SessionInv, TypeOK

\* The parts about the other sessions and the other connections follow.
LEMMA Frame ==
    ASSUME SessionAssumption, SessionInv, TypeOK',
           NEW t \in Sessions, NEW c \in Acquirable(t), c \in Conns,
           OthersKept(t), ConnectionsKept(c),
           mConnection'[t] \in {None, c}, Local(t)', Settled(c)'
    PROVE  SessionInv'
<1>1. TypeOK /\ (\A u \in Sessions : Local(u)) /\ (\A d \in Conns : Settled(d)) /\ Distinct
  BY Parts DEF SessionInv
<1>2. \A u \in Sessions : u # t => mConnection[u] # c
  BY <1>1 DEF Acquirable, Free, Distinct, SessionAssumption
<1>3. mConnection[t] \in {None, c}
  BY DEF Acquirable
<1>4. ASSUME NEW u \in Sessions, u # t
      PROVE  Local(u)'
  <2> /\ mConnection'[u] = mConnection[u] /\ operations'[u] = operations[u]
      /\ mConnectionUseCount'[u] = mConnectionUseCount[u]
      /\ mTransactionStack'[u] = mTransactionStack[u]
      /\ pc'[u] = pc[u] /\ history'[u] = history[u]
    BY <1>4 DEF OthersKept
  <2> Local(u)
    BY <1>1
  <2>1. Held(u)'
    BY DEF Local, Held, InTransaction
  <2>2. Mirrored(u)' /\ Remembered(u)' /\ YieldsOut(u)'
    BY DEF Local, Mirrored, Remembered, YieldsOut, InTransaction
  <2>3. Owned(u)'
    BY <1>2, <1>4 DEF Local, Owned, InTransaction, ConnectionsKept
  <2> QED
    BY <2>1, <2>2, <2>3 DEF Local
<1>5. ASSUME NEW d \in Conns, d # c
      PROVE  Settled(d)'
  <2>1. sqlite'[d] = sqlite[d] /\ Settled(d)
    BY <1>1, <1>5 DEF ConnectionsKept
  <2>2. \A u \in Sessions : (InTransaction(u) /\ mConnection[u] = d) =>
                                (InTransaction(u)' /\ mConnection'[u] = d)
    BY <1>3, <1>5 DEF OthersKept, InTransaction, SessionAssumption
  <2>3. sqlite[d].pending \subseteq Sessions
    BY <1>1 DEF TypeOK
  <2> QED
    BY <2>1, <2>2, <2>3 DEF Settled
<1>6. Distinct'
  BY <1>1, <1>2, <1>3 DEF Distinct, OthersKept
<1> QED
  BY <1>4, <1>5, <1>6, PartsAfter

\* A step that changes neither connections nor what t holds.
LEMMA FrameOwn ==
    ASSUME SessionAssumption, SessionInv, TypeOK', NEW t \in Sessions, OthersKept(t),
           mConnection'[t] = mConnection[t], sqlite' = sqlite,
           InTransaction(t)' <=> InTransaction(t), Local(t)'
    PROVE  SessionInv'
<1>1. TypeOK /\ (\A u \in Sessions : Local(u)) /\ (\A d \in Conns : Settled(d)) /\ Distinct
  BY Parts DEF SessionInv
<1>2. ASSUME NEW u \in Sessions, u # t
      PROVE  Local(u)'
  <2> /\ mConnection'[u] = mConnection[u] /\ operations'[u] = operations[u]
      /\ mConnectionUseCount'[u] = mConnectionUseCount[u]
      /\ mTransactionStack'[u] = mTransactionStack[u]
      /\ pc'[u] = pc[u] /\ history'[u] = history[u]
    BY <1>2 DEF OthersKept
  <2> Local(u)
    BY <1>1
  <2> QED
    BY DEF Local, Held, Mirrored, Remembered, YieldsOut, Owned, InTransaction
<1>3. ASSUME NEW d \in Conns
      PROVE  Settled(d)'
  <2>1. Settled(d) /\ sqlite[d].pending \subseteq Sessions
    BY <1>1 DEF TypeOK
  <2>2. \A u \in Sessions : (InTransaction(u) /\ mConnection[u] = d) =>
                                (InTransaction(u)' /\ mConnection'[u] = d)
    BY DEF OthersKept, InTransaction
  <2> QED
    BY <2>1, <2>2 DEF Settled
<1>4. Distinct'
  BY <1>1 DEF Distinct, OthersKept
<1> QED
  BY <1>2, <1>3, <1>4, PartsAfter

-----------------------------------------------------------------------------
(***************************************************************************)
(* What the helpers of the calls do to the fields                          *)
(***************************************************************************)
\* acquireConnection
LEMMA Acquired ==
    ASSUME SessionAssumption, TypeOK, NEW t \in Sessions, NEW c \in Conns,
           AcquireConnection(t, c), mConnectionUseCount[t] <= MaxOperations
    PROVE  /\ mConnection' \in [Sessions -> Conns \cup {None}]
           /\ mConnectionUseCount' \in [Sessions -> 0..(MaxOperations + 1)]
           /\ mConnection'[t] = c
           /\ mConnectionUseCount'[t] = mConnectionUseCount[t] + 1
           /\ \A u \in Sessions : u # t =>
                  /\ mConnection'[u] = mConnection[u]
                  /\ mConnectionUseCount'[u] = mConnectionUseCount[u]
<1>1. mConnectionUseCount[t] + 1 \in 0..(MaxOperations + 1)
  BY DEF TypeOK, SessionAssumption
<1> QED
  BY <1>1 DEF AcquireConnection, TypeOK

\* releaseConnection
LEMMA Released ==
    ASSUME SessionAssumption, TypeOK, NEW t \in Sessions, ReleaseConnection(t),
           mConnectionUseCount[t] > 0
    PROVE  /\ mConnection' \in [Sessions -> Conns \cup {None}]
           /\ mConnectionUseCount' \in [Sessions -> 0..(MaxOperations + 1)]
           /\ mConnection'[t] = IF mConnectionUseCount[t] = 1 THEN None ELSE mConnection[t]
           /\ mConnectionUseCount'[t] = mConnectionUseCount[t] - 1
           /\ \A u \in Sessions : u # t =>
                  /\ mConnection'[u] = mConnection[u]
                  /\ mConnectionUseCount'[u] = mConnectionUseCount[u]
<1>1. mConnectionUseCount[t] - 1 \in 0..(MaxOperations + 1)
  BY DEF TypeOK, SessionAssumption
<1> QED
  BY <1>1 DEF ReleaseConnection, TypeOK

History == [marks : Seq(BOOLEAN), failed : BOOLEAN, lost : BOOLEAN]

\* obtainTransaction and the push
LEMMA Pushed ==
    ASSUME TypeOK, NEW t \in Sessions, NEW listener \in BOOLEAN, Mirrored(t),
           PushTransaction(t, listener)
    PROVE  /\ mTransactionStack' \in [Sessions -> Seq(Transaction)]
           /\ mTransactionPool' \in [Sessions -> Seq(Transaction)]
           /\ history' \in [Sessions -> History]
           /\ \A u \in Sessions : u # t => /\ mTransactionStack'[u] = mTransactionStack[u]
                                           /\ history'[u] = history[u]
           /\ InTransaction(t)' /\ Len(mTransactionStack'[t]) = Len(mTransactionStack[t]) + 1
           /\ \A i \in 1..Len(mTransactionStack[t]) :
                  mTransactionStack'[t][i] = mTransactionStack[t][i]
           /\ Mirrored(t)'
           /\ history'[t].failed = (InTransaction(t) /\ history[t].failed)
           /\ history'[t].lost = (InTransaction(t) /\ history[t].lost)
<1> DEFINE stack == mTransactionStack[t]
           new == [mMarkedSuccessful |-> FALSE, mChildFailed |-> FALSE, listener |-> listener]
           h == history[t]
           next == IF InTransaction(t) THEN [h EXCEPT !.marks = Append(h.marks, FALSE)]
                   ELSE [marks |-> <<FALSE>>, failed |-> FALSE, lost |-> FALSE]
<1>1. stack \in Seq(Transaction) /\ new \in Transaction /\ h \in History
  BY DEF TypeOK, Transaction, History
<1>2. /\ Append(stack, new) \in Seq(Transaction) /\ Append(stack, new) # <<>>
      /\ Len(Append(stack, new)) = Len(stack) + 1
      /\ \A i \in 1..Len(stack) : Append(stack, new)[i] = stack[i]
      /\ Append(stack, new)[Len(stack) + 1] = new
  <2> HIDE DEF stack, new
  <2> QED
    BY <1>1, AppendKeeps
<1>3. mTransactionStack' = [mTransactionStack EXCEPT ![t] = Append(stack, new)]
  BY DEF PushTransaction, ObtainTransaction
<1>4. /\ mTransactionStack' \in [Sessions -> Seq(Transaction)]
      /\ mTransactionStack'[t] = Append(stack, new)
      /\ \A u \in Sessions : u # t => mTransactionStack'[u] = mTransactionStack[u]
  BY <1>2, <1>3 DEF TypeOK
<1>5. mTransactionPool' \in [Sessions -> Seq(Transaction)]
  <2>1. mTransactionPool[t] # <<>> => Tail(mTransactionPool[t]) \in Seq(Transaction)
    BY HeadTailProperties DEF TypeOK
  <2> QED
    BY <2>1 DEF PushTransaction, TypeOK
<1>6. /\ Append(h.marks, FALSE) \in Seq(BOOLEAN)
      /\ Len(Append(h.marks, FALSE)) = Len(h.marks) + 1
      /\ \A i \in 1..Len(h.marks) : Append(h.marks, FALSE)[i] = h.marks[i]
      /\ Append(h.marks, FALSE)[Len(h.marks) + 1] = FALSE
  <2>1. h.marks \in Seq(BOOLEAN)
    BY <1>1 DEF History
  <2>2. FALSE \in BOOLEAN
    OBVIOUS
  <2> HIDE DEF h
  <2> QED
    BY <2>1, <2>2, AppendKeeps
<1>7. /\ <<FALSE>> \in Seq(BOOLEAN) /\ Len(<<FALSE>>) = 1 /\ <<FALSE>>[1] = FALSE
  OBVIOUS
<1>8. /\ next \in History
      /\ next.marks = IF InTransaction(t) THEN Append(h.marks, FALSE) ELSE <<FALSE>>
      /\ next.failed = (InTransaction(t) /\ h.failed)
      /\ next.lost = (InTransaction(t) /\ h.lost)
  BY <1>1, <1>6, <1>7 DEF History
<1>9. /\ history' \in [Sessions -> History] /\ history'[t] = next
      /\ \A u \in Sessions : u # t => history'[u] = history[u]
  <2>1. history \in [Sessions -> History]
    BY DEF TypeOK, History
  <2>2. CASE InTransaction(t)
    <3>1. history' = [history EXCEPT ![t] = [h EXCEPT !.marks = Append(h.marks, FALSE)]]
      BY <2>2 DEF PushTransaction
    <3>2. next = [h EXCEPT !.marks = Append(h.marks, FALSE)]
      BY <2>2
    <3> HIDE DEF next, h
    <3> QED
      BY <2>1, <3>1, <3>2, <1>8
  <2>3. CASE ~InTransaction(t)
    <3>1. history' = [history EXCEPT ![t] = [marks |-> <<FALSE>>, failed |-> FALSE, lost |-> FALSE]]
      BY <2>3 DEF PushTransaction
    <3>2. next = [marks |-> <<FALSE>>, failed |-> FALSE, lost |-> FALSE]
      BY <2>3
    <3> HIDE DEF next, h
    <3> QED
      BY <2>1, <3>1, <3>2, <1>8
  <2> QED
    BY <2>2, <2>3
<1> HIDE DEF next
<1>10. Mirrored(t)'
  <2>1. Len(stack) \in Nat /\ (stack # <<>> <=> Len(stack) > 0)
    BY <1>1, Empty
  <2>2. /\ Len(h.marks) = Len(stack)
        /\ \A i \in 1..Len(stack) : h.marks[i] = stack[i].mMarkedSuccessful
    BY DEF Mirrored
  <2>3. CASE InTransaction(t)
    <3>1. /\ Len(mTransactionStack'[t]) = Len(stack) + 1
          /\ Len(history'[t].marks) = Len(stack) + 1
      BY <2>2, <2>3, <1>2, <1>4, <1>6, <1>8, <1>9
    <3>2. ASSUME NEW i \in 1..Len(stack)
          PROVE  history'[t].marks[i] = mTransactionStack'[t][i].mMarkedSuccessful
      BY <2>2, <2>3, <1>2, <1>4, <1>6, <1>8, <1>9
    <3>3. mTransactionStack'[t][Len(stack) + 1] = new
      BY <1>2, <1>4
    <3>4. history'[t].marks[Len(stack) + 1] = new.mMarkedSuccessful
      BY <2>2, <2>3, <1>6, <1>8, <1>9
    <3>5. \A i \in 1..(Len(stack) + 1) : i \in 1..Len(stack) \/ i = Len(stack) + 1
      BY <2>1
    <3> HIDE DEF new
    <3> QED
      BY <3>1, <3>2, <3>3, <3>4, <3>5 DEF Mirrored
  <2>4. CASE ~InTransaction(t)
    <3>1. Len(stack) = 0
      BY <2>1, <2>4 DEF InTransaction
    <3>2. Len(mTransactionStack'[t]) = 1 /\ mTransactionStack'[t][1] = new
      BY <3>1, <1>2, <1>4
    <3>3. history'[t].marks = <<FALSE>>
      BY <2>4, <1>8, <1>9
    <3>4. mTransactionStack'[t][1].mMarkedSuccessful = FALSE
      BY <3>2
    <3>5. Len(history'[t].marks) = 1 /\ history'[t].marks[1] = FALSE
      BY <3>3
    <3>6. \A i \in 1..1 : i = 1
      OBVIOUS
    <3> QED
      BY <3>2, <3>4, <3>5, <3>6 DEF Mirrored
  <2> QED
    BY <2>3, <2>4
<1> QED
  BY <1>2, <1>4, <1>5, <1>8, <1>9, <1>10 DEF InTransaction

\* The end of a transaction: it is popped, and one that was not successful is
\* recorded in the one that encloses it.
LEMMA Popped ==
    ASSUME TypeOK, NEW t \in Sessions, NEW successful \in BOOLEAN, Mirrored(t),
           InTransaction(t), PopTransaction(t, successful)
    PROVE  /\ mTransactionStack' \in [Sessions -> Seq(Transaction)]
           /\ mTransactionPool' \in [Sessions -> Seq(Transaction)]
           /\ history' \in [Sessions -> History]
           /\ \A u \in Sessions : u # t => /\ mTransactionStack'[u] = mTransactionStack[u]
                                           /\ history'[u] = history[u]
           /\ Len(mTransactionStack'[t]) = Len(mTransactionStack[t]) - 1
           /\ InTransaction(t)' <=> Len(mTransactionStack[t]) > 1
           /\ \A i \in 1..(Len(mTransactionStack[t]) - 1) :
                  mTransactionStack[t][i].mChildFailed => mTransactionStack'[t][i].mChildFailed
           /\ Len(mTransactionStack[t]) > 1 /\ ~successful =>
                  mTransactionStack'[t][Len(mTransactionStack[t]) - 1].mChildFailed
           /\ Mirrored(t)'
           /\ history'[t].failed = (history[t].failed \/ ~Top(t).mMarkedSuccessful)
           /\ history'[t].lost = history[t].lost
<1> DEFINE stack == mTransactionStack[t]
           rest == Front(stack)
           failing == [rest EXCEPT ![Len(rest)].mChildFailed = TRUE]
           after == IF rest = <<>> \/ successful THEN rest ELSE failing
           h == history[t]
           next == [h EXCEPT !.marks = Front(h.marks), !.failed = h.failed \/ ~Last(h.marks)]
<1>1. /\ stack \in Seq(Transaction) /\ h \in History /\ h.marks \in Seq(BOOLEAN)
      /\ Len(stack) \in Nat /\ Len(stack) > 0 /\ Len(h.marks) = Len(stack)
  BY Empty DEF TypeOK, History, InTransaction, Mirrored
<1>2. /\ rest \in Seq(Transaction) /\ Len(rest) = Len(stack) - 1
      /\ \A i \in 1..Len(rest) : rest[i] = stack[i]
  BY <1>1, FrontKeeps
<1>3. /\ Front(h.marks) \in Seq(BOOLEAN) /\ Len(Front(h.marks)) = Len(stack) - 1
      /\ \A i \in 1..(Len(stack) - 1) : Front(h.marks)[i] = h.marks[i]
  <2>1. Len(h.marks) > 0
    BY <1>1
  <2> QED
    BY <1>1, <2>1, FrontKeeps
<1>4. Last(h.marks) = Top(t).mMarkedSuccessful /\ Last(h.marks) \in BOOLEAN
  <2>1. Len(stack) \in 1..Len(stack)
    BY <1>1
  <2>2. h.marks[Len(stack)] \in BOOLEAN
    BY <1>1, <2>1, ElementOfSeq
  <2> QED
    BY <1>1, <2>1, <2>2 DEF Last, Top, Mirrored
<1>5. /\ after \in Seq(Transaction) /\ Len(after) = Len(rest)
      /\ \A i \in 1..Len(rest) :
             /\ after[i].mMarkedSuccessful = rest[i].mMarkedSuccessful
             /\ rest[i].mChildFailed => after[i].mChildFailed
      /\ rest # <<>> /\ ~successful => after[Len(rest)].mChildFailed
  <2>1. CASE rest = <<>> \/ successful
    BY <1>2, <2>1
  <2>2. CASE ~(rest = <<>> \/ successful)
    <3> DEFINE k == Len(rest)
               e == [rest[k] EXCEPT !.mChildFailed = TRUE]
    <3>1. k \in Nat /\ k \in 1..Len(rest)
      BY <1>2, <2>2, Empty
    <3>2. rest[k] \in Transaction
      BY <3>1, <1>2, ElementOfSeq
    <3>3. e \in Transaction /\ e.mChildFailed /\ e.mMarkedSuccessful = rest[k].mMarkedSuccessful
      BY <3>2 DEF Transaction
    <3>4. failing = [rest EXCEPT ![k] = e]
      OBVIOUS
    <3> HIDE DEF e
    <3>5. /\ [rest EXCEPT ![k] = e] \in Seq(Transaction)
          /\ Len([rest EXCEPT ![k] = e]) = Len(rest)
          /\ \A j \in 1..Len(rest) : [rest EXCEPT ![k] = e][j] = IF j = k THEN e ELSE rest[j]
      BY <1>2, <3>1, <3>3, ExceptSeq
    <3>6. after = [rest EXCEPT ![k] = e]
      BY <2>2, <3>4
    <3> QED
      BY <3>1, <3>3, <3>5, <3>6
  <2> QED
    BY <2>1, <2>2
<1>6. /\ mTransactionStack' = [mTransactionStack EXCEPT ![t] = after]
      /\ history' = [history EXCEPT ![t] = next]
  <2>1. mTransactionStack' = [mTransactionStack EXCEPT ![t] = after]
    BY DEF PopTransaction
  <2>2. history' = [history EXCEPT ![t] = next]
    BY DEF PopTransaction
  <2> QED
    BY <2>1, <2>2
<1>7. (rest = <<>> <=> Len(stack) = 1) /\ (Len(stack) > 1 => rest # <<>>)
  <2>1. rest # <<>> <=> Len(rest) > 0
    BY <1>2, Empty, Zenon
  <2> HIDE DEF rest, stack
  <2> QED
    BY <1>1, <1>2, <2>1
<1>8. /\ next \in History /\ next.marks = Front(h.marks) /\ next.lost = h.lost
      /\ next.failed = (h.failed \/ ~Top(t).mMarkedSuccessful)
  BY <1>1, <1>3, <1>4 DEF History
<1> HIDE DEF after, next
<1>9. /\ mTransactionStack' \in [Sessions -> Seq(Transaction)]
      /\ mTransactionStack'[t] = after
      /\ \A u \in Sessions : u # t => mTransactionStack'[u] = mTransactionStack[u]
  BY <1>5, <1>6 DEF TypeOK
<1>10. /\ history' \in [Sessions -> History] /\ history'[t] = next
       /\ \A u \in Sessions : u # t => history'[u] = history[u]
  BY <1>6, <1>8 DEF TypeOK, History
<1>11. mTransactionPool' \in [Sessions -> Seq(Transaction)]
  <2>1. Top(t) \in Transaction
    <3>1. Len(stack) \in 1..Len(stack)
      BY <1>1
    <3> QED
      BY <1>1, <3>1, ElementOfSeq DEF Top, Last
  <2>2. [Top(t) EXCEPT !.listener = FALSE] \in Transaction
    BY <2>1 DEF Transaction
  <2>3. <<[Top(t) EXCEPT !.listener = FALSE]>> \o mTransactionPool[t] \in Seq(Transaction)
    BY <2>2, ConcatProperties DEF TypeOK
  <2> QED
    BY <2>3 DEF PopTransaction, TypeOK
<1>12. Mirrored(t)'
  <2>1. /\ Len(mTransactionStack'[t]) = Len(stack) - 1
        /\ Len(history'[t].marks) = Len(stack) - 1
    BY <1>2, <1>3, <1>5, <1>8, <1>9, <1>10
  <2>2. ASSUME NEW i \in 1..(Len(stack) - 1)
        PROVE  history'[t].marks[i] = mTransactionStack'[t][i].mMarkedSuccessful
    <3>1. i \in 1..Len(stack) /\ i \in 1..Len(rest)
      BY <1>1, <1>2
    <3>2. history'[t].marks[i] = h.marks[i]
      BY <1>3, <1>8, <1>10
    <3>3. mTransactionStack'[t][i].mMarkedSuccessful = stack[i].mMarkedSuccessful
      BY <3>1, <1>2, <1>5, <1>9
    <3> QED
      BY <3>1, <3>2, <3>3 DEF Mirrored
  <2> QED
    BY <2>1, <2>2 DEF Mirrored
<1>13. InTransaction(t)' <=> Len(stack) > 1
  <2>1. mTransactionStack'[t] # <<>> <=> Len(mTransactionStack'[t]) > 0
    BY <1>9, <1>5, Empty
  <2> QED
    BY <2>1, <1>1, <1>2, <1>5, <1>9 DEF InTransaction
<1>14. Len(mTransactionStack'[t]) = Len(stack) - 1
  BY <1>2, <1>5, <1>9
<1>15. ASSUME NEW i \in 1..(Len(stack) - 1), stack[i].mChildFailed
       PROVE  mTransactionStack'[t][i].mChildFailed
  <2>1. i \in 1..Len(rest)
    BY <1>2
  <2>2. rest[i].mChildFailed
    BY <2>1, <1>2, <1>15
  <2> HIDE DEF rest
  <2> QED
    BY <2>1, <2>2, <1>5, <1>9
<1>16. ASSUME Len(stack) > 1, ~successful
       PROVE  mTransactionStack'[t][Len(stack) - 1].mChildFailed
  <2>1. rest # <<>>
    BY <1>7, <1>16
  <2> HIDE DEF rest, stack
  <2> QED
    BY <2>1, <1>2, <1>5, <1>9, <1>16
<1>17. /\ history'[t].failed = (history[t].failed \/ ~Top(t).mMarkedSuccessful)
       /\ history'[t].lost = history[t].lost
  BY <1>8, <1>10
<1> QED
  BY <1>9, <1>10, <1>11, <1>12, <1>13, <1>14, <1>15, <1>16, <1>17

-----------------------------------------------------------------------------
(***************************************************************************)
(* Every call keeps the invariant                                          *)
(***************************************************************************)
\* A state that is typed, by parts.
LEMMA Typed ==
    ASSUME mConnection' \in [Sessions -> Conns \cup {None}],
           mConnectionUseCount' \in [Sessions -> 0..(MaxOperations + 1)],
           mTransactionStack' \in [Sessions -> Seq(Transaction)],
           mTransactionPool' \in [Sessions -> Seq(Transaction)],
           operations' \in [Sessions -> 0..MaxOperations],
           pc' \in [Sessions -> {"idle", "waiting", "yielding"}],
           yielded' \in [Sessions -> BOOLEAN],
           sqlite' \in [Conns -> [open : BOOLEAN, kept : BOOLEAN,
                                  pending : SUBSET Sessions]],
           history' \in [Sessions -> History],
           committed' \in SUBSET Sessions
    PROVE  TypeOK'
  BY DEF TypeOK, History

\* The parts about session t before a step.
LEMMA LocalBefore ==
    ASSUME SessionInv, NEW t \in Sessions
    PROVE  /\ Held(t) /\ Mirrored(t) /\ Remembered(t) /\ Owned(t) /\ YieldsOut(t)
           /\ TypeOK /\ mTransactionStack[t] \in Seq(Transaction)
           /\ Len(mTransactionStack[t]) \in Nat
           /\ InTransaction(t) <=> Len(mTransactionStack[t]) > 0
<1>1. TypeOK /\ mTransactionStack[t] \in Seq(Transaction)
  BY DEF SessionInv, TypeOK
<1>2. /\ Len(mTransactionStack[t]) \in Nat
      /\ InTransaction(t) <=> Len(mTransactionStack[t]) > 0
  BY <1>1, Empty DEF InTransaction
<1>3. Local(t)
  BY <1>1, Parts
<1> QED
  BY <1>1, <1>2, <1>3 DEF Local

\* A thread blocks.
LEMMA WaitKeeps ==
    ASSUME SessionAssumption, SessionInv, NEW t \in Sessions, Wait(t)
    PROVE  SessionInv'
<1> TypeOK
  BY DEF SessionInv
<1>1. TypeOK'
  BY DEF Wait, TypeOK
<1>2. OthersKept(t) /\ pc'[t] = "waiting"
  BY DEF OthersKept, Wait, TypeOK
<1>3. Local(t)'
  BY <1>2, LocalBefore
  DEF Wait, Local, Held, Mirrored, Remembered, Owned, YieldsOut, InTransaction
<1> QED
  BY <1>1, <1>2, <1>3, FrameOwn DEF Wait, InTransaction

\* An operation begins.
LEMMA StartOperationKeeps ==
    ASSUME SessionAssumption, SessionInv, NEW t \in Sessions, NEW c \in Conns,
           StartOperation(t, c)
    PROVE  SessionInv'
<1> TypeOK
  BY DEF SessionInv
<1>0. Held(t) /\ Mirrored(t) /\ Remembered(t) /\ Owned(t) /\ YieldsOut(t)
  BY LocalBefore
<1>1. operations[t] \in Nat /\ operations[t] < MaxOperations /\ MaxOperations \in Nat
  BY DEF StartOperation, TypeOK, SessionAssumption
<1>2. mConnectionUseCount[t] <= MaxOperations
  BY <1>0, <1>1 DEF Held
<1>3. /\ mConnection' \in [Sessions -> Conns \cup {None}]
      /\ mConnectionUseCount' \in [Sessions -> 0..(MaxOperations + 1)]
      /\ mConnection'[t] = c /\ mConnectionUseCount'[t] = mConnectionUseCount[t] + 1
      /\ \A u \in Sessions : u # t =>
             /\ mConnection'[u] = mConnection[u]
             /\ mConnectionUseCount'[u] = mConnectionUseCount[u]
  BY <1>2, Acquired DEF StartOperation
<1>4. /\ operations' \in [Sessions -> 0..MaxOperations]
      /\ operations'[t] = operations[t] + 1
      /\ \A u \in Sessions : u # t => operations'[u] = operations[u]
  <2>1. operations[t] + 1 \in 0..MaxOperations
    BY <1>1
  <2> QED
    BY <2>1 DEF StartOperation, TypeOK
<1>5. /\ pc' \in [Sessions -> {"idle", "waiting", "yielding"}] /\ pc'[t] = "idle"
      /\ \A u \in Sessions : u # t => pc'[u] = pc[u]
  BY DEF StartOperation, TypeOK
<1>6. /\ mTransactionStack' = mTransactionStack /\ mTransactionPool' = mTransactionPool
      /\ yielded' = yielded /\ sqlite' = sqlite /\ history' = history
      /\ committed' = committed /\ c \in Acquirable(t)
  BY DEF StartOperation, AcquireConnection
<1>7. TypeOK'
  BY <1>3, <1>4, <1>5, <1>6 DEF TypeOK
<1>8. OthersKept(t) /\ ConnectionsKept(c)
  BY <1>3, <1>4, <1>5, <1>6 DEF OthersKept, ConnectionsKept
<1>9. InTransaction(t) => mConnection[t] = c
  BY <1>6, HoldsInTransaction DEF Acquirable, SessionAssumption
<1>10. Local(t)'
  <2>1. Held(t)'
    <3>1. mConnectionUseCount[t] \in Nat /\ c # None
      BY DEF TypeOK, SessionAssumption
    <3> QED
      BY <3>1, <1>0, <1>1, <1>3, <1>4, <1>6 DEF Held, InTransaction
  <2>2. Owned(t)'
    BY <1>0, <1>3, <1>6, <1>9 DEF Owned, InTransaction
  <2> QED
    BY <2>1, <2>2, <1>0, <1>5, <1>6
    DEF Local, Mirrored, Remembered, YieldsOut, InTransaction
<1>11. Settled(c)'
  <2>1. Settled(c) /\ sqlite[c].pending \subseteq Sessions
    BY Parts DEF SessionInv, TypeOK
  <2>2. \A u \in Sessions : InTransaction(u) /\ mConnection[u] = c =>
            InTransaction(u)' /\ mConnection'[u] = c
    BY <1>3, <1>6 DEF InTransaction
  <2> QED
    BY <2>1, <2>2, <1>6 DEF Settled
<1> QED
  BY <1>3, <1>6, <1>7, <1>8, <1>10, <1>11, Frame

\* What a statement may have done to the connection c it ran on, and that it
\* commits nothing of t unless SQLite has rolled back t's transaction.
Ran(t, c, result) ==
    /\ sqlite' \in [Conns -> [open : BOOLEAN, kept : BOOLEAN,
                              pending : SUBSET Sessions]]
    /\ committed' \in SUBSET Sessions
    /\ ConnectionsKept(c)
    /\ result # "lost" => /\ sqlite'[c].open = sqlite[c].open
                          /\ sqlite'[c].kept = sqlite[c].kept
    /\ result = "lost" => sqlite'[c] = NoTransaction
    /\ InTransaction(t) => sqlite'[c].pending \subseteq sqlite[c].pending \cup {t}
    /\ ~InTransaction(t) => sqlite'[c].pending \subseteq sqlite[c].pending
    /\ sqlite'[c].pending \subseteq Sessions
    /\ sqlite'[c].pending # sqlite[c].pending => sqlite[c].open
    /\ committed' # committed =>
           InTransaction(t) /\ ~sqlite[c].open /\ committed' = committed \cup {t}

\* What a statement does to the connection it runs on, for a session in a
\* transaction or not.
LEMMA Statement ==
    ASSUME SessionAssumption, SessionInv, NEW t \in Sessions, NEW c \in Conns,
           mConnection[t] = c, NEW result \in {"write", "none", "lost"},
           Effect(t, c, result)
    PROVE  Ran(t, c, result)
<1> DEFINE Sqlite == [open : BOOLEAN, kept : BOOLEAN, pending : SUBSET Sessions]
<1>1. sqlite \in [Conns -> Sqlite] /\ committed \in SUBSET Sessions
  BY DEF SessionInv, TypeOK
<1>2. sqlite[c] \in Sqlite
  BY <1>1
<1>3. NoTransaction \in Sqlite /\ NoTransaction.pending = {}
  BY DEF NoTransaction
<1>4. CASE result = "write" /\ sqlite[c].open
  <2> DEFINE added == IF InTransaction(t) THEN sqlite[c].pending \cup {t} ELSE sqlite[c].pending
             after == [sqlite[c] EXCEPT !.pending = added]
  <2>1. added \in SUBSET Sessions
    BY <1>2
  <2>2. /\ after \in Sqlite /\ after.pending = added
        /\ after.open = sqlite[c].open /\ after.kept = sqlite[c].kept
    BY <2>1, <1>2
  <2>3. sqlite' = [sqlite EXCEPT ![c] = after] /\ committed' = committed
    BY <1>4 DEF Effect
  <2> HIDE DEF after
  <2>4. sqlite' \in [Conns -> Sqlite] /\ sqlite'[c] = after /\ ConnectionsKept(c)
    BY <1>1, <2>2, <2>3 DEF ConnectionsKept
  <2>5. /\ InTransaction(t) => sqlite'[c].pending \subseteq sqlite[c].pending \cup {t}
        /\ ~InTransaction(t) => sqlite'[c].pending \subseteq sqlite[c].pending
        /\ sqlite'[c].pending \subseteq Sessions
    BY <2>1, <2>2, <2>4
  <2>6. sqlite'[c].open = sqlite[c].open /\ sqlite'[c].kept = sqlite[c].kept
    BY <2>2, <2>4
  <2> QED
    BY <1>1, <1>4, <2>3, <2>4, <2>5, <2>6 DEF Ran
<1>5. CASE result = "write" /\ ~sqlite[c].open
  BY <1>1, <1>5 DEF Effect, ConnectionsKept, Ran
<1>6. CASE result = "none"
  BY <1>1, <1>6 DEF Effect, ConnectionsKept, Ran
<1>7. CASE result = "lost"
  <2>1. sqlite' = [sqlite EXCEPT ![c] = NoTransaction] /\ committed' = committed
    BY <1>7 DEF Effect
  <2>2. sqlite' \in [Conns -> Sqlite] /\ sqlite'[c] = NoTransaction /\ ConnectionsKept(c)
    BY <1>1, <1>3, <2>1 DEF ConnectionsKept
  <2>3. Settled(c)
    BY Parts DEF SessionInv
  <2>4. sqlite'[c].pending # sqlite[c].pending => sqlite[c].open
    BY <2>2, <2>3, <1>3 DEF Settled
  <2> QED
    BY <1>1, <1>3, <1>7, <2>1, <2>2, <2>4 DEF Ran
<1> QED
  BY <1>4, <1>5, <1>6, <1>7

\* An operation ends, in or outside of a transaction.
LEMMA EndOperationKeeps ==
    ASSUME SessionAssumption, SessionInv, NEW t \in Sessions,
           NEW result \in {"write", "none", "lost"}, EndOperation(t, result)
    PROVE  SessionInv'
<1> TypeOK
  BY DEF SessionInv
<1>0. Held(t) /\ Mirrored(t) /\ Remembered(t) /\ Owned(t) /\ YieldsOut(t)
  BY LocalBefore
<1>1. operations[t] \in 0..MaxOperations /\ operations[t] > 0 /\ MaxOperations \in Nat
  BY DEF EndOperation, TypeOK, SessionAssumption
<1>2. PICK c \in Conns : c = mConnection[t]
  BY <1>1, HoldsInTransaction
<1>3. Ran(t, c, result)
  <2>1. Effect(t, c, result) /\ mConnection[t] = c
    BY <1>2 DEF EndOperation
  <2> QED
    BY <2>1, Statement
<1>4. /\ mConnection' \in [Sessions -> Conns \cup {None}]
      /\ mConnectionUseCount' \in [Sessions -> 0..(MaxOperations + 1)]
      /\ mConnection'[t] = IF mConnectionUseCount[t] = 1 THEN None ELSE mConnection[t]
      /\ mConnectionUseCount'[t] = mConnectionUseCount[t] - 1
      /\ \A u \in Sessions : u # t =>
             /\ mConnection'[u] = mConnection[u]
             /\ mConnectionUseCount'[u] = mConnectionUseCount[u]
  <2>1. mConnectionUseCount[t] > 0
    BY <1>0, <1>1 DEF Held
  <2> QED
    BY <2>1, Released DEF EndOperation
<1>5. /\ operations' \in [Sessions -> 0..MaxOperations]
      /\ operations'[t] = operations[t] - 1
      /\ \A u \in Sessions : u # t => operations'[u] = operations[u]
  <2>1. operations[t] - 1 \in 0..MaxOperations
    BY <1>1
  <2> QED
    BY <2>1 DEF EndOperation, TypeOK
<1>6. /\ history' \in [Sessions -> History]
      /\ history'[t].marks = history[t].marks /\ history'[t].failed = history[t].failed
      /\ history'[t].lost = (history[t].lost \/ (result = "lost" /\ InTransaction(t)))
      /\ \A u \in Sessions : u # t => history'[u] = history[u]
  <2> DEFINE lost == history[t].lost \/ (result = "lost" /\ InTransaction(t))
             h == [history[t] EXCEPT !.lost = lost]
  <2>1. history \in [Sessions -> History] /\ history[t] \in History
    BY DEF TypeOK, History
  <2>2. /\ h \in History /\ h.marks = history[t].marks /\ h.failed = history[t].failed
        /\ h.lost = lost
    BY <2>1 DEF History
  <2>3. history' = [history EXCEPT ![t] = h]
    BY DEF EndOperation
  <2> HIDE DEF h
  <2> QED
    BY <2>1, <2>2, <2>3
<1>7. /\ mTransactionStack' = mTransactionStack /\ mTransactionPool' = mTransactionPool
      /\ pc' = pc /\ yielded' = yielded
  BY DEF EndOperation
<1>8. TypeOK'
  BY <1>3, <1>4, <1>5, <1>6, <1>7, Typed DEF Ran, TypeOK
<1>9. OthersKept(t)
  BY <1>4, <1>5, <1>6, <1>7 DEF OthersKept
<1>10. InTransaction(t) => mConnection'[t] = c
  BY <1>0, <1>1, <1>2, <1>4 DEF Held
<1>11. Local(t)'
  <2>1. Held(t)'
    <3>1. mConnectionUseCount[t] \in Nat /\ mConnection[t] # None
      BY <1>2 DEF TypeOK, SessionAssumption
    <3>2. InTransaction(t)' <=> InTransaction(t)
      BY <1>7 DEF InTransaction
    <3> QED
      BY <3>1, <3>2, <1>0, <1>1, <1>4, <1>5 DEF Held
  <2>2. Owned(t)'
    <3>1. SUFFICES ASSUME InTransaction(t)
                   PROVE  ~sqlite'[c].kept /\ (sqlite'[c].open \/ history'[t].lost)
      BY <1>7, <1>10 DEF Owned, InTransaction
    <3>2. CASE result = "lost"
      <4>1. sqlite'[c] = NoTransaction
        BY <3>2, <1>3 DEF Ran
      <4>2. ~sqlite'[c].kept
        BY <4>1 DEF NoTransaction
      <4>3. history'[t].lost
        BY <3>1, <3>2, <1>6
      <4> QED
        BY <4>2, <4>3
    <3>3. CASE result # "lost"
      <4>1. ~sqlite[c].kept /\ (sqlite[c].open \/ history[t].lost)
        BY <3>1, <1>0, <1>2 DEF Owned
      <4> QED
        BY <3>3, <4>1, <1>3, <1>6 DEF Ran
    <3> QED
      BY <3>2, <3>3
  <2>3. Mirrored(t)' /\ Remembered(t)'
    BY <1>0, <1>6, <1>7 DEF Mirrored, Remembered, InTransaction
  <2>4. YieldsOut(t)'
    BY <1>0, <1>1, <1>7 DEF YieldsOut
  <2> QED
    BY <2>1, <2>2, <2>3, <2>4 DEF Local
<1>12. Settled(c)'
  <2>1. Settled(c) /\ Distinct
    BY Parts DEF SessionInv
  <2>2. \A u \in Sessions : InTransaction(u) /\ mConnection[u] = c =>
            InTransaction(u)' /\ mConnection'[u] = c
    BY <1>4, <1>7, <1>10 DEF InTransaction
  <2>3. CASE result = "lost"
    BY <1>3, <2>3 DEF Ran, Settled, NoTransaction
  <2>4. CASE result # "lost"
    <3>1. (sqlite'[c].kept \/ sqlite'[c].pending # {}) => sqlite'[c].open
      BY <1>3, <2>1, <2>4 DEF Ran, Settled
    <3>2. sqlite'[c].open /\ ~sqlite'[c].kept =>
              \E u \in Sessions : InTransaction(u)' /\ mConnection'[u] = c
      BY <1>3, <2>1, <2>2, <2>4 DEF Ran, Settled
    <3>3. ASSUME ~sqlite'[c].kept, NEW u \in sqlite'[c].pending
          PROVE  InTransaction(u)' /\ mConnection'[u] = c
      BY <3>3, <1>2, <1>3, <2>1, <2>2, <2>4 DEF Ran, Settled
    <3> QED
      BY <3>1, <3>2, <3>3 DEF Settled
  <2> QED
    BY <2>3, <2>4
<1>13. c \in Acquirable(t) /\ mConnection'[t] \in {None, c}
  BY <1>2, <1>4 DEF Acquirable, SessionAssumption
<1> QED
  BY <1>3, <1>8, <1>9, <1>11, <1>12, <1>13, Frame DEF Ran

\* A nested transaction begins.
LEMMA BeginNestedKeeps ==
    ASSUME SessionAssumption, SessionInv, NEW t \in Sessions,
           NEW listener \in BOOLEAN, BeginNested(t, listener)
    PROVE  SessionInv'
<1> TypeOK
  BY DEF SessionInv
<1>0. Held(t) /\ Mirrored(t) /\ Remembered(t) /\ Owned(t) /\ YieldsOut(t)
  BY LocalBefore
<1>1. /\ mConnection' = mConnection /\ mConnectionUseCount' = mConnectionUseCount
      /\ operations' = operations /\ pc' = pc /\ yielded' = yielded
      /\ sqlite' = sqlite /\ committed' = committed
      /\ InTransaction(t) /\ PushTransaction(t, listener)
  BY DEF BeginNested
<1>2. /\ mTransactionStack' \in [Sessions -> Seq(Transaction)]
      /\ mTransactionPool' \in [Sessions -> Seq(Transaction)]
      /\ history' \in [Sessions -> History]
      /\ \A u \in Sessions : u # t => /\ mTransactionStack'[u] = mTransactionStack[u]
                                      /\ history'[u] = history[u]
      /\ InTransaction(t)' /\ Len(mTransactionStack'[t]) = Len(mTransactionStack[t]) + 1
      /\ \A i \in 1..Len(mTransactionStack[t]) :
             mTransactionStack'[t][i] = mTransactionStack[t][i]
      /\ Mirrored(t)'
      /\ history'[t].failed = history[t].failed /\ history'[t].lost = history[t].lost
  BY <1>0, <1>1, Pushed DEF TypeOK, History
<1>3. TypeOK'
  BY <1>1, <1>2, Typed DEF TypeOK
<1>4. OthersKept(t)
  BY <1>1, <1>2 DEF OthersKept
<1>5. Remembered(t)'
  <2>1. Len(mTransactionStack[t]) \in Nat
    BY LocalBefore
  <2>2. SUFFICES ASSUME history[t].failed
                 PROVE  \E i \in 1..Len(mTransactionStack'[t]) : mTransactionStack'[t][i].mChildFailed
    BY <1>2 DEF Remembered
  <2>3. PICK i \in 1..Len(mTransactionStack[t]) : mTransactionStack[t][i].mChildFailed
    BY <1>0, <1>1, <2>2 DEF Remembered
  <2>4. i \in 1..Len(mTransactionStack'[t])
    BY <1>2, <2>1
  <2> QED
    BY <1>2, <2>3, <2>4
<1>6. Held(t)' /\ Owned(t)' /\ YieldsOut(t)'
  BY <1>0, <1>1, <1>2 DEF Held, Owned, YieldsOut
<1> QED
  BY <1>1, <1>2, <1>3, <1>4, <1>5, <1>6, FrameOwn DEF Local

\* The outermost transaction begins.
LEMMA BeginSucceedsKeeps ==
    ASSUME SessionAssumption, SessionInv, NEW t \in Sessions, NEW c \in Conns,
           NEW listener \in BOOLEAN, ~InTransaction(t), operations[t] = 0,
           BeginSucceeds(t, c, listener)
    PROVE  SessionInv'
<1> TypeOK
  BY DEF SessionInv
<1>0. Held(t) /\ Mirrored(t)
  BY LocalBefore
<1>1. mConnectionUseCount[t] = 0
  BY <1>0 DEF Held
<1>2. /\ mConnection' \in [Sessions -> Conns \cup {None}]
      /\ mConnectionUseCount' \in [Sessions -> 0..(MaxOperations + 1)]
      /\ mConnection'[t] = c /\ mConnectionUseCount'[t] = 1
      /\ \A u \in Sessions : u # t =>
             /\ mConnection'[u] = mConnection[u]
             /\ mConnectionUseCount'[u] = mConnectionUseCount[u]
  <2>1. mConnectionUseCount[t] <= MaxOperations
    BY <1>1 DEF SessionAssumption
  <2> QED
    BY <1>1, <2>1, Acquired DEF BeginSucceeds
<1>3. /\ mTransactionStack' \in [Sessions -> Seq(Transaction)]
      /\ mTransactionPool' \in [Sessions -> Seq(Transaction)]
      /\ history' \in [Sessions -> History]
      /\ \A u \in Sessions : u # t => /\ mTransactionStack'[u] = mTransactionStack[u]
                                      /\ history'[u] = history[u]
      /\ InTransaction(t)' /\ Mirrored(t)' /\ ~history'[t].failed
  BY <1>0, Pushed DEF BeginSucceeds
<1>4. /\ sqlite' \in [Conns -> [open : BOOLEAN, kept : BOOLEAN, pending : SUBSET Sessions]]
      /\ sqlite'[c].open /\ ~sqlite'[c].kept /\ sqlite'[c].pending = {}
      /\ ConnectionsKept(c)
  <2> DEFINE begun == [NoTransaction EXCEPT !.open = TRUE]
  <2>1. /\ begun \in [open : BOOLEAN, kept : BOOLEAN, pending : SUBSET Sessions]
        /\ begun.open /\ ~begun.kept /\ begun.pending = {}
    BY DEF NoTransaction
  <2>2. sqlite' = [sqlite EXCEPT ![c] = begun]
    BY DEF BeginSucceeds
  <2> HIDE DEF begun
  <2> QED
    BY <2>1, <2>2 DEF TypeOK, ConnectionsKept
<1>5. /\ pc' \in [Sessions -> {"idle", "waiting", "yielding"}] /\ pc'[t] = "idle"
      /\ \A u \in Sessions : u # t => pc'[u] = pc[u]
      /\ operations' = operations /\ yielded' = yielded /\ committed' \in SUBSET Sessions
  BY DEF BeginSucceeds, TypeOK
<1>6. TypeOK'
  BY <1>2, <1>3, <1>4, <1>5, Typed DEF TypeOK
<1>7. OthersKept(t)
  BY <1>2, <1>3, <1>5 DEF OthersKept
<1>8. Local(t)'
  <2>1. Held(t)'
    BY <1>2, <1>3, <1>5 DEF Held, SessionAssumption
  <2>2. Owned(t)'
    BY <1>2, <1>4 DEF Owned
  <2>3. Remembered(t)' /\ YieldsOut(t)'
    BY <1>3, <1>5 DEF Remembered, YieldsOut
  <2> QED
    BY <1>3, <2>1, <2>2, <2>3 DEF Local
<1>9. Settled(c)'
  BY <1>2, <1>3, <1>4 DEF Settled
<1>10. c \in Acquirable(t) /\ mConnection'[t] \in {None, c}
  BY <1>2 DEF BeginSucceeds, AcquireConnection
<1> QED
  BY <1>4, <1>6, <1>7, <1>8, <1>9, <1>10, Frame

\* BEGIN or onBegin() throws.
LEMMA BeginFailsKeeps ==
    ASSUME SessionAssumption, SessionInv, NEW t \in Sessions,
           NEW listener \in BOOLEAN, ~InTransaction(t), BeginFails(t, listener)
    PROVE  SessionInv'
<1> TypeOK
  BY DEF SessionInv
<1>0. Held(t) /\ Mirrored(t) /\ Remembered(t) /\ Owned(t) /\ YieldsOut(t)
  BY LocalBefore
<1>1. /\ pc' \in [Sessions -> {"idle", "waiting", "yielding"}] /\ pc'[t] = "idle"
      /\ \A u \in Sessions : u # t => pc'[u] = pc[u]
      /\ mConnection' = mConnection /\ mConnectionUseCount' = mConnectionUseCount
      /\ mTransactionStack' = mTransactionStack /\ mTransactionPool' = mTransactionPool
      /\ operations' = operations /\ yielded' = yielded /\ history' = history
      /\ committed' = committed
  BY DEF BeginFails, TypeOK
<1>2. OthersKept(t)
  BY <1>1 DEF OthersKept
<1>3. Local(t)'
  BY <1>0, <1>1
  DEF Local, Held, Mirrored, Remembered, Owned, YieldsOut, InTransaction
<1>4. PICK c \in Acquirable(t) :
          \/ UNCHANGED sqlite
          \/ /\ ~sqlite[c].open
             /\ sqlite' = [sqlite EXCEPT ![c].open = TRUE, ![c].kept = TRUE]
  BY DEF BeginFails
<1>5. CASE UNCHANGED sqlite
  <2>1. TypeOK'
    BY <1>1, <1>5 DEF TypeOK
  <2> QED
    BY <1>1, <1>2, <1>3, <1>5, <2>1, FrameOwn DEF InTransaction
<1>6. CASE sqlite' = [sqlite EXCEPT ![c].open = TRUE, ![c].kept = TRUE]
  <2>1. c \in Conns
    BY <1>4 DEF Acquirable, Free, TypeOK
  <2>2. /\ sqlite' \in [Conns -> [open : BOOLEAN, kept : BOOLEAN, pending : SUBSET Sessions]]
        /\ sqlite'[c].open /\ sqlite'[c].kept /\ ConnectionsKept(c)
    <3> DEFINE left == [sqlite[c] EXCEPT !.open = TRUE, !.kept = TRUE]
    <3>1. sqlite[c] \in [open : BOOLEAN, kept : BOOLEAN, pending : SUBSET Sessions]
      BY <2>1 DEF TypeOK
    <3>2. /\ left \in [open : BOOLEAN, kept : BOOLEAN, pending : SUBSET Sessions]
          /\ left.open /\ left.kept
      BY <3>1
    <3>3. sqlite' = [sqlite EXCEPT ![c] = left]
      BY <1>6, <2>1, <3>1 DEF TypeOK
    <3> HIDE DEF left
    <3> QED
      BY <2>1, <3>2, <3>3 DEF TypeOK, ConnectionsKept
  <2>3. TypeOK'
    BY <1>1, <2>2 DEF TypeOK
  <2>4. Settled(c)'
    BY <2>2 DEF Settled
  <2>5. mConnection'[t] \in {None, c}
    BY <1>1, <1>4 DEF Acquirable
  <2> QED
    BY <1>2, <1>3, <1>4, <2>1, <2>2, <2>3, <2>4, <2>5, Frame
<1> QED
  BY <1>4, <1>5, <1>6

\* The application marks the innermost transaction.
LEMMA SetTransactionSuccessfulKeeps ==
    ASSUME SessionAssumption, SessionInv, NEW t \in Sessions,
           SetTransactionSuccessful(t)
    PROVE  SessionInv'
<1> DEFINE stack == mTransactionStack[t]
           n == Len(stack)
           e == [stack[n] EXCEPT !.mMarkedSuccessful = TRUE]
           marked == [stack EXCEPT ![n] = e]
           marks == [history[t].marks EXCEPT ![n] = TRUE]
           h == [history[t] EXCEPT !.marks = marks]
<1> TypeOK
  BY DEF SessionInv
<1>0. /\ Held(t) /\ Mirrored(t) /\ Remembered(t) /\ Owned(t) /\ YieldsOut(t)
      /\ stack \in Seq(Transaction) /\ n \in Nat /\ n \in 1..n /\ InTransaction(t)
  BY LocalBefore DEF SetTransactionSuccessful
<1>1. /\ history[t] \in History /\ history[t].marks \in Seq(BOOLEAN)
      /\ Len(history[t].marks) = n /\ n \in 1..Len(history[t].marks)
  BY <1>0 DEF TypeOK, History, Mirrored
<1>2. stack[n] \in Transaction
  BY <1>0, ElementOfSeq
<1>3. e \in Transaction /\ e.mMarkedSuccessful = TRUE /\ e.mChildFailed = stack[n].mChildFailed
  BY <1>2 DEF Transaction
<1>4. /\ marked \in Seq(Transaction) /\ Len(marked) = n
      /\ \A i \in 1..n : marked[i] = IF i = n THEN e ELSE stack[i]
  <2> HIDE DEF e, stack
  <2> QED
    BY <1>0, <1>3, ExceptSeq
<1>5. /\ marks \in Seq(BOOLEAN) /\ Len(marks) = n
      /\ marks[n] = TRUE /\ \A i \in 1..n : i # n => marks[i] = history[t].marks[i]
  <2>1. TRUE \in BOOLEAN
    OBVIOUS
  <2> HIDE DEF n
  <2> QED
    BY <1>1, <2>1, ReplaceKeeps
<1>6. /\ mTransactionStack' = [mTransactionStack EXCEPT ![t] = marked]
      /\ history' = [history EXCEPT ![t] = h]
  <2>1. mTransactionStack' = [mTransactionStack EXCEPT ![t] = marked]
    BY DEF SetTransactionSuccessful
  <2>2. history' = [history EXCEPT ![t] = h]
    BY DEF SetTransactionSuccessful
  <2> QED
    BY <2>1, <2>2
<1>7. h \in History /\ h.marks = marks /\ h.failed = history[t].failed /\ h.lost = history[t].lost
  BY <1>1, <1>5 DEF History
<1> HIDE DEF marked, h, marks, e
<1>8. /\ mTransactionStack' \in [Sessions -> Seq(Transaction)]
      /\ mTransactionStack'[t] = marked
      /\ \A u \in Sessions : u # t => mTransactionStack'[u] = mTransactionStack[u]
  BY <1>4, <1>6 DEF TypeOK
<1>9. /\ history' \in [Sessions -> History] /\ history'[t] = h
      /\ \A u \in Sessions : u # t => history'[u] = history[u]
  BY <1>6, <1>7 DEF TypeOK, History
<1>10. /\ mConnection' = mConnection /\ mConnectionUseCount' = mConnectionUseCount
       /\ mTransactionPool' = mTransactionPool /\ operations' = operations
       /\ pc' = pc /\ yielded' = yielded /\ sqlite' = sqlite /\ committed' = committed
  BY DEF SetTransactionSuccessful
<1>11. TypeOK'
  BY <1>8, <1>9, <1>10, Typed DEF TypeOK
<1>12. OthersKept(t)
  BY <1>8, <1>9, <1>10 DEF OthersKept
<1>13. InTransaction(t)'
  <2>1. marked # <<>>
    BY <1>0, <1>4, Empty
  <2> QED
    BY <2>1, <1>8 DEF InTransaction
<1>14. Mirrored(t)'
  <2>1. /\ Len(mTransactionStack'[t]) = n /\ Len(history'[t].marks) = n
    BY <1>4, <1>5, <1>7, <1>8, <1>9
  <2>2. ASSUME NEW i \in 1..n
        PROVE  history'[t].marks[i] = mTransactionStack'[t][i].mMarkedSuccessful
    <3>1. CASE i = n
      BY <3>1, <1>3, <1>4, <1>5, <1>7, <1>8, <1>9
    <3>2. CASE i # n
      BY <3>2, <1>0, <1>4, <1>5, <1>7, <1>8, <1>9 DEF Mirrored
    <3> QED
      BY <3>1, <3>2
  <2> QED
    BY <2>1, <2>2 DEF Mirrored
<1>15. Remembered(t)'
  <2>1. SUFFICES ASSUME history[t].failed
                 PROVE  \E i \in 1..n : mTransactionStack'[t][i].mChildFailed
    BY <1>4, <1>7, <1>8, <1>9 DEF Remembered
  <2>2. PICK i \in 1..n : stack[i].mChildFailed
    BY <1>0, <2>1 DEF Remembered
  <2> QED
    BY <2>2, <1>3, <1>4, <1>8
<1>16. Held(t)' /\ Owned(t)' /\ YieldsOut(t)'
  BY <1>0, <1>7, <1>9, <1>10, <1>13 DEF Held, Owned, YieldsOut
<1> QED
  BY <1>0, <1>10, <1>11, <1>12, <1>13, <1>14, <1>15, <1>16, FrameOwn DEF Local

\* A nested transaction ends.
LEMMA EndNestedKeeps ==
    ASSUME SessionAssumption, SessionInv, NEW t \in Sessions,
           NEW listenerThrows \in BOOLEAN, EndNested(t, listenerThrows)
    PROVE  SessionInv'
<1> DEFINE stack == mTransactionStack[t]
           n == Len(stack)
<1> TypeOK
  BY DEF SessionInv
<1>0. /\ Held(t) /\ Mirrored(t) /\ Remembered(t) /\ Owned(t) /\ YieldsOut(t)
      /\ n \in Nat /\ n > 1 /\ InTransaction(t)
  BY LocalBefore DEF EndNested
<1>1. /\ mConnection' = mConnection /\ mConnectionUseCount' = mConnectionUseCount
      /\ operations' = operations /\ pc' = pc /\ yielded' = yielded
      /\ sqlite' = sqlite /\ committed' = committed
  BY DEF EndNested
<1>2. PICK successful \in BOOLEAN : /\ PopTransaction(t, successful)
                                    /\ successful => Top(t).mMarkedSuccessful /\ ~Top(t).mChildFailed
  <2>1. /\ PopTransaction(t, Successful(t, FALSE, listenerThrows))
        /\ Successful(t, FALSE, listenerThrows) \in BOOLEAN
        /\ Successful(t, FALSE, listenerThrows) => Top(t).mMarkedSuccessful /\ ~Top(t).mChildFailed
    BY DEF EndNested, Successful
  <2> QED
    BY <2>1
<1>3. /\ mTransactionStack' \in [Sessions -> Seq(Transaction)]
      /\ mTransactionPool' \in [Sessions -> Seq(Transaction)]
      /\ history' \in [Sessions -> History]
      /\ \A u \in Sessions : u # t => /\ mTransactionStack'[u] = mTransactionStack[u]
                                      /\ history'[u] = history[u]
      /\ Len(mTransactionStack'[t]) = n - 1
      /\ InTransaction(t)' <=> n > 1
      /\ \A i \in 1..(n - 1) : stack[i].mChildFailed => mTransactionStack'[t][i].mChildFailed
      /\ n > 1 /\ ~successful => mTransactionStack'[t][n - 1].mChildFailed
      /\ Mirrored(t)'
      /\ history'[t].failed = (history[t].failed \/ ~Top(t).mMarkedSuccessful)
      /\ history'[t].lost = history[t].lost
  BY <1>0, <1>2, Popped
<1>4. TypeOK'
  BY <1>1, <1>3, Typed DEF TypeOK
<1>5. OthersKept(t)
  BY <1>1, <1>3 DEF OthersKept
<1>6. Remembered(t)'
  <2>1. SUFFICES ASSUME history'[t].failed
                 PROVE  \E i \in 1..(n - 1) : mTransactionStack'[t][i].mChildFailed
    BY <1>3 DEF Remembered
  <2>2. CASE ~successful
    <3>1. n - 1 \in 1..(n - 1)
      BY <1>0
    <3> QED
      BY <3>1, <2>2, <1>0, <1>3
  <2>3. CASE successful
    <3>1. history[t].failed
      BY <2>1, <2>3, <1>2, <1>3
    <3>2. PICK i \in 1..n : stack[i].mChildFailed
      BY <3>1, <1>0 DEF Remembered
    <3>3. i # n
      BY <3>2, <2>3, <1>2 DEF Top, Last
    <3>4. i \in 1..(n - 1)
      BY <3>3, <1>0
    <3> QED
      BY <3>2, <3>4, <1>3
  <2> QED
    BY <2>2, <2>3
<1>7. Held(t)' /\ Owned(t)' /\ YieldsOut(t)'
  BY <1>0, <1>1, <1>3 DEF Held, Owned, YieldsOut
<1> QED
  BY <1>0, <1>1, <1>3, <1>4, <1>5, <1>6, <1>7, FrameOwn DEF Local

\* COMMIT or ROLLBACK on a connection whose transaction was not kept earlier.
LEMMA SettleEnds ==
    ASSUME TypeOK, NEW c \in Conns, NEW successful \in BOOLEAN,
           NEW outcome \in {"ok", "failed"}, Settle(c, successful, outcome),
           ~sqlite[c].kept, sqlite[c].pending # {} => sqlite[c].open
    PROVE  /\ sqlite' \in [Conns -> [open : BOOLEAN, kept : BOOLEAN, pending : SUBSET Sessions]]
           /\ committed' \in SUBSET Sessions
           /\ ConnectionsKept(c)
           /\ sqlite'[c] = NoTransaction \/
                  (sqlite'[c].kept = sqlite'[c].open /\ (sqlite'[c].pending # {} => sqlite'[c].open))
           /\ committed' # committed =>
                  successful /\ outcome = "ok" /\ committed' = committed \cup sqlite[c].pending
<1> DEFINE Sqlite == [open : BOOLEAN, kept : BOOLEAN, pending : SUBSET Sessions]
<1>1. sqlite \in [Conns -> Sqlite] /\ committed \in SUBSET Sessions /\ sqlite[c] \in Sqlite
  BY DEF TypeOK
<1>2. NoTransaction \in Sqlite
  BY DEF NoTransaction
<1>3. \/ /\ sqlite' = [sqlite EXCEPT ![c] = NoTransaction]
         /\ committed' = committed \/
                (successful /\ outcome = "ok" /\ committed' = committed \cup sqlite[c].pending)
      \/ /\ sqlite' = [sqlite EXCEPT ![c].kept = sqlite[c].kept \/ sqlite[c].open]
         /\ committed' = committed
  BY DEF Settle
<1>4. CASE sqlite' = [sqlite EXCEPT ![c] = NoTransaction]
  <2>1. sqlite' \in [Conns -> Sqlite] /\ sqlite'[c] = NoTransaction /\ ConnectionsKept(c)
    BY <1>1, <1>2, <1>4 DEF ConnectionsKept
  <2> QED
    BY <1>1, <1>3, <2>1
<1>5. CASE /\ sqlite' = [sqlite EXCEPT ![c].kept = sqlite[c].kept \/ sqlite[c].open]
           /\ committed' = committed
  <2> DEFINE left == [sqlite[c] EXCEPT !.kept = sqlite[c].kept \/ sqlite[c].open]
  <2>1. /\ left \in Sqlite /\ left.open = sqlite[c].open /\ left.pending = sqlite[c].pending
        /\ left.kept = (sqlite[c].kept \/ sqlite[c].open)
    BY <1>1
  <2>2. sqlite' = [sqlite EXCEPT ![c] = left]
    BY <1>5
  <2> HIDE DEF left
  <2>3. sqlite' \in [Conns -> Sqlite] /\ sqlite'[c] = left /\ ConnectionsKept(c)
    BY <1>1, <2>1, <2>2 DEF ConnectionsKept
  <2>4. left.kept = left.open
    BY <1>1, <2>1
  <2>5. left.pending # {} => left.open
    BY <2>1
  <2> QED
    BY <1>1, <1>5, <2>3, <2>4, <2>5
<1> QED
  BY <1>3, <1>4, <1>5

\* The outermost transaction ends, for good or to yield.
LEMMA EndOutermostKeeps ==
    ASSUME SessionAssumption, SessionInv, NEW t \in Sessions,
           NEW yielding \in BOOLEAN, NEW listenerThrows \in BOOLEAN,
           NEW outcome \in {"ok", "failed"},
           EndOutermost(t, yielding, listenerThrows, outcome),
           pc' \in [Sessions -> {"idle", "waiting", "yielding"}],
           \A u \in Sessions : u # t => pc'[u] = pc[u],
           yielded' \in [Sessions -> BOOLEAN]
    PROVE  SessionInv'
<1> DEFINE n == Len(mTransactionStack[t])
<1> TypeOK
  BY DEF SessionInv
<1>0. /\ Held(t) /\ Mirrored(t) /\ Owned(t) /\ n = 1 /\ InTransaction(t)
      /\ operations[t] = 0 /\ operations' = operations
  <2>1. n = 1 /\ operations[t] = 0 /\ operations' = operations
    BY DEF EndOutermost
  <2>2. Held(t) /\ Mirrored(t) /\ Owned(t) /\ (InTransaction(t) <=> n > 0)
    BY LocalBefore
  <2> QED
    BY <2>1, <2>2
<1>1. PICK c \in Conns : c = mConnection[t]
  BY <1>0, HoldsInTransaction
<1>2. PICK successful \in BOOLEAN :
          PopTransaction(t, successful) /\ Settle(c, successful, outcome)
  <2>1. Successful(t, yielding, listenerThrows) \in BOOLEAN
    BY DEF Successful
  <2>2. /\ PopTransaction(t, Successful(t, yielding, listenerThrows))
        /\ Settle(c, Successful(t, yielding, listenerThrows), outcome)
    BY <1>1 DEF EndOutermost
  <2> QED
    BY <2>1, <2>2
<1>3. /\ mTransactionStack' \in [Sessions -> Seq(Transaction)]
      /\ mTransactionPool' \in [Sessions -> Seq(Transaction)]
      /\ history' \in [Sessions -> History]
      /\ \A u \in Sessions : u # t => /\ mTransactionStack'[u] = mTransactionStack[u]
                                      /\ history'[u] = history[u]
      /\ ~InTransaction(t)' /\ Mirrored(t)'
  <2>1. InTransaction(t)' <=> n > 1
    BY <1>0, <1>2, Popped
  <2> QED
    BY <2>1, <1>0, <1>2, Popped
<1>4. Settled(c) /\ Distinct
  BY Parts DEF SessionInv
<1>5. /\ sqlite' \in [Conns -> [open : BOOLEAN, kept : BOOLEAN, pending : SUBSET Sessions]]
      /\ committed' \in SUBSET Sessions
      /\ ConnectionsKept(c)
      /\ sqlite'[c] = NoTransaction \/
             (sqlite'[c].kept = sqlite'[c].open /\ (sqlite'[c].pending # {} => sqlite'[c].open))
  <2>1. ~sqlite[c].kept /\ (sqlite[c].pending # {} => sqlite[c].open)
    BY <1>0, <1>1, <1>4 DEF Owned, Settled
  <2> QED
    BY <1>2, <2>1, SettleEnds
<1>6. /\ mConnection' \in [Sessions -> Conns \cup {None}]
      /\ mConnectionUseCount' \in [Sessions -> 0..(MaxOperations + 1)]
      /\ mConnection'[t] = None /\ mConnectionUseCount'[t] = 0
      /\ \A u \in Sessions : u # t =>
             /\ mConnection'[u] = mConnection[u]
             /\ mConnectionUseCount'[u] = mConnectionUseCount[u]
  <2>1. mConnectionUseCount[t] = 1
    BY <1>0 DEF Held
  <2> QED
    BY <2>1, Released DEF EndOutermost
<1>7. TypeOK'
  BY <1>0, <1>3, <1>5, <1>6, Typed DEF TypeOK
<1>8. OthersKept(t)
  BY <1>0, <1>3, <1>6 DEF OthersKept
<1>9. Local(t)'
  <2>1. Held(t)'
    BY <1>0, <1>3, <1>6 DEF Held
  <2>2. Remembered(t)' /\ Owned(t)'
    BY <1>3 DEF Remembered, Owned
  <2>3. YieldsOut(t)'
    BY <1>0, <1>3 DEF YieldsOut
  <2> QED
    BY <1>3, <2>1, <2>2, <2>3 DEF Local
<1>10. Settled(c)'
  <2>1. CASE sqlite'[c] = NoTransaction
    BY <2>1 DEF Settled, NoTransaction
  <2>2. CASE sqlite'[c].kept = sqlite'[c].open /\ (sqlite'[c].pending # {} => sqlite'[c].open)
    BY <2>2 DEF Settled
  <2> QED
    BY <1>5, <2>1, <2>2
<1>11. c \in Acquirable(t) /\ mConnection'[t] \in {None, c}
  BY <1>1, <1>6 DEF Acquirable, SessionAssumption
<1> QED
  BY <1>5, <1>7, <1>8, <1>9, <1>10, <1>11, Frame

-----------------------------------------------------------------------------
(***************************************************************************)
(* SessionInv is inductive                                                 *)
(***************************************************************************)
\* The parts hold of the initial state.
LEMMA SessionInit ==
    ASSUME SessionAssumption, Init
    PROVE  SessionInv
<1>1. <<>> \in Seq(Transaction) /\ <<>> \in Seq(BOOLEAN) /\ Len(<<>>) = 0
  BY EmptySeq
<1>2. TypeOK
  <2>1. /\ mTransactionStack \in [Sessions -> Seq(Transaction)]
        /\ mTransactionPool \in [Sessions -> Seq(Transaction)]
    BY <1>1 DEF Init
  <2>2. history \in [Sessions -> [marks : Seq(BOOLEAN), failed : BOOLEAN, lost : BOOLEAN]]
    BY <1>1 DEF Init
  <2>3. sqlite \in [Conns -> [open : BOOLEAN, kept : BOOLEAN, pending : SUBSET Sessions]]
    BY DEF Init, NoTransaction
  <2>4. /\ mConnectionUseCount \in [Sessions -> 0..(MaxOperations + 1)]
        /\ operations \in [Sessions -> 0..MaxOperations]
    BY DEF Init, SessionAssumption
  <2> QED
    BY <2>1, <2>2, <2>3, <2>4 DEF TypeOK, Init
<1>3. ASSUME NEW t \in Sessions
      PROVE  Local(t)
  <2>1. ~InTransaction(t) /\ mTransactionStack[t] = <<>> /\ history[t].marks = <<>>
    BY DEF Init, InTransaction
  <2>2. Mirrored(t)
    BY <1>1, <2>1 DEF Mirrored
  <2>3. Held(t) /\ Remembered(t) /\ Owned(t) /\ YieldsOut(t)
    BY <2>1 DEF Init, Held, Remembered, Owned, YieldsOut
  <2> QED
    BY <2>2, <2>3 DEF Local
<1>4. ASSUME NEW c \in Conns
      PROVE  Settled(c)
  BY DEF Init, Settled, NoTransaction
<1>5. Distinct
  BY DEF Init, Distinct
<1> QED
  BY <1>2, <1>3, <1>4, <1>5, Parts

\* Every step keeps the invariant.
LEMMA SessionNext ==
    ASSUME SessionAssumption, SessionInv, [Next]_vars
    PROVE  SessionInv'
<1>1. CASE UNCHANGED vars
  BY <1>1
  DEF vars, sessionVars, SessionInv, TypeOK, ConnectionHeldWhileNeeded,
      EndedTransactionSettled, MarksMirrored, FailureRemembered, TransactionOwned,
      YieldsOutside, InTransaction, Free
<1>2. CASE Next
  <2>1. PICK t \in Sessions :
            \/ Wait(t)
            \/ \E c \in Conns : StartOperation(t, c)
            \/ \E result \in {"write", "none", "lost"} : EndOperation(t, result)
            \/ \E listener \in BOOLEAN : BeginNested(t, listener) \/ BeginOutermost(t, listener)
            \/ SetTransactionSuccessful(t)
            \/ YieldBegin(t)
            \/ \E listenerThrows \in BOOLEAN :
                   \/ EndNested(t, listenerThrows)
                   \/ \E outcome \in {"ok", "failed"} :
                          \/ EndTransaction(t, listenerThrows, outcome)
                          \/ YieldTransaction(t, listenerThrows, outcome)
    BY <1>2 DEF Next
  <2> TypeOK
    BY DEF SessionInv
  <2>2. ASSUME NEW listener \in BOOLEAN, BeginOutermost(t, listener)
        PROVE  SessionInv'
    BY <2>2, BeginSucceedsKeeps, BeginFailsKeeps DEF BeginOutermost, MayBegin
  <2>3. CASE YieldBegin(t)
    <3>1. ~InTransaction(t) /\ operations[t] = 0 /\ yielded[t] \in BOOLEAN
      BY <2>3, LocalBefore DEF YieldBegin, YieldsOut, TypeOK
    <3> QED
      BY <2>3, <3>1, BeginSucceedsKeeps, BeginFailsKeeps DEF YieldBegin
  <2>4. ASSUME NEW listenerThrows \in BOOLEAN, NEW outcome \in {"ok", "failed"},
               EndTransaction(t, listenerThrows, outcome)
        PROVE  SessionInv'
    <3>1. /\ EndOutermost(t, FALSE, listenerThrows, outcome)
          /\ pc' \in [Sessions -> {"idle", "waiting", "yielding"}]
          /\ \A u \in Sessions : u # t => pc'[u] = pc[u]
          /\ yielded' \in [Sessions -> BOOLEAN]
      BY <2>4 DEF EndTransaction, TypeOK
    <3> QED
      BY <3>1, EndOutermostKeeps
  <2>5. ASSUME NEW listenerThrows \in BOOLEAN, NEW outcome \in {"ok", "failed"},
               YieldTransaction(t, listenerThrows, outcome)
        PROVE  SessionInv'
    <3>1. /\ pc' \in [Sessions -> {"idle", "waiting", "yielding"}]
          /\ \A u \in Sessions : u # t => pc'[u] = pc[u]
      BY <2>5 DEF YieldTransaction, TypeOK
    <3>2. yielded' \in [Sessions -> BOOLEAN]
      <4>1. Len(mTransactionStack[t]) \in 1..Len(mTransactionStack[t])
        BY <2>5, LocalBefore DEF YieldTransaction, MayYield
      <4>2. Top(t) \in Transaction
        BY <4>1, LocalBefore, ElementOfSeq DEF Top, Last
      <4>3. Top(t).listener \in BOOLEAN
        BY <4>2 DEF Transaction
      <4> QED
        BY <2>5, <4>3 DEF YieldTransaction, TypeOK
    <3>3. EndOutermost(t, TRUE, listenerThrows, outcome)
      BY <2>5 DEF YieldTransaction
    <3> QED
      BY <3>1, <3>2, <3>3, EndOutermostKeeps
  <2> QED
    BY <2>1, <2>2, <2>3, <2>4, <2>5, WaitKeeps, StartOperationKeeps, EndOperationKeeps,
       BeginNestedKeeps, SetTransactionSuccessfulKeeps, EndNestedKeeps
<1> QED
  BY <1>1, <1>2

\* SessionInv holds in every reachable state: what every call relies on of the
\* stacks, the use counts and the transactions of SQLite.
THEOREM SessionInvariant == Spec => []SessionInv
<1> USE SessionAssumption
<1>1. Init => SessionInv
  BY SessionInit
<1>2. SessionInv /\ [Next]_vars => SessionInv'
  BY SessionNext
<1> QED
  BY <1>1, <1>2, PTL DEF Spec

\* acquireConnection and releaseConnection are paired on every path: a session
\* holds a connection exactly while an operation or a transaction of its own is
\* in progress, and no other session holds the same one.
THEOREM ConnectionHeld == Spec => []ConnectionHeldWhileNeeded
<1>1. SessionInv => ConnectionHeldWhileNeeded
  BY DEF SessionInv
<1> QED
  BY <1>1, SessionInvariant, PTL

\* endTransaction() leaves nothing pending and gives the connection back outside
\* of a transaction, unless SQLite has refused to end it.
THEOREM TransactionsSettled == Spec => []EndedTransactionSettled
<1>1. SessionInv => EndedTransactionSettled
  BY DEF SessionInv
<1> QED
  BY <1>1, SessionInvariant, PTL

-----------------------------------------------------------------------------
(***************************************************************************)
(* What is committed                                                       *)
(***************************************************************************)
\* The COMMIT of endTransaction() or of yieldTransaction(): the connection's
\* pending writes are those of the session, and neither it nor a transaction
\* nested in it was left unmarked.
LEMMA EndOutermostIntended ==
    ASSUME SessionAssumption, SessionInv, NEW t \in Sessions,
           NEW yielding \in BOOLEAN, NEW listenerThrows \in BOOLEAN,
           NEW outcome \in {"ok", "failed"},
           EndOutermost(t, yielding, listenerThrows, outcome),
           yielding /\ ~listenerThrows /\ outcome = "ok" => pc'[t] = "yielding",
           NEW u \in committed' \ committed
    PROVE  Intended(u)
<1> DEFINE stack == mTransactionStack[t]
<1> TypeOK
  BY DEF SessionInv
<1>1. /\ Mirrored(t) /\ Remembered(t) /\ Owned(t) /\ Len(stack) = 1 /\ InTransaction(t)
  <2>1. Len(stack) = 1
    BY DEF EndOutermost
  <2>2. Mirrored(t) /\ Remembered(t) /\ Owned(t) /\ (InTransaction(t) <=> Len(stack) > 0)
    BY LocalBefore
  <2> QED
    BY <2>1, <2>2
<1>2. PICK c \in Conns : c = mConnection[t]
  BY <1>1, HoldsInTransaction
<1>3. Settled(c) /\ Distinct
  BY Parts DEF SessionInv
<1>4. ~sqlite[c].kept /\ (sqlite[c].pending # {} => sqlite[c].open)
  BY <1>1, <1>2, <1>3 DEF Owned, Settled
<1>5. /\ Successful(t, yielding, listenerThrows) /\ outcome = "ok"
      /\ committed' = committed \cup sqlite[c].pending
  <2>1. PICK successful \in BOOLEAN : successful = Successful(t, yielding, listenerThrows)
    BY DEF Successful
  <2>2. Settle(c, successful, outcome)
    BY <1>2, <2>1 DEF EndOutermost
  <2>3. committed' # committed
    OBVIOUS
  <2> QED
    BY <1>4, <2>1, <2>2, <2>3, SettleEnds
<1>6. u = t
  <2>1. u \in sqlite[c].pending /\ u \in Sessions
    BY <1>5 DEF TypeOK
  <2>2. mConnection[u] = c
    BY <1>3, <1>4, <2>1 DEF Settled
  <2> QED
    BY <1>2, <1>3, <2>1, <2>2 DEF Distinct, SessionAssumption
<1>7. /\ stack[1].mMarkedSuccessful \/ yielding
      /\ ~stack[1].mChildFailed /\ ~listenerThrows
  BY <1>1, <1>5 DEF Successful, Top, Last
<1>8. ~history[t].failed
  BY <1>1, <1>7 DEF Remembered
<1>9. Len(history[t].marks) = 1 /\ history[t].marks[1] = stack[1].mMarkedSuccessful
  BY <1>1 DEF Mirrored
<1> QED
  BY <1>5, <1>6, <1>7, <1>8, <1>9 DEF Intended

\* A statement commits something of a transaction only after SQLite has rolled
\* it back.
LEMMA EndOperationLost ==
    ASSUME SessionAssumption, SessionInv, NEW t \in Sessions,
           NEW result \in {"write", "none", "lost"}, EndOperation(t, result),
           NEW u \in committed' \ committed
    PROVE  history[u].lost
<1>1. operations[t] > 0 /\ Owned(t)
  BY LocalBefore DEF EndOperation
<1>2. PICK c \in Conns : c = mConnection[t]
  BY <1>1, HoldsInTransaction
<1>3. Effect(t, c, result) /\ mConnection[t] = c
  BY <1>2 DEF EndOperation
<1>4. Ran(t, c, result)
  BY <1>3, Statement
<1>5. committed' # committed
  OBVIOUS
<1>6. InTransaction(t) /\ ~sqlite[c].open /\ u = t
  BY <1>4, <1>5 DEF Ran
<1> QED
  BY <1>1, <1>2, <1>6 DEF Owned

\* "Then the changes are committed if setTransactionSuccessful was called or
\* rolled back otherwise": a transaction's writes are committed only by a yield,
\* or at its end if the application marked it and all that were nested in it,
\* or after SQLite itself has rolled the transaction back.
THEOREM OnlyIntendedCommits == Spec => CommittedOnlyIfIntended
<1> USE SessionAssumption
<1>1. SessionInv /\ [Next]_vars => [CommitsIntended]_vars
  <2> SUFFICES ASSUME SessionInv, Next, NEW u \in committed' \ committed
               PROVE  Intended(u) \/ history[u].lost
    BY DEF CommitsIntended
  <2>1. PICK t \in Sessions :
            \/ Wait(t)
            \/ \E c \in Conns : StartOperation(t, c)
            \/ \E result \in {"write", "none", "lost"} : EndOperation(t, result)
            \/ \E listener \in BOOLEAN : BeginNested(t, listener) \/ BeginOutermost(t, listener)
            \/ SetTransactionSuccessful(t)
            \/ YieldBegin(t)
            \/ \E listenerThrows \in BOOLEAN :
                   \/ EndNested(t, listenerThrows)
                   \/ \E outcome \in {"ok", "failed"} :
                          \/ EndTransaction(t, listenerThrows, outcome)
                          \/ YieldTransaction(t, listenerThrows, outcome)
    BY DEF Next
  <2>2. ASSUME NEW c \in Conns, NEW listener, BeginSucceeds(t, c, listener)
        PROVE  FALSE
    BY <2>2 DEF BeginSucceeds
  <2>3. ASSUME NEW listener, BeginFails(t, listener)
        PROVE  FALSE
    BY <2>3 DEF BeginFails
  <2>4. CASE Wait(t) \/ (\E c \in Conns : StartOperation(t, c)) \/ SetTransactionSuccessful(t)
    BY <2>4 DEF Wait, StartOperation, SetTransactionSuccessful
  <2>5. CASE \E listener \in BOOLEAN : BeginNested(t, listener) \/ BeginOutermost(t, listener)
    BY <2>2, <2>3, <2>5 DEF BeginNested, BeginOutermost
  <2>6. CASE YieldBegin(t)
    BY <2>2, <2>3, <2>6 DEF YieldBegin
  <2>7. CASE \E result \in {"write", "none", "lost"} : EndOperation(t, result)
    BY <2>7, EndOperationLost
  <2>8. ASSUME NEW listenerThrows \in BOOLEAN, EndNested(t, listenerThrows)
        PROVE  FALSE
    BY <2>8 DEF EndNested
  <2>9. ASSUME NEW listenerThrows \in BOOLEAN, NEW outcome \in {"ok", "failed"},
               EndTransaction(t, listenerThrows, outcome)
        PROVE  Intended(u)
    <3>1. EndOutermost(t, FALSE, listenerThrows, outcome)
      BY <2>9 DEF EndTransaction
    <3> QED
      BY <3>1, EndOutermostIntended
  <2>10. ASSUME NEW listenerThrows \in BOOLEAN, NEW outcome \in {"ok", "failed"},
                YieldTransaction(t, listenerThrows, outcome)
         PROVE  Intended(u)
    <3>1. EndOutermost(t, TRUE, listenerThrows, outcome)
      BY <2>10 DEF YieldTransaction
    <3>2. ~listenerThrows /\ outcome = "ok" => pc'[t] = "yielding"
      BY <2>10 DEF YieldTransaction, SessionInv, TypeOK
    <3> QED
      BY <3>1, <3>2, EndOutermostIntended
  <2> QED
    BY <2>1, <2>4, <2>5, <2>6, <2>7, <2>8, <2>9, <2>10
<1> QED
  BY <1>1, SessionInvariant, PTL DEF Spec, CommittedOnlyIfIntended
=============================================================================
