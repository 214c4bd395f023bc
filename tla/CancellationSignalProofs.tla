----------------------- MODULE CancellationSignalProofs -----------------------
(***************************************************************************)
(* Proofs about CancellationSignal, for any threads, signals, sharing of   *)
(* signals and depth of nesting: CancellationInv is inductive, and from it *)
(* onCancel() is called only while a signal is attached, a connection      *)
(* comes back clean, and a cancel() that has returned has reached its      *)
(* operation.                                                              *)
(*                                                                         *)
(* A step is one of a thread, which changes its own stack and connection   *)
(* and the listener of at most one of its signals, or one of a signal,     *)
(* which changes no stack.  The invariant is taken apart into what is said *)
(* of one thread and of one signal.                                        *)
(***************************************************************************)
EXTENDS CancellationSignal, SequenceFacts, FiniteSetTheorems, TLAPS

-----------------------------------------------------------------------------
(***************************************************************************)
(* The invariant by threads and by signals                                 *)
(***************************************************************************)
InOrder(t) == Depth(t) <= MaxDepth /\ \A i \in 1..Depth(t) :
    /\ Op(t, i).signal \in SignalsOf[t] \cup {None}
    /\ i < Depth(t) \/ Op(t, i).signal = None => Op(t, i).at = "running"
    /\ Op(t, i).at \in {"setListener", "onCancel", "removeListener"} => Attaching(t, i)

Counted(t) ==
    /\ mCancellationSignalAttachCount[t] = Cardinality(Attached(t))
    /\ Attached(t) # {} => cancelable[t]
    /\ canceled[t] \/ cancelable[t] => Attached(t) # {} \/ Detaching(t)
    /\ Detaching(t) => Attached(t) = {}

Delivered(t) == \A i \in 1..Depth(t) :
    Attaching(t, i) /\ OnlyUser(t, Op(t, i).signal) /\ Op(t, i).at \in {"onCancel", "running"} =>
        /\ mOnCancelListener[Op(t, i).signal] = t
        /\ Op(t, i).at = "running" /\ mIsCanceled[Op(t, i).signal] =>
               canceled[t] \/ ( /\ mCancelInProgress[Op(t, i).signal]
                                /\ cancelCall[Op(t, i).signal] = t )

ListensTo(t, s) == \E i \in 1..Depth(t) :
    /\ Attaching(t, i) /\ Op(t, i).signal = s
    /\ Op(t, i).at \in {"onCancel", "running", "removeListener"}

Listened(s) ==
    /\ \A t \in Threads : mOnCancelListener[s] = t => ListensTo(t, s)
    /\ cancelCall[s] # None => mCancelInProgress[s] /\ mOnCancelListener[s] = cancelCall[s]

Operations == [signal : Signals \cup {None}, at : Phases]

\* The parts make up the invariant.
LEMMA Parts ==
    CancellationInv <=> /\ TypeOK
                        /\ \A t \in Threads : InOrder(t) /\ Counted(t) /\ Delivered(t)
                        /\ \A s \in Signals : Listened(s)
<1>1. StackInOrder <=> \A t \in Threads : InOrder(t)
  BY DEF StackInOrder, InOrder
<1>2. AttachmentsCounted <=> \A t \in Threads : Counted(t)
  BY DEF AttachmentsCounted, Counted
<1>3. SignalsDelivered <=> \A t \in Threads : Delivered(t)
  BY DEF SignalsDelivered, Delivered
<1>4. ListenersAttached <=> \A s \in Signals : Listened(s)
  BY DEF ListenersAttached, Listened, ListensTo
<1> QED
  BY <1>1, <1>2, <1>3, <1>4 DEF CancellationInv

\* The same of the state after a step.
LEMMA PartsAfter ==
    ASSUME TypeOK', \A t \in Threads : InOrder(t)' /\ Counted(t)' /\ Delivered(t)',
           \A s \in Signals : Listened(s)'
    PROVE  CancellationInv'
<1>1. /\ (\A t \in Threads : InOrder(t) /\ Counted(t) /\ Delivered(t))'
      /\ (\A s \in Signals : Listened(s))'
  OBVIOUS
<1> QED
  BY <1>1, Parts, PTL

\* The stack of a thread.
LEMMA Stack ==
    ASSUME TypeOK, NEW t \in Threads
    PROVE  /\ operations[t] \in Seq(Operations) /\ Depth(t) \in Nat
           /\ operations[t] # <<>> <=> Depth(t) > 0
           /\ DOMAIN operations[t] = 1..Depth(t)
           /\ \A i \in 1..Depth(t) : Op(t, i) \in Operations
<1>1. operations[t] \in Seq(Operations)
  BY DEF TypeOK, Operations
<1> QED
  BY <1>1, Empty, ElementOfSeq DEF Depth, Op

\* The operations with signals attached are finitely many.
LEMMA AttachedFinite ==
    ASSUME TypeOK, NEW t \in Threads
    PROVE  /\ IsFiniteSet(Attached(t)) /\ Cardinality(Attached(t)) \in Nat
           /\ Cardinality(Attached(t)) <= Depth(t)
           /\ Cardinality(Attached(t)) = 0 <=> Attached(t) = {}
           /\ Attached(t) \subseteq 1..Depth(t)
<1>1. Attached(t) \subseteq 1..Depth(t)
  BY DEF Attached
<1>2. Depth(t) \in Nat
  BY Stack
<1>3. IsFiniteSet(1..Depth(t)) /\ Cardinality(1..Depth(t)) = Depth(t)
  <2>1. Cardinality(1..Depth(t)) = IF 1 > Depth(t) THEN 0 ELSE Depth(t) - 1 + 1
    BY <1>2, FS_Interval
  <2> QED
    BY <1>2, <2>1, FS_Interval
<1> QED
  BY <1>1, <1>3, FS_Subset, FS_CardinalityType, FS_EmptySet

-----------------------------------------------------------------------------
(***************************************************************************)
(* What the steps of a thread do to its stack                              *)
(***************************************************************************)
StacksKept(t) == \A u \in Threads : u # t => operations'[u] = operations[u]

\* The innermost operation goes on.
LEMMA Went ==
    ASSUME TypeOK, NEW t \in Threads, NEW phase \in Phases, Depth(t) > 0, GoTo(t, phase)
    PROVE  /\ operations' \in [Threads -> Seq(Operations)] /\ StacksKept(t)
           /\ Depth(t)' = Depth(t)
           /\ \A i \in 1..Depth(t) : Op(t, i)'.signal = Op(t, i).signal
           /\ \A i \in 1..Depth(t) : i # Depth(t) => Op(t, i)' = Op(t, i)
           /\ Op(t, Depth(t))'.at = phase
<1> DEFINE stack == operations[t]
           n == Len(stack)
           e == [stack[n] EXCEPT !.at = phase]
           after == [stack EXCEPT ![n] = e]
<1>1. stack \in Seq(Operations) /\ n \in Nat /\ n \in 1..n /\ stack[n] \in Operations
  BY Stack DEF Depth, Op
<1>2. e \in Operations /\ e.signal = stack[n].signal /\ e.at = phase
  BY <1>1 DEF Operations
<1>3. operations' = [operations EXCEPT ![t] = after]
  BY DEF GoTo
<1>4. /\ after \in Seq(Operations) /\ Len(after) = n /\ after[n] = e
      /\ \A i \in 1..n : i # n => after[i] = stack[i]
  <2> HIDE DEF e, stack
  <2> QED
    BY <1>1, <1>2, ReplaceKeeps
<1> HIDE DEF after, e
<1>5. operations' \in [Threads -> Seq(Operations)] /\ operations'[t] = after /\ StacksKept(t)
  BY <1>3, <1>4 DEF TypeOK, Operations, StacksKept
<1> QED
  BY <1>1, <1>2, <1>4, <1>5 DEF Depth, Op

\* The innermost operation returns.
LEMMA Returned ==
    ASSUME TypeOK, NEW t \in Threads, Depth(t) > 0, Return(t)
    PROVE  /\ operations' \in [Threads -> Seq(Operations)] /\ StacksKept(t)
           /\ Depth(t)' = Depth(t) - 1
           /\ \A i \in 1..(Depth(t) - 1) : Op(t, i)' = Op(t, i)
<1> DEFINE stack == operations[t]
<1>1. stack \in Seq(Operations) /\ Len(stack) > 0
  BY Stack DEF Depth
<1>2. /\ Front(stack) \in Seq(Operations) /\ Len(Front(stack)) = Len(stack) - 1
      /\ \A i \in 1..(Len(stack) - 1) : Front(stack)[i] = stack[i]
  BY <1>1, FrontKeeps
<1>3. operations' = [operations EXCEPT ![t] = Front(stack)]
  BY DEF Return
<1>4. operations' \in [Threads -> Seq(Operations)] /\ operations'[t] = Front(stack) /\ StacksKept(t)
  BY <1>2, <1>3 DEF TypeOK, Operations, StacksKept
<1> QED
  BY <1>2, <1>4 DEF Depth, Op

\* An operation begins.
LEMMA Began ==
    ASSUME TypeOK, NEW t \in Threads, NEW s \in Signals \cup {None},
           operations' = [operations EXCEPT ![t] = Append(@, Operation(s))]
    PROVE  /\ operations' \in [Threads -> Seq(Operations)] /\ StacksKept(t)
           /\ Depth(t)' = Depth(t) + 1
           /\ \A i \in 1..Depth(t) : Op(t, i)' = Op(t, i)
           /\ operations'[t][Depth(t) + 1] = Operation(s)
<1> DEFINE stack == operations[t]
<1>1. stack \in Seq(Operations)
  BY Stack
<1>2. Operation(s) \in Operations
  BY DEF Operation, Operations, Phases
<1>3. /\ Append(stack, Operation(s)) \in Seq(Operations)
      /\ Len(Append(stack, Operation(s))) = Len(stack) + 1
      /\ \A i \in 1..Len(stack) : Append(stack, Operation(s))[i] = stack[i]
      /\ Append(stack, Operation(s))[Len(stack) + 1] = Operation(s)
  BY <1>1, <1>2, AppendKeeps
<1>4. /\ operations' \in [Threads -> Seq(Operations)] /\ StacksKept(t)
      /\ operations'[t] = Append(stack, Operation(s))
  BY <1>3 DEF TypeOK, Operations, StacksKept
<1> QED
  BY <1>3, <1>4 DEF Depth, Op

-----------------------------------------------------------------------------
(***************************************************************************)
(* What a step of thread t leaves alone                                    *)
(***************************************************************************)
ConnectionsKept(t) == \A u \in Threads : u # t =>
    /\ mCancellationSignalAttachCount'[u] = mCancellationSignalAttachCount[u]
    /\ canceled'[u] = canceled[u]
    /\ cancelable'[u] = cancelable[u]

\* A thread changes the listener only of its own signals, to itself or to none,
\* and never while a cancel() of the signal is in progress.
ListenersKept(t) == \A r \in Signals :
    \/ mOnCancelListener'[r] = mOnCancelListener[r]
    \/ /\ r \in SignalsOf[t] /\ ~mCancelInProgress[r]
       /\ mOnCancelListener'[r] \in {t, None}

\* The parts about the other threads and about the signals follow.
LEMMA ThreadFrame ==
    ASSUME SignalsAssumption, CancellationInv, TypeOK', NEW t \in Threads,
           StacksKept(t), ConnectionsKept(t), ListenersKept(t),
           mIsCanceled' = mIsCanceled, mCancelInProgress' = mCancelInProgress,
           cancelCall' = cancelCall,
           InOrder(t)', Counted(t)', Delivered(t)',
           \A r \in Signals : mOnCancelListener'[r] = t => ListensTo(t, r)'
    PROVE  CancellationInv'
<1>1. /\ TypeOK /\ \A u \in Threads : InOrder(u) /\ Counted(u) /\ Delivered(u)
      /\ \A r \in Signals : Listened(r)
  BY Parts
<1>2. ASSUME NEW u \in Threads, u # t
      PROVE  InOrder(u)' /\ Counted(u)' /\ Delivered(u)'
  <2>1. operations'[u] = operations[u]
    BY <1>2 DEF StacksKept
  <2>2. /\ Depth(u)' = Depth(u) /\ \A i \in 1..Depth(u) : Op(u, i)' = Op(u, i)
        /\ \A i \in 1..Depth(u) : Attaching(u, i)' <=> Attaching(u, i)
        /\ Attached(u)' = Attached(u) /\ (Detaching(u)' <=> Detaching(u))
    BY <2>1 DEF Depth, Op, Attaching, Attached, At, Detaching
  <2>3. InOrder(u)'
    BY <1>1, <2>2 DEF InOrder
  <2>4. Counted(u)'
    BY <1>1, <1>2, <2>2 DEF Counted, ConnectionsKept
  <2>5. ASSUME NEW i \in 1..Depth(u), Attaching(u, i), OnlyUser(u, Op(u, i).signal)
        PROVE  mOnCancelListener'[Op(u, i).signal] = mOnCancelListener[Op(u, i).signal]
    <3>1. Op(u, i).signal \in Signals
      BY <1>1, <2>5, Stack DEF Operations, Attaching, Op
    <3>2. Op(u, i).signal \notin SignalsOf[t]
      BY <1>2, <2>5 DEF OnlyUser
    <3> QED
      BY <3>1, <3>2 DEF ListenersKept
  <2>6. Delivered(u)'
    <3>1. Delivered(u) /\ canceled'[u] = canceled[u]
      BY <1>1, <1>2 DEF ConnectionsKept
    <3>2. SUFFICES ASSUME NEW i \in 1..Depth(u), Attaching(u, i), OnlyUser(u, Op(u, i).signal),
                          Op(u, i).at \in {"onCancel", "running"}
                   PROVE  /\ mOnCancelListener'[Op(u, i).signal] = u
                          /\ Op(u, i).at = "running" /\ mIsCanceled[Op(u, i).signal] =>
                                 canceled[u] \/ ( /\ mCancelInProgress[Op(u, i).signal]
                                                  /\ cancelCall[Op(u, i).signal] = u )
      BY <2>2, <3>1 DEF Delivered, OnlyUser
    <3> QED
      BY <2>5, <3>1, <3>2 DEF Delivered
  <2> QED
    BY <2>3, <2>4, <2>6
<1>3. ASSUME NEW r \in Signals
      PROVE  Listened(r)'
  <2>1. Listened(r)
    BY <1>1
  <2>2. ASSUME NEW u \in Threads, mOnCancelListener'[r] = u
        PROVE  ListensTo(u, r)'
    <3>1. CASE u = t
      BY <2>2, <3>1
    <3>2. CASE u # t
      <4>1. mOnCancelListener[r] = u
        BY <2>2, <3>2 DEF ListenersKept, SignalsAssumption
      <4>2. ListensTo(u, r) /\ operations'[u] = operations[u]
        BY <2>1, <3>2, <4>1 DEF Listened, StacksKept
      <4> QED
        BY <4>2 DEF ListensTo, Depth, Op, Attaching
    <3> QED
      BY <3>1, <3>2
  <2>3. cancelCall'[r] # None => mCancelInProgress'[r] /\ mOnCancelListener'[r] = cancelCall'[r]
    BY <2>1 DEF Listened, ListenersKept
  <2> QED
    BY <2>2, <2>3 DEF Listened
<1> QED
  BY <1>2, <1>3, PartsAfter

\* The parts about thread t before a step.
LEMMA Before ==
    ASSUME CancellationInv, NEW t \in Threads
    PROVE  /\ TypeOK /\ InOrder(t) /\ Counted(t) /\ Delivered(t)
           /\ \A r \in Signals : Listened(r)
           /\ Depth(t) \in Nat /\ \A i \in 1..Depth(t) : Op(t, i) \in Operations
           /\ \A phase \in Phases : At(t, phase) <=>
                  Depth(t) > 0 /\ Op(t, Depth(t)).at = phase
           /\ Depth(t) > 0 => Signal(t) = Op(t, Depth(t)).signal
<1>1. /\ TypeOK /\ InOrder(t) /\ Counted(t) /\ Delivered(t)
      /\ \A r \in Signals : Listened(r)
  BY Parts
<1> QED
  BY <1>1, Stack DEF At, Signal, Last, Op, Depth

\* An operation that a listener stands for is the only one that may have attached
\* its signal, and its attachment is counted until it is about to remove the
\* listener.
LEMMA ListensAttached ==
    ASSUME TypeOK, NEW t \in Threads, InOrder(t), NEW r \in Signals, ListensTo(t, r)
    PROVE  \E i \in 1..Depth(t) : /\ Attaching(t, i) /\ Op(t, i).signal = r
                                  /\ \/ i \in Attached(t) /\ Op(t, i).at \in {"onCancel", "running"}
                                     \/ i = Depth(t) /\ Op(t, i).at = "removeListener"
<1>1. PICK i \in 1..Depth(t) : /\ Attaching(t, i) /\ Op(t, i).signal = r
                               /\ Op(t, i).at \in {"onCancel", "running", "removeListener"}
  BY DEF ListensTo
<1>2. Op(t, i).signal # None
  BY <1>1 DEF Attaching, Op
<1>3. Op(t, i).at \in {"onCancel", "running"} => i \in Attached(t)
  BY <1>2 DEF Attached
<1>4. Op(t, i).at = "removeListener" => i = Depth(t)
  BY Stack DEF InOrder
<1> QED
  BY <1>1, <1>3, <1>4

\* Which operation that is depends on the signals of those it is nested in.
LEMMA AttachingKept ==
    ASSUME NEW t \in Threads, NEW k \in Nat,
           \A i \in 1..k : Op(t, i)'.signal = Op(t, i).signal
    PROVE  \A i \in 1..k : Attaching(t, i)' <=> Attaching(t, i)
<1> TAKE i \in 1..k
<1>1. \A j \in 1..(i - 1) : j \in 1..k
  OBVIOUS
<1>2. \A j \in 1..k : operations'[t][j].signal = operations[t][j].signal
  BY DEF Op
<1> QED
  BY <1>1, <1>2 DEF Attaching

\* There is at most one such operation.
LEMMA AttachingUnique ==
    ASSUME TypeOK, NEW t \in Threads, NEW i \in 1..Depth(t), NEW j \in 1..Depth(t),
           Attaching(t, i), Op(t, j).signal # None
    PROVE  i <= j /\ (Attaching(t, j) => i = j)
<1>1. Depth(t) \in Nat
  BY Stack
<1>2. ASSUME j < i
      PROVE  FALSE
  BY <1>1, <1>2 DEF Attaching, Op
<1>3. ASSUME i < j, Attaching(t, j)
      PROVE  FALSE
  BY <1>1, <1>3 DEF Attaching, Op
<1> QED
  BY <1>1, <1>2, <1>3
-----------------------------------------------------------------------------
(***************************************************************************)
(* The steps of a thread                                                   *)
(***************************************************************************)
\* A state that is typed, by parts.
LEMMA Typed ==
    ASSUME TypeOK, operations' \in [Threads -> Seq(Operations)],
           mOnCancelListener' \in [Signals -> Threads \cup {None}],
           mIsCanceled' = mIsCanceled, mCancelInProgress' = mCancelInProgress,
           cancelCall' = cancelCall,
           mCancellationSignalAttachCount' \in [Threads -> 0..MaxDepth],
           canceled' \in [Threads -> BOOLEAN], cancelable' \in [Threads -> BOOLEAN]
    PROVE  TypeOK'
  BY DEF TypeOK, Operations

\* An operation returns that is not the one whose signal the connection listens
\* to: nothing else changes, or the flag is reset when nothing is attached.
LEMMA ReturnKeeps ==
    ASSUME SignalsAssumption, CancellationInv, NEW t \in Threads, Depth(t) > 0,
           Return(t), UNCHANGED signalVars, ConnectionsKept(t), ~At(t, "removeListener"),
           Depth(t) \in Attached(t) => \E j \in Attached(t) : j # Depth(t),
           mCancellationSignalAttachCount' \in [Threads -> 0..MaxDepth],
           canceled' \in [Threads -> BOOLEAN], cancelable' \in [Threads -> BOOLEAN],
           mCancellationSignalAttachCount'[t] = Cardinality(Attached(t) \ {Depth(t)}),
           \/ ~canceled'[t] /\ ~cancelable'[t] /\ Attached(t) = {}
           \/ canceled'[t] = canceled[t] /\ cancelable'[t] = cancelable[t] /\ ~Detaching(t)
    PROVE  CancellationInv'
<1> DEFINE n == Depth(t)
<1>1. /\ TypeOK /\ InOrder(t) /\ Counted(t) /\ Delivered(t)
      /\ (\A r \in Signals : Listened(r)) /\ n \in Nat
      /\ \A i \in 1..n : Op(t, i) \in Operations
  BY Before
<1>2. /\ operations' \in [Threads -> Seq(Operations)] /\ StacksKept(t)
      /\ Depth(t)' = n - 1
      /\ \A i \in 1..(n - 1) : Op(t, i)' = Op(t, i)
  BY <1>1, Returned
<1>3. /\ mIsCanceled' = mIsCanceled /\ mOnCancelListener' = mOnCancelListener
      /\ mCancelInProgress' = mCancelInProgress /\ cancelCall' = cancelCall
  BY DEF signalVars
<1>4. TypeOK'
  BY <1>1, <1>2, <1>3, Typed DEF TypeOK
<1>5. \A i \in 1..(n - 1) : i \in 1..n /\ i < n
  BY <1>1
<1>6. \A i \in 1..(n - 1) : Attaching(t, i)' <=> Attaching(t, i)
  <2>1. n - 1 \in Nat
    BY <1>1
  <2>2. \A i \in 1..(n - 1) : Op(t, i)'.signal = Op(t, i).signal
    BY <1>2
  <2> QED
    BY <2>1, <2>2, AttachingKept
<1>7. Attached(t)' = Attached(t) \ {n}
  <2>1. \A i : i \in 1..(n - 1) <=> i \in 1..n /\ i # n
    BY <1>1
  <2> HIDE DEF n
  <2>2. Attached(t)' = {i \in 1..(n - 1) : /\ Op(t, i).signal # None
                            /\ Op(t, i).at \in {"setListener", "onCancel", "running"}}
    BY <1>2 DEF Attached
  <2>3. Attached(t) = {i \in 1..n : /\ Op(t, i).signal # None
                            /\ Op(t, i).at \in {"setListener", "onCancel", "running"}}
    BY DEF Attached, n
  <2> QED
    BY <2>1, <2>2, <2>3
<1>8. \A i \in 1..(n - 1) : Op(t, i).at = "running"
  BY <1>1, <1>5 DEF InOrder
<1>9. InOrder(t)'
  <2>1. Depth(t)' <= MaxDepth
    BY <1>1, <1>2 DEF InOrder, SignalsAssumption
  <2>2. \A i \in 1..(n - 1) : Op(t, i).signal \in SignalsOf[t] \cup {None}
    BY <1>1, <1>5 DEF InOrder
  <2> QED
    BY <1>2, <1>8, <2>1, <2>2 DEF InOrder
<1>10. ~Detaching(t)'
  <2>1. TypeOK' => (Detaching(t)' => Depth(t)' > 0 /\ Op(t, Depth(t))'.at # "running")
    BY <1>2, Empty DEF At, Last, Op, Depth, Detaching
  <2>2. Depth(t)' > 0 => Op(t, Depth(t))' = Op(t, n - 1) /\ n - 1 \in 1..(n - 1)
    BY <1>1, <1>2 DEF Op
  <2> QED
    BY <1>4, <1>8, <2>1, <2>2
<1>11. Counted(t)'
  BY <1>1, <1>7, <1>10 DEF Counted
<1>12. Delivered(t)'
  <2>0. \A i \in 1..(n - 1) : OnlyUser(t, Op(t, i).signal)' <=> OnlyUser(t, Op(t, i).signal)
    BY <1>2 DEF OnlyUser
  <2> HIDE DEF n
  <2>1. SUFFICES ASSUME NEW i \in 1..(n - 1), Attaching(t, i), OnlyUser(t, Op(t, i).signal),
                        Op(t, i).at \in {"onCancel", "running"}
                 PROVE  /\ mOnCancelListener[Op(t, i).signal] = t
                        /\ Op(t, i).at = "running" /\ mIsCanceled[Op(t, i).signal] =>
                               canceled'[t] \/ ( /\ mCancelInProgress[Op(t, i).signal]
                                                 /\ cancelCall[Op(t, i).signal] = t )
    BY <1>2, <1>3, <1>6, <2>0 DEF Delivered
  <2>2. i \in 1..n
    BY <1>5
  <2>3. i \in Attached(t)
    BY <2>1, <2>2 DEF Attached, Attaching, Op, n
  <2> QED
    BY <1>1, <2>1, <2>2, <2>3 DEF Delivered, n
<1>13. ASSUME NEW r \in Signals, mOnCancelListener'[r] = t
       PROVE  ListensTo(t, r)'
  <2>1. ListensTo(t, r)
    BY <1>1, <1>3, <1>13 DEF Listened
  <2>2. PICK i \in Attached(t) : /\ Attaching(t, i) /\ Op(t, i).signal = r
                                 /\ Op(t, i).at \in {"onCancel", "running"}
    <3>1. Op(t, n).at # "removeListener"
      BY Before DEF Phases
    <3> QED
      BY <1>1, <2>1, <3>1, ListensAttached
  <2>3. i \in 1..n
    BY <2>2 DEF Attached
  <2>4. i # n
    <3>1. SUFFICES ASSUME i = n PROVE FALSE
      OBVIOUS
    <3>2. PICK j \in Attached(t) : j # n
      BY <2>2, <3>1
    <3>3. j \in 1..n /\ Op(t, j).signal # None
      BY <3>2 DEF Attached
    <3>4. i <= j
      BY <1>1, <2>2, <2>3, <3>3, AttachingUnique
    <3> QED
      BY <1>1, <3>1, <3>2, <3>3, <3>4
  <2>5. i \in 1..(n - 1)
    BY <1>1, <2>3, <2>4
  <2> QED
    BY <1>2, <1>6, <2>2, <2>5 DEF ListensTo
<1> QED
  BY <1>2, <1>3, <1>4, <1>9, <1>11, <1>12, <1>13, ThreadFrame DEF ListenersKept

\* attachCancellationSignal finds the signal canceled.
LEMMA AttachThrowsKeeps ==
    ASSUME SignalsAssumption, CancellationInv, NEW t \in Threads, AttachThrows(t)
    PROVE  CancellationInv'
<1>1. /\ TypeOK /\ Counted(t) /\ Depth(t) > 0 /\ Op(t, Depth(t)).at = "attach"
      /\ ~Detaching(t) /\ ~At(t, "removeListener")
  BY Before DEF AttachThrows, Phases, Detaching
<1>2. Depth(t) \notin Attached(t)
  BY <1>1 DEF Attached
<1>3. Attached(t) \ {Depth(t)} = Attached(t)
  BY <1>2
<1>4. UNCHANGED signalVars /\ UNCHANGED connectionVars /\ Return(t)
  BY DEF AttachThrows
<1>5. ConnectionsKept(t)
  BY <1>4 DEF connectionVars, ConnectionsKept
<1> QED
  BY <1>1, <1>2, <1>3, <1>4, <1>5, ReturnKeeps DEF connectionVars, Counted, TypeOK

\* A statement without a signal of its own ends, or one with a signal that is
\* not the last to be detached.
LEMMA DetachNestedKeeps ==
    ASSUME SignalsAssumption, CancellationInv, NEW t \in Threads, At(t, "running"),
           Detach(t), Signal(t) = None \/ mCancellationSignalAttachCount[t] # 1
    PROVE  CancellationInv'
<1> DEFINE n == Depth(t)
<1>1. /\ TypeOK /\ Counted(t) /\ n > 0 /\ n \in Nat /\ Op(t, n).at = "running"
      /\ ~Detaching(t) /\ ~At(t, "removeListener") /\ Signal(t) = Op(t, n).signal
  BY Before DEF Phases, Detaching
<1>2. n \in 1..n
  BY <1>1
<1>3. /\ IsFiniteSet(Attached(t)) /\ Cardinality(Attached(t)) \in Nat
      /\ mCancellationSignalAttachCount[t] = Cardinality(Attached(t))
  BY <1>1, AttachedFinite DEF Counted
<1>4. CASE Signal(t) = None
  <2>1. n \notin Attached(t)
    BY <1>1, <1>4 DEF Attached
  <2>2. Attached(t) \ {n} = Attached(t)
    BY <2>1
  <2>3. UNCHANGED signalVars /\ UNCHANGED connectionVars /\ Return(t)
    BY <1>4 DEF Detach
  <2>4. ConnectionsKept(t)
    BY <2>3 DEF connectionVars, ConnectionsKept
  <2> QED
    BY <1>1, <2>1, <2>2, <2>3, <2>4, ReturnKeeps DEF connectionVars, Counted, TypeOK
<1>5. CASE Signal(t) # None /\ mCancellationSignalAttachCount[t] # 1
  <2>1. n \in Attached(t)
    BY <1>1, <1>2, <1>5 DEF Attached
  <2>2. \E j \in Attached(t) : j # n
    <3>1. SUFFICES ASSUME \A j \in Attached(t) : j = n PROVE FALSE
      OBVIOUS
    <3>2. Attached(t) = {n}
      BY <2>1, <3>1
    <3>3. Cardinality({n}) = 1
      BY FS_Singleton
    <3> QED
      BY <1>3, <1>5, <3>2, <3>3
  <2>3. Cardinality(Attached(t) \ {n}) = Cardinality(Attached(t)) - 1
    BY <1>3, <2>1, FS_RemoveElement
  <2>4. /\ mCancellationSignalAttachCount' =
               [mCancellationSignalAttachCount EXCEPT ![t] = @ - 1]
        /\ Return(t) /\ UNCHANGED <<canceled, cancelable>>
    BY <1>5 DEF Detach
  <2>5. UNCHANGED signalVars
    BY <1>5 DEF Detach
  <2>6. mCancellationSignalAttachCount[t] - 1 \in 0..MaxDepth
    <3>1. mCancellationSignalAttachCount[t] \in 0..MaxDepth /\ MaxDepth \in Nat
      BY <1>1 DEF TypeOK, SignalsAssumption
    <3>2. mCancellationSignalAttachCount[t] # 0
      BY <1>1, <1>3, <2>1, AttachedFinite
    <3> QED
      BY <3>1, <3>2
  <2>7. /\ mCancellationSignalAttachCount' \in [Threads -> 0..MaxDepth]
        /\ mCancellationSignalAttachCount'[t] = mCancellationSignalAttachCount[t] - 1
        /\ ConnectionsKept(t)
    BY <1>1, <2>4, <2>6 DEF TypeOK, ConnectionsKept
  <2>8. /\ canceled' \in [Threads -> BOOLEAN] /\ cancelable' \in [Threads -> BOOLEAN]
        /\ canceled'[t] = canceled[t] /\ cancelable'[t] = cancelable[t]
    BY <1>1, <2>4 DEF TypeOK
  <2>9. mCancellationSignalAttachCount'[t] = Cardinality(Attached(t) \ {n})
    BY <1>3, <2>3, <2>7
  <2> QED
    BY <1>1, <2>2, <2>4, <2>5, <2>7, <2>8, <2>9, ReturnKeeps
<1> QED
  BY <1>4, <1>5

\* nativeResetCancel after the last detachment.
LEMMA ResetAfterDetachKeeps ==
    ASSUME SignalsAssumption, CancellationInv, NEW t \in Threads, ResetAfterDetach(t)
    PROVE  CancellationInv'
<1>1. TypeOK /\ Counted(t) /\ Depth(t) > 0 /\ Detaching(t) /\ ~At(t, "removeListener")
  BY Before DEF ResetAfterDetach, Phases, Detaching
<1>2. Attached(t) = {} /\ Attached(t) \ {Depth(t)} = Attached(t)
  BY <1>1 DEF Counted
<1>3. UNCHANGED signalVars /\ mCancellationSignalAttachCount' = mCancellationSignalAttachCount
      /\ Return(t)
  BY DEF ResetAfterDetach
<1>4. /\ canceled' \in [Threads -> BOOLEAN] /\ cancelable' \in [Threads -> BOOLEAN]
      /\ ~canceled'[t] /\ ~cancelable'[t] /\ ConnectionsKept(t)
  BY <1>1, <1>3 DEF ResetAfterDetach, ResetCancel, TypeOK, ConnectionsKept
<1> QED
  BY <1>1, <1>2, <1>3, <1>4, ReturnKeeps DEF Counted, TypeOK

\* What is true of the stack after the innermost operation, which has a signal,
\* has gone on.
GoneOn(t, phase) ==
    /\ operations' \in [Threads -> Seq(Operations)] /\ StacksKept(t)
    /\ Depth(t)' = Depth(t)
    /\ \A i \in 1..Depth(t) : /\ Op(t, i)'.signal = Op(t, i).signal
                              /\ Attaching(t, i)' <=> Attaching(t, i)
                              /\ i # Depth(t) => Op(t, i)' = Op(t, i)
                              /\ i = Depth(t) => Op(t, i)'.at = phase
    /\ Attached(t)' = IF phase \in {"setListener", "onCancel", "running"}
                      THEN Attached(t) \cup {Depth(t)} ELSE Attached(t) \ {Depth(t)}
    /\ Detaching(t)' <=> phase \in {"removeListener", "reset"}
    /\ InOrder(t)'

\* The innermost operation goes on.
LEMMA GoesOn ==
    ASSUME SignalsAssumption, CancellationInv, NEW t \in Threads, NEW phase \in Phases,
           Depth(t) > 0, GoTo(t, phase), Op(t, Depth(t)).signal # None,
           phase \in {"setListener", "onCancel", "removeListener"} => Attaching(t, Depth(t))
    PROVE  GoneOn(t, phase)
<1>1. TypeOK /\ InOrder(t)
  BY Before
<1>2. PICK n \in Nat : n = Depth(t) /\ n > 0
  BY <1>1, Stack
<1>3. /\ operations' \in [Threads -> Seq(Operations)] /\ StacksKept(t)
      /\ Depth(t)' = n
      /\ \A i \in 1..n : Op(t, i)'.signal = Op(t, i).signal
      /\ \A i \in 1..n : i # n => Op(t, i)' = Op(t, i)
      /\ Op(t, Depth(t))'.at = phase
  BY <1>1, <1>2, Went
<1>4. Op(t, n)'.at = phase
  BY <1>3 DEF Op
<1>5. \A i \in 1..n : Attaching(t, i)' <=> Attaching(t, i)
  BY <1>3, AttachingKept
<1>6. Attached(t)' = IF phase \in {"setListener", "onCancel", "running"}
                     THEN Attached(t) \cup {n} ELSE Attached(t) \ {n}
  <2>1. Attached(t)' = {i \in 1..n : /\ Op(t, i)'.signal # None
                            /\ Op(t, i)'.at \in {"setListener", "onCancel", "running"}}
    BY <1>3 DEF Attached
  <2>2. Attached(t) = {i \in 1..n : /\ Op(t, i).signal # None
                            /\ Op(t, i).at \in {"setListener", "onCancel", "running"}}
    BY <1>2 DEF Attached
  <2>3. n \in 1..n
    BY <1>2
  <2> QED
    BY <1>2, <1>3, <1>4, <2>1, <2>2, <2>3
<1>7. Detaching(t)' <=> phase \in {"removeListener", "reset"}
  <2>1. operations'[t] # <<>>
    <3>1. operations'[t] \in Seq(Operations) /\ Len(operations'[t]) = n
      BY <1>3 DEF Depth
    <3> QED
      BY <3>1, <1>2, Empty
  <2> QED
    BY <2>1, <1>3 DEF At, Last, Op, Depth, Detaching
<1>8. InOrder(t)'
  <2>1. n <= MaxDepth
    BY <1>1, <1>2 DEF InOrder
  <2>2. ASSUME NEW i \in 1..n
        PROVE  /\ Op(t, i)'.signal \in SignalsOf[t] \cup {None}
               /\ i < n \/ Op(t, i)'.signal = None => Op(t, i)'.at = "running"
               /\ Op(t, i)'.at \in {"setListener", "onCancel", "removeListener"} => Attaching(t, i)'
    <3>1. CASE i = n
      BY <1>1, <1>2, <1>3, <1>4, <1>5, <2>2, <3>1 DEF InOrder
    <3>2. CASE i # n
      BY <1>1, <1>2, <1>3, <1>5, <3>2 DEF InOrder
    <3> QED
      BY <3>1, <3>2
  <2> QED
    BY <1>3, <2>1, <2>2 DEF InOrder
<1> QED
  BY <1>2, <1>3, <1>4, <1>5, <1>6, <1>7, <1>8 DEF GoneOn

\* attachCancellationSignal, for the outermost signal and for a nested one.
LEMMA AttachKeeps ==
    ASSUME SignalsAssumption, CancellationInv, NEW t \in Threads, Attach(t)
    PROVE  CancellationInv'
<1>1. /\ TypeOK /\ InOrder(t) /\ Counted(t) /\ Delivered(t)
      /\ \A r \in Signals : Listened(r)
      /\ Depth(t) > 0 /\ Op(t, Depth(t)).at = "attach"
  BY Before DEF Attach, Phases
<1>2. PICK n \in Nat : n = Depth(t) /\ n > 0 /\ n \in 1..n
  BY <1>1, Stack
<1>3. n \notin Attached(t) /\ Op(t, n).signal # None
  BY <1>1, <1>2 DEF Attached, InOrder
<1>4. /\ IsFiniteSet(Attached(t)) /\ Cardinality(Attached(t)) \in Nat
      /\ mCancellationSignalAttachCount[t] = Cardinality(Attached(t))
      /\ Cardinality(Attached(t)) = 0 <=> Attached(t) = {}
      /\ Attached(t) \subseteq 1..n
  BY <1>1, <1>2, AttachedFinite DEF Counted
<1>5. Cardinality(Attached(t) \cup {n}) = Cardinality(Attached(t)) + 1
  BY <1>3, <1>4, FS_AddElement
<1>6. /\ mIsCanceled' = mIsCanceled /\ mOnCancelListener' = mOnCancelListener
      /\ mCancelInProgress' = mCancelInProgress /\ cancelCall' = cancelCall
  BY DEF Attach, signalVars
<1>7. /\ mCancellationSignalAttachCount' \in [Threads -> 0..MaxDepth]
      /\ mCancellationSignalAttachCount'[t] = Cardinality(Attached(t)) + 1
      /\ \A u \in Threads : u # t =>
             mCancellationSignalAttachCount'[u] = mCancellationSignalAttachCount[u]
  <2>1. Cardinality(Attached(t) \cup {n}) <= n
    <3>1. Attached(t) \cup {n} \subseteq 1..n
      BY <1>2, <1>4
    <3>2. IsFiniteSet(1..n) /\ Cardinality(1..n) = n
      <4>1. Cardinality(1..n) = IF 1 > n THEN 0 ELSE n - 1 + 1
        BY <1>2, FS_Interval
      <4> QED
        BY <1>2, <4>1, FS_Interval
    <3> QED
      BY <3>1, <3>2, FS_Subset
  <2>2. n <= MaxDepth /\ MaxDepth \in Nat
    BY <1>1, <1>2 DEF InOrder, SignalsAssumption
  <2>3. mCancellationSignalAttachCount[t] + 1 \in 0..MaxDepth
    BY <1>2, <1>4, <1>5, <2>1, <2>2
  <2> QED
    BY <1>1, <1>4, <2>3 DEF Attach, TypeOK
<1>8. CASE Attached(t) = {}
  <2>1. ResetCancel(t, TRUE) /\ GoTo(t, "setListener")
    BY <1>4, <1>8 DEF Attach
  <2>2. \A j \in 1..n : j # n => Op(t, j).signal = None
    BY <1>1, <1>2, <1>8 DEF InOrder, Attached
  <2>3. Attaching(t, n)
    BY <1>2, <1>3, <2>2 DEF Attaching, Op
  <2>4. GoneOn(t, "setListener")
    BY <1>2, <1>3, <2>1, <2>3, GoesOn DEF Phases
  <2>5. Attached(t)' = Attached(t) \cup {n} /\ n \in Attached(t)'
    BY <1>2, <2>4 DEF GoneOn
  <2>6. /\ canceled' \in [Threads -> BOOLEAN] /\ cancelable' \in [Threads -> BOOLEAN]
        /\ cancelable'[t] /\ ConnectionsKept(t)
    BY <1>1, <1>7, <2>1 DEF ResetCancel, TypeOK, ConnectionsKept
  <2>7. TypeOK'
    BY <1>1, <1>6, <1>7, <2>4, <2>6, Typed DEF GoneOn, TypeOK
  <2>8. Counted(t)'
    BY <1>5, <1>7, <2>4, <2>5, <2>6 DEF Counted, GoneOn
  <2>9. Delivered(t)'
    <3>1. \A i \in 1..n : Op(t, i)'.at \in {"onCancel", "running"} => ~Attaching(t, i)
      BY <1>2, <2>2, <2>4 DEF GoneOn, Attaching, Op
    <3> QED
      BY <1>2, <2>4, <3>1 DEF GoneOn, Delivered
  <2>10. ASSUME NEW r \in Signals, mOnCancelListener'[r] = t
         PROVE  FALSE
    <3>1. ListensTo(t, r)
      BY <1>1, <1>6, <2>10 DEF Listened
    <3> QED
      BY <1>1, <1>2, <1>8, <3>1, ListensAttached
  <2> QED
    BY <1>6, <2>4, <2>6, <2>7, <2>8, <2>9, <2>10, ThreadFrame DEF GoneOn, ListenersKept
<1>9. CASE Attached(t) # {}
  <2>1. GoTo(t, "running") /\ canceled' = canceled /\ cancelable' = cancelable
    BY <1>4, <1>9 DEF Attach
  <2>2. GoneOn(t, "running")
    BY <1>2, <1>3, <2>1, GoesOn DEF Phases
  <2>3. Attached(t)' = Attached(t) \cup {n}
    BY <1>2, <2>2 DEF GoneOn
  <2>4. ConnectionsKept(t)
    BY <1>7, <2>1 DEF ConnectionsKept
  <2>5. TypeOK'
    BY <1>1, <1>6, <1>7, <2>1, <2>2, Typed DEF GoneOn, TypeOK
  <2>6. Counted(t)'
    BY <1>1, <1>5, <1>7, <1>9, <2>1, <2>2, <2>3 DEF Counted, GoneOn
  <2>7. ~Attaching(t, n)
    <3>1. PICK j \in Attached(t) : j \in 1..n /\ Op(t, j).signal # None /\ j # n
      BY <1>3, <1>4, <1>9 DEF Attached
    <3>2. j \in 1..(n - 1)
      BY <1>2, <3>1
    <3> QED
      BY <3>1, <3>2 DEF Attaching, Op
  <2>8. \A i \in 1..n : Attaching(t, i) => Op(t, i)' = Op(t, i)
    BY <1>2, <2>2, <2>7 DEF GoneOn
  <2>9. Delivered(t)'
    <3>1. SUFFICES ASSUME NEW i \in 1..n, Attaching(t, i), OnlyUser(t, Op(t, i)'.signal),
                          Op(t, i)'.at \in {"onCancel", "running"}
                   PROVE  /\ mOnCancelListener[Op(t, i)'.signal] = t
                          /\ Op(t, i)'.at = "running" /\ mIsCanceled[Op(t, i)'.signal] =>
                                 canceled[t] \/ ( /\ mCancelInProgress[Op(t, i)'.signal]
                                                  /\ cancelCall[Op(t, i)'.signal] = t )
      BY <1>2, <1>6, <2>1, <2>2 DEF GoneOn, Delivered, OnlyUser
    <3> QED
      BY <1>1, <1>2, <2>8, <3>1 DEF Delivered
  <2>10. ASSUME NEW r \in Signals, mOnCancelListener'[r] = t
         PROVE  ListensTo(t, r)'
    <3>1. ListensTo(t, r)
      BY <1>1, <1>6, <2>10 DEF Listened
    <3> QED
      BY <1>2, <2>2, <2>8, <3>1 DEF GoneOn, ListensTo
  <2> QED
    BY <1>6, <2>2, <2>4, <2>5, <2>6, <2>9, <2>10, ThreadFrame DEF GoneOn, ListenersKept
<1> QED
  BY <1>8, <1>9

\* setOnCancelListener(this): the connection becomes the listener, and the
\* thread will call onCancel() itself if it came too late to be called.
LEMMA SetOnCancelListenerKeeps ==
    ASSUME SignalsAssumption, CancellationInv, NEW t \in Threads, SetOnCancelListener(t)
    PROVE  CancellationInv'
<1>1. /\ TypeOK /\ InOrder(t) /\ Counted(t) /\ Delivered(t)
      /\ \A r \in Signals : Listened(r)
      /\ Depth(t) > 0 /\ Op(t, Depth(t)).at = "setListener"
      /\ Signal(t) = Op(t, Depth(t)).signal
  BY Before DEF SetOnCancelListener, Phases
<1>2. PICK n \in Nat : n = Depth(t) /\ n > 0 /\ n \in 1..n
  BY <1>1, Stack
<1>3. Attaching(t, n) /\ Op(t, n).signal \in SignalsOf[t] \cup {None}
  BY <1>1, <1>2 DEF InOrder
<1>4. PICK s \in SignalsOf[t] : s = Signal(t) /\ s \in Signals
  BY <1>1, <1>2, <1>3 DEF Attaching, Op, SignalsAssumption
<1>5. ASSUME NEW r \in Signals, mOnCancelListener[r] = t
      PROVE  FALSE
  <2>1. ListensTo(t, r)
    BY <1>1, <1>5 DEF Listened
  <2>2. PICK i \in 1..n : Attaching(t, i) /\ Op(t, i).at \in {"onCancel", "running", "removeListener"}
    BY <1>2, <2>1 DEF ListensTo
  <2>3. i \in 1..n /\ Op(t, n).signal # None
    BY <1>2, <1>3, <2>2 DEF Attaching, Op
  <2>4. i = n
    BY <1>1, <1>2, <1>3, <2>2, <2>3, AttachingUnique
  <2> QED
    BY <1>1, <1>2, <2>2, <2>4
<1>6. PICK phase \in {"onCancel", "running"} :
          GoTo(t, phase) /\ (phase = "running" => ~mIsCanceled[s])
  BY <1>4, <1>5 DEF SetOnCancelListener
<1>7. /\ mIsCanceled' = mIsCanceled /\ mCancelInProgress' = mCancelInProgress
      /\ cancelCall' = cancelCall /\ canceled' = canceled /\ cancelable' = cancelable
      /\ mCancellationSignalAttachCount' = mCancellationSignalAttachCount
      /\ ~mCancelInProgress[s]
      /\ mOnCancelListener' = [mOnCancelListener EXCEPT ![s] = t]
  BY <1>4 DEF SetOnCancelListener, connectionVars
<1>8. /\ mOnCancelListener' \in [Signals -> Threads \cup {None}]
      /\ mOnCancelListener'[s] = t
      /\ \A r \in Signals : r # s => mOnCancelListener'[r] = mOnCancelListener[r]
  BY <1>1, <1>4, <1>7 DEF TypeOK
<1>9. Op(t, n).signal = s /\ s # None
  BY <1>1, <1>2, <1>3, <1>4 DEF Attaching, Op
<1>10. GoneOn(t, phase)
  BY <1>2, <1>3, <1>6, <1>9, GoesOn DEF Phases
<1>11. n \in Attached(t) /\ Attached(t)' = Attached(t)
  <2>1. n \in Attached(t)
    BY <1>1, <1>2, <1>9 DEF Attached
  <2>2. Attached(t)' = Attached(t) \cup {n}
    BY <1>2, <1>6, <1>10 DEF GoneOn
  <2> QED
    BY <2>1, <2>2
<1>12. TypeOK'
  BY <1>1, <1>7, <1>8, <1>10, Typed DEF GoneOn, TypeOK
<1>13. Counted(t)'
  BY <1>1, <1>6, <1>7, <1>10, <1>11 DEF Counted, GoneOn
<1>14. \A i \in 1..n : Attaching(t, i) => i = n
  BY <1>1, <1>2, <1>3, AttachingUnique DEF Attaching, Op
<1>15. Op(t, n)'.signal = s /\ Op(t, n)'.at = phase
  BY <1>2, <1>9, <1>10 DEF GoneOn
<1>16. Delivered(t)'
  <2>1. SUFFICES ASSUME NEW i \in 1..n, Attaching(t, i), Op(t, i)'.at \in {"onCancel", "running"}
                 PROVE  /\ mOnCancelListener'[Op(t, i)'.signal] = t
                        /\ Op(t, i)'.at = "running" => ~mIsCanceled[Op(t, i)'.signal]
    BY <1>2, <1>7, <1>10 DEF GoneOn, Delivered
  <2> QED
    BY <1>6, <1>8, <1>14, <1>15, <2>1
<1>17. ASSUME NEW r \in Signals, mOnCancelListener'[r] = t
       PROVE  ListensTo(t, r)'
  <2>1. r = s
    BY <1>5, <1>8, <1>17
  <2>2. Attaching(t, n)' /\ Depth(t)' = n
    BY <1>2, <1>3, <1>10 DEF GoneOn
  <2> QED
    BY <1>2, <1>6, <1>15, <2>1, <2>2 DEF ListensTo
<1>18. ListenersKept(t) /\ ConnectionsKept(t)
  BY <1>7, <1>8 DEF ListenersKept, ConnectionsKept
<1> QED
  BY <1>7, <1>10, <1>12, <1>13, <1>16, <1>17, <1>18, ThreadFrame DEF GoneOn

\* onCancel() called by the thread itself.
LEMMA OnCancelBySelfKeeps ==
    ASSUME SignalsAssumption, CancellationInv, NEW t \in Threads, OnCancelBySelf(t)
    PROVE  CancellationInv'
<1>1. /\ TypeOK /\ InOrder(t) /\ Counted(t) /\ Delivered(t)
      /\ \A r \in Signals : Listened(r)
      /\ Depth(t) > 0 /\ Op(t, Depth(t)).at = "onCancel"
  BY Before DEF OnCancelBySelf, Phases
<1>2. PICK n \in Nat : n = Depth(t) /\ n > 0 /\ n \in 1..n
  BY <1>1, Stack
<1>3. Attaching(t, n) /\ Op(t, n).signal # None
  BY <1>1, <1>2 DEF InOrder, Attaching, Op
<1>4. /\ mIsCanceled' = mIsCanceled /\ mOnCancelListener' = mOnCancelListener
      /\ mCancelInProgress' = mCancelInProgress /\ cancelCall' = cancelCall
      /\ mCancellationSignalAttachCount' = mCancellationSignalAttachCount
      /\ cancelable' = cancelable /\ GoTo(t, "running")
      /\ canceled' = [canceled EXCEPT ![t] = TRUE]
  BY DEF OnCancelBySelf, signalVars
<1>5. canceled' \in [Threads -> BOOLEAN] /\ canceled'[t] /\ ConnectionsKept(t)
  BY <1>1, <1>4 DEF TypeOK, ConnectionsKept
<1>6. GoneOn(t, "running")
  BY <1>2, <1>3, <1>4, GoesOn DEF Phases
<1>7. n \in Attached(t) /\ Attached(t)' = Attached(t)
  <2>1. n \in Attached(t)
    BY <1>1, <1>2, <1>3 DEF Attached
  <2>2. Attached(t)' = Attached(t) \cup {n}
    BY <1>2, <1>6 DEF GoneOn
  <2> QED
    BY <2>1, <2>2
<1>8. TypeOK'
  BY <1>1, <1>4, <1>5, <1>6, Typed DEF GoneOn, TypeOK
<1>9. Counted(t)'
  BY <1>1, <1>4, <1>6, <1>7 DEF Counted, GoneOn
<1>10. \A i \in 1..n : Attaching(t, i) => i = n
  BY <1>1, <1>2, <1>3, AttachingUnique DEF Attaching, Op
<1>11. Delivered(t)'
  <2>1. SUFFICES ASSUME NEW i \in 1..n, Attaching(t, i), OnlyUser(t, Op(t, i)'.signal)
                 PROVE  mOnCancelListener[Op(t, i)'.signal] = t
    BY <1>2, <1>4, <1>5, <1>6 DEF GoneOn, Delivered, OnlyUser
  <2>2. i = n /\ Op(t, i)'.signal = Op(t, i).signal
    BY <1>2, <1>6, <1>10, <2>1 DEF GoneOn
  <2> QED
    BY <1>1, <1>2, <2>1, <2>2 DEF Delivered
<1>12. ASSUME NEW r \in Signals, mOnCancelListener'[r] = t
       PROVE  ListensTo(t, r)'
  <2>1. ListensTo(t, r)
    BY <1>1, <1>4, <1>12 DEF Listened
  <2>2. PICK i \in 1..n : /\ Attaching(t, i) /\ Op(t, i).signal = r
                          /\ Op(t, i).at \in {"onCancel", "running", "removeListener"}
    BY <1>2, <2>1 DEF ListensTo
  <2> QED
    BY <1>2, <1>6, <1>10, <2>2 DEF GoneOn, ListensTo
<1> QED
  BY <1>4, <1>5, <1>6, <1>8, <1>9, <1>11, <1>12, ThreadFrame DEF GoneOn, ListenersKept

\* The last detachment is no longer counted; the connection still listens.
LEMMA DetachLastKeeps ==
    ASSUME SignalsAssumption, CancellationInv, NEW t \in Threads, At(t, "running"),
           Detach(t), Signal(t) # None, mCancellationSignalAttachCount[t] = 1
    PROVE  CancellationInv'
<1>1. /\ TypeOK /\ InOrder(t) /\ Counted(t) /\ Delivered(t)
      /\ \A r \in Signals : Listened(r)
      /\ Depth(t) > 0 /\ Op(t, Depth(t)).at = "running"
      /\ Signal(t) = Op(t, Depth(t)).signal
  BY Before DEF Phases
<1>2. PICK n \in Nat : n = Depth(t) /\ n > 0 /\ n \in 1..n
  BY <1>1, Stack
<1>3. PICK s \in SignalsOf[t] : s = Signal(t) /\ s \in Signals
  BY <1>1, <1>2 DEF InOrder, SignalsAssumption
<1>4. Attached(t) = {n}
  <2>1. IsFiniteSet(Attached(t)) /\ Cardinality(Attached(t)) = 1
    BY <1>1, AttachedFinite DEF Counted
  <2>2. PICK x : Attached(t) = {x}
    BY <2>1, FS_Singleton
  <2>3. n \in Attached(t)
    BY <1>1, <1>2 DEF Attached
  <2> QED
    BY <2>2, <2>3
<1>5. /\ mIsCanceled' = mIsCanceled /\ mCancelInProgress' = mCancelInProgress
      /\ cancelCall' = cancelCall /\ canceled' = canceled /\ cancelable' = cancelable
      /\ mOnCancelListener' = mOnCancelListener /\ GoTo(t, "removeListener")
      /\ mCancellationSignalAttachCount' =
             [mCancellationSignalAttachCount EXCEPT ![t] = mCancellationSignalAttachCount[t] - 1]
  BY DEF Detach, signalVars
<1>6. Attaching(t, n)
  <2>1. \A j \in 1..n : j # n => Op(t, j).signal = None
    BY <1>1, <1>2, <1>4 DEF InOrder, Attached
  <2> QED
    BY <1>1, <1>2, <2>1 DEF Attaching, Op
<1>7. /\ mCancellationSignalAttachCount' \in [Threads -> 0..MaxDepth]
      /\ mCancellationSignalAttachCount'[t] = 0 /\ ConnectionsKept(t)
  <2>1. mCancellationSignalAttachCount[t] - 1 = 0 /\ 0 \in 0..MaxDepth
    BY DEF SignalsAssumption
  <2> QED
    BY <1>1, <1>5, <2>1 DEF TypeOK, ConnectionsKept
<1>8. GoneOn(t, "removeListener")
  BY <1>1, <1>2, <1>5, <1>6, GoesOn DEF Phases
<1>9. Attached(t)' = {}
  <2>1. Attached(t)' = Attached(t) \ {n}
    BY <1>2, <1>8 DEF GoneOn
  <2> QED
    BY <1>4, <2>1
<1>10. TypeOK'
  BY <1>1, <1>5, <1>7, <1>8, Typed DEF GoneOn, TypeOK
<1>11. Counted(t)'
  <2>1. Cardinality(Attached(t)') = 0
    BY <1>9, FS_EmptySet
  <2> QED
    BY <1>7, <1>8, <1>9, <2>1 DEF Counted, GoneOn
<1>12. Delivered(t)'
  <2>1. \A i \in 1..n : Attaching(t, i) => i = n
    BY <1>1, <1>2, <1>6, AttachingUnique DEF Attaching, Op
  <2> QED
    BY <1>2, <1>8, <2>1 DEF GoneOn, Delivered
<1>13. ASSUME NEW r \in Signals, mOnCancelListener'[r] = t
       PROVE  ListensTo(t, r)'
  <2>1. ListensTo(t, r)
    BY <1>1, <1>5, <1>13 DEF Listened
  <2>2. Op(t, n).signal = r
    BY <1>1, <1>2, <1>4, <2>1, ListensAttached
  <2>3. Attaching(t, n)' /\ Op(t, n)'.signal = r /\ Op(t, n)'.at = "removeListener"
    BY <1>2, <1>6, <1>8, <2>2 DEF GoneOn
  <2> QED
    BY <1>2, <1>8, <2>3 DEF GoneOn, ListensTo
<1> QED
  BY <1>5, <1>7, <1>8, <1>10, <1>11, <1>12, <1>13, ThreadFrame DEF GoneOn, ListenersKept

\* setOnCancelListener(null) removes the listener.
LEMMA RemoveListenerKeeps ==
    ASSUME SignalsAssumption, CancellationInv, NEW t \in Threads, RemoveListener(t)
    PROVE  CancellationInv'
<1>1. /\ TypeOK /\ InOrder(t) /\ Counted(t) /\ Delivered(t)
      /\ \A r \in Signals : Listened(r)
      /\ Depth(t) > 0 /\ Op(t, Depth(t)).at = "removeListener"
      /\ Signal(t) = Op(t, Depth(t)).signal
  BY Before DEF RemoveListener, Phases
<1>2. PICK n \in Nat : n = Depth(t) /\ n > 0 /\ n \in 1..n
  BY <1>1, Stack
<1>3. Attaching(t, n) /\ Op(t, n).signal \in SignalsOf[t] \cup {None}
  BY <1>1, <1>2 DEF InOrder
<1>4. PICK s \in SignalsOf[t] : s = Signal(t) /\ s \in Signals /\ s # None
  BY <1>1, <1>2, <1>3 DEF Attaching, Op, SignalsAssumption
<1>5. Attached(t) = {}
  BY <1>1 DEF Counted, Detaching, RemoveListener
<1>6. /\ mIsCanceled' = mIsCanceled /\ mCancelInProgress' = mCancelInProgress
      /\ cancelCall' = cancelCall /\ canceled' = canceled /\ cancelable' = cancelable
      /\ mCancellationSignalAttachCount' = mCancellationSignalAttachCount
      /\ ~mCancelInProgress[s] /\ GoTo(t, "reset")
      /\ mOnCancelListener' = [mOnCancelListener EXCEPT ![s] = None]
  BY <1>4 DEF RemoveListener, connectionVars
<1>7. /\ mOnCancelListener' \in [Signals -> Threads \cup {None}]
      /\ mOnCancelListener'[s] = None
      /\ \A r \in Signals : r # s => mOnCancelListener'[r] = mOnCancelListener[r]
  BY <1>1, <1>4, <1>6 DEF TypeOK
<1>8. GoneOn(t, "reset")
  BY <1>1, <1>2, <1>4, <1>6, GoesOn DEF Phases
<1>9. Attached(t)' = {}
  <2>1. Attached(t)' = Attached(t) \ {n}
    BY <1>2, <1>8 DEF GoneOn
  <2> QED
    BY <1>5, <2>1
<1>10. TypeOK'
  BY <1>1, <1>6, <1>7, <1>8, Typed DEF GoneOn, TypeOK
<1>11. Counted(t)'
  BY <1>1, <1>5, <1>6, <1>8, <1>9 DEF Counted, GoneOn
<1>12. Delivered(t)'
  <2>1. \A i \in 1..n : Attaching(t, i) => i = n
    BY <1>1, <1>2, <1>3, AttachingUnique DEF Attaching, Op
  <2> QED
    BY <1>2, <1>8, <2>1 DEF GoneOn, Delivered
<1>13. ASSUME NEW r \in Signals, mOnCancelListener'[r] = t
       PROVE  FALSE
  <2>1. r # s /\ mOnCancelListener[r] = t
    BY <1>7, <1>13 DEF SignalsAssumption
  <2>2. ListensTo(t, r)
    BY <1>1, <2>1 DEF Listened
  <2> QED
    BY <1>1, <1>2, <1>4, <1>5, <2>1, <2>2, ListensAttached
<1>14. ListenersKept(t) /\ ConnectionsKept(t)
  BY <1>6, <1>7 DEF ListenersKept, ConnectionsKept
<1> QED
  BY <1>6, <1>8, <1>10, <1>11, <1>12, <1>13, <1>14, ThreadFrame DEF GoneOn

\* An operation begins.
LEMMA BeginKeeps ==
    ASSUME SignalsAssumption, CancellationInv, NEW t \in Threads,
           NEW s \in SignalsOf[t] \cup {None}, Begin(t, s)
    PROVE  CancellationInv'
<1>1. /\ TypeOK /\ InOrder(t) /\ Counted(t) /\ Delivered(t)
      /\ \A r \in Signals : Listened(r)
  BY Before
<1>2. PICK n \in Nat : n = Depth(t) /\ n < MaxDepth /\ MaxDepth \in Nat
  BY <1>1, Stack DEF Begin, Depth, SignalsAssumption
<1>3. /\ operations[t] = <<>> \/ At(t, "running")
      /\ operations' = [operations EXCEPT ![t] = Append(@, Operation(s))]
      /\ mIsCanceled' = mIsCanceled /\ mOnCancelListener' = mOnCancelListener
      /\ mCancelInProgress' = mCancelInProgress /\ cancelCall' = cancelCall
      /\ mCancellationSignalAttachCount' = mCancellationSignalAttachCount
      /\ canceled' = canceled /\ cancelable' = cancelable
  BY DEF Begin, signalVars, connectionVars
<1>4. s \in Signals \cup {None}
  BY DEF SignalsAssumption
<1>5. /\ operations' \in [Threads -> Seq(Operations)] /\ StacksKept(t)
      /\ Depth(t)' = n + 1
      /\ \A i \in 1..n : Op(t, i)' = Op(t, i)
      /\ Op(t, n + 1)' = Operation(s)
  <2>1. operations'[t][n + 1] = Operation(s)
    BY <1>1, <1>2, <1>3, <1>4, Began
  <2> QED
    BY <1>1, <1>2, <1>3, <1>4, <2>1, Began DEF Op
<1>6. \A i \in 1..n : Op(t, i).at = "running"
  <2>1. n > 0 => Op(t, n).at = "running"
    BY <1>1, <1>2, <1>3, Before DEF Depth, Phases
  <2> QED
    BY <1>1, <1>2, <2>1 DEF InOrder
<1>7. /\ Operation(s).signal = s /\ (s = None => Operation(s).at = "running")
      /\ s # None => Operation(s).at = "attach"
  BY DEF Operation
<1>8. \A i : i \in 1..(n + 1) <=> i \in 1..n \/ i = n + 1
  BY <1>2
<1>9. \A i \in 1..n : Attaching(t, i)' <=> Attaching(t, i)
  <2>1. \A i \in 1..n : Op(t, i)'.signal = Op(t, i).signal
    BY <1>5
  <2> QED
    BY <2>1, AttachingKept
<1>10. Attached(t)' = Attached(t)
  <2>1. Attached(t)' = {i \in 1..(n + 1) : /\ Op(t, i)'.signal # None
                            /\ Op(t, i)'.at \in {"setListener", "onCancel", "running"}}
    BY <1>5 DEF Attached
  <2>2. Attached(t) = {i \in 1..n : /\ Op(t, i).signal # None
                            /\ Op(t, i).at \in {"setListener", "onCancel", "running"}}
    BY <1>2 DEF Attached
  <2> QED
    BY <1>5, <1>7, <1>8, <2>1, <2>2
<1>11. ~Detaching(t) /\ ~Detaching(t)'
  <2>1. ~Detaching(t)
    BY <1>3 DEF At, Detaching
  <2>2. Last(operations'[t]) = Operation(s)
    BY <1>5 DEF Last, Op, Depth
  <2> QED
    BY <1>7, <2>1, <2>2 DEF At, Detaching
<1>12. TypeOK'
  BY <1>1, <1>3, <1>5, Typed DEF TypeOK
<1>13. InOrder(t)'
  <2>1. ASSUME NEW i \in 1..(n + 1)
        PROVE  /\ Op(t, i)'.signal \in SignalsOf[t] \cup {None}
               /\ i < n + 1 \/ Op(t, i)'.signal = None => Op(t, i)'.at = "running"
               /\ Op(t, i)'.at \in {"setListener", "onCancel", "removeListener"} => Attaching(t, i)'
    <3>1. CASE i = n + 1
      BY <1>2, <1>5, <1>7, <3>1
    <3>2. CASE i \in 1..n
      BY <1>1, <1>2, <1>5, <1>6, <3>2 DEF InOrder
    <3> QED
      BY <1>8, <3>1, <3>2
  <2>2. n + 1 <= MaxDepth
    BY <1>2
  <2> QED
    BY <1>5, <2>1, <2>2 DEF InOrder
<1>14. Counted(t)'
  BY <1>1, <1>3, <1>10, <1>11 DEF Counted
<1>15. Delivered(t)'
  <2>1. ASSUME Op(t, n + 1)'.at \in {"onCancel", "running"}, Attaching(t, n + 1)'
        PROVE  FALSE
    BY <1>5, <1>7, <2>1 DEF Attaching, Op
  <2>2. SUFFICES ASSUME NEW i \in 1..n, Attaching(t, i), OnlyUser(t, Op(t, i).signal),
                        Op(t, i).at \in {"onCancel", "running"}
                 PROVE  /\ mOnCancelListener[Op(t, i).signal] = t
                        /\ Op(t, i).at = "running" /\ mIsCanceled[Op(t, i).signal] =>
                               canceled[t] \/ ( /\ mCancelInProgress[Op(t, i).signal]
                                                /\ cancelCall[Op(t, i).signal] = t )
    BY <1>3, <1>5, <1>8, <1>9, <2>1 DEF Delivered, OnlyUser
  <2> QED
    BY <1>1, <1>2, <2>2 DEF Delivered
<1>16. ASSUME NEW r \in Signals, mOnCancelListener'[r] = t
       PROVE  ListensTo(t, r)'
  <2>1. ListensTo(t, r)
    BY <1>1, <1>3, <1>16 DEF Listened
  <2>2. PICK i \in 1..n : /\ Attaching(t, i) /\ Op(t, i).signal = r
                          /\ Op(t, i).at \in {"onCancel", "running", "removeListener"}
    BY <1>2, <2>1 DEF ListensTo
  <2> QED
    BY <1>5, <1>8, <1>9, <2>2 DEF ListensTo
<1> QED
  BY <1>3, <1>5, <1>12, <1>13, <1>14, <1>15, <1>16, ThreadFrame
  DEF ListenersKept, ConnectionsKept

-----------------------------------------------------------------------------
(***************************************************************************)
(* The steps of a signal                                                   *)
(***************************************************************************)
\* The signal of operation i has reached thread t, or is about to.
Reaches(t, i) ==
    /\ mOnCancelListener[Op(t, i).signal] = t
    /\ Op(t, i).at = "running" /\ mIsCanceled[Op(t, i).signal] =>
           canceled[t] \/ ( /\ mCancelInProgress[Op(t, i).signal]
                            /\ cancelCall[Op(t, i).signal] = t )

\* Delivered in those terms.
LEMMA DeliveredReaches ==
    ASSUME NEW t \in Threads
    PROVE  Delivered(t) <=> \A i \in 1..Depth(t) :
               Attaching(t, i) /\ OnlyUser(t, Op(t, i).signal)
               /\ Op(t, i).at \in {"onCancel", "running"} => Reaches(t, i)
  BY DEF Delivered, Reaches

\* What a step that leaves the stacks alone has to keep.
LEMMA SignalFrame ==
    ASSUME CancellationInv, TypeOK', operations' = operations,
           mCancellationSignalAttachCount' = mCancellationSignalAttachCount,
           cancelable' = cancelable,
           \A t \in Threads : canceled'[t] => canceled[t] \/ Attached(t) # {} \/ Detaching(t),
           \A t \in Threads : \A i \in 1..Depth(t) :
               Op(t, i).signal \in Signals /\ Reaches(t, i) => Reaches(t, i)',
           \A r \in Signals : \A t \in Threads :
               mOnCancelListener'[r] = t => mOnCancelListener[r] = t,
           \A r \in Signals : cancelCall'[r] # None =>
               mCancelInProgress'[r] /\ mOnCancelListener'[r] = cancelCall'[r]
    PROVE  CancellationInv'
<1>1. /\ TypeOK /\ \A t \in Threads : InOrder(t) /\ Counted(t) /\ Delivered(t)
      /\ \A r \in Signals : Listened(r)
  BY Parts
<1>2. ASSUME NEW t \in Threads
      PROVE  InOrder(t)' /\ Counted(t)' /\ Delivered(t)'
  <2>1. /\ Depth(t)' = Depth(t) /\ \A i \in 1..Depth(t) : Op(t, i)' = Op(t, i)
        /\ \A i \in 1..Depth(t) : Attaching(t, i)' <=> Attaching(t, i)
        /\ Attached(t)' = Attached(t) /\ (Detaching(t)' <=> Detaching(t))
    BY DEF Depth, Op, Attaching, Attached, At, Detaching
  <2>2. InOrder(t)'
    BY <1>1, <2>1 DEF InOrder
  <2>3. Counted(t)'
    BY <1>1, <2>1 DEF Counted
  <2>4. ASSUME NEW i \in 1..Depth(t), Attaching(t, i), OnlyUser(t, Op(t, i).signal),
               Op(t, i).at \in {"onCancel", "running"}
        PROVE  Reaches(t, i)'
    <3>1. Op(t, i).signal \in Signals
      BY <1>1, <2>4, Stack DEF Operations, Attaching, Op
    <3>2. Reaches(t, i)
      BY <1>1, <2>4, DeliveredReaches
    <3> QED
      BY <3>1, <3>2
  <2>5. Delivered(t)'
    BY <2>1, <2>4 DEF Delivered, Reaches, OnlyUser
  <2> QED
    BY <2>2, <2>3, <2>5
<1>3. ASSUME NEW r \in Signals
      PROVE  Listened(r)'
  <2>1. \A t \in Threads : ListensTo(t, r)' <=> ListensTo(t, r)
    BY DEF ListensTo, Depth, Op, Attaching
  <2> QED
    BY <1>1, <2>1 DEF Listened
<1> QED
  BY <1>2, <1>3, PartsAfter

\* cancel() marks the signal and notes its listener.
LEMMA CancelKeeps ==
    ASSUME SignalsAssumption, CancellationInv, NEW s \in Signals, Cancel(s)
    PROVE  CancellationInv'
<1>1. TypeOK /\ \A r \in Signals : Listened(r)
  BY Parts
<1>2. /\ ~mIsCanceled[s]
      /\ mIsCanceled' = [mIsCanceled EXCEPT ![s] = TRUE]
      /\ mCancelInProgress' = [mCancelInProgress EXCEPT ![s] = TRUE]
      /\ cancelCall' = [cancelCall EXCEPT ![s] = mOnCancelListener[s]]
      /\ mOnCancelListener' = mOnCancelListener /\ operations' = operations
      /\ mCancellationSignalAttachCount' = mCancellationSignalAttachCount
      /\ canceled' = canceled /\ cancelable' = cancelable
  BY DEF Cancel, connectionVars
<1>3. TypeOK'
  BY <1>1, <1>2 DEF TypeOK
<1>4. /\ mCancelInProgress'[s] /\ cancelCall'[s] = mOnCancelListener[s]
      /\ \A r \in Signals : r # s => /\ mIsCanceled'[r] = mIsCanceled[r]
                                     /\ mCancelInProgress'[r] = mCancelInProgress[r]
                                     /\ cancelCall'[r] = cancelCall[r]
  BY <1>1, <1>2 DEF TypeOK
<1>5. ASSUME NEW t \in Threads, NEW i \in 1..Depth(t), Op(t, i).signal \in Signals, Reaches(t, i)
      PROVE  Reaches(t, i)'
  <2>1. Op(t, i)' = Op(t, i)
    BY <1>2 DEF Op
  <2>2. CASE Op(t, i).signal = s
    BY <1>2, <1>4, <1>5, <2>1, <2>2 DEF Reaches
  <2>3. CASE Op(t, i).signal # s
    BY <1>2, <1>4, <1>5, <2>1, <2>3 DEF Reaches
  <2> QED
    BY <2>2, <2>3
<1>6. ASSUME NEW r \in Signals, cancelCall'[r] # None
      PROVE  mCancelInProgress'[r] /\ mOnCancelListener'[r] = cancelCall'[r]
  BY <1>1, <1>2, <1>4, <1>6 DEF Listened
<1> QED
  BY <1>2, <1>3, <1>5, <1>6, SignalFrame

\* The listener is called: its connection has the signal attached, or is about to
\* remove the listener and waits for the call.
LEMMA OnCancelKeeps ==
    ASSUME SignalsAssumption, CancellationInv, NEW s \in Signals, OnCancel(s)
    PROVE  CancellationInv'
<1>1. TypeOK /\ \A r \in Signals : Listened(r)
  BY Parts
<1>2. PICK u \in Threads : u = cancelCall[s] /\ u # None
  BY <1>1 DEF OnCancel, TypeOK, SignalsAssumption
<1>3. /\ canceled' = [canceled EXCEPT ![u] = TRUE]
      /\ cancelCall' = [cancelCall EXCEPT ![s] = None]
      /\ mIsCanceled' = mIsCanceled /\ mOnCancelListener' = mOnCancelListener
      /\ mCancelInProgress' = mCancelInProgress /\ operations' = operations
      /\ mCancellationSignalAttachCount' = mCancellationSignalAttachCount
      /\ cancelable' = cancelable
  BY <1>2 DEF OnCancel
<1>4. Attached(u) # {} \/ Detaching(u)
  <2>1. ListensTo(u, s)
    BY <1>1, <1>2 DEF Listened
  <2>2. /\ InOrder(u) /\ Depth(u) \in Nat
        /\ Depth(u) > 0 /\ Op(u, Depth(u)).at = "removeListener" => At(u, "removeListener")
    BY Before DEF Phases
  <2> QED
    BY <1>1, <2>1, <2>2, ListensAttached DEF Detaching
<1>5. TypeOK'
  BY <1>1, <1>3 DEF TypeOK
<1>6. /\ canceled'[u] /\ \A t \in Threads : t # u => canceled'[t] = canceled[t]
      /\ cancelCall'[s] = None /\ \A r \in Signals : r # s => cancelCall'[r] = cancelCall[r]
  BY <1>1, <1>3 DEF TypeOK
<1>7. ASSUME NEW t \in Threads, NEW i \in 1..Depth(t), Op(t, i).signal \in Signals, Reaches(t, i)
      PROVE  Reaches(t, i)'
  <2>1. Op(t, i)' = Op(t, i)
    BY <1>3 DEF Op
  <2>2. CASE t = u
    BY <1>3, <1>6, <1>7, <2>1, <2>2 DEF Reaches
  <2>3. CASE t # u
    <3>1. cancelCall[Op(t, i).signal] = t => Op(t, i).signal # s
      BY <1>2, <2>3
    <3> QED
      BY <1>3, <1>6, <1>7, <2>1, <2>3, <3>1 DEF Reaches
  <2> QED
    BY <2>2, <2>3
<1>8. ASSUME NEW r \in Signals, cancelCall'[r] # None
      PROVE  mCancelInProgress'[r] /\ mOnCancelListener'[r] = cancelCall'[r]
  BY <1>1, <1>3, <1>6, <1>8 DEF Listened
<1>9. \A t \in Threads : canceled'[t] => canceled[t] \/ Attached(t) # {} \/ Detaching(t)
  BY <1>4, <1>6
<1> QED
  BY <1>3, <1>5, <1>7, <1>8, <1>9, SignalFrame

\* cancel() ends when the listener, if there was one, has been called.
LEMMA CancelFinishedKeeps ==
    ASSUME SignalsAssumption, CancellationInv, NEW s \in Signals, CancelFinished(s)
    PROVE  CancellationInv'
<1>1. TypeOK /\ \A r \in Signals : Listened(r)
  BY Parts
<1>2. /\ cancelCall[s] = None
      /\ mCancelInProgress' = [mCancelInProgress EXCEPT ![s] = FALSE]
      /\ mIsCanceled' = mIsCanceled /\ mOnCancelListener' = mOnCancelListener
      /\ cancelCall' = cancelCall /\ operations' = operations
      /\ mCancellationSignalAttachCount' = mCancellationSignalAttachCount
      /\ canceled' = canceled /\ cancelable' = cancelable
  BY DEF CancelFinished, connectionVars
<1>3. TypeOK'
  BY <1>1, <1>2 DEF TypeOK
<1>4. \A r \in Signals : r # s => mCancelInProgress'[r] = mCancelInProgress[r]
  BY <1>1, <1>2 DEF TypeOK
<1>5. ASSUME NEW t \in Threads, NEW i \in 1..Depth(t), Op(t, i).signal \in Signals, Reaches(t, i)
      PROVE  Reaches(t, i)'
  <2>1. Op(t, i)' = Op(t, i)
    BY <1>2 DEF Op
  <2>2. cancelCall[Op(t, i).signal] = t => Op(t, i).signal # s
    BY <1>2 DEF SignalsAssumption
  <2> QED
    BY <1>2, <1>4, <1>5, <2>1, <2>2 DEF Reaches
<1>6. ASSUME NEW r \in Signals, cancelCall'[r] # None
      PROVE  mCancelInProgress'[r] /\ mOnCancelListener'[r] = cancelCall'[r]
  BY <1>1, <1>2, <1>4, <1>6 DEF Listened
<1> QED
  BY <1>2, <1>3, <1>5, <1>6, SignalFrame

\* A new signal is nobody's.
LEMMA NewSignalKeeps ==
    ASSUME SignalsAssumption, CancellationInv, NEW s \in Signals, NewSignal(s)
    PROVE  CancellationInv'
<1>1. TypeOK /\ \A r \in Signals : Listened(r)
  BY Parts
<1>2. /\ ~mCancelInProgress[s] /\ ~InUse(s)
      /\ mIsCanceled' = [mIsCanceled EXCEPT ![s] = FALSE]
      /\ mOnCancelListener' = [mOnCancelListener EXCEPT ![s] = None]
      /\ mCancelInProgress' = mCancelInProgress
      /\ cancelCall' = cancelCall /\ operations' = operations
      /\ mCancellationSignalAttachCount' = mCancellationSignalAttachCount
      /\ canceled' = canceled /\ cancelable' = cancelable
  BY DEF NewSignal, connectionVars
<1>3. TypeOK'
  BY <1>1, <1>2 DEF TypeOK
<1>4. /\ mOnCancelListener'[s] = None
      /\ \A r \in Signals : r # s => /\ mIsCanceled'[r] = mIsCanceled[r]
                                     /\ mOnCancelListener'[r] = mOnCancelListener[r]
  BY <1>1, <1>2 DEF TypeOK
<1>5. ASSUME NEW t \in Threads, NEW i \in 1..Depth(t), Op(t, i).signal \in Signals, Reaches(t, i)
      PROVE  Reaches(t, i)'
  <2>1. Op(t, i)' = Op(t, i)
    BY <1>2 DEF Op
  <2>2. Op(t, i).signal # s
    BY <1>1, <1>2, Stack DEF InUse, Op
  <2> QED
    BY <1>2, <1>4, <1>5, <2>1, <2>2 DEF Reaches
<1>6. ASSUME NEW r \in Signals, cancelCall'[r] # None
      PROVE  mCancelInProgress'[r] /\ mOnCancelListener'[r] = cancelCall'[r]
  BY <1>1, <1>2, <1>4, <1>6 DEF Listened
<1>7. \A r \in Signals : \A t \in Threads :
          mOnCancelListener'[r] = t => mOnCancelListener[r] = t
  BY <1>4 DEF SignalsAssumption
<1> QED
  BY <1>2, <1>3, <1>5, <1>6, <1>7, SignalFrame

-----------------------------------------------------------------------------
(***************************************************************************)
(* The invariant, and what follows from it                                 *)
(***************************************************************************)
\* Nothing runs at first and no signal is canceled.
LEMMA CancellationInit == SignalsAssumption /\ Init => CancellationInv
<1> SUFFICES ASSUME SignalsAssumption, Init
             PROVE  CancellationInv
  OBVIOUS
<1>1. TypeOK
  BY DEF Init, TypeOK, SignalsAssumption
<1>2. ASSUME NEW t \in Threads
      PROVE  InOrder(t) /\ Counted(t) /\ Delivered(t)
  <2>1. operations[t] = <<>> /\ Depth(t) = 0
    BY DEF Init, Depth
  <2>2. Attached(t) = {} /\ Cardinality(Attached(t)) = 0
    BY <2>1, FS_EmptySet DEF Attached
  <2>3. ~Detaching(t)
    BY <2>1 DEF At, Detaching
  <2> QED
    BY <2>1, <2>2, <2>3 DEF Init, InOrder, Counted, Delivered, SignalsAssumption
<1>3. \A s \in Signals : Listened(s)
  BY DEF Init, Listened, SignalsAssumption
<1> QED
  BY <1>1, <1>2, <1>3, Parts

\* Every step keeps the invariant.
LEMMA CancellationNext ==
    SignalsAssumption /\ CancellationInv /\ [Next]_vars => CancellationInv'
<1> SUFFICES ASSUME SignalsAssumption, CancellationInv, [Next]_vars
             PROVE  CancellationInv'
  OBVIOUS
<1>1. ASSUME NEW t \in Threads, NEW s \in SignalsOf[t] \cup {None}, Begin(t, s)
      PROVE  CancellationInv'
  BY <1>1, BeginKeeps
<1>2. ASSUME NEW t \in Threads, Proceed(t)
      PROVE  CancellationInv'
  BY <1>2, AttachThrowsKeeps, AttachKeeps, SetOnCancelListenerKeeps, OnCancelBySelfKeeps,
     RemoveListenerKeeps, ResetAfterDetachKeeps DEF Proceed
<1>3. ASSUME NEW t \in Threads, Complete(t) \/ Interrupt(t)
      PROVE  CancellationInv'
  <2>1. At(t, "running") /\ Detach(t)
    BY <1>3 DEF Interrupt, Complete
  <2> QED
    BY <2>1, DetachNestedKeeps, DetachLastKeeps
<1>4. ASSUME NEW s \in Signals, Cancel(s) \/ Canceler(s) \/ NewSignal(s)
      PROVE  CancellationInv'
  BY <1>4, CancelKeeps, OnCancelKeeps, CancelFinishedKeeps, NewSignalKeeps DEF Canceler
<1>5. CASE UNCHANGED vars
  <2>1. /\ mIsCanceled' = mIsCanceled /\ mOnCancelListener' = mOnCancelListener
        /\ mCancelInProgress' = mCancelInProgress /\ cancelCall' = cancelCall
        /\ operations' = operations /\ canceled' = canceled /\ cancelable' = cancelable
        /\ mCancellationSignalAttachCount' = mCancellationSignalAttachCount
    BY <1>5 DEF vars, signalVars, connectionVars
  <2>2. TypeOK /\ \A r \in Signals : Listened(r)
    BY Parts
  <2>3. TypeOK'
    BY <2>1, <2>2 DEF TypeOK
  <2>4. \A t \in Threads : \A i \in 1..Depth(t) : Reaches(t, i) => Reaches(t, i)'
    BY <2>1 DEF Reaches, Op
  <2>5. \A r \in Signals : cancelCall'[r] # None =>
            mCancelInProgress'[r] /\ mOnCancelListener'[r] = cancelCall'[r]
    BY <2>1, <2>2 DEF Listened
  <2> QED
    BY <2>1, <2>3, <2>4, <2>5, SignalFrame
<1> QED
  BY <1>1, <1>2, <1>3, <1>4, <1>5 DEF Next

\* The stacks of operations, the counts of attachments, the listeners and the
\* native flags of attachCancellationSignal(), setOnCancelListener(), cancel()
\* and detachCancellationSignal() stay consistent, whatever the threads, the
\* nesting of their statements and the signals that they share.
THEOREM CancellationInvariant == Spec => []CancellationInv
<1> USE SignalsAssumption
<1>1. Init => CancellationInv
  BY CancellationInit
<1>2. CancellationInv /\ [Next]_vars => CancellationInv'
  BY CancellationNext
<1> QED
  BY <1>1, <1>2, PTL DEF Spec

\* cancel() calls onCancel() only of a connection that is still the listener of
\* the signal and whose operation has not got past the removal of the listener in
\* detachCancellationSignal(), so that the connection is alive.
THEOREM OnCancelAttached == Spec => []OnCancelOnlyWhileAttached
<1> USE SignalsAssumption
<1>1. CancellationInv => OnCancelOnlyWhileAttached
  <2> SUFFICES ASSUME CancellationInv
               PROVE  OnCancelOnlyWhileAttached
    OBVIOUS
  <2>1. TypeOK /\ \A s \in Signals : Listened(s)
    BY Parts
  <2>2. SUFFICES ASSUME NEW s \in Signals, NEW t \in Threads, t = cancelCall[s], t # None
                 PROVE  /\ mOnCancelListener[s] = t
                        /\ \E i \in DOMAIN operations[t] :
                              /\ operations[t][i].signal = s
                              /\ operations[t][i].at \in {"onCancel", "running", "removeListener"}
    BY <2>1 DEF OnCancelOnlyWhileAttached, TypeOK
  <2>3. mOnCancelListener[s] = t /\ ListensTo(t, s)
    BY <2>1, <2>2 DEF Listened
  <2>4. DOMAIN operations[t] = 1..Depth(t)
    BY <2>1, Stack
  <2> QED
    BY <2>3, <2>4 DEF ListensTo, Op
<1> QED
  BY <1>1, CancellationInvariant, PTL

\* A connection that executes nothing has no flag set, no progress handler
\* installed, nothing attached, and no signal that will call it: what the last
\* detachCancellationSignal() leaves, however the cancel()s were timed.
THEOREM ConnectionComesBackClean == Spec => []NothingLeftBehind
<1> USE SignalsAssumption
<1>1. CancellationInv => NothingLeftBehind
  <2> SUFFICES ASSUME CancellationInv, NEW t \in Threads, operations[t] = <<>>
               PROVE  /\ ~canceled[t] /\ ~cancelable[t]
                      /\ mCancellationSignalAttachCount[t] = 0
                      /\ \A s \in Signals : mOnCancelListener[s] # t /\ cancelCall[s] # t
    BY DEF NothingLeftBehind
  <2>1. TypeOK /\ Counted(t) /\ \A s \in Signals : Listened(s)
    BY Parts
  <2>2. Depth(t) = 0 /\ ~Detaching(t)
    BY <2>1, Stack DEF At, Detaching
  <2>3. Attached(t) = {} /\ Cardinality(Attached(t)) = 0
    BY <2>2, FS_EmptySet DEF Attached
  <2>4. \A s \in Signals : ~ListensTo(t, s)
    BY <2>2 DEF ListensTo
  <2> QED
    BY <2>1, <2>2, <2>3, <2>4 DEF Counted, Listened, SignalsAssumption
<1> QED
  BY <1>1, CancellationInvariant, PTL

\* When cancel() of a signal that one thread uses has returned, the statement
\* that thread executes with it finds the native flag set and the progress
\* handler installed, whatever nested operations attached and detached meanwhile.
THEOREM CancelHasReached == Spec => []CancelReachesOperation
<1> USE SignalsAssumption
<1>1. CancellationInv => CancelReachesOperation
  <2> SUFFICES ASSUME CancellationInv, NEW t \in Threads, NEW i \in DOMAIN operations[t],
                      Attaching(t, i), OnlyUser(t, operations[t][i].signal),
                      operations[t][i].at = "running",
                      mIsCanceled[operations[t][i].signal],
                      ~mCancelInProgress[operations[t][i].signal]
               PROVE  canceled[t] /\ cancelable[t]
    BY DEF CancelReachesOperation
  <2>1. TypeOK /\ Counted(t) /\ Delivered(t) /\ i \in 1..Depth(t)
    BY Parts, Stack
  <2>2. i \in Attached(t)
    BY <2>1 DEF Attached, Attaching, Op
  <2>3. canceled[t]
    BY <2>1 DEF Delivered, Op
  <2> QED
    BY <2>1, <2>2, <2>3 DEF Counted
<1> QED
  BY <1>1, CancellationInvariant, PTL
=============================================================================
