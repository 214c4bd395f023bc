-------------------------- MODULE CancellationSignal --------------------------
(***************************************************************************)
(* Cancelling a statement: CancellationSignal.java, the methods of         *)
(* SQLiteConnection that attach and detach a signal around the execution   *)
(* of a statement, and the native flag that the progress handler polls.    *)
(*                                                                         *)
(* A thread owns one connection and executes statements on it; a custom    *)
(* function called by a statement may execute others, so a thread has a    *)
(* stack of operations, each with a signal or none.  Signals are canceled  *)
(* by other threads at any time.  A synchronized section of the signal is  *)
(* one step; the listener is called outside of it.                         *)
(***************************************************************************)
EXTENDS Naturals, FiniteSets, Sequences, SequencesExt

CONSTANTS
    Threads,    \* threads, each with a connection of its own
    Signals,    \* CancellationSignal objects
    SignalsOf,  \* the signals that each thread passes to its operations
    MaxDepth,   \* bound: nested operations of a thread
    None        \* null

ASSUME SignalsAssumption ==
    /\ SignalsOf \in [Threads -> SUBSET Signals]
    /\ MaxDepth \in Nat \ {0}
    /\ None \notin Threads \cup Signals

VARIABLES
    mIsCanceled, mOnCancelListener, mCancelInProgress,  \* fields of a signal
    cancelCall,     \* the connection whose onCancel() cancel() will call
    operations,     \* the operations in progress of a thread, innermost last
    mCancellationSignalAttachCount,
    canceled,       \* the native flag of a connection
    cancelable      \* its progress handler is installed

signalVars == <<mIsCanceled, mOnCancelListener, mCancelInProgress, cancelCall>>
connectionVars == <<mCancellationSignalAttachCount, canceled, cancelable>>
vars == <<signalVars, operations, connectionVars>>

\* Where an operation is: about to attach its signal, about to set the
\* listener, about to call it itself, executing, no longer counted and about to
\* remove the listener, about to reset the flag.
Phases == {"attach", "setListener", "onCancel", "running", "removeListener", "reset"}

TypeOK ==
    /\ mIsCanceled \in [Signals -> BOOLEAN]
    /\ mOnCancelListener \in [Signals -> Threads \cup {None}]
    /\ mCancelInProgress \in [Signals -> BOOLEAN]
    /\ cancelCall \in [Signals -> Threads \cup {None}]
    /\ operations \in [Threads -> Seq([signal : Signals \cup {None}, at : Phases])]
    /\ mCancellationSignalAttachCount \in [Threads -> 0..MaxDepth]
    /\ canceled \in [Threads -> BOOLEAN]
    /\ cancelable \in [Threads -> BOOLEAN]

-----------------------------------------------------------------------------
(***************************************************************************)
(* The innermost operation of a thread.                                    *)
(***************************************************************************)
At(t, phase) == operations[t] # <<>> /\ Last(operations[t]).at = phase
Signal(t) == Last(operations[t]).signal

GoTo(t, phase) ==
    operations' = [operations EXCEPT ![t][Len(operations[t])].at = phase]
Return(t) == operations' = [operations EXCEPT ![t] = Front(@)]

Operation(s) == [signal |-> s, at |-> IF s = None THEN "running" ELSE "attach"]

\* execute() and its relatives, called by the application or by a function
\* that a running statement calls.
Begin(t, s) ==
    /\ operations[t] = <<>> \/ At(t, "running")
    /\ Len(operations[t]) < MaxDepth
    /\ operations' = [operations EXCEPT ![t] = Append(@, Operation(s))]
    /\ UNCHANGED <<signalVars, connectionVars>>

\* Mutant: the attachment is counted before throwIfCanceled().
AttachThrowsCounted(t) ==
    /\ At(t, "attach") /\ mIsCanceled[Signal(t)]
    /\ mCancellationSignalAttachCount' =
           [mCancellationSignalAttachCount EXCEPT ![t] = @ + 1]
    /\ Return(t)
    /\ UNCHANGED <<signalVars, canceled, cancelable>>

\* attachCancellationSignal: the signal is canceled already.
AttachThrows(t) ==
    /\ At(t, "attach") /\ mIsCanceled[Signal(t)]
    /\ Return(t)
    /\ UNCHANGED <<signalVars, connectionVars>>

\* nativeResetCancel
ResetCancel(t, on) ==
    /\ canceled' = [canceled EXCEPT ![t] = FALSE]
    /\ cancelable' = [cancelable EXCEPT ![t] = on]

\* Mutant: every attachment resets the flag and sets the listener.
AttachEveryTime(t) ==
    /\ At(t, "attach") /\ ~mIsCanceled[Signal(t)]
    /\ mCancellationSignalAttachCount' =
           [mCancellationSignalAttachCount EXCEPT ![t] = @ + 1]
    /\ ResetCancel(t, TRUE) /\ GoTo(t, "setListener")
    /\ UNCHANGED signalVars

\* It is not: the first attachment resets the flag and sets the listener.
Attach(t) ==
    /\ At(t, "attach") /\ ~mIsCanceled[Signal(t)]
    /\ mCancellationSignalAttachCount' =
           [mCancellationSignalAttachCount EXCEPT ![t] = @ + 1]
    /\ IF mCancellationSignalAttachCount[t] = 0
       THEN ResetCancel(t, TRUE) /\ GoTo(t, "setListener")
       ELSE UNCHANGED <<canceled, cancelable>> /\ GoTo(t, "running")
    /\ UNCHANGED signalVars

\* Mutant: a signal canceled since throwIfCanceled() is not noticed.
SetOnCancelListenerOnly(t) ==
    LET s == Signal(t) IN
    /\ At(t, "setListener") /\ ~mCancelInProgress[s]
    /\ mOnCancelListener' = [mOnCancelListener EXCEPT ![s] = t]
    /\ GoTo(t, "running")
    /\ UNCHANGED <<mIsCanceled, mCancelInProgress, cancelCall, connectionVars>>

\* setOnCancelListener(this) waits for a cancel() in progress.  If the signal
\* has been canceled the thread calls the new listener itself.
SetOnCancelListener(t) ==
    LET s == Signal(t) IN
    /\ At(t, "setListener") /\ ~mCancelInProgress[s]
    /\ mOnCancelListener' = [mOnCancelListener EXCEPT ![s] = t]
    /\ GoTo(t, IF mIsCanceled[s] /\ mOnCancelListener[s] # t
               THEN "onCancel" ELSE "running")
    /\ UNCHANGED <<mIsCanceled, mCancelInProgress, cancelCall, connectionVars>>

\* onCancel() called by the thread itself
OnCancelBySelf(t) ==
    /\ At(t, "onCancel")
    /\ canceled' = [canceled EXCEPT ![t] = TRUE]
    /\ GoTo(t, "running")
    /\ UNCHANGED <<signalVars, mCancellationSignalAttachCount, cancelable>>

\* detachCancellationSignal: the attachment is no longer counted, and the last
\* one goes on to remove the listener.
Detach(t) ==
    IF Signal(t) = None
    THEN Return(t) /\ UNCHANGED <<signalVars, connectionVars>>
    ELSE /\ mCancellationSignalAttachCount' =
                [mCancellationSignalAttachCount EXCEPT ![t] = @ - 1]
         /\ IF mCancellationSignalAttachCount[t] = 1
            THEN GoTo(t, "removeListener")
            ELSE Return(t)
         /\ UNCHANGED <<signalVars, canceled, cancelable>>

\* Mutant: setOnCancelListener(null) does not wait for a cancel() in progress.
RemoveWithoutWaiting(t) ==
    /\ At(t, "removeListener")
    /\ mOnCancelListener' = [mOnCancelListener EXCEPT ![Signal(t)] = None]
    /\ GoTo(t, "reset")
    /\ UNCHANGED <<mIsCanceled, mCancelInProgress, cancelCall, connectionVars>>

\* setOnCancelListener(null) waits for a cancel() in progress, which may still
\* call onCancel() although the count is zero by now.
RemoveListener(t) ==
    /\ At(t, "removeListener") /\ ~mCancelInProgress[Signal(t)]
    /\ mOnCancelListener' = [mOnCancelListener EXCEPT ![Signal(t)] = None]
    /\ GoTo(t, "reset")
    /\ UNCHANGED <<mIsCanceled, mCancelInProgress, cancelCall, connectionVars>>

\* The statement ends by itself, or because the progress handler finds the
\* flag set.
Complete(t) == At(t, "running") /\ Detach(t)
Interrupt(t) == cancelable[t] /\ canceled[t] /\ Complete(t)
InterruptAt(t, depth) == Len(operations[t]) = depth /\ Interrupt(t)

\* Mutant: the flag is left as it is.
ResetNothing(t) ==
    /\ At(t, "reset")
    /\ Return(t)
    /\ UNCHANGED <<signalVars, connectionVars>>

ResetAfterDetach(t) ==
    /\ At(t, "reset")
    /\ ResetCancel(t, FALSE)
    /\ Return(t)
    /\ UNCHANGED <<signalVars, mCancellationSignalAttachCount>>

-----------------------------------------------------------------------------
(***************************************************************************)
(* cancel()                                                                *)
(***************************************************************************)
Cancel(s) ==
    /\ ~mIsCanceled[s]
    /\ mIsCanceled' = [mIsCanceled EXCEPT ![s] = TRUE]
    /\ mCancelInProgress' = [mCancelInProgress EXCEPT ![s] = TRUE]
    /\ cancelCall' = [cancelCall EXCEPT ![s] = mOnCancelListener[s]]
    /\ UNCHANGED <<mOnCancelListener, operations, connectionVars>>

\* listener.onCancel() -> nativeCancel
OnCancel(s) ==
    /\ mCancelInProgress[s] /\ cancelCall[s] # None
    /\ canceled' = [canceled EXCEPT ![cancelCall[s]] = TRUE]
    /\ cancelCall' = [cancelCall EXCEPT ![s] = None]
    /\ UNCHANGED <<mIsCanceled, mOnCancelListener, mCancelInProgress, operations,
                   mCancellationSignalAttachCount, cancelable>>

CancelFinished(s) ==
    /\ mCancelInProgress[s] /\ cancelCall[s] = None
    /\ mCancelInProgress' = [mCancelInProgress EXCEPT ![s] = FALSE]
    /\ UNCHANGED <<mIsCanceled, mOnCancelListener, cancelCall, operations,
                   connectionVars>>

\* A new signal takes the place of one that nothing uses any more.
InUse(s) == \E t \in Threads : \E i \in DOMAIN operations[t] :
                operations[t][i].signal = s
NewSignal(s) ==
    /\ mIsCanceled[s] /\ ~mCancelInProgress[s] /\ ~InUse(s)
    /\ mIsCanceled' = [mIsCanceled EXCEPT ![s] = FALSE]
    /\ mOnCancelListener' = [mOnCancelListener EXCEPT ![s] = None]
    /\ UNCHANGED <<mCancelInProgress, cancelCall, operations, connectionVars>>

Init ==
    /\ mIsCanceled = [s \in Signals |-> FALSE]
    /\ mOnCancelListener = [s \in Signals |-> None]
    /\ mCancelInProgress = [s \in Signals |-> FALSE]
    /\ cancelCall = [s \in Signals |-> None]
    /\ operations = [t \in Threads |-> <<>>]
    /\ mCancellationSignalAttachCount = [t \in Threads |-> 0]
    /\ canceled = [t \in Threads |-> FALSE]
    /\ cancelable = [t \in Threads |-> FALSE]

\* Steps a thread takes by itself once an operation has begun.
Proceed(t) == \/ AttachThrows(t) \/ Attach(t) \/ SetOnCancelListener(t)
              \/ OnCancelBySelf(t) \/ RemoveListener(t) \/ ResetAfterDetach(t)

Canceler(s) == OnCancel(s) \/ CancelFinished(s)

Next == \/ \E t \in Threads : \/ \E s \in SignalsOf[t] \cup {None} : Begin(t, s)
                              \/ Proceed(t) \/ Interrupt(t) \/ Complete(t)
        \/ \E s \in Signals : Cancel(s) \/ Canceler(s) \/ NewSignal(s)

Spec == Init /\ [][Next]_vars

\* Threads run, and so does the caller of cancel().  The progress handler looks
\* at the flag every few instructions, so a statement that keeps coming back
\* from the functions it calls meets it: strong fairness, for statements at each
\* depth.  A statement need not end by itself.
Fairness ==
    /\ \A t \in Threads : /\ WF_vars(Proceed(t))
                          /\ \A d \in 1..MaxDepth : SF_vars(InterruptAt(t, d))
    /\ \A s \in Signals : WF_vars(Canceler(s))

FairSpec == Spec /\ Fairness

-----------------------------------------------------------------------------
(***************************************************************************)
(* Properties                                                              *)
(***************************************************************************)
\* "onCancel() will only be called between calls to attachCancellationSignal and
\* detachCancellationSignal ... We can safely assume that the SQLite connection
\* is still alive": the connection that a call of cancel() is about to interrupt
\* is still the listener of the signal, and executes an operation that attached
\* it and has not got past the removal of the listener.
OnCancelOnlyWhileAttached ==
    \A s \in Signals : cancelCall[s] # None =>
        /\ mOnCancelListener[s] = cancelCall[s]
        /\ \E i \in DOMAIN operations[cancelCall[s]] :
               LET op == operations[cancelCall[s]][i] IN
               op.signal = s /\ op.at \in {"onCancel", "running", "removeListener"}

\* A cancellation does not outlive the operation it was meant for: when the
\* connection goes back to its pool the flag is clear, the handler is removed
\* and no signal will call it.
NothingLeftBehind ==
    \A t \in Threads : operations[t] = <<>> =>
        /\ ~canceled[t] /\ ~cancelable[t]
        /\ mCancellationSignalAttachCount[t] = 0
        /\ \A s \in Signals : mOnCancelListener[s] # t /\ cancelCall[s] # t

\* The operation of a thread that attached its signal is the outermost with one.
\* Signals are meant for one thread: the listener of a shared one is whoever
\* attached it last.
Attaching(t, i) == /\ operations[t][i].signal # None
                   /\ \A j \in 1..(i - 1) : operations[t][j].signal = None
OnlyUser(t, s) == \A u \in Threads \ {t} : s \notin SignalsOf[u]

\* Once cancel() has returned, the statement it was meant for will be
\* interrupted, although operations nested in it attach and detach signals, some
\* of which other threads use as well.
CancelReachesOperation ==
    \A t \in Threads : \A i \in DOMAIN operations[t] :
        LET op == operations[t][i] IN
        /\ Attaching(t, i) /\ OnlyUser(t, op.signal) /\ op.at = "running"
        /\ mIsCanceled[op.signal] /\ ~mCancelInProgress[op.signal]
        => canceled[t] /\ cancelable[t]

\* A canceled operation ends, even if its statement would run forever.
CanceledOperationEnds ==
    \A t \in Threads, s \in Signals :
        /\ operations[t] # <<>> /\ Attaching(t, 1) /\ OnlyUser(t, s)
        /\ operations[t][1].signal = s /\ mIsCanceled[s]
        ~> operations[t] = <<>>
-----------------------------------------------------------------------------
(***************************************************************************)
(* The inductive invariant                                                 *)
(***************************************************************************)
Op(t, i) == operations[t][i]
Depth(t) == Len(operations[t])

\* Only the innermost operation is anywhere but in its statement, and the one
\* that sets the listener is the outermost with a signal.
StackInOrder == \A t \in Threads : Depth(t) <= MaxDepth /\ \A i \in 1..Depth(t) :
    /\ Op(t, i).signal \in SignalsOf[t] \cup {None}
    /\ i < Depth(t) \/ Op(t, i).signal = None => Op(t, i).at = "running"
    /\ Op(t, i).at \in {"setListener", "onCancel", "removeListener"} => Attaching(t, i)

\* The operations whose signals are attached.
Attached(t) == {i \in 1..Depth(t) :
    Op(t, i).signal # None /\ Op(t, i).at \in {"setListener", "onCancel", "running"}}

\* The last one has been detached, and the listener or the flag is still there.
Detaching(t) == At(t, "removeListener") \/ At(t, "reset")

\* They are counted, and the handler is installed and the flag may be set only
\* while there are some, or until the reset after the last one.  The count falls
\* to zero before the listener is removed.
AttachmentsCounted == \A t \in Threads :
    /\ mCancellationSignalAttachCount[t] = Cardinality(Attached(t))
    /\ Attached(t) # {} => cancelable[t]
    /\ canceled[t] \/ cancelable[t] => Attached(t) # {} \/ Detaching(t)
    /\ Detaching(t) => Attached(t) = {}

\* A listener is the connection of an operation that attached the signal; a
\* call of cancel() that is due will call the listener of its signal.
ListenersAttached == \A s \in Signals :
    /\ \A t \in Threads : mOnCancelListener[s] = t =>
           \E i \in 1..Depth(t) : /\ Attaching(t, i) /\ Op(t, i).signal = s
                                  /\ Op(t, i).at \in {"onCancel", "running", "removeListener"}
    /\ cancelCall[s] # None => mCancelInProgress[s] /\ mOnCancelListener[s] = cancelCall[s]

\* A signal that only one thread uses keeps calling that thread, and has called
\* it, or is about to, once it is canceled.
SignalsDelivered == \A t \in Threads : \A i \in 1..Depth(t) :
    LET s == Op(t, i).signal IN
    Attaching(t, i) /\ OnlyUser(t, s) /\ Op(t, i).at \in {"onCancel", "running"} =>
        /\ mOnCancelListener[s] = t
        /\ Op(t, i).at = "running" /\ mIsCanceled[s] =>
               canceled[t] \/ (mCancelInProgress[s] /\ cancelCall[s] = t)

\* The type and the four above: what every step relies on and re-establishes.
CancellationInv ==
    /\ TypeOK
    /\ StackInOrder
    /\ AttachmentsCounted
    /\ ListenersAttached
    /\ SignalsDelivered
=============================================================================
