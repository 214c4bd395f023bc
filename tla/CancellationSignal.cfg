\* Two threads, a signal of one and a signal of both, nested operations.
SPECIFICATION FairSpec
CONSTANTS
    t1 = t1  t2 = t2  s1 = s1  s2 = s2
    Threads = {t1, t2}
    Signals = {s1, s2}
    SignalsOf <- OwnAndShared
    MaxDepth = 3
    None = None
INVARIANTS
    CancellationInv
    OnCancelOnlyWhileAttached
    NothingLeftBehind
    CancelReachesOperation
PROPERTY CanceledOperationEnds
