\* A read-only WAL pool of two connections, three threads, cancellation, a reconfigure().
SPECIFICATION Spec
CONSTANTS
    t1 = t1  t2 = t2  t3 = t3
    c1 = c1  c2 = c2  c3 = c3  c4 = c4  c5 = c5
    w1 = w1  w2 = w2  w3 = w3
    Threads = {t1, t2, t3}
    Interactive = {t1}
    Cancelable = {t1}
    Impatient = {t1}
    Conns = {c1, c2, c3, c4}
    Waiters = {w1, w2}
    WalPoolSize = 2
    HasCodec = FALSE
    InitialConfig <- ReadOnlyWalConfig
    None = None
    Outsider = Outsider
    MaxReconfigs = 1
    MaxLeaks = 0
SYMMETRY Alike
INVARIANTS
    QueueInv
    NoStarvedWaiter
    NoLostUnpark
    CanceledOnlyByOwnSignal
    ExclusiveOwnership
    SinglePrimary
    ConfigurationPropagated
PROPERTY NoOvertaking
