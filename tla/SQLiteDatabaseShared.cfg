\* Three threads, configuration changes, ATTACH and one close().
SPECIFICATION Spec
CONSTANTS
    t1 = t1  t2 = t2  t3 = t3
    Threads = {t1, t2, t3}
    WalPoolSize = 2
    InMemory = FALSE
    InitialConfig <- ReadOnlyConfig
    MaxCloses = 1
    MaxSettings = 4
SYMMETRY Alike
INVARIANTS
    DatabaseInv
    PoolOpenWhileReferenced
    ConfigurationsAgree
PROPERTY WalNotEnabledOnceAttached
CHECK_DEADLOCK FALSE
