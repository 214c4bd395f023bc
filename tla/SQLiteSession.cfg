\* Nested transactions and operations, yields, and everything SQLite may do.
SPECIFICATION Spec
CONSTANTS
    t1 = t1  t2 = t2  c1 = c1
    Sessions = {t1, t2}
    Conns = {c1}
    Failures = {"failedCommit", "busyCommit", "canceledRollback", "lostTransaction"}
    MaxNesting = 2
    MaxOperations = 2
    None = None
SYMMETRY Alike
INVARIANTS
    SessionInv
    ConnectionHeldWhileNeeded
    EndedTransactionSettled
PROPERTY CommittedOnlyIfIntended
