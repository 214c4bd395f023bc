\* Two processes with two connections each, and two failing fcntl calls.
SPECIFICATION Spec
CONSTANTS
    p1 = p1  p2 = p2
    c1 = c1  c2 = c2  c3 = c3  c4 = c4
    Processes = {p1, p2}
    Conns = {c1, c2, c3, c4}
    ProcessOf <- TwoAndTwo
    None = None
    MaxErrors = 2
INVARIANTS
    LockInv
    DowngradeUnobstructed
PROPERTY ImplementsFileLocks
