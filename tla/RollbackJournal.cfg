\* Two processes, two write transactions on two pages, one crash, one error.
SPECIFICATION Spec
CONSTANTS
    c1 = c1  c2 = c2
    Conns = {c1, c2}
    None = None
    MaxPages = 2
    MaxTransactions = 2
    MaxCrashes = 1
    MaxErrors = 1
SYMMETRY Symmetry
INVARIANTS
    TypeOK
    WriteAhead
PROPERTY ImplementsAtomicDatabase
