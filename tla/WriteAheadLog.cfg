\* Two connections, two write transactions on two pages, two spills, one checkpoint, one fault.
SPECIFICATION Spec
CONSTANTS
    c1 = c1  c2 = c2  c3 = c3
    Conns = {c1, c2}
    None = None
    Marks = 1
    MaxPages = 2
    MaxTransactions = 2
    MaxSpills = 2
    MaxCheckpoints = 1
    MaxFaults = 1
SYMMETRY Symmetry
INVARIANTS
    TypeOK
    CheckpointBehindReaders
    DurableBeforeCopied
PROPERTY ImplementsAtomicDatabase
