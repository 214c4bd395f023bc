\* Two connections, two write transactions on two pages, two checkpoints, no fault.
SPECIFICATION Spec
CONSTANTS
    c1 = c1  c2 = c2  c3 = c3
    Conns = {c1, c2}
    None = None
    Marks = 2
    MaxPages = 2
    MaxTransactions = 2
    MaxSpills = 0
    MaxCheckpoints = 2
    MaxFaults = 0
SYMMETRY Symmetry
INVARIANT BackfillWithinLog
