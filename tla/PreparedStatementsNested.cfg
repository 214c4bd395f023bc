\* Re-entrance by newly prepared statements.  A closed connection is not used again.
SPECIFICATION Spec
CONSTANTS
    select = select  insert = insert  update = update  pragma = pragma
    s1 = s1  s2 = s2  s3 = s3  s4 = s4
    p1 = p1  p2 = p2  p3 = p3  p4 = p4
    Sqls = {select, insert, update, pragma}
    Cacheable = {select, insert, update}
    MaxCacheSize = 2
    Statements = {s1, s2, s3, s4}
    Pointers = {p1, p2, p3, p4}
    HitsReenter = FALSE
    MaxDepth = 2
    None = None
INVARIANTS
    StatementsInv
    InUseStatementsIntact
    CachedStatementsIntact
    NoStatementLost
    RecycledStatementsUnused
CHECK_DEADLOCK FALSE
