\* Statements found in the cache are re-entered as well.
SPECIFICATION Spec
CONSTANTS
    select = select  insert = insert  update = update  pragma = pragma
    s1 = s1  s2 = s2  s3 = s3  s4 = s4
    p1 = p1  p2 = p2  p3 = p3  p4 = p4
    Sqls = {select, insert, update, pragma}
    Cacheable = {select, insert, update}
    MaxCacheSize = 2
    Statements = {s1, s2, s3, s4}
    Pointers = {p1, p2, p3, p4}
    HitsReenter = TRUE
    MaxDepth = 2
    None = None
INVARIANT InUseStatementsIntact
CHECK_DEADLOCK FALSE
