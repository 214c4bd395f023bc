\* Every waiting request ends although a session abandons its connection.
SPECIFICATION FairSpec
CONSTANTS
    t1 = t1  t2 = t2  t3 = t3
    c1 = c1  c2 = c2  c3 = c3  c4 = c4  c5 = c5
    w1 = w1  w2 = w2  w3 = w3
    Threads = {t1, t2}
    Interactive = {}
    Cancelable = {}
    Impatient = {t1, t2}
    Conns = {c1, c2, c3, c4}
    Waiters = {w1, w2}
    WalPoolSize = 2
    HasCodec = FALSE
    InitialConfig <- WalConfig
    None = None
    Outsider = Outsider
    MaxReconfigs = 0
    MaxLeaks = 1
PROPERTY EveryRequestEnds
