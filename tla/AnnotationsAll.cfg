SPECIFICATION FairSpec
CONSTANTS
    Threads = {t1, t2}
    Names = {n1, n2}
    BadName = BadName
    NoName = NoName
    Addrs = {a1, a2}
    NoAddr = NoAddr
    Code = {a1}
INVARIANTS
    TypeOK
PROPERTIES
    StatementsAtomic
    EveryCallReturns
