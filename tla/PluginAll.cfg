SPECIFICATION FairSpec
CONSTANTS
    Handlers = {h1, h2}
    Servers = {s1, s2, s3}
    NoServer = NoServer
    Cores = {c1, c2}
    NoCore = NoCore
INVARIANTS
    TypeOK
    QueryOnOwnCore
    ServersAccounted
    UnloadedIsQuiet
PROPERTIES
    SessionStable
    EveryRequestEnds
    CommandReturns
CHECK_DEADLOCK FALSE
