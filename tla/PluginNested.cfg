SPECIFICATION Spec
CONSTANTS
    Handlers = {h1}
    Servers = {s1, s2, s3}
    NoServer = NoServer
    Cores = {c1, c2}
    NoCore = NoCore
INVARIANT NoSelfWait
CHECK_DEADLOCK FALSE
