SPECIFICATION FairSpec
CONSTANTS
    Calls = {c1, c2}
    MaxQueue = 1
    NoCall = NoCall
PROPERTIES
    KeepsPromise
    EveryCallAnswered
    InterruptEndsServer
