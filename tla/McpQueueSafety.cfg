SPECIFICATION Spec
CONSTANTS
    Calls = {c1, c2, c3}
    MaxQueue = 2
    NoCall = NoCall
SYMMETRY CallSymmetry
INVARIANTS
    TypeOK
    RefusedNeverRuns
    AnswerIsOwn
    ExecutedInOrder
    WaiterIsWatched
    NotRunningMeansInterrupted
