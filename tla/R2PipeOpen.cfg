SPECIFICATION Spec
CONSTANTS
    Workers = {w1, w2}
    MaxCmds = 3
    MaxParts = 1
    MaxLines = 1
    ChildMayDie = FALSE
SYMMETRY WorkerSymmetry
INVARIANT FailedOpenReturns
