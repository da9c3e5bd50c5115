SPECIFICATION Spec
CONSTANTS
    Workers = {w1, w2}
    MaxCmds = 4
    MaxParts = 1
    MaxLines = 2
    ChildMayDie = FALSE
SYMMETRY WorkerSymmetry
INVARIANT OwnOutput
