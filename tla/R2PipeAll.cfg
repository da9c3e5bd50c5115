SPECIFICATION FairSpec
CONSTANTS
    Workers = {w1, w2}
    MaxCmds = 4
    MaxParts = 2
    MaxLines = 1
    ChildMayDie = TRUE
INVARIANTS
    TypeOK
    WholeReply
    SavedOnExit
    ProjectKept
    ChildReaped
PROPERTIES
    EveryCallReturns
