SPECIFICATION FairSpec
CONSTANTS
    h1 = h1
    h2 = h2
    Handlers = {h1, h2}
    CommandLines <- MCCommandLines
    Projects = {"p", "q"}
    Notes = {"note"}
    NoProject = ""
    Missing = Missing
    Damaged = Damaged
INVARIANTS
    TypeOK
    ParsedRight
    NoUseAfterClose
PROPERTIES
    WorkIsKept
    InterruptEnds
    EveryRequestAnswered
