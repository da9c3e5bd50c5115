SPECIFICATION FairSpec
CONSTANTS
    Chars <- Letters
    Lower <- ToLower
    Any = "%"
    One = "_"
    MaxText = 3
    MaxPattern = 4
INVARIANTS
    TypeOK
    VerdictIsMeant
PROPERTY Decides
CHECK_DEADLOCK FALSE
