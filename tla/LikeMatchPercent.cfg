SPECIFICATION Spec
CONSTANTS
    Chars <- Letters
    Lower <- ToLower
    Any = "%"
    One = "_"
    MaxText = 2
    MaxPattern = 2
INVARIANT VerdictIsLike
CHECK_DEADLOCK FALSE
