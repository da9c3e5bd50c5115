SPECIFICATION FairSpec
CONSTANTS
    Width = 8
    NoName = NoName
    NULL = NULL
    Queries <- MCQueries
    Cores <- MCCores
    Projects <- MCProjects
INVARIANTS
    TypeOK
    AnswerIsSql
    TypesAreSql
    ScanIsWhole
    TextArrives
PROPERTY StatementEnds
CHECK_DEADLOCK FALSE
