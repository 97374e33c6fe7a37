CONSTANTS
    Sessions <- MCSessions
    Names <- MCNames
    MaxTokens = 60
    MaxFnDefs = 2
    MaxParams = 2
    MaxArgs = 2
    MaxVars = 2
    MaxCalls = 2
SPECIFICATION FairSpec
CHECK_DEADLOCK FALSE
INVARIANTS
    TypeOK
    CursorAtEnd
    CallRunsItsBody
    NoStatementAfterFlow
PROPERTIES
    ScopesIsolated
    StraightEnds
