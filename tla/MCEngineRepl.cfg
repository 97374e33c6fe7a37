CONSTANTS
    Sessions <- CalledLater
    Names <- MCNames
    MaxTokens = 60
    MaxFnDefs = 2
    MaxParams = 2
    MaxArgs = 2
    MaxVars = 2
    MaxCalls = 2
SPECIFICATION Spec
CHECK_DEADLOCK FALSE
INVARIANTS
    CallRunsItsBody
