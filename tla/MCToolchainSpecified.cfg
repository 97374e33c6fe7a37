CONSTANTS
    Fibers = {f1, f2, f3, f4}
    NULL = NULL
    StackMax = 12
    FramesMax = 4
    SliceBudget = 5
    GlobalsMax = 4
    PrintMax = 12
    InvokeMax = 3
    MaxLocals = 8
    MaxBreaks = 2
    TcMaxSyms = 9
    TcMaxScopes = 5
    TcMaxTypes = 3
    MaxPeripherals = 2
    MaxCapabilities = 2
    MaxFields = 6
    DefaultCapabilities <- MCDefaultCapabilities
    Programs <- MCPrograms
    Garbled <- MCGarbled
    Texts <- MCTexts
    Bytecode <- MCBytecode
    FileTexts <- MCFileTexts
SPECIFICATION Spec
INVARIANT
    ParsedAsSpecified
