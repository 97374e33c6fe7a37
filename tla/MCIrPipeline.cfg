CONSTANTS
    InstrCapacity = 24
    LowerMaxLocals = 8
    LowerMaxScopes = 5
    Programs <- MCPrograms
    Built <- MCBuilt
SPECIFICATION Spec
INVARIANTS
    LoweredComputesAsWritten
    BlocksEndOnce
    NoOperandDangles
PROPERTIES
    PassesKeepMeaning
