CONSTANTS
    Fibers = {f1, f2, f3}
    NULL = NULL
    StackMax = 2
    FramesMax = 2
    SliceBudget = 2
    MaxArgs = 1
    PrintMax = 2
    InvokeMax = 1
    DefaultCapabilities <- MCDefaultCapabilities
    RequestNames <- MCRequestNames
SPECIFICATION Spec
SYMMETRY FiberSymmetry
INVARIANTS
    TypeOK
    RingOK
    CurrentOK
    OkMeansNoWork
PROPERTIES
    EffectAllowed
    ErrorIsFinal
