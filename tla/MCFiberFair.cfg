CONSTANTS
    Fibers = {f1, f2, f3}
    NULL = NULL
    StackMax = 1
    FramesMax = 1
    SliceBudget = 2
    MaxArgs = 0
    PrintMax = 0
    InvokeMax = 0
    MaxSpawns = 3
    DefaultCapabilities <- MCDefaultCapabilities
    RequestNames <- MCRequestNames
SPECIFICATION HSpec
PROPERTIES
    RoundRobin
    EveryFiberRuns
    VmFreeEnds
