CONSTANTS
    InitialCapacity = 1
    MaxCapacity = 4
    GenModulus = 3
    Objects = {o1}
    Tags = {t1, t2}
    ANY = ANY
    NULL = NULL
    Value = {a, b, c}
    Capacity = 3
SYMMETRY Symmetry
SPECIFICATION StoresSpec
INVARIANTS
    TypeOK
    FreeListOK
    StaleNeverValid
    RingOK
PROPERTIES
    ImplementsHandles
    RefinesFifo
