CONSTANTS
    Blocks = {b1, b2, b3}
    NULL = NULL
    DefaultSize = 2
    ExtraSize = 1
    Sizes <- MCSizes
    Alignments <- MCAlignments
    MaxMarkers = 2
SYMMETRY BlockSymmetry
SPECIFICATION Spec
INVARIANTS
    TypeOK
    RegionsOK
    GrowingLosesNoBlock
