CONSTANTS
    SectorSize = 2
    NSectors = 2
    Bytes = {0, 1}
    MaxLen = 3
    SeekCalls <- AllSeeks
    Faulty = FALSE

SPECIFICATION Spec

PROPERTY StreamRefinement
