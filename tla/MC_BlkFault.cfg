CONSTANTS
    SectorSize = 2
    NSectors = 2
    Bytes = {0, 1}
    MaxLen = 3
    SeekCalls <- SafeSeeks
    Faulty = TRUE

SPECIFICATION Spec

PROPERTY StreamRefinement
