SPECIFICATION Spec
CONSTANTS
    Alphabet <- MCAlphabet
    Keywords <- MCKeywords
    MaxLength = 5
    MemoryFails = TRUE
INVARIANTS TypeOK ScannedAsDefined
PROPERTY ScanEnds
CHECK_DEADLOCK FALSE
