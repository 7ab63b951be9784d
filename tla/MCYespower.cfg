SPECIFICATION Spec
CONSTANTS
    N = 8
    R = 2
    Entries = 32
    Word <- MCWord
INVARIANTS
    TypeOK
    MixesWrittenBlocks
    WritesInsideSBox
PROPERTY
    ImplementsReference
CHECK_DEADLOCK FALSE
