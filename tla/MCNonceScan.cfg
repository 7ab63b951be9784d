SPECIFICATION Spec
CONSTANTS
    N = 2
    Word = 22
    Reserve = 4
    Setting <- MCSetting
    Scan <- MCScan
    MaxHeader = 2
    MaxSame = 1
INVARIANTS
    TypeOK
    InOwnRange
    NoNonceTwice
    NoShareTwice
    RandomStaysClose
PROPERTY
    SameHeaderGoesOn
