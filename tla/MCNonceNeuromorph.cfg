SPECIFICATION Spec
CONSTANTS
    N = 2
    Word = 22
    Reserve = 4
    Setting <- MCNeuromorph
    Scan <- MCScan
    MaxHeader = 2
    MaxSame = 1
PROPERTY
    SameHeaderGoesOn
