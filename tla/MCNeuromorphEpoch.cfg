SPECIFICATION Spec
CONSTANTS
    m1 = m1
    m2 = m2
    Miner = {m1}
    Stratum = Stratum
    Workio = Workio
    Free = Free
    MaxJob = 3
    Seed <- MCSeed
    Height <- MCHeight
    Activation = 2
    MaxFound = 1
INVARIANTS
    TypeOK
    EpochWhole
    CrashOnlyAcrossActivation
PROPERTIES
    TornOnlyAtLogin
    EpochSettles
