SPECIFICATION Safety
CONSTANTS
    m1 = m1
    m2 = m2
    Miner <- MCMiner
    Stratum = Stratum
    Workio = Workio
    Free = Free
    MaxJob = 3
    Seed <- MCSeed
    Height <- MCHeight
    Activation = 2
    MaxFound = 1
INVARIANT
    EpochReadOnly
