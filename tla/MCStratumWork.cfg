SPECIFICATION Safety
CONSTANTS
    m1 = m1
    m2 = m2
    Miner <- MCMiner
    Stratum = Stratum
    Free = Free
    Null = Null
    MaxJob = 3
    Block <- MCBlock
    Clean <- MCClean
    Diff = {1, 2}
    FirstDiff = 1
    Xn2Size = 2
    RangeLen = 1
    MaxFound = 2
    Retries = 0
SYMMETRY MinerSymmetry
CONSTRAINT MCBounded
INVARIANTS
    TypeOK
    RebuildHasJob
    HeaderNeverRepeated
    ShareNamesItsHeader
    WrongTargetIsSuperseded
PROPERTY
    DiscardOnlyStaleOrRebuilding
