SPECIFICATION Spec
CONSTANTS
    m1 = m1
    m2 = m2
    Miner = {m1}
    Stratum = Stratum
    Free = Free
    Null = Null
    MaxJob = 2
    Block <- MCBlock
    Clean <- MCClean
    Diff = {1}
    FirstDiff = 1
    Xn2Size = 2
    RangeLen = 1
    MaxFound = 1
    Retries = 1
PROPERTIES
    NoMinerStaysBehind
    GivingUpEndsProcess
