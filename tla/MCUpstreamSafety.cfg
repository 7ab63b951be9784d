SPECIFICATION Safety
CONSTANTS
    m1 = m1
    m2 = m2
    Miner <- MCMiner
    Free = Free
    Poller = Poller
    Servers <- MCReliable
    SubmitOld = {TRUE, FALSE}
    MaxChain = 2
    MaxFound = 2
    Retries = 1
SYMMETRY MinerSymmetry
INVARIANTS
    TypeOK
    LongpollCanRestart
    NoBlockSubmittedTwice
PROPERTY
    SolvedIsSolved
