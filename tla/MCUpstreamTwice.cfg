SPECIFICATION Safety
CONSTANTS
    m1 = m1
    m2 = m2
    Miner <- MCMiner
    Free = Free
    Poller = Poller
    Servers <- MCWallet
    SubmitOld = {FALSE}
    MaxChain = 3
    MaxFound = 2
    Retries = 1
SYMMETRY MinerSymmetry
INVARIANT
    NoBlockSubmittedTwice
