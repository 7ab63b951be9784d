SPECIFICATION Spec
CONSTANTS
    m1 = m1
    m2 = m2
    Miner <- MCMiner
    Free = Free
    Poller = Poller
    Servers <- MCPool
    SubmitOld = {FALSE}
    MaxChain = 2
    MaxFound = 0
    Retries = 0
PROPERTIES
    EveryMinerCatchesUp
    RequestIsAnswered
