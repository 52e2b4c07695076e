CONSTANTS
    t1 = t1
    t2 = t2
    t3 = t3
    Threads <- MCThreads
    Token = 2
    Capacity = 4
    Rates <- MCRates
    MinWaitInverse = 2
    MaxCalls = 1
SPECIFICATION FairSpec
PROPERTIES AcquireReturns ImplementsEager
