SPECIFICATION FairSpec
CONSTANTS
    t1 = t1
    t2 = t2
    Threads <- MCThreads
    Families <- MCFamilies
    Devices <- MCDevices
    CapOf <- OldAndNew
    MaxOps = 1
    MaxFlips = 0
PROPERTY CallsReturn
