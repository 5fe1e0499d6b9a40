SPECIFICATION Spec
CONSTANTS
    t1 = t1
    t2 = t2
    Threads <- MCThreads
    Families <- JustBridge
    Devices <- MCDevices
    CapOf <- OldAndNew
    MaxOps = 2
    MaxFlips = 1
INVARIANTS
    LaneFailureScope
    NoSilentSubstitute
    OneBridge
PROPERTIES
    OnceSpec
