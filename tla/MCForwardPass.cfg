SPECIFICATION PassSpec
CONSTANTS
    Absent = Absent
    Scenarios <- AllScenarios
    MaxFlips = 2
    MaxCalls = 2
    TrellisBlock = 8
    MemoryOrder = 3
    Generators <- TapSets
    RowAlignment = 2
    GroupSize = 4
    SfInner = 2
    r1 = r1
    r2 = r2
    NoMap = NoMap
    NumExperts = 4
    TopK = 2
    Threshold = 1
    TileM = 2
    Group = 2
    Routes <- MCRoutes
    Sizes <- MCSizes
    Deployments <- MCDeployments
    t1 = t1
    t2 = t2
    l1 = l1
    l2 = l2
    k1 = k1
    Threads <- MCThreads
    RoutedLayers <- MCLayers
    Keys <- MCKeys
    MaxLookups = 3
INVARIANTS
    RowsOwnTables
    SelectionServed
    RouteRecorded
    SetUpAtLoad
    EachPairOnce
    AliasAddsNoRead
    HandedIsKept
    OneConstant
PROPERTY CallsEnd
