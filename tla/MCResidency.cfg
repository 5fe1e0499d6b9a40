SPECIFICATION FairSpec
CONSTANTS
    a = a
    b = b
    c = c
    Models <- MCModels
    Dispatch <- MCDispatch
    Streamed <- MCStreamed
    ModelOf <- MCModelOf
    Size <- MCSize
INVARIANTS
    SitesResolve
    OneTile
    GraphsOutliveLoadsThatFit
PROPERTY EntriesExpire
