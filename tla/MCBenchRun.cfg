SPECIFICATION Spec
CONSTANTS
    c1 = c1
    c2 = c2
    out = out
    Clients <- MCClients
    Names <- MCNames
    Inodes = {i1, i2, i3, i4, i5}
    NoInode = NoInode
    Blank = Blank
    Torn = Torn
    Absent = Absent
    Nobody = Nobody
    Out = out
    Scenarios <- MCScenarios
    Bundles <- MCBundles
INVARIANTS
    SuccessIsEarned
    EvidenceCoherent
PROPERTIES
    ZeroIsDurable
    ClaimRespected
CHECK_DEADLOCK FALSE
