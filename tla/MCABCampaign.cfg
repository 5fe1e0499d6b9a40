SPECIFICATION Spec
CONSTANTS
    a1 = a1  a2 = a2  claim1 = claim1  claim2 = claim2  out1 = out1  out2 = out2
    f1 = f1  f2 = f2  g1 = g1
    Attempts <- MCAttempts  Campaigns <- MCCampaigns  Outputs <- MCOutputs
    Names <- MCNames  Inodes <- MCInodes
    NoInode = noInode  Blank = blank  Torn = torn  Absent = absent
    Fp4 <- MCFp4  Fp8 <- MCFp8  Warmups = 1  Canonical <- MCCanonical
    Vocab = 3  Sealed = 2  TSquare = 39864
    NllLimit = 4  CorruptionLimit = 20  Margin = 5
    Scenarios <- MCScenarios
INVARIANTS PromotionEarned OneMeasurement
PROPERTIES PassIsDurable EvidenceKept
CHECK_DEADLOCK FALSE
