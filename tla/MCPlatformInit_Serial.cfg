SPECIFICATION Spec
CONSTANTS
    j1 = j1  j2 = j2  j3 = j3
    k1 = k1  k2 = k2  text = text  sym = sym
    Empty = Empty  None = None  Installed <- Nothing
    Keys <- TestKeys  ValidKeys <- RsaKeys
    Jobs <- ThreeJobs  Configs <- AllConfigs
    Overlap = FALSE  BackoffLimit = 1  MaxFaults = 2
INVARIANT PairMatchesAtRest
PROPERTIES ImplementsKeyRing SuccessMeansConfiguredKey
CHECK_DEADLOCK FALSE
