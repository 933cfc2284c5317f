SPECIFICATION Spec
CONSTANTS
    j1 = j1  j2 = j2  j3 = j3
    k1 = k1  k2 = k2  text = text  sym = sym
    Empty = Empty  None = None  Installed <- NothingOrKey
    Keys <- TestKeys  ValidKeys <- RsaKeys
    Jobs <- TwoJobs  Configs <- AllConfigs
    Overlap = TRUE  BackoffLimit = 6  MaxFaults = 1
INVARIANTS TypeOK PrevDiffers PublishedAfterStored StoredKeysUsable
PROPERTIES SymmetricKeysWrittenOnce JobsTerminate RotationApplied UnconfiguredJobSucceeds
CHECK_DEADLOCK FALSE
