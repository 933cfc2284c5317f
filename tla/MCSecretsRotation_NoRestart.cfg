SPECIFICATION RotationSpec
CONSTANTS
    j1 = j1  j2 = j2  j3 = j3  j4 = j4
    k1 = k1  k2 = k2  k3 = k3  s1 = s1
    Empty = Empty  None = None  Installed <- Nothing
    Keys <- RsaKeys  ValidKeys <- RsaKeys  Configs <- Procedure
    Jobs <- TwoJobs  Secrets <- OneSecret  Overlap = FALSE
    BackoffLimit = 1  MaxFaults = 0  Strict = FALSE
PROPERTY RotationReachesStorage
CHECK_DEADLOCK FALSE
