SPECIFICATION Spec
CONSTANTS
    cert = cert  ca = ca  secret = secret  tg = tg  renku = renku  p1 = p1
    None = None
    HookOrder <- ThreeHooks  Kind <- Kinds  CA <- ca  Values <- PasswordValues
    FailAt <- CAOrSecretLost  MaxRevisions = 3  MaxFaults = 1
    Dbs <- TwoDbs  PasswordOf <- OnePassword  Ulid = TRUE
    ConnectAttempts = 2  BackoffLimit = 1  MaxPodFaults = 1
INVARIANTS TypeOK DoneMeansReady SecretOpensDatabase CertificateSignedByCA
PROPERTY PasswordWrittenOnce
CHECK_DEADLOCK FALSE
