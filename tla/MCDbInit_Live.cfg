SPECIFICATION Spec
CONSTANTS
    cert = cert  ca = ca  secret = secret  tg = tg  renku = renku  p1 = p1
    None = None
    HookOrder <- OneHook  Kind <- Kinds  CA <- ca  Values <- NoValues
    FailAt <- NothingLost  MaxRevisions = 2  MaxFaults = 1
    Dbs <- OneDb   PasswordOf <- OnePassword  Ulid = TRUE
    ConnectAttempts = 2  BackoffLimit = 6  MaxPodFaults = 1
PROPERTIES JobsTerminate JobSucceeds
CHECK_DEADLOCK FALSE
