SPECIFICATION Spec
CONSTANTS
    j1 = j1  j2 = j2   None = None
    ClientOrder <- Order  CoreClients <- Core  ManagementRoles <- TestRoles
    DefaultRealmRoles <- DefaultRoles
    ForceClients = TRUE  TlsRetries = 2  TokenAttempts = 2
    Jobs <- TwoJobs  Deployments <- All
    Overlap = FALSE  BackoffLimit = 2  MaxFaults = 1
INVARIANT TypeOK
PROPERTIES SuccessMeansReconciled MatchingClientUntouched JobsTerminate JobSucceeds
CHECK_DEADLOCK FALSE
