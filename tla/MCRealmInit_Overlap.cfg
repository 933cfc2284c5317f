SPECIFICATION Spec
CONSTANTS
    j1 = j1  j2 = j2   None = None
    ClientOrder <- ShortOrder  CoreClients <- ShortCore  ManagementRoles <- TestRoles
    DefaultRealmRoles <- DefaultRoles
    ForceClients = TRUE  TlsRetries = 1  TokenAttempts = 1
    Jobs <- TwoJobs  Deployments <- Sound
    Overlap = TRUE  BackoffLimit = 1  MaxFaults = 1
INVARIANTS NoMixedPrivileges ClientsSurviveOverlap
CHECK_DEADLOCK FALSE
