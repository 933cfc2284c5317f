SPECIFICATION Spec
CONSTANTS
    j1 = j1  j2 = j2   None = None
    ClientOrder <- ShortOrder  CoreClients <- ShortCore  ManagementRoles <- TestRoles
    DefaultRealmRoles <- DefaultRoles
    ForceClients = TRUE  TlsRetries = 2  TokenAttempts = 2
    Jobs <- TwoJobs  Deployments <- Sound
    Overlap = FALSE  BackoffLimit = 1  MaxFaults = 1
PROPERTY DemoUserHasPassword
CHECK_DEADLOCK FALSE
