SPECIFICATION AdminSpec
CONSTANTS
    r1 = r1  r2 = r2  g1 = g1  g2 = g2
    None = None  NoProject = NoProject
    Runs <- TwoRuns  Secrets <- TwoSecrets  MaxFaults = 2
    Sessions <- TwoRuns  Migrations <- TwoProjects  Paths <- ThreePaths
    MaxFailures = 1  MaxRenames = 2
INVARIANTS RobotHasGivenSecret RedirectsSound CleanRunCoversMigrations
PROPERTY RerunSucceeds
CHECK_DEADLOCK FALSE
