SPECIFICATION Spec
CONSTANTS
    r1 = r1
    r2 = r2
    None = None
    Runs <- MCRuns
    MaxAttempts <- MCMaxAttempts
    MaxRemotes = 1
    MaxKeys = 2
PROPERTIES
    StartsClean
    RecoveryKeepsOut
    OrphansReleased
CHECK_DEADLOCK FALSE
