SPECIFICATION LiveSpec
CONSTANTS
    r1 = r1
    r2 = r2
    None = None
    Runs <- MCOneRun
    MaxAttempts <- MCMaxAttempts
    MaxRemotes = 1
    MaxKeys = 2
PROPERTIES
    JobsReclaimed
CHECK_DEADLOCK FALSE
