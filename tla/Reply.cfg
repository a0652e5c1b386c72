SPECIFICATION FairSpec
CONSTANTS
    MaxResponses = 2
    Contents = {"kind", "angry"}
    Restricted = {"angry"}
    FirstContent = "kind"
    Executors = {t1}
    Overlap = FALSE
    Disconnects = FALSE
    MaxEdits = 2
    Mixed = FALSE
    NoSnapshot = NoSnapshot
INVARIANTS WrittenOnce FailedWasNotSent
PROPERTIES PublishedSticks ConvergesToGoogle
CHECK_DEADLOCK FALSE
