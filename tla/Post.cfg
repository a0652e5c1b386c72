SPECIFICATION Spec
CONSTANTS
    MaxPosts = 2
    MaxRequests = 2
    Executors = {t1}
    Overlap = FALSE
    Settled = TRUE
    Revivals = FALSE
    Revokes = FALSE
INVARIANTS CreatedOnce ShownOnce FailedIsNotOnGoogle
PROPERTIES RetiredIsFinished
CHECK_DEADLOCK FALSE
