SPECIFICATION FairExecution
CONSTANTS
    Jobs = {j1, j2}
    AgentJobs = {}
    RemovableJobs = {j1, j2}
    Slots = {s1, s2}
    Tasks = {t1, t2}
    Runs = {r1}
    Timely = TRUE
    RenewalFails = FALSE
    BaseAttempts = 1
    AgentAttempts = 1
    NoJob = NoJob
    NoSlot = NoSlot
INVARIANTS OneActiveJob OneExecutor
PROPERTIES CompletedIsFinal QueueContract RunsSettle
CHECK_DEADLOCK FALSE
