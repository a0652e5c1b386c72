SPECIFICATION FairSpec
CONSTANTS
    Jobs = {j1, j2}
    AgentJobs = {j2}
    RemovableJobs = {j2}
    Slots = {s1, s2}
    Tasks = {t1, t2}
    BaseAttempts = 1
    AgentAttempts = 2
    NoJob = NoJob
    NoSlot = NoSlot
INVARIANTS AttemptBudget OpenAttemptIsLatest RenewalFenced
PROPERTIES CancelledNeverClaimed JobsSettle
CHECK_DEADLOCK FALSE
