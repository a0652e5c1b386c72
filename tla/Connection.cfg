SPECIFICATION Spec
CONSTANTS
    Tasks = {t1, t2}
    MaxRows = 2
    MaxIntents = 2
    MaxSecrets = 3
INVARIANTS NoDanglingReference ConsentIsSpent
PROPERTIES DeadConsentNoticed
CHECK_DEADLOCK FALSE
