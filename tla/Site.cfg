SPECIFICATION Spec
CONSTANTS
    MaxRevisions = 2
    MaxPushes <- OnePush
INVARIANTS PlatformMergesPinnedHead NoRollback
PROPERTIES ImplementsGovernedWrite
CHECK_DEADLOCK FALSE
