SPECIFICATION Spec
CONSTANTS
    N = 3
    Gap = 2
    MaxCalls = 3
    None = None
INVARIANTS TypeOK KeysRecoverable
PROPERTIES SyncFinds SyncTerminates
CHECK_DEADLOCK FALSE
