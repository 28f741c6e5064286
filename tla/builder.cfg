SPECIFICATION Spec
CONSTANTS
    Ids = {0, 1}
    Primary = 1
    Values = {Root, V, W}
    Root = Root
    Controllers = {A, B}
    CredIds = {C}
    Self = Self
    External = External
    None = None
    Twins = FALSE
    MaxOps = 2
    MaxSessions = 2
INVARIANTS TypeOK SealedGenuine DefaultKeyKept
SYMMETRY Symmetry
CHECK_DEADLOCK FALSE
