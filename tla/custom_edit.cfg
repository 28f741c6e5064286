SPECIFICATION Spec
CONSTANTS
    Controllers = {A, B, C}
    None = None
    MaxOps = 2
    MaxEdition = 1
    MaxSealed = 2
    MaxTickets = 1
    MaxPool = 1
    MaxTx = 2
INVARIANTS TypeOK SealedSound
PROPERTIES ImplementsOwnership
SYMMETRY Symmetry
CHECK_DEADLOCK FALSE
