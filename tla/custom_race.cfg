SPECIFICATION Spec
CONSTANTS
    Controllers = {A, B}
    None = None
    MaxOps = 0
    MaxEdition = 0
    MaxSealed = 3
    MaxTickets = 2
    MaxPool = 2
    MaxTx = 3
PROPERTIES ImplementsOwnership
SYMMETRY Symmetry
CHECK_DEADLOCK FALSE
