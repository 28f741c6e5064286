SPECIFICATION Spec
CONSTANTS
    Controllers = {A, B, C}
    None = None
    MaxOps = 3
    MaxEdition = 0
    MaxSealed = 2
    MaxTickets = 0
    MaxPool = 1
    MaxTx = 1
INVARIANTS UpdatesKeepControllers
SYMMETRY Symmetry
CHECK_DEADLOCK FALSE
