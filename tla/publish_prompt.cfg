SPECIFICATION Spec
CONSTANTS
    Absent = Absent
    Stores = {A, B}
    Slots = {h1}
    Prompt = TRUE
    MaxSeals = 3
    MaxTx = 2
    MaxPool = 1
    MaxUpsets = 1
SYMMETRY Symmetry
INVARIANTS TypeOK NoBlindOverwrite LocalKnown DeactivatedTrue HandlerSeesUnpublished
CHECK_DEADLOCK FALSE
