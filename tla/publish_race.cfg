SPECIFICATION RaceSpec
CONSTANTS
    Absent = Absent
    Stores = {A, B}
    Slots = {h1}
    Prompt = FALSE
    MaxSeals = 3
    MaxTx = 3
    MaxPool = 2
    MaxUpsets = 0
SYMMETRY Symmetry
INVARIANTS IInv
PROPERTIES ImplementsRegister
CHECK_DEADLOCK FALSE
