SPECIFICATION Spec
CONSTANTS
    k1 = k1
    k2 = k2
    r = r
    Keys = {k1}
    Roots = {r}
    RootOf <- OneRoot
    Passwords = {p, q}
    DataInPath = FALSE
    CrashAt = {"swap"}
    FailAt = {}
    MaxUpsets = 1
    Lazy = Lazy
    None = None
INVARIANTS OpenFindsData
