SPECIFICATION FairSpec
CONSTANTS
    k1 = k1
    k2 = k2
    r = r
    Keys = {k1, k2}
    Roots = {r}
    RootOf <- OneRoot
    Passwords = {p, q}
    DataInPath = FALSE
    CrashAt <- SafeSteps
    FailAt = {"copy"}
    MaxUpsets = 2
    Lazy = Lazy
    None = None
INVARIANTS TypeOK NoSecretLost Readable OpenFindsData
PROPERTIES Usable ImplementsVault
