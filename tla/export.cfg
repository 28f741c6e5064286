SPECIFICATION Spec
CONSTANTS
    OldStore = OldStore
    NewStore = NewStore
    Mnemonic = Mnemonic
    RootKey = RootKey
    Alice = Alice
    oldpass = oldpass
    newpass = newpass
    Stores = {OldStore, NewStore}
    Roots = {Mnemonic, RootKey}
    KeyOnly = {RootKey}
    Dids = {Alice}
    RootOf <- OnlyMnemonic
    IndexOf <- First
    Passwords = {oldpass, newpass}
    StorePass <- TwoPasswords
    Misuse = FALSE
    MaxEdition = 2
    MaxJobs = 1
    MaxCalls = 7
    MaxUpsets = 1
    Lazy = Lazy
    Bad = Bad
    None = None
INVARIANTS TypeOK Readable IdentityWhole Derivable
PROPERTIES ImportComplete
CHECK_DEADLOCK FALSE
