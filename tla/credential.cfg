SPECIFICATION Spec
CONSTANTS
    H = H
    I = I
    HK = HK
    IK1 = IK1
    IK2 = IK2
    H1 = H1
    H2 = H2
    I1 = I1
    I2 = I2
    Holder = H
    Issuer = I
    HolderKeys = {HK}
    IssuerKeys = {IK1, IK2}
    HolderDevices = {H1, H2}
    IssuerDevices = {I1, I2}
    None = None
INVARIANTS TypeOK RevocationKnown RevocationSeen ChecksComplete
PROPERTIES ImplementsLife
SYMMETRY Symmetry
