------------------------- MODULE MCCredentialRegistry -------------------------
(***************************************************************************)
(* A credential with two devices of its holder and two of its issuer, who  *)
(* has two keys.  Devices of one party, and keys of one party, are alike.  *)
(***************************************************************************)
EXTENDS CredentialRegistry, TLC

CONSTANTS H, I, HK, IK1, IK2, H1, H2, I1, I2

Symmetry ==
    Permutations(HolderDevices) \cup Permutations(IssuerDevices) \cup Permutations(IssuerKeys)

================================================================================
