----------------------------- MODULE MCStoreExport -----------------------------
(***************************************************************************)
(* Two stores with a password each; the DID's key is derived from the       *)
(* identity that has a mnemonic.                                            *)
(***************************************************************************)
EXTENDS StoreExport

CONSTANTS OldStore, NewStore, Mnemonic, RootKey, Alice, oldpass, newpass

OnlyMnemonic == [d \in {Alice} |-> Mnemonic]
First == [d \in {Alice} |-> 0]
TwoPasswords ==
    [s \in {OldStore, NewStore} |-> IF s = OldStore THEN oldpass ELSE newpass]

================================================================================
