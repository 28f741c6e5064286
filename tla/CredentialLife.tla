----------------------------- MODULE CredentialLife -----------------------------
(***************************************************************************)
(* What the chain's history of one credential may look like: it is         *)
(* declared at most once and never after it was revoked.  Keys of its      *)
(* holder and of its issuer may revoke it, no others, and none of them     *)
(* twice.  One revocation ends it, except that those of the issuer of what *)
(* is not declared leave its other keys, and then the holder, to follow.   *)
(***************************************************************************)
EXTENDS Naturals

CONSTANTS HolderKeys, IssuerKeys

VARIABLES
    declarations, \* how often it was declared
    revokers      \* the keys that revoked it

vars == <<declarations, revokers>>

Init == declarations = 0 /\ revokers = {}

Declare ==
    /\ declarations = 0
    /\ revokers = {}
    /\ declarations' = 1
    /\ UNCHANGED revokers

Revoke(key) ==
    /\ revokers \cap HolderKeys = {}
    /\ key \notin revokers
    /\ declarations = 1 => revokers = {}
    /\ revokers' = revokers \cup {key}
    /\ UNCHANGED declarations

Next == Declare \/ \E key \in HolderKeys \cup IssuerKeys : Revoke(key)

Spec == Init /\ [][Next]_vars

================================================================================
