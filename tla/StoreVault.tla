------------------------------ MODULE StoreVault ------------------------------
(***************************************************************************)
(* What a DID store promises about its secrets: each one is kept under the *)
(* store's password, the first password used is that password, and changing *)
(* it is one step for all of them.  StoreJournal, which copies directories, *)
(* writes tag files and recovers from crashes, is shown to implement this.  *)
(***************************************************************************)
CONSTANTS
    Secrets,      \* the private keys, and the keys of the root identities
    Passwords,
    Lazy,         \* a private key that is still to be derived
    None          \* no file; no password yet

VARIABLES
    file,         \* per secret: the password its file is encrypted with
    password      \* the password of the store

vars == <<file, password>>

Init ==
    /\ file \in [Secrets -> Passwords \cup {None}]
    /\ password = None

\* The first password used becomes the password of the store.
Use(p) == password \in {None, p} /\ password' = p

Put(s, p) == Use(p) /\ file' = [file EXCEPT ![s] = p]

PutLazy(s) == file' = [file EXCEPT ![s] = Lazy] /\ UNCHANGED password

Get(p) == Use(p) /\ UNCHANGED file

Drop(s) == file' = [file EXCEPT ![s] = None] /\ UNCHANGED password

\* The password is changed for all secrets at once, or not at all.
Rekey(p) ==
    /\ \A s \in Secrets : file[s] \in {password, None}
    /\ file' = [s \in Secrets |-> IF file[s] = None THEN None ELSE p]
    /\ password' = p

Next ==
    \/ \E s \in Secrets, p \in Passwords : Put(s, p)
    \/ \E s \in Secrets : PutLazy(s) \/ Drop(s)
    \/ \E p \in Passwords : Get(p) \/ Rekey(p)

Spec == Init /\ [][Next]_vars

================================================================================
