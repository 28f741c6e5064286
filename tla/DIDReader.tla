------------------------------- MODULE DIDReader -------------------------------
(***************************************************************************)
(* What resolving promises the process that does it: the versions of a DID *)
(* only accumulate; an answer tells of a version that was there; answers   *)
(* never go back to an older version, and never behind a version that this *)
(* process published itself.  Nothing is promised about how new an answer  *)
(* is otherwise.  DIDResolver, with its cache, is shown to implement this. *)
(***************************************************************************)
EXTENDS Naturals

CONSTANT Dids

VARIABLES
    length,     \* versions there are
    own,        \* the last one this process knows it published
    view        \* the one its last answer told of

vars == <<length, own, view>>

Init ==
    /\ length = [d \in Dids |-> 0]
    /\ own = [d \in Dids |-> 0]
    /\ view = [d \in Dids |-> 0]

Grow(d) ==
    /\ length' = [length EXCEPT ![d] = @ + 1]
    /\ UNCHANGED <<own, view>>

Publish(d) ==
    /\ \E n \in own[d]..length[d] : own' = [own EXCEPT ![d] = n]
    /\ UNCHANGED <<length, view>>

Read(d) ==
    /\ \E n \in view[d]..length[d] :
          /\ n >= own[d]
          /\ view' = [view EXCEPT ![d] = n]
    /\ UNCHANGED <<length, own>>

Next == \E d \in Dids : Grow(d) \/ Publish(d) \/ Read(d)

Spec == Init /\ [][Next]_vars

================================================================================
