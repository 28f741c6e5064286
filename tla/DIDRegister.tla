------------------------------ MODULE DIDRegister ------------------------------
(***************************************************************************)
(* What publishing promises about one DID, seen from the chain: a register *)
(* whose versions only accumulate, written by several stores (devices of   *)
(* the same owner) that do not talk to each other.  A store replaces a     *)
(* version only if it knows that version: it sealed it, it read it from    *)
(* the chain, or its user told it to overwrite it.  Nothing is written     *)
(* once the DID is deactivated.  DIDPublish is shown to implement this.    *)
(***************************************************************************)
EXTENDS Naturals, Sequences

CONSTANTS
    Stores,       \* the DID stores that may publish the DID
    Versions,     \* the sealed documents, identified by their proof signature
    Author        \* the store that sealed each version

VARIABLES
    history,      \* the versions on the chain, oldest first
    closed,       \* the last transaction deactivated the DID
    seen          \* per store, the versions it has read or may overwrite

vars == <<history, closed, seen>>

Last(s) == s[Len(s)]

Knows(s, v) == Author[v] = s \/ v \in seen[s]

Init ==
    /\ history = <<>>
    /\ closed = FALSE
    /\ seen = [s \in Stores |-> {}]

\* A store comes to know a version that is, or was, the head.
Read(s) ==
    \E i \in 1..Len(history) :
        /\ seen' = [seen EXCEPT ![s] = @ \cup {history[i].ver}]
        /\ UNCHANGED <<history, closed>>

\* A store puts a version on top of the head, which it knows.
Write(s) ==
    \E v \in Versions :
        /\ history # <<>> => ~closed /\ Knows(s, Last(history).ver)
        /\ history' = Append(history, [ver |-> v, by |-> s])
        /\ UNCHANGED <<closed, seen>>

Close ==
    /\ history # <<>>
    /\ closed' = TRUE
    /\ UNCHANGED <<history, seen>>

Next ==
    \/ \E s \in Stores : Read(s) \/ Write(s)
    \/ Close

Spec == Init /\ [][Next]_vars

================================================================================
