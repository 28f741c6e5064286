------------------------------- MODULE Ownership -------------------------------
(***************************************************************************)
(* What a customized DID promises its controllers: it is theirs until as   *)
(* many of them as its multisig asks for have agreed, since its last        *)
(* transaction, to hand it to one named receiver, who then is one of the    *)
(* new controllers; changing anything else takes the agreement back.        *)
(***************************************************************************)
EXTENDS Naturals, FiniteSets

CONSTANTS Controllers

VARIABLES
    owners,    \* the controllers in force; none before the DID is created
    quorum,    \* how many of them have to agree
    agreed,    \* per receiver: who agreed to hand the DID over to it
    closed     \* deactivated

vars == <<owners, quorum, agreed, closed>>

NoAgreement == [to \in Controllers |-> {}]

InForce == owners # {} /\ ~closed

Install(new, q) ==
    /\ new \subseteq Controllers
    /\ q \in 1..Cardinality(new)
    /\ owners' = new
    /\ quorum' = q
    /\ agreed' = NoAgreement
    /\ UNCHANGED closed

Init ==
    /\ owners = {}
    /\ quorum = 0
    /\ agreed = NoAgreement
    /\ closed = FALSE

Create(new, q) == owners = {} /\ ~closed /\ Install(new, q)

Update == InForce /\ agreed' = NoAgreement /\ UNCHANGED <<owners, quorum, closed>>

Agree(c, to) ==
    /\ c \in owners
    /\ agreed' = [agreed EXCEPT ![to] = @ \cup {c}]
    /\ UNCHANGED <<owners, quorum, closed>>

HandOver(new, q, to) ==
    /\ InForce
    /\ Cardinality(agreed[to]) >= quorum
    /\ to \in new
    /\ Install(new, q)

Close == InForce /\ closed' = TRUE /\ UNCHANGED <<owners, quorum, agreed>>

Next ==
    \/ \E new \in SUBSET Controllers, q \in 1..Cardinality(Controllers) :
          \/ Create(new, q)
          \/ \E to \in Controllers : HandOver(new, q, to)
    \/ \E c, to \in Controllers : Agree(c, to)
    \/ Update
    \/ Close

Spec == Init /\ [][Next]_vars

================================================================================
