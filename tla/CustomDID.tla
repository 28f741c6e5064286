------------------------------- MODULE CustomDID -------------------------------
(***************************************************************************)
(* One customized DID and the controllers who edit, sign, merge, publish,  *)
(* transfer and deactivate it, each in an application of its own:           *)
(* DIDDocument_NewCustomizedDID, the builder operations that concern        *)
(* controllers, multisig and proofs (the others are in DocumentBuilder),    *)
(* DIDDocumentBuilder_Seal, DIDDocument_SignDIDDocument,                    *)
(* DIDDocument_MergeDIDDocuments, transfer tickets, DIDDocument_PublishDID, *)
(* DIDDocument_TransferDID and DIDDocument_DeactivateDID, and the chain.    *)
(*                                                                         *)
(* Documents and tickets travel between the controllers as JSON text, so    *)
(* whatever was sealed once may be used by anybody at any later time.       *)
(* Controllers are ordinary DIDs that stay published and valid; documents   *)
(* do not expire.  The store and the up-to-date check of PublishDID are the *)
(* subject of DIDPublish: here every publication may pass it, as with force.*)
(***************************************************************************)
EXTENDS Naturals, Sequences, FiniteSets

CONSTANTS
    Controllers,  \* ordinary DIDs, each with an application that has its keys
    None,
    MaxOps,       \* bound: builder operations of one editing session
    MaxEdition,   \* bound: editions of what a document says apart from the rest
    MaxSealed,    \* bound: different documents sealed
    MaxTickets,   \* bound: different tickets
    MaxPool,      \* bound: requests on their way to the chain
    MaxTx         \* bound: documents on the chain

ASSUME CustomAssumption ==
    /\ IsFiniteSet(Controllers)
    /\ None \notin Controllers
    /\ {MaxOps, MaxEdition, MaxSealed, MaxTickets, MaxPool, MaxTx} \subseteq Nat

VARIABLES
    sealed,       \* documents that DIDDocumentBuilder_Seal returned, and merged ones
    builder,      \* the editing session in progress, or None
    tickets,      \* transfer tickets, as they were after each signature
    pool,         \* requests made and not yet seen by the chain
    chain,        \* documents on the chain; a txid is a position
    closed        \* the last transaction is a deactivation

vars == <<sealed, builder, tickets, pool, chain, closed>>

\* A document: its controllers, its multisig, an edition that stands for the rest
\* of the text, and who has made a proof of that text.
Document ==
    {d \in [ctrls : SUBSET Controllers, m : 0..Cardinality(Controllers),
            edition : 0..MaxEdition, signers : SUBSET Controllers] :
        d.m <= Cardinality(d.ctrls) /\ d.signers \subseteq d.ctrls}

Builder == [by : Controllers, doc : Document, ops : 0..MaxOps]

Ticket == [txid : 1..MaxTx, to : Controllers, signers : SUBSET Controllers]

\* by is the controller whose key signs a deactivation; the key under any other
\* request is one of its document's.
Request == [op : {"create", "update", "transfer", "deactivate"},
            by : Controllers \cup {None}, doc : Document \cup {None},
            prev : 0..MaxTx, ticket : Ticket \cup {None}]

Latest == chain[Len(chain)]

Text(d) == <<d.ctrls, d.m, d.edition>>

--------------------------------------------------------------------------------
\* What the proofs of a document, and of a ticket for it, have to be.

Needed(d) == IF Cardinality(d.ctrls) > 1 THEN d.m ELSE 1

Qualified(d) == Cardinality(d.signers) = Needed(d)

\* DIDDocument_IsGenuine_Internal without the count.
Signed(d) == d.signers \subseteq d.ctrls

Genuine(d) == Qualified(d) /\ Signed(d)

\* TransferTicket_IsValid, with the document of transaction v as the ticket's.
TicketValid(t, v) ==
    /\ Genuine(chain[v])
    /\ Cardinality(t.signers) = Needed(chain[v])
    /\ t.signers \subseteq chain[v].ctrls
    /\ t.txid = v

--------------------------------------------------------------------------------
Init ==
    /\ sealed = {}
    /\ builder = None
    /\ tickets = {}
    /\ pool = {}
    /\ chain = <<>>
    /\ closed = FALSE

\* As JSON, a document of one controller has no multisig.
Json(d) == IF Cardinality(d.ctrls) > 1 THEN d ELSE [d EXCEPT !.m = 0]

Keep(d) ==
    /\ sealed' = sealed \cup {Json(d)}
    /\ Cardinality(sealed') <= MaxSealed
    /\ UNCHANGED <<tickets, pool, chain, closed>>

\* Bug for the mutants: proofs are added to a document that has enough.
CanSealMore(c, d) ==
    /\ Cardinality(d.ctrls) > 1 => d.m # 0
    /\ c \in d.ctrls \ d.signers
    /\ Signed(d)

\* DIDDocumentBuilder_Seal by controller c.
CanSeal(c, d) ==
    /\ Cardinality(d.ctrls) > 1 => d.m # 0
    /\ c \in d.ctrls \ d.signers
    /\ ~Qualified(d)
    /\ Signed(d)

Seal(c, d) == [d EXCEPT !.signers = @ \cup {c}]

\* DIDDocument_NewCustomizedDID.  The chain is asked unless force is given, and
\* a resolve that fails counts as "not there".
NewCustomizedDID(c, others, m) ==
    LET d == [ctrls |-> others \cup {c}, m |-> m, edition |-> 0, signers |-> {}]
    IN  /\ others \ {c} # {} => m <= Cardinality(d.ctrls)
        /\ CanSeal(c, d)
        /\ Keep(Seal(c, d))
        /\ UNCHANGED builder

\* DIDDocument_SignDIDDocument.
SignDIDDocument(c, d) ==
    /\ CanSeal(c, d)
    /\ Keep(Seal(c, d))
    /\ UNCHANGED builder

\* DIDDocument_MergeDIDDocuments: of documents with one text, d first, that do
\* not have enough proofs.  The m proofs to take are the first ones after a sort
\* that compares pointers, any m of them.  One of them with enough proofs would
\* be returned as it is.
MergeDIDDocuments(d, ds) ==
    /\ \A e \in ds : Text(e) = Text(d) /\ Signed(e) /\ ~Qualified(e)
    /\ \E taken \in SUBSET UNION {e.signers : e \in ds} :
          LET merged == [d EXCEPT !.signers = @ \cup taken] IN
          /\ Cardinality(taken) = d.m
          /\ Genuine(merged)
          /\ Keep(merged)
    /\ UNCHANGED builder

--------------------------------------------------------------------------------
\* Editing sessions.  A session neither reads nor changes anything that is shared
\* until it is sealed, so that its steps may as well be taken together: nothing
\* else happens meanwhile (Next), and one session at a time stands for any number.

Edit(c, d) ==
    /\ c \in d.ctrls
    /\ builder' = [by |-> c, doc |-> d, ops |-> 0]
    /\ UNCHANGED <<sealed, tickets, pool, chain, closed>>

Becomes(d) ==
    /\ builder.ops < MaxOps
    /\ builder' = [builder EXCEPT !.doc = d, !.ops = @ + 1]
    /\ UNCHANGED <<sealed, tickets, pool, chain, closed>>

\* clean_proofs
Clean(d) == [d EXCEPT !.signers = {}]

AddController(x) ==
    /\ x \notin builder.doc.ctrls
    /\ Becomes(Clean([builder.doc EXCEPT !.ctrls = @ \cup {x}, !.m = 0]))

\* Bug for the mutants: multisig and proofs stay.
RemoveControllerOnly(x) ==
    /\ x \in builder.doc.ctrls \ {builder.by}
    /\ Becomes([builder.doc EXCEPT !.ctrls = @ \ {x}])

RemoveController(x) ==
    /\ x \in builder.doc.ctrls \ {builder.by}
    /\ Becomes(Clean([builder.doc EXCEPT !.ctrls = @ \ {x}, !.m = 0]))

SetMultisig(m) ==
    /\ m \in 1..Cardinality(builder.doc.ctrls)
    /\ Becomes(Clean([builder.doc EXCEPT !.m = m]))

RemoveProof(x) ==
    /\ x \in builder.doc.signers
    /\ Becomes([builder.doc EXCEPT !.signers = @ \ {x}])

\* Any operation on keys, credentials, services or the expiration.
OtherEdit ==
    /\ builder.doc.edition < MaxEdition
    /\ Becomes(Clean([builder.doc EXCEPT !.edition = @ + 1]))

SealBuilder ==
    /\ CanSeal(builder.by, builder.doc)
    /\ Keep(Seal(builder.by, builder.doc))
    /\ builder' = None

\* DIDDocumentBuilder_Destroy without sealing.
Discard ==
    /\ builder' = None
    /\ UNCHANGED <<sealed, tickets, pool, chain, closed>>

Session ==
    /\ builder # None
    /\ \/ \E x \in Controllers :
             \/ AddController(x)
             \/ RemoveController(x)
             \/ RemoveProof(x)
       \/ \E m \in 1..Cardinality(Controllers) : SetMultisig(m)
       \/ OtherEdit
       \/ SealBuilder
       \/ Discard

--------------------------------------------------------------------------------
\* Tickets.  An unforced resolve gives the document of an earlier transaction
\* when that one is still in the cache.

Issue(t) ==
    /\ tickets' = tickets \cup {t}
    /\ Cardinality(tickets') <= MaxTickets
    /\ UNCHANGED <<sealed, builder, pool, chain, closed>>

\* DIDDocument_CreateTransferTicket: constructed, and signed by c.
CreateTransferTicket(c, to, v) ==
    /\ c \in chain[v].ctrls
    /\ Issue([txid |-> v, to |-> to, signers |-> {c}])

\* DIDDocument_SignTransferTicket; v is what c's application takes for the
\* owner's document.
SignTransferTicket(c, t, v) ==
    /\ Cardinality(t.signers) # Needed(chain[v])
    /\ c \in chain[v].ctrls \ t.signers
    /\ Issue([t EXCEPT !.signers = @ \cup {c}])

--------------------------------------------------------------------------------
\* Publishing: a request is made from what the chain says now ...

Send(r) ==
    /\ pool' = pool \cup {r}
    /\ Cardinality(pool') <= MaxPool
    /\ UNCHANGED <<sealed, builder, tickets, chain, closed>>

\* controllers_equals of the SDK: the flag is not reset, and once the first
\* controller of the chain's document is found, all of them are.  Which one comes
\* first is a matter of their names.
ControllersEqual(d, e) ==
    /\ Cardinality(d.ctrls) = Cardinality(e.ctrls)
    /\ d.ctrls \cap e.ctrls # {}

\* DIDDocument_PublishDID against the document on the chain.
SameOwnership(d) ==
    chain # <<>> => ~closed /\ ControllersEqual(d, Latest) /\ d.m = Latest.m

PublishDID(d) ==
    /\ Genuine(d)
    /\ SameOwnership(d)
    /\ Send([op |-> IF chain = <<>> THEN "create" ELSE "update", by |-> None,
             doc |-> d, prev |-> Len(chain), ticket |-> None])

\* DIDDocument_TransferDID: the document's own proofs are left to the chain.
TransferDID(d, t) ==
    /\ chain # <<>>
    /\ TicketValid(t, Len(chain))
    /\ t.to \in d.signers
    /\ Send([op |-> "transfer", by |-> None, doc |-> d, prev |-> Len(chain), ticket |-> t])

\* DIDDocument_DeactivateDID with the key of a controller of the copy at hand.
DeactivateDID(c, d) ==
    /\ chain # <<>>
    /\ c \in d.ctrls
    /\ Send([op |-> "deactivate", by |-> c, doc |-> None, prev |-> 0, ticket |-> None])

\* ... and reaches the chain later, or never.

InForce == chain # <<>> /\ ~closed

\* Bug for the mutants: the chain leaves the controllers to the SDK's check.
UpdateFitsAny(r) == InForce /\ r.prev = Len(chain)

UpdateFits(r) == InForce /\ r.prev = Len(chain) /\ r.doc.ctrls = Latest.ctrls

\* Bug for the mutants: the chain does not ask for the ticket's txid.
TransferFitsAny(r) ==
    /\ InForce
    /\ r.doc.ctrls # Latest.ctrls
    /\ TicketValid(r.ticket, r.ticket.txid)
    /\ r.ticket.to \in r.doc.ctrls

TransferFits(r) ==
    /\ InForce
    /\ r.doc.ctrls # Latest.ctrls
    /\ TicketValid(r.ticket, Len(chain))
    /\ r.ticket.to \in r.doc.ctrls

\* create_didtransaction of the dummy adapter, by operation.
Fits(r) ==
    \/ r.op = "create" /\ chain = <<>>
    \/ r.op = "update" /\ UpdateFits(r)
    \/ r.op = "transfer" /\ TransferFits(r)
    \/ r.op = "deactivate" /\ InForce /\ r.by \in Latest.ctrls

\* DIDRequest_IsValid of the document in the request.
Acceptable(r) == Fits(r) /\ (r.doc # None => Genuine(r.doc))

Settle(r) ==
    /\ pool' = pool \ {r}
    /\ IF ~Acceptable(r) THEN UNCHANGED <<chain, closed>>
       ELSE IF r.op = "deactivate" THEN closed' = TRUE /\ UNCHANGED chain
       ELSE /\ Len(chain) < MaxTx
            /\ chain' = Append(chain, r.doc)
            /\ UNCHANGED closed
    /\ UNCHANGED <<sealed, builder, tickets>>

\* The application dies before the request is sent.
Lose(r) == pool' = pool \ {r} /\ UNCHANGED <<sealed, builder, tickets, chain, closed>>

\* Everything but the session in progress.
Others ==
    \/ \E c \in Controllers :
          \/ \E others \in SUBSET Controllers, m \in 0..Cardinality(Controllers) :
                NewCustomizedDID(c, others, m)
          \/ \E d \in sealed : SignDIDDocument(c, d) \/ Edit(c, d) \/ DeactivateDID(c, d)
          \/ \E v \in 1..Len(chain) :
                \/ \E to \in Controllers : CreateTransferTicket(c, to, v)
                \/ \E t \in tickets : SignTransferTicket(c, t, v)
    \/ \E d \in sealed : PublishDID(d) \/ \E t \in tickets : TransferDID(d, t)
    \/ \E ds \in SUBSET sealed : \E d \in ds : MergeDIDDocuments(d, ds)
    \/ \E r \in pool : Settle(r) \/ Lose(r)

Next == Session \/ (builder = None /\ Others)

Spec == Init /\ [][Next]_vars

--------------------------------------------------------------------------------
TypeOK ==
    /\ sealed \subseteq Document
    /\ builder \in Builder \cup {None}
    /\ tickets \subseteq Ticket
    /\ pool \subseteq Request
    /\ chain \in Seq(Document) /\ Len(chain) <= MaxTx
    /\ closed \in BOOLEAN

\* Every document that leaves a builder or a merge can be taken on by the next
\* controller or published: its proofs are by controllers it has, there are never
\* more of them than its multisig asks for, and the multisig is one that its
\* controllers can reach, whatever was added, removed, signed and merged before
\* (DIDDocumentBuilder_Seal, DIDDocument_SignDIDDocument,
\* DIDDocument_MergeDIDDocuments).
SealedSound ==
    \A d \in sealed :
        /\ d.signers # {} /\ d.signers \subseteq d.ctrls
        /\ Cardinality(d.signers) <= Needed(d)
        /\ Needed(d) \in 1..Cardinality(d.ctrls)

\* What DIDDocument_PublishDID sends as an update has the controllers of the
\* document it is to replace; any others need a ticket ("Can't publish DID which
\* is changed controller, please transfer it.", diddocument.c).
UpdatesKeepControllers ==
    \A r \in pool : r.op = "update" => r.doc.ctrls = chain[r.prev].ctrls

\* For the refinement: who has signed a ticket of the last transaction.
Agreed(to) ==
    UNION {t.signers : t \in {u \in tickets : u.txid = Len(chain) /\ u.to = to}}

Owners == IF chain = <<>> THEN {} ELSE Latest.ctrls

O == INSTANCE Ownership WITH
        owners <- Owners,
        quorum <- IF chain = <<>> THEN 0 ELSE Needed(Latest),
        agreed <- [to \in Controllers |-> Agreed(to) \cap Owners]

\* The DID stays its controllers': documents sealed, signed and merged at any
\* time, tickets for earlier transactions, requests that arrive late or never and
\* publications that race with a transfer change nothing about whose it is, only a
\* ticket of the last transaction with the signatures the multisig asks for does,
\* and the receiver it names is then a controller
\* (DIDDocument_PublishDID, DIDDocument_TransferDID, TransferTicket_IsValid).
ImplementsOwnership == O!Spec

================================================================================
