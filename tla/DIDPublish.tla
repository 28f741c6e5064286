------------------------------ MODULE DIDPublish ------------------------------
(***************************************************************************)
(* One DID, kept by several stores (the devices of one owner) and published *)
(* by each of them: DIDDocument_PublishDID with its up-to-date check, the   *)
(* metadata the check reads, and everything that moves documents and        *)
(* metadata between the application's handles, the files of the stores and  *)
(* the chain (NewDID, Edit/Seal, StoreDID, LoadDID, DeleteDID, the metadata *)
(* setters, DeactivateDID, SynchronizeByIndex).                             *)
(*                                                                          *)
(* The DID is an ordinary one (one proof, no controllers).  A document is   *)
(* its proof signature, a pair <<store that sealed it, number>>.  Expiry,   *)
(* keys and passwords are left out, and so is the resolver cache: every     *)
(* resolve here is forced.  Each store is used by one thread; a file is     *)
(* written at once, and a crash can come between two files.                 *)
(***************************************************************************)
EXTENDS Naturals, Sequences, FiniteSets

CONSTANTS
    Stores,       \* the stores
    Slots,        \* the document handles the application of a store holds
    Prompt,       \* TRUE: CreateIdTransaction returns what became of the
                  \* transaction (the dummy adapter); FALSE: it only submits
    MaxSeals,     \* bound: documents sealed
    MaxTx,        \* bound: documents on the chain
    MaxPool,      \* bound: transactions waiting to be settled
    MaxUpsets,    \* bound: crashes, failed writes and deleted documents
    Absent        \* no document; no value for a metadata key

Versions == Stores \X (1..MaxSeals)
Handles == Stores \X Slots

ASSUME PublishAssumption ==
    /\ Prompt \in BOOLEAN
    /\ MaxSeals \in Nat
    /\ MaxTx \in Nat
    /\ MaxPool \in Nat
    /\ MaxUpsets \in Nat
    /\ Absent \notin Versions
    /\ Absent \notin BOOLEAN

VARIABLES
    chain,        \* documents on the chain, oldest first; a txid is a position
    closed,       \* the newest transaction is a deactivation
    pool,         \* transactions submitted and not yet settled
    disk,         \* per store: the document file and the metadata file
    handle,       \* per handle: the document in memory
    job,          \* per store: the PublishDID call in progress
    seals,        \* how many documents have been sealed
    upsets,       \* how many of the MaxUpsets have happened
    seen          \* history, per store: versions it read from the chain, or
                  \* was told by its user (force) to overwrite unread

vars == <<chain, closed, pool, disk, handle, job, seals, upsets, seen>>

MaybeVersion == Versions \cup {Absent}

Metadata == [signature : MaybeVersion, prevSignature : MaybeVersion,
             deactivated : BOOLEAN \cup {Absent}]

StoredDID == [doc : MaybeVersion, meta : Metadata]

Handle == [doc : MaybeVersion, meta : Metadata, named : BOOLEAN]

Job == [step : {"idle", "checked"}, slot : Slots \cup {Absent},
        txid : 0..MaxTx, head : MaybeVersion]

Tx == [op : {"create", "update", "deactivate"}, ver : MaybeVersion,
       prev : 0..MaxTx, by : Stores]

NoMetadata ==
    [signature |-> Absent, prevSignature |-> Absent, deactivated |-> Absent]

NoHandle == [doc |-> Absent, meta |-> NoMetadata, named |-> FALSE]

NoJob == [step |-> "idle", slot |-> Absent, head |-> Absent, txid |-> 0]

ChainHead == chain[Len(chain)].ver

Knows(s, v) == v[1] = s \/ v \in seen[s]

--------------------------------------------------------------------------------
\* Metadata_Merge: the target keeps its own values and takes the missing ones.
Merge(to, from) ==
    LET pick(a, b) == IF a = Absent THEN b ELSE a IN
    [signature |-> pick(to.signature, from.signature),
     prevSignature |-> pick(to.prevSignature, from.prevSignature),
     deactivated |-> pick(to.deactivated, from.deactivated)]

\* Bug for the mutants: a document without signatures passes the check.
UpToDateIfUnsigned(meta, head) ==
    head \in {meta.signature, meta.prevSignature} \/ meta.signature = Absent

\* The up-to-date check of PublishDID when it is not forced.
UpToDate(meta, head) ==
    \/ meta.signature = head
    \/ meta.prevSignature = head

\* Bug for the mutants: the chain does not compare the previous txid.
ValidAnyPrev(tx) ==
    /\ (tx.op = "create") = (chain = <<>>)
    /\ ~closed

\* What the chain accepts (create_didtransaction of the dummy adapter).
Valid(tx) ==
    \/ tx.op = "create" /\ chain = <<>>
    \/ tx.op = "update" /\ chain # <<>> /\ ~closed /\ tx.prev = Len(chain)
    \/ tx.op = "deactivate" /\ chain # <<>> /\ ~closed

Apply(tx) ==
    IF tx.op = "deactivate"
    THEN closed' = TRUE /\ UNCHANGED chain
    ELSE /\ Len(chain) < MaxTx
         /\ chain' = Append(chain, [ver |-> tx.ver, by |-> tx.by])
         /\ UNCHANGED closed

\* CreateIdTransaction; ok is what the callback returns.  One that only submits may
\* report a failure, a lost answer say, of a transaction that it did submit.
Submit(tx, ok) ==
    IF Prompt
    THEN /\ ok = Valid(tx)
         /\ IF ok THEN Apply(tx) ELSE UNCHANGED <<chain, closed>>
         /\ UNCHANGED pool
    ELSE /\ Cardinality(pool) < MaxPool
         /\ pool' = pool \cup {tx} \/ (~ok /\ UNCHANGED pool)
         /\ UNCHANGED <<chain, closed>>

Idle(s) == job[s].step = "idle"

Open(h) == Idle(h[1]) /\ handle[h].doc # Absent

Upset == upsets < MaxUpsets /\ upsets' = upsets + 1

\* The process that uses store s ends: handles and calls in progress are gone.
Die(s) ==
    /\ handle' = [h \in Handles |-> IF h[1] = s THEN NoHandle ELSE handle[h]]
    /\ job' = [job EXCEPT ![s] = NoJob]
    /\ Upset

\* DIDStore_StoreDID writes the document file, then the metadata file.
StoreDID(s, doc, meta) ==
    /\ disk' = [disk EXCEPT ![s] = [doc |-> doc, meta |-> meta]]
    /\ UNCHANGED upsets

StoreDIDCut(s, doc) == disk' = [disk EXCEPT ![s].doc = doc] /\ Die(s)

\* When a write fails the document file is deleted, the old document with it.
StoreDIDFailed(s) == disk' = [disk EXCEPT ![s].doc = Absent] /\ Upset

RemoveDID(s) ==
    disk' = [disk EXCEPT ![s] = [doc |-> Absent, meta |-> NoMetadata]] /\ Upset

\* A metadata setter writes the file only if the handle knows its DID string.
Persist(h, hd) ==
    disk' = IF hd.named THEN [disk EXCEPT ![h[1]].meta = hd.meta] ELSE disk

--------------------------------------------------------------------------------
Init ==
    /\ chain = <<>>
    /\ closed = FALSE
    /\ pool = {}
    /\ disk = [s \in Stores |-> [doc |-> Absent, meta |-> NoMetadata]]
    /\ handle = [h \in Handles |-> NoHandle]
    /\ job = [s \in Stores |-> NoJob]
    /\ seals = 0
    /\ upsets = 0
    /\ seen = [s \in Stores |-> {}]

\* RootIdentity_NewDIDByIndex.  A resolve that fails counts as "not published",
\* and the metadata a store still has for the DID are merged into the new one's.
NewDID(h, overwrite, reachable) ==
    LET s == h[1]
        v == <<s, seals + 1>>
        meta == Merge([NoMetadata EXCEPT !.deactivated = FALSE], disk[s].meta)
    IN  /\ Idle(s)
        /\ seals < MaxSeals
        /\ disk[s].doc # Absent => overwrite /\ disk[s].meta.deactivated # TRUE
        /\ reachable /\ chain # <<>> => overwrite /\ ~closed
        /\ seals' = seals + 1
        /\ \/ /\ StoreDID(s, v, meta)
              /\ handle' = [handle EXCEPT ![h] = [doc |-> v, meta |-> meta, named |-> TRUE]]
              /\ UNCHANGED job
           \/ StoreDIDCut(s, v)
           \/ RemoveDID(s) /\ UNCHANGED <<handle, job>>     \* StoreDID failed
        /\ UNCHANGED <<chain, closed, pool, seen>>

\* DIDDocument_Edit, a builder operation and DIDDocumentBuilder_Seal, neither of which
\* refuses the document of a DID that was deactivated.
EditSeal(h) ==
    LET s == h[1] IN
    /\ Open(h)
    /\ seals < MaxSeals
    /\ seals' = seals + 1
    /\ handle' = [handle EXCEPT ![h].doc = <<s, seals + 1>>, ![h].named = FALSE]
    /\ UNCHANGED <<chain, closed, pool, disk, job, upsets, seen>>

\* Bug for the mutants: storing a document marks it as the published one.
StoredMetaSigned(h) ==
    [Merge(handle[h].meta, disk[h[1]].meta) EXCEPT !.signature = handle[h].doc]

StoredMeta(h) == Merge(handle[h].meta, disk[h[1]].meta)

\* DIDStore_StoreDID of a handle.
StoreDoc(h) ==
    LET s == h[1] IN
    /\ Open(h)
    /\ \/ /\ StoreDID(s, handle[h].doc, StoredMeta(h)) \/ StoreDIDFailed(s)
          /\ handle' = [handle EXCEPT ![h].meta = StoredMeta(h), ![h].named = TRUE]
          /\ UNCHANGED job
       \/ StoreDIDCut(s, handle[h].doc)
    /\ UNCHANGED <<chain, closed, pool, seals, seen>>

\* DIDStore_LoadDID: the metadata comes without the DID string.
LoadDID(h) ==
    LET s == h[1] IN
    /\ Idle(s)
    /\ disk[s].doc # Absent
    /\ handle' = [handle EXCEPT
                    ![h] = [doc |-> disk[s].doc, meta |-> disk[s].meta, named |-> FALSE]]
    /\ UNCHANGED <<chain, closed, pool, disk, job, seals, upsets, seen>>

\* DIDStore_DeleteDID.  Handles on the document stay as they are.
DeleteDID(s) ==
    /\ Idle(s)
    /\ disk[s].doc # Absent
    /\ RemoveDID(s)
    /\ UNCHANGED <<chain, closed, pool, handle, job, seals, seen>>

\* DIDMetadata_SetAlias and the other public setters rewrite the whole file.
SetAlias(h) ==
    /\ Open(h)
    /\ handle[h].named
    /\ Persist(h, handle[h])
    /\ UNCHANGED <<chain, closed, pool, handle, job, seals, upsets, seen>>

\* Bug for the mutants: the txid sent along is one too low.
ResolvedTxidPrevious == Len(chain) - 1

ResolvedTxid == Len(chain)

\* PublishDID up to the decision: resolve, refuse, or go on with what it found.
PublishCheck(h, force) ==
    LET s == h[1] IN
    /\ Open(h)
    /\ handle[h].meta.deactivated # TRUE
    /\ chain # <<>> => ~closed /\ (force \/ UpToDate(handle[h].meta, ChainHead))
    /\ job' = [job EXCEPT ![s] =
                 [step |-> "checked", slot |-> h[2], txid |-> ResolvedTxid,
                  head |-> IF chain = <<>> THEN Absent ELSE ChainHead]]
    /\ seen' = IF force /\ chain # <<>>
               THEN [seen EXCEPT ![s] = @ \cup {ChainHead}] ELSE seen
    /\ UNCHANGED <<chain, closed, pool, disk, handle, seals, upsets>>

\* SetTxid, DIDBackend_CreateDID or DIDBackend_UpdateDID and, when the
\* transaction is accepted, SetSignature and SetPrevSignature.  A crash can cut
\* this short after the transaction or after SetSignature.
PublishSubmit(s, ok) ==
    LET j == job[s]
        h == <<s, j.slot>>
        hd == handle[h]
        create == j.head = Absent
        signed == [hd EXCEPT !.meta.signature = hd.doc]
        recorded == IF create THEN signed ELSE [signed EXCEPT !.meta.prevSignature = j.head]
        setTxid == IF create THEN UNCHANGED disk ELSE Persist(h, hd)
        finish(res) == /\ job' = [job EXCEPT ![s] = NoJob]
                       /\ handle' = [handle EXCEPT ![h] = res]
                       /\ UNCHANGED upsets
    IN  /\ j.step = "checked"
        /\ Submit([op |-> IF create THEN "create" ELSE "update",
                   ver |-> hd.doc, prev |-> j.txid, by |-> s], ok)
        /\ \/ ok /\ Persist(h, recorded) /\ finish(recorded)
           \/ ok /\ Persist(h, signed) /\ Die(s)
           \/ setTxid /\ Die(s)
           \/ ~ok /\ setTxid /\ finish(hd)
        /\ UNCHANGED <<seals, seen>>

\* DIDDocument_DeactivateDID: no local state changes.
DeactivateDID(h, ok) ==
    /\ Open(h)
    /\ chain # <<>>
    /\ Submit([op |-> "deactivate", ver |-> Absent, prev |-> 0, by |-> h[1]], ok)
    /\ UNCHANGED <<disk, handle, job, seals, upsets, seen>>

--------------------------------------------------------------------------------
\* RootIdentity_SynchronizeByIndex asks the conflict handler when the local
\* document is not the one that the local metadata call published.
Conflict(s) == disk[s].doc # Absent /\ disk[s].doc # disk[s].meta.signature

\* Bug for the mutants: every synchronized DID is marked deactivated.
SyncMetaDeactivated(s) ==
    [signature |-> ChainHead, prevSignature |-> disk[s].meta.prevSignature,
     deactivated |-> TRUE]

\* The metadata of the final copy, merged with the stored ones.
SyncMeta(s) ==
    [signature |-> ChainHead, prevSignature |-> disk[s].meta.prevSignature,
     deactivated |-> closed]

SyncStore(s, doc) ==
    /\ \/ /\ StoreDID(s, doc, SyncMeta(s)) \/ StoreDIDFailed(s)
          /\ UNCHANGED <<handle, job>>
       \/ StoreDIDCut(s, doc)
    /\ seen' = [seen EXCEPT ![s] = @ \cup {ChainHead}]
    /\ UNCHANGED <<chain, closed, pool>>

CanSync(s) == Idle(s) /\ chain # <<>>

\* No local document, or one that is unchanged since it was published.
SyncTakeChain(s) ==
    /\ CanSync(s)
    /\ ~Conflict(s)
    /\ SyncStore(s, ChainHead)
    /\ UNCHANGED seals

\* The handler returns the local copy (the default), the chain's, or a merge.
SyncConflict(s) ==
    /\ CanSync(s)
    /\ Conflict(s)
    /\ disk[s].meta.signature # Absent
    /\ \/ /\ SyncStore(s, disk[s].doc) \/ SyncStore(s, ChainHead)
          /\ UNCHANGED seals
       \/ /\ seals < MaxSeals
          /\ seals' = seals + 1
          /\ SyncStore(s, <<s, seals + 1>>)

\* A local document that was never published: the code reads through the
\* missing signature, and the process dies.
SyncMissingSignature(s) ==
    /\ CanSync(s)
    /\ Conflict(s)
    /\ disk[s].meta.signature = Absent
    /\ Die(s)
    /\ UNCHANGED <<chain, closed, pool, disk, seals, seen>>

Crash(s) ==
    /\ \/ ~Idle(s)
       \/ \E h \in Handles : h[1] = s /\ handle[h].doc # Absent
    /\ Die(s)
    /\ UNCHANGED <<chain, closed, pool, disk, seals, seen>>

\* The chain settles a submitted transaction.  One that is lost stays in the pool.
Confirm(tx) ==
    /\ Valid(tx)
    /\ Apply(tx)
    /\ pool' = pool \ {tx}
    /\ UNCHANGED <<disk, handle, job, seals, upsets, seen>>

Reject(tx) ==
    /\ ~Valid(tx)
    /\ pool' = pool \ {tx}
    /\ UNCHANGED <<chain, closed, disk, handle, job, seals, upsets, seen>>

HandleStep(h) ==
    \/ \E overwrite, reachable \in BOOLEAN : NewDID(h, overwrite, reachable)
    \/ EditSeal(h)
    \/ StoreDoc(h)
    \/ LoadDID(h)
    \/ SetAlias(h)
    \/ \E force \in BOOLEAN : PublishCheck(h, force)
    \/ \E ok \in BOOLEAN : DeactivateDID(h, ok)

StoreStep(s) ==
    \/ DeleteDID(s)
    \/ \E ok \in BOOLEAN : PublishSubmit(s, ok)
    \/ SyncTakeChain(s)
    \/ SyncConflict(s)
    \/ SyncMissingSignature(s)
    \/ Crash(s)

ChainStep == \E tx \in pool : Confirm(tx) \/ Reject(tx)

Next ==
    \/ \E h \in Handles : HandleStep(h)
    \/ \E s \in Stores : StoreStep(s)
    \/ ChainStep

Spec == Init /\ [][Next]_vars

--------------------------------------------------------------------------------
\* The types of the variables, and the bounds.
TypeOK ==
    /\ chain \in Seq([ver : Versions, by : Stores])
    /\ Len(chain) <= MaxTx
    /\ closed \in BOOLEAN
    /\ pool \subseteq Tx
    /\ disk \in [Stores -> StoredDID]
    /\ handle \in [Handles -> Handle]
    /\ job \in [Stores -> Job]
    /\ seals \in 0..MaxSeals
    /\ upsets \in 0..MaxUpsets
    /\ seen \in [Stores -> SUBSET Versions]

\* Lost updates: no store ever replaces, on the chain, a version that another
\* store sealed and that it neither read there nor was told (force) to
\* overwrite.  This is what the signature check of PublishDID is for; it has to
\* survive stale handles, merged metadata, crashes and racing transactions.
NoBlindOverwrite == \A i \in 2..Len(chain) : Knows(chain[i].by, chain[i - 1].ver)

MetaKnown(s, meta) ==
    \A v \in {meta.signature, meta.prevSignature} \ {Absent} : Knows(s, v)

DocKnown(s, doc) == doc # Absent => Knows(s, doc)

\* Whatever a store keeps, on disk or in a handle, names only versions it knows:
\* no path copies the signature of an unread version into the metadata, where
\* the up-to-date check would take it for a version this store has handled.
LocalKnown ==
    /\ \A s \in Stores : DocKnown(s, disk[s].doc) /\ MetaKnown(s, disk[s].meta)
    /\ \A h \in Handles :
          DocKnown(h[1], handle[h].doc) /\ MetaKnown(h[1], handle[h].meta)

\* A publication in progress rests on a version of the chain the store knows.
JobKnown ==
    \A s \in Stores : job[s].step = "checked" =>
        /\ job[s].slot \in Slots
        /\ handle[<<s, job[s].slot>>].doc # Absent
        /\ job[s].head # Absent =>
              /\ job[s].txid \in 1..Len(chain)
              /\ job[s].head = chain[job[s].txid].ver
              /\ Knows(s, job[s].head)

Justified(tx) ==
    /\ tx.op # "deactivate" => tx.ver # Absent
    /\ tx.op = "update" =>
          tx.prev \in 1..Len(chain) /\ Knows(tx.by, chain[tx.prev].ver)

\* So does every update that waits in the pool.
PoolKnown == \A tx \in pool : Justified(tx)

\* A store calls the DID deactivated only if it is: the flag stops every later
\* publication from the store and a new DID in its place, and nothing but a newer
\* chain copy can take it back.
DeactivatedTrue ==
    /\ \A s \in Stores : disk[s].meta.deactivated = TRUE => closed
    /\ \A h \in Handles : handle[h].meta.deactivated = TRUE => closed

\* The inductive invariant behind NoBlindOverwrite.
IInv == TypeOK /\ LocalKnown /\ JobKnown /\ PoolKnown /\ DeactivatedTrue
               /\ NoBlindOverwrite

OnChain(v) == \E i \in 1..Len(chain) : chain[i].ver = v

\* Synchronizing overwrites a local document without asking the conflict handler
\* only if that document is on the chain: no edit is discarded silently.
HandlerSeesUnpublished ==
    \A s \in Stores :
        CanSync(s) /\ ~Conflict(s) /\ disk[s].doc # Absent => OnChain(disk[s].doc)

Register == INSTANCE DIDRegister WITH
    history <- chain, Author <- [v \in Versions |-> v[1]]

\* The stores together implement the register that never loses an update.
ImplementsRegister == Register!Spec

================================================================================
