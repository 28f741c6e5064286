--------------------------- MODULE DIDPublish_proofs ---------------------------
(***************************************************************************)
(* Proofs about DIDPublish, for any sets of stores and slots and any bounds *)
(***************************************************************************)
EXTENDS DIDPublish, SequenceTheorems, TLAPS

--------------------------------------------------------------------------------
\* The operators that build metadata, documents and transactions keep types.

\* Merging two metadata records gives a metadata record.
LEMMA MergeType ==
    ASSUME NEW a \in Metadata, NEW b \in Metadata
    PROVE  Merge(a, b) \in Metadata
BY DEF Merge, Metadata, MaybeVersion

\* What a handle and a store start with is well typed.
LEMMA NothingType == NoMetadata \in Metadata /\ NoHandle \in Handle /\ NoJob \in Job
<1>1. NoMetadata \in Metadata
    BY DEF NoMetadata, Metadata, MaybeVersion
<1>2. NoHandle \in Handle
    BY <1>1 DEF NoHandle, Handle, MaybeVersion
<1>3. NoJob \in Job
    BY PublishAssumption DEF NoJob, Job, MaybeVersion
<1> QED BY <1>1, <1>2, <1>3

\* What Append leaves in place and what it adds.
LEMMA AppendFacts ==
    ASSUME NEW S, NEW q \in Seq(S), NEW e \in S
    PROVE  /\ Append(q, e) \in Seq(S)
           /\ Len(q) \in Nat
           /\ Len(Append(q, e)) = Len(q) + 1
           /\ \A i \in 1..Len(q) : Append(q, e)[i] = q[i]
           /\ Append(q, e)[Len(q) + 1] = e
OBVIOUS

\* A chain that is not empty has a newest document.
LEMMA HeadFacts ==
    ASSUME TypeOK, chain # <<>>
    PROVE  /\ Len(chain) \in 1..Len(chain)
           /\ Len(chain) \in 1..MaxTx
           /\ ChainHead \in Versions
<1> DEFINE D == [ver : Versions, by : Stores]
<1>1. chain \in Seq(D) /\ Len(chain) <= MaxTx
    BY DEF TypeOK
<1> HIDE DEF D
<1>2. Len(chain) \in Nat /\ Len(chain) # 0
    BY <1>1, EmptySeq
<1>3. Len(chain) \in 1..Len(chain) /\ Len(chain) \in 1..MaxTx
    BY <1>1, <1>2, PublishAssumption
<1>4. chain[Len(chain)] \in D
    BY <1>1, <1>3
<1>5. ChainHead \in Versions
    BY <1>4 DEF D, ChainHead
<1> QED BY <1>3, <1>5

\* The chain grows by well-typed documents, within its bound, and closes for good.
LEMMA ApplyType ==
    ASSUME TypeOK, NEW tx \in Tx, tx.op # "deactivate" => tx.ver # Absent, Apply(tx)
    PROVE  /\ chain' \in Seq([ver : Versions, by : Stores])
           /\ Len(chain') <= MaxTx
           /\ closed' \in BOOLEAN
           /\ closed = TRUE => closed' = TRUE
           /\ Len(chain) \in Nat /\ Len(chain') \in Nat /\ Len(chain) <= Len(chain')
           /\ \A i \in 1..Len(chain) : chain'[i] = chain[i]
<1> DEFINE D == [ver : Versions, by : Stores]
           d == [ver |-> tx.ver, by |-> tx.by]
<1>0. chain \in Seq(D) /\ Len(chain) \in Nat /\ Len(chain) <= MaxTx /\ closed \in BOOLEAN
    BY DEF TypeOK
<1>1. CASE tx.op = "deactivate"
    <2>1. closed' = TRUE /\ chain' = chain
        BY <1>1 DEF Apply
    <2> QED BY <1>0, <2>1
<1>2. CASE tx.op # "deactivate"
    <2>1. d \in D
        BY <1>2 DEF Tx, MaybeVersion
    <2>2. Len(chain) < MaxTx /\ chain' = Append(chain, d) /\ closed' = closed
        BY <1>2 DEF Apply
    <2> HIDE DEF D, d
    <2>3. /\ chain' \in Seq(D)
          /\ Len(chain') = Len(chain) + 1
          /\ \A i \in 1..Len(chain) : chain'[i] = chain[i]
        BY <1>0, <2>1, <2>2, AppendFacts
    <2>4. Len(chain') <= MaxTx
        BY <1>0, <2>2, <2>3, PublishAssumption
    <2>5. chain' \in Seq([ver : Versions, by : Stores])
        BY <2>3 DEF D
    <2> QED BY <1>0, <2>2, <2>3, <2>4, <2>5
<1> QED BY <1>1, <1>2

\* Submitting a transaction keeps the chain and the pool typed; in both modes the
\* chain only grows and stays closed.
LEMMA SubmitType ==
    ASSUME TypeOK, NEW tx \in Tx, NEW ok \in BOOLEAN, Submit(tx, ok),
           tx.op # "deactivate" => tx.ver # Absent
    PROVE  /\ chain' \in Seq([ver : Versions, by : Stores])
           /\ Len(chain') <= MaxTx
           /\ closed' \in BOOLEAN
           /\ closed = TRUE => closed' = TRUE
           /\ Len(chain) \in Nat /\ Len(chain') \in Nat /\ Len(chain) <= Len(chain')
           /\ \A i \in 1..Len(chain) : chain'[i] = chain[i]
           /\ pool' \subseteq Tx
<1>1. Apply(tx) \/ UNCHANGED <<chain, closed>>
    BY DEF Submit
<1>2. pool' \subseteq Tx
    BY DEF Submit, TypeOK
<1>3. CASE Apply(tx)
    BY <1>2, <1>3, ApplyType
<1>4. CASE UNCHANGED <<chain, closed>>
    BY <1>2, <1>4 DEF TypeOK
<1> QED BY <1>1, <1>3, <1>4

\* A crash leaves the handles and the call of a store empty, and the rest typed.
LEMMA DieType ==
    ASSUME TypeOK, NEW s \in Stores, Die(s)
    PROVE  handle' \in [Handles -> Handle] /\ job' \in [Stores -> Job]
           /\ upsets' \in 0..MaxUpsets
<1>1. upsets' \in 0..MaxUpsets
    BY PublishAssumption DEF Die, Upset, TypeOK
<1> QED BY <1>1, NothingType DEF Die, TypeOK

\* Every way of writing a store's files keeps them typed.
LEMMA StoreType ==
    ASSUME TypeOK, NEW s \in Stores, NEW doc \in MaybeVersion, NEW meta \in Metadata,
           \/ StoreDID(s, doc, meta)
           \/ StoreDIDCut(s, doc)
           \/ StoreDIDFailed(s)
           \/ RemoveDID(s)
    PROVE  disk' \in [Stores -> StoredDID] /\ upsets' \in 0..MaxUpsets
<1>0. Absent \in MaybeVersion
    BY DEF MaybeVersion
<1>1. upsets' \in 0..MaxUpsets
    BY DieType, PublishAssumption
       DEF StoreDID, StoreDIDCut, StoreDIDFailed, RemoveDID, Upset, TypeOK
<1>2. CASE StoreDID(s, doc, meta)
    BY <1>1, <1>2 DEF StoreDID, TypeOK, StoredDID
<1>3. CASE StoreDIDCut(s, doc)
    BY <1>1, <1>3 DEF StoreDIDCut, TypeOK, StoredDID
<1>4. CASE StoreDIDFailed(s)
    BY <1>0, <1>1, <1>4 DEF StoreDIDFailed, TypeOK, StoredDID
<1>5. CASE RemoveDID(s)
    BY <1>0, <1>1, <1>5, NothingType DEF RemoveDID, TypeOK, StoredDID
<1> QED BY <1>2, <1>3, <1>4, <1>5

\* So does a metadata setter.
LEMMA PersistType ==
    ASSUME TypeOK, NEW h \in Handles, NEW hd \in Handle, Persist(h, hd)
    PROVE  disk' \in [Stores -> StoredDID]
<1>1. h[1] \in Stores /\ hd.meta \in Metadata
    BY DEF Handles, Handle
<1> QED BY <1>1 DEF Persist, TypeOK, StoredDID

\* The next document a store seals is a version.
LEMMA SealType ==
    ASSUME TypeOK, seals < MaxSeals, NEW s \in Stores
    PROVE  /\ <<s, seals + 1>> \in Versions
           /\ seals + 1 \in 0..MaxSeals
BY PublishAssumption DEF TypeOK, Versions

--------------------------------------------------------------------------------
\* Type correctness, one lemma for each group of actions of Next.

\* Init is typed.
LEMMA TypeInit == Init => TypeOK
<1> SUFFICES ASSUME Init PROVE TypeOK
    OBVIOUS
<1>1. chain \in Seq([ver : Versions, by : Stores]) /\ Len(chain) <= MaxTx
    BY PublishAssumption DEF Init
<1>2. [doc |-> Absent, meta |-> NoMetadata] \in StoredDID
    BY NothingType DEF StoredDID, MaybeVersion
<1>3. /\ disk \in [Stores -> StoredDID]
      /\ handle \in [Handles -> Handle]
      /\ job \in [Stores -> Job]
      /\ seen \in [Stores -> SUBSET Versions]
    BY <1>2, NothingType DEF Init
<1>4. closed \in BOOLEAN /\ pool \subseteq Tx
    BY DEF Init
<1>5. seals \in 0..MaxSeals /\ upsets \in 0..MaxUpsets
    BY PublishAssumption DEF Init
<1> QED BY <1>1, <1>3, <1>4, <1>5 DEF TypeOK

\* The actions of a handle keep the types.
LEMMA TypeHandleStep ==
    ASSUME TypeOK, NEW h \in Handles, HandleStep(h)
    PROVE  TypeOK'
<1> DEFINE s == h[1]
<1>0. /\ s \in Stores /\ h[2] \in Slots
      /\ handle[h] \in Handle /\ handle[h].doc \in MaybeVersion
      /\ handle[h].meta \in Metadata
      /\ disk[s] \in StoredDID /\ disk[s].doc \in MaybeVersion /\ disk[s].meta \in Metadata
      /\ job[s] \in Job
    BY DEF TypeOK, Handles, Handle, StoredDID
<1> HIDE DEF s
<1>1. ASSUME NEW overwrite \in BOOLEAN, NEW reachable \in BOOLEAN,
             NewDID(h, overwrite, reachable)
      PROVE  TypeOK'
    <2> DEFINE v == <<s, seals + 1>>
               meta == Merge([NoMetadata EXCEPT !.deactivated = FALSE], disk[s].meta)
               new == [doc |-> v, meta |-> meta, named |-> TRUE]
    <2>1. v \in Versions /\ seals' \in 0..MaxSeals
        BY <1>0, <1>1, SealType DEF NewDID, s
    <2>2. [NoMetadata EXCEPT !.deactivated = FALSE] \in Metadata
        BY DEF NoMetadata, Metadata, MaybeVersion
    <2>3. meta \in Metadata
        BY <1>0, <2>2, MergeType
    <2>4. v \in MaybeVersion /\ new \in Handle
        BY <2>1, <2>3 DEF Handle, MaybeVersion
    <2>5. /\ \/ /\ StoreDID(s, v, meta)
                /\ handle' = [handle EXCEPT ![h] = new]
                /\ UNCHANGED job
             \/ StoreDIDCut(s, v)
             \/ RemoveDID(s) /\ UNCHANGED <<handle, job>>
          /\ UNCHANGED <<chain, closed, pool, seen>>
        BY <1>1 DEF NewDID, s
    <2> HIDE DEF v, meta, new
    <2>6. disk' \in [Stores -> StoredDID] /\ upsets' \in 0..MaxUpsets
        BY <1>0, <2>3, <2>4, <2>5, StoreType
    <2>7. handle' \in [Handles -> Handle] /\ job' \in [Stores -> Job]
        <3>1. CASE StoreDIDCut(s, v)
            BY <1>0, <3>1, DieType DEF StoreDIDCut
        <3>2. CASE ~StoreDIDCut(s, v)
            BY <2>4, <2>5, <3>2 DEF TypeOK
        <3> QED BY <3>1, <3>2
    <2> QED BY <2>1, <2>5, <2>6, <2>7 DEF TypeOK
<1>2. CASE EditSeal(h)
    <2>1. <<s, seals + 1>> \in MaybeVersion /\ seals' \in 0..MaxSeals
        BY <1>0, <1>2, SealType DEF EditSeal, s, MaybeVersion
    <2>2. handle' \in [Handles -> Handle]
        BY <1>0, <1>2, <2>1 DEF EditSeal, TypeOK, Handle, s
    <2> QED BY <1>2, <2>1, <2>2 DEF EditSeal, TypeOK
<1>3. CASE StoreDoc(h)
    <2>1. StoredMeta(h) \in Metadata
        BY <1>0, MergeType DEF StoredMeta, s
    <2>2. disk' \in [Stores -> StoredDID] /\ upsets' \in 0..MaxUpsets
        BY <1>0, <1>3, <2>1, StoreType DEF StoreDoc, s
    <2>3. handle' \in [Handles -> Handle] /\ job' \in [Stores -> Job]
        <3>1. CASE StoreDIDCut(s, handle[h].doc)
            BY <1>0, <3>1, DieType DEF StoreDIDCut
        <3>2. CASE ~StoreDIDCut(s, handle[h].doc)
            BY <1>0, <1>3, <2>1, <3>2 DEF StoreDoc, TypeOK, Handle, s
        <3> QED BY <3>1, <3>2
    <2> QED BY <1>3, <2>2, <2>3 DEF StoreDoc, TypeOK
<1>4. CASE LoadDID(h)
    <2>1. handle' \in [Handles -> Handle]
        BY <1>0, <1>4 DEF LoadDID, TypeOK, Handle, s
    <2> QED BY <1>4, <2>1 DEF LoadDID, TypeOK
<1>5. CASE SetAlias(h)
    <2>1. disk' \in [Stores -> StoredDID]
        BY <1>0, <1>5, PersistType DEF SetAlias
    <2> QED BY <1>5, <2>1 DEF SetAlias, TypeOK
<1>6. ASSUME NEW force \in BOOLEAN, PublishCheck(h, force)
      PROVE  TypeOK'
    <2> DEFINE head == IF chain = <<>> THEN Absent ELSE ChainHead
    <2>1. ResolvedTxid \in 0..MaxTx
        BY PublishAssumption DEF ResolvedTxid, TypeOK
    <2>2. chain # <<>> => ChainHead \in Versions
        BY HeadFacts
    <2>3. head \in MaybeVersion
        BY <2>2 DEF MaybeVersion
    <2>4. /\ job' = [job EXCEPT ![s] = [step |-> "checked", slot |-> h[2],
                                        txid |-> ResolvedTxid, head |-> head]]
          /\ UNCHANGED <<chain, closed, pool, disk, handle, seals, upsets>>
        BY <1>6 DEF PublishCheck, s
    <2>5. job' \in [Stores -> Job]
        BY <1>0, <2>1, <2>3, <2>4 DEF TypeOK, Job
    <2>6. seen' \in [Stores -> SUBSET Versions]
        BY <1>0, <1>6, <2>2 DEF PublishCheck, TypeOK
    <2> QED BY <2>4, <2>5, <2>6 DEF TypeOK
<1>7. ASSUME NEW ok \in BOOLEAN, DeactivateDID(h, ok)
      PROVE  TypeOK'
    <2> DEFINE tx == [op |-> "deactivate", ver |-> Absent, prev |-> 0, by |-> h[1]]
    <2>1. tx \in Tx /\ tx.op = "deactivate"
        BY <1>0, PublishAssumption DEF Tx, MaybeVersion, s
    <2>2. Submit(tx, ok) /\ UNCHANGED <<disk, handle, job, seals, upsets, seen>>
        BY <1>7 DEF DeactivateDID
    <2> HIDE DEF tx
    <2> QED BY <2>1, <2>2, SubmitType DEF TypeOK
<1> QED BY <1>1, <1>2, <1>3, <1>4, <1>5, <1>6, <1>7 DEF HandleStep

\* Submitting the transaction of a publication keeps the types.  The conjuncts of
\* JobKnown it needs say that a checked publication has a slot and a document.
LEMMA TypePublishSubmit ==
    ASSUME TypeOK, JobKnown, NEW s \in Stores, NEW ok \in BOOLEAN, PublishSubmit(s, ok)
    PROVE  TypeOK'
<1> DEFINE j == job[s]
           h == <<s, j.slot>>
           hd == handle[h]
           create == j.head = Absent
           signed == [hd EXCEPT !.meta.signature = hd.doc]
           recorded == IF create THEN signed ELSE [signed EXCEPT !.meta.prevSignature = j.head]
           tx == [op |-> IF create THEN "create" ELSE "update",
                  ver |-> hd.doc, prev |-> j.txid, by |-> s]
           finish(res) == /\ job' = [job EXCEPT ![s] = NoJob]
                          /\ handle' = [handle EXCEPT ![h] = res]
                          /\ UNCHANGED upsets
<1>1. /\ j.step = "checked" /\ j \in Job /\ j.slot \in Slots /\ h \in Handles
      /\ hd \in Handle /\ hd.doc \in Versions /\ j.head \in MaybeVersion
      /\ j.txid \in 0..MaxTx
    BY DEF PublishSubmit, JobKnown, TypeOK, Job, Handles, Handle, MaybeVersion
<1>2. tx \in Tx /\ tx.op # "deactivate" /\ tx.ver = hd.doc /\ tx.ver # Absent
    BY <1>1, PublishAssumption DEF Tx, MaybeVersion
<1>3. signed \in Handle /\ recorded \in Handle
    <2>1. signed \in Handle
        BY <1>1 DEF Handle, Metadata, MaybeVersion
    <2>2. [signed EXCEPT !.meta.prevSignature = j.head] \in Handle
        BY <1>1, <2>1 DEF Handle, Metadata
    <2> QED BY <2>1, <2>2
<1>4. /\ Submit(tx, ok)
      /\ \/ ok /\ Persist(h, recorded) /\ finish(recorded)
         \/ ok /\ Persist(h, signed) /\ Die(s)
         \/ (IF create THEN UNCHANGED disk ELSE Persist(h, hd)) /\ Die(s)
         \/ ~ok /\ (IF create THEN UNCHANGED disk ELSE Persist(h, hd)) /\ finish(hd)
      /\ UNCHANGED <<seals, seen>>
    BY DEF PublishSubmit
<1> HIDE DEF tx, signed, recorded, create, hd, j, h
<1>5. disk' \in [Stores -> StoredDID]
    <2>1. CASE UNCHANGED disk
        BY <2>1 DEF TypeOK
    <2> QED BY <1>1, <1>3, <1>4, <2>1, PersistType
<1>6. handle' \in [Handles -> Handle] /\ job' \in [Stores -> Job] /\ upsets' \in 0..MaxUpsets
    <2>1. CASE Die(s)
        BY <2>1, DieType
    <2>2. CASE finish(recorded) \/ finish(hd)
        BY <1>1, <1>3, <2>2, NothingType DEF TypeOK
    <2> QED BY <1>4, <2>1, <2>2
<1> QED BY <1>2, <1>4, <1>5, <1>6, SubmitType DEF TypeOK

\* What a synchronization stores keeps the types.
LEMMA TypeSync ==
    ASSUME TypeOK, NEW s \in Stores, NEW doc \in Versions, chain # <<>>,
           SyncStore(s, doc), seals' \in 0..MaxSeals
    PROVE  TypeOK'
<1>1. SyncMeta(s) \in Metadata
    BY HeadFacts DEF SyncMeta, Metadata, MaybeVersion, TypeOK, StoredDID
<1>2. doc \in MaybeVersion
    BY DEF MaybeVersion
<1>3. disk' \in [Stores -> StoredDID] /\ upsets' \in 0..MaxUpsets
    BY <1>1, <1>2, StoreType DEF SyncStore
<1>4. handle' \in [Handles -> Handle] /\ job' \in [Stores -> Job]
    BY DieType DEF SyncStore, StoreDIDCut, TypeOK
<1>5. seen' \in [Stores -> SUBSET Versions]
    BY HeadFacts DEF SyncStore, TypeOK
<1> QED BY <1>3, <1>4, <1>5 DEF SyncStore, TypeOK

\* The actions of a store keep the types.
LEMMA TypeStoreStep ==
    ASSUME TypeOK, JobKnown, NEW s \in Stores, StoreStep(s)
    PROVE  TypeOK'
<1>1. CASE DeleteDID(s)
    <2>1. RemoveDID(s) /\ NoMetadata \in Metadata /\ Absent \in MaybeVersion
        BY <1>1, NothingType DEF DeleteDID, MaybeVersion
    <2>2. disk' \in [Stores -> StoredDID] /\ upsets' \in 0..MaxUpsets
        BY <2>1, StoreType
    <2> QED BY <1>1, <2>2 DEF DeleteDID, TypeOK
<1>2. ASSUME NEW ok \in BOOLEAN, PublishSubmit(s, ok)
      PROVE  TypeOK'
    BY <1>2, TypePublishSubmit
<1>3. CASE SyncTakeChain(s)
    <2>1. seals' \in 0..MaxSeals
        BY <1>3 DEF SyncTakeChain, TypeOK
    <2> QED BY <1>3, <2>1, HeadFacts, TypeSync DEF SyncTakeChain, CanSync
<1>4. CASE SyncConflict(s)
    <2>1. disk[s].doc \in Versions
        BY <1>4 DEF SyncConflict, Conflict, TypeOK, StoredDID, MaybeVersion
    <2>2. chain # <<>>
        BY <1>4 DEF SyncConflict, CanSync
    <2>3. CASE (SyncStore(s, disk[s].doc) \/ SyncStore(s, ChainHead)) /\ UNCHANGED seals
        <3>1. seals' \in 0..MaxSeals
            BY <2>3 DEF TypeOK
        <3> QED BY <2>1, <2>2, <2>3, <3>1, HeadFacts, TypeSync
    <2>4. CASE /\ seals < MaxSeals
               /\ seals' = seals + 1
               /\ SyncStore(s, <<s, seals + 1>>)
        BY <2>2, <2>4, SealType, TypeSync
    <2> QED BY <1>4, <2>3, <2>4 DEF SyncConflict
<1>5. CASE SyncMissingSignature(s) \/ Crash(s)
    <2>1. Die(s) /\ UNCHANGED <<chain, closed, pool, disk, seals, seen>>
        BY <1>5 DEF SyncMissingSignature, Crash
    <2> QED BY <2>1, DieType DEF TypeOK
<1> QED BY <1>1, <1>2, <1>3, <1>4, <1>5 DEF StoreStep

\* The chain keeps the types when it settles a transaction; PoolKnown says that
\* one that adds a document has a document.
LEMMA TypeChainStep ==
    ASSUME TypeOK, PoolKnown, ChainStep
    PROVE  TypeOK'
<1>1. PICK tx \in pool : Confirm(tx) \/ Reject(tx)
    BY DEF ChainStep
<1>2. tx \in Tx /\ (tx.op # "deactivate" => tx.ver # Absent)
    BY DEF TypeOK, PoolKnown, Justified
<1>3. CASE Confirm(tx)
    <2>1. /\ Apply(tx) /\ pool' \subseteq pool
          /\ UNCHANGED <<disk, handle, job, seals, upsets, seen>>
        BY <1>3 DEF Confirm
    <2> QED BY <1>2, <2>1, ApplyType DEF TypeOK
<1>4. CASE Reject(tx)
    BY <1>4 DEF Reject, TypeOK
<1> QED BY <1>1, <1>3, <1>4

--------------------------------------------------------------------------------
\* What the steps have in common: the chain and the knowledge of the stores grow.

Grows ==
    /\ Len(chain) \in Nat /\ Len(chain') \in Nat /\ Len(chain) <= Len(chain')
    /\ \A i \in 1..Len(chain) : chain'[i] = chain[i]
    /\ closed = TRUE => closed' = TRUE
    /\ \A s \in Stores : seen[s] \subseteq seen'[s]

\* A stored or held record r of store s names versions of s or of sn only, and is
\* deactivated only if cl.
Fine(s, r, sn, cl) ==
    /\ r.doc # Absent => r.doc[1] = s \/ r.doc \in sn
    /\ r.meta.signature # Absent => r.meta.signature[1] = s \/ r.meta.signature \in sn
    /\ r.meta.prevSignature # Absent =>
          r.meta.prevSignature[1] = s \/ r.meta.prevSignature \in sn
    /\ r.meta.deactivated = TRUE => cl = TRUE

LocalFine ==
    /\ \A s \in Stores : Fine(s, disk[s], seen[s], closed)
    /\ \A h \in Handles : Fine(h[1], handle[h], seen[h[1]], closed)

\* LocalFine is LocalKnown and DeactivatedTrue, record by record.
LEMMA LocalFineMeaning ==
    ASSUME TypeOK
    PROVE  LocalFine <=> LocalKnown /\ DeactivatedTrue
<1>1. closed \in BOOLEAN
    BY DEF TypeOK
<1> QED BY <1>1 DEF LocalFine, Fine, LocalKnown, DeactivatedTrue, DocKnown, MetaKnown, Knows

\* The same after a step.
LEMMA LocalFineNext ==
    ASSUME TypeOK', LocalFine'
    PROVE  LocalKnown' /\ DeactivatedTrue'
BY LocalFineMeaning, PTL

\* A record stays fine when the store learns versions or the DID is deactivated.
LEMMA FineMono ==
    ASSUME NEW s, NEW r, NEW sn1, NEW sn2, NEW c1, NEW c2,
           sn1 \subseteq sn2, c1 = TRUE => c2 = TRUE, Fine(s, r, sn1, c1)
    PROVE  Fine(s, r, sn2, c2)
BY DEF Fine

\* A record without a document and without metadata is fine.
LEMMA FineNothing ==
    ASSUME NEW s, NEW sn, NEW cl
    PROVE  /\ Fine(s, NoHandle, sn, cl)
           /\ Fine(s, [doc |-> Absent, meta |-> NoMetadata], sn, cl)
BY PublishAssumption DEF Fine, NoHandle, NoMetadata

\* Merging the metadata of two fine records gives fine metadata.
LEMMA FineMerge ==
    ASSUME NEW s, NEW sn, NEW cl, NEW doc, NEW named,
           NEW a \in Metadata, NEW b \in Metadata, doc # Absent => doc[1] = s \/ doc \in sn,
           Fine(s, [doc |-> Absent, meta |-> a], sn, cl),
           Fine(s, [doc |-> Absent, meta |-> b], sn, cl)
    PROVE  /\ Fine(s, [doc |-> doc, meta |-> Merge(a, b)], sn, cl)
           /\ Fine(s, [doc |-> doc, meta |-> Merge(a, b), named |-> named], sn, cl)
BY DEF Fine, Merge, Metadata

\* Publications in progress stay justified as long as their own handle is not
\* touched, whatever joins the chain.
LEMMA JobKeeps ==
    ASSUME TypeOK, JobKnown, Grows,
           \A t \in Stores :
              \/ job'[t].step = "idle"
              \/ job'[t] = job[t] /\ \A sl \in Slots : handle'[<<t, sl>>] = handle[<<t, sl>>]
    PROVE  JobKnown'
<1> SUFFICES ASSUME NEW t \in Stores, job'[t].step = "checked"
             PROVE  /\ job'[t].slot \in Slots
                    /\ handle'[<<t, job'[t].slot>>].doc # Absent
                    /\ job'[t].head # Absent =>
                          /\ job'[t].txid \in 1..Len(chain')
                          /\ job'[t].head = chain'[job'[t].txid].ver
                          /\ job'[t].head[1] = t \/ job'[t].head \in seen'[t]
    BY DEF JobKnown, Knows
<1>1. job'[t] = job[t] /\ \A sl \in Slots : handle'[<<t, sl>>] = handle[<<t, sl>>]
    OBVIOUS
<1>2. /\ job[t].slot \in Slots
      /\ handle[<<t, job[t].slot>>].doc # Absent
      /\ job[t].head # Absent =>
            /\ job[t].txid \in 1..Len(chain)
            /\ job[t].head = chain[job[t].txid].ver
            /\ job[t].head[1] = t \/ job[t].head \in seen[t]
    BY <1>1 DEF JobKnown, Knows
<1> QED BY <1>1, <1>2 DEF Grows

\* So do the transactions of the pool, a justified new one included.
LEMMA PoolKeeps ==
    ASSUME TypeOK, PoolKnown, Grows, \A u \in pool' : u \in pool \/ (u \in Tx /\ Justified(u))
    PROVE  PoolKnown'
<1> SUFFICES ASSUME NEW u \in pool'
             PROVE  /\ u.op # "deactivate" => u.ver # Absent
                    /\ u.op = "update" =>
                          /\ u.prev \in 1..Len(chain')
                          /\ \/ chain'[u.prev].ver[1] = u.by
                             \/ chain'[u.prev].ver \in seen'[u.by]
    BY DEF PoolKnown, Justified, Knows
<1>1. u \in Tx /\ u.by \in Stores
    BY DEF TypeOK, Tx
<1>2. /\ u.op # "deactivate" => u.ver # Absent
      /\ u.op = "update" =>
            /\ u.prev \in 1..Len(chain)
            /\ chain[u.prev].ver[1] = u.by \/ chain[u.prev].ver \in seen[u.by]
    BY DEF PoolKnown, Justified, Knows
<1> QED BY <1>1, <1>2 DEF Grows

\* A chain that is left alone has no new blind overwrite.
LEMMA BlindKeeps ==
    ASSUME TypeOK, NoBlindOverwrite, Grows, chain' = chain
    PROVE  NoBlindOverwrite'
<1> SUFFICES ASSUME NEW i \in 2..Len(chain)
             PROVE  \/ chain[i - 1].ver[1] = chain[i].by
                    \/ chain[i - 1].ver \in seen'[chain[i].by]
    BY DEF NoBlindOverwrite, Knows
<1>1. chain[i].by \in Stores
    <2> DEFINE D == [ver : Versions, by : Stores]
    <2>1. chain \in Seq(D) /\ i \in 1..Len(chain)
        BY DEF TypeOK, Grows
    <2> HIDE DEF D
    <2>2. chain[i] \in D
        BY <2>1
    <2> QED BY <2>2 DEF D
<1>2. \/ chain[i - 1].ver[1] = chain[i].by
      \/ chain[i - 1].ver \in seen[chain[i].by]
    BY DEF NoBlindOverwrite, Knows
<1> QED BY <1>1, <1>2 DEF Grows

\* What the chain accepts from a justified transaction is no blind overwrite: an
\* update names the newest transaction, and its author knows that version.
LEMMA BlindApply ==
    ASSUME TypeOK, NoBlindOverwrite, NEW tx \in Tx, Justified(tx), Valid(tx), Apply(tx),
           Grows, UNCHANGED seen
    PROVE  NoBlindOverwrite'
<1>1. CASE tx.op = "deactivate"
    BY <1>1, BlindKeeps DEF Apply
<1>2. CASE tx.op # "deactivate"
    <2> DEFINE D == [ver : Versions, by : Stores]
               d == [ver |-> tx.ver, by |-> tx.by]
    <2>1. chain \in Seq(D) /\ d \in D /\ d.by = tx.by
        BY <1>2 DEF TypeOK, Tx, Justified, MaybeVersion
    <2>2. chain' = Append(chain, d)
        BY <1>2 DEF Apply
    <2> HIDE DEF D, d
    <2>3. /\ Len(chain) \in Nat /\ Len(chain') = Len(chain) + 1
          /\ \A i \in 1..Len(chain) : chain'[i] = chain[i]
          /\ chain'[Len(chain) + 1] = d
        BY <2>1, <2>2, AppendFacts
    <2>4. Len(chain) > 0 => Knows(tx.by, chain[Len(chain)].ver)
        BY <1>2 DEF Valid, Justified
    <2>5. ASSUME NEW i \in 2..Len(chain')
          PROVE  \/ chain'[i - 1].ver[1] = chain'[i].by
                 \/ chain'[i - 1].ver \in seen'[chain'[i].by]
        <3>1. CASE i = Len(chain) + 1
            BY <2>1, <2>3, <2>4, <3>1 DEF Knows
        <3>2. CASE i # Len(chain) + 1
            <4>1. i \in 2..Len(chain) /\ i - 1 \in 1..Len(chain)
                BY <2>3, <3>2
            <4> QED BY <2>3, <4>1 DEF NoBlindOverwrite, Knows
        <3> QED BY <3>1, <3>2
    <2> QED BY <2>5 DEF NoBlindOverwrite, Knows
<1> QED BY <1>1, <1>2

\* Only the files and handles of one store change in a step; they have to be fine.
LEMMA LocalKeeps ==
    ASSUME TypeOK, LocalFine, Grows, NEW s \in Stores,
           \A t \in Stores : t # s => disk'[t] = disk[t],
           \A h \in Handles : h[1] # s => handle'[h] = handle[h],
           Fine(s, disk'[s], seen'[s], closed'),
           \A h \in Handles : h[1] = s => Fine(s, handle'[h], seen'[s], closed')
    PROVE  LocalFine'
<1>1. ASSUME NEW t \in Stores, t # s
      PROVE  Fine(t, disk'[t], seen'[t], closed')
    <2>1. /\ Fine(t, disk[t], seen[t], closed) /\ seen[t] \subseteq seen'[t]
          /\ closed = TRUE => closed' = TRUE
        BY DEF LocalFine, Grows
    <2>2. Fine(t, disk[t], seen'[t], closed')
        BY <2>1, FineMono
    <2> QED BY <1>1, <2>2
<1>2. ASSUME NEW h \in Handles, h[1] # s
      PROVE  Fine(h[1], handle'[h], seen'[h[1]], closed')
    <2>1. h[1] \in Stores
        BY DEF Handles
    <2>2. /\ Fine(h[1], handle[h], seen[h[1]], closed)
          /\ seen[h[1]] \subseteq seen'[h[1]]
          /\ closed = TRUE => closed' = TRUE
        BY <2>1 DEF LocalFine, Grows
    <2> QED BY <2>2, FineMono
<1> QED BY <1>1, <1>2 DEF LocalFine

\* What was fine is fine after the step.
LEMMA StillFine ==
    ASSUME LocalFine, Grows, NEW s \in Stores
    PROVE  /\ Fine(s, disk[s], seen'[s], closed')
           /\ \A h \in Handles : h[1] = s => Fine(s, handle[h], seen'[s], closed')
<1>1. seen[s] \subseteq seen'[s] /\ (closed = TRUE => closed' = TRUE)
    BY DEF Grows
<1>2. Fine(s, disk[s], seen'[s], closed')
    BY <1>1, FineMono DEF LocalFine
<1>3. ASSUME NEW h \in Handles, h[1] = s
      PROVE  Fine(s, handle[h], seen'[s], closed')
    <2>1. Fine(s, handle[h], seen[s], closed)
        BY <1>3 DEF LocalFine
    <2> QED BY <1>1, <2>1, FineMono
<1> QED BY <1>2, <1>3

\* Every way of writing a store's files leaves fine files.
LEMMA StoreFine ==
    ASSUME TypeOK, LocalFine, Grows, NEW s \in Stores, NEW doc, NEW meta,
           Fine(s, [doc |-> doc, meta |-> meta], seen'[s], closed'),
           \/ StoreDID(s, doc, meta)
           \/ StoreDIDCut(s, doc)
           \/ StoreDIDFailed(s)
           \/ RemoveDID(s)
    PROVE  /\ Fine(s, disk'[s], seen'[s], closed')
           /\ \A t \in Stores : t # s => disk'[t] = disk[t]
<1>0. disk \in [Stores -> StoredDID] /\ disk[s] \in StoredDID
      /\ Fine(s, disk[s], seen'[s], closed')
    BY StillFine DEF TypeOK
<1>1. CASE StoreDID(s, doc, meta)
    BY <1>0, <1>1 DEF StoreDID
<1>2. CASE StoreDIDCut(s, doc)
    BY <1>0, <1>2 DEF StoreDIDCut, Fine, StoredDID
<1>3. CASE StoreDIDFailed(s)
    BY <1>0, <1>3 DEF StoreDIDFailed, Fine, StoredDID
<1>4. CASE RemoveDID(s)
    BY <1>0, <1>4, FineNothing DEF RemoveDID
<1> QED BY <1>1, <1>2, <1>3, <1>4

\* After a crash the handles of a store are empty and its call is gone.
LEMMA DieFine ==
    ASSUME TypeOK, NEW s \in Stores, Die(s)
    PROVE  /\ \A h \in Handles : h[1] = s => Fine(s, handle'[h], seen'[s], closed')
           /\ \A h \in Handles : h[1] # s => handle'[h] = handle[h]
           /\ job'[s].step = "idle" /\ \A t \in Stores : t # s => job'[t] = job[t]
BY FineNothing DEF Die, TypeOK, NoJob

\* A handle that is replaced by a fine one leaves fine handles.
LEMMA HandleFine ==
    ASSUME TypeOK, LocalFine, Grows, NEW s \in Stores, NEW h \in Handles, h[1] = s, NEW r,
           Fine(s, r, seen'[s], closed'), handle' = [handle EXCEPT ![h] = r]
    PROVE  /\ \A g \in Handles : g[1] = s => Fine(s, handle'[g], seen'[s], closed')
           /\ \A g \in Handles : g[1] # s => handle'[g] = handle[g]
BY StillFine DEF TypeOK

\* A step that leaves chain and pool alone and ends with the store idle keeps the
\* invariant when what it leaves in the store is fine.
LEMMA QuietStep ==
    ASSUME IInv, TypeOK', Grows, NEW s \in Stores, UNCHANGED <<chain, closed, pool>>,
           \A t \in Stores : t # s => disk'[t] = disk[t],
           \A h \in Handles : h[1] # s => handle'[h] = handle[h],
           Fine(s, disk'[s], seen'[s], closed'),
           \A h \in Handles : h[1] = s => Fine(s, handle'[h], seen'[s], closed'),
           job'[s].step = "idle", \A t \in Stores : t # s => job'[t] = job[t]
    PROVE  IInv'
<1>1. TypeOK /\ LocalFine /\ JobKnown /\ PoolKnown /\ NoBlindOverwrite
    BY LocalFineMeaning DEF IInv
<1>2. LocalFine'
    BY <1>1, LocalKeeps
<1>3. JobKnown'
    <2>1. ASSUME NEW t \in Stores, t # s, NEW sl \in Slots
          PROVE  handle'[<<t, sl>>] = handle[<<t, sl>>]
        BY <2>1 DEF Handles
    <2> QED BY <1>1, <2>1, JobKeeps
<1>4. PoolKnown'
    BY <1>1, PoolKeeps
<1>5. NoBlindOverwrite'
    BY <1>1, BlindKeeps
<1>6. LocalKnown' /\ DeactivatedTrue'
    BY <1>2, LocalFineNext
<1> QED BY <1>3, <1>4, <1>5, <1>6 DEF IInv

--------------------------------------------------------------------------------
\* The invariant, one lemma for each group of actions.

\* The versions a store has sealed itself are fine in its files and handles.
LEMMA FineReseal ==
    ASSUME NEW s, NEW sn, NEW cl, NEW n, NEW r \in Handle, Fine(s, r, sn, cl)
    PROVE  Fine(s, [r EXCEPT !.doc = <<s, n>>, !.named = FALSE], sn, cl)
BY DEF Fine, Handle

\* Init satisfies the invariant.
LEMMA InvInit == Init => IInv
<1> SUFFICES ASSUME Init PROVE IInv
    OBVIOUS
<1>1. TypeOK
    BY TypeInit
<1>2. LocalFine
    BY FineNothing DEF Init, LocalFine, Handles
<1>3. JobKnown /\ PoolKnown
    BY DEF Init, JobKnown, PoolKnown, NoJob
<1>4. NoBlindOverwrite
    BY DEF Init, NoBlindOverwrite
<1> QED BY <1>1, <1>2, <1>3, <1>4, LocalFineMeaning DEF IInv

\* The local actions of a handle, the ones that leave chain and pool alone.
LEMMA InvLocalHandleStep ==
    ASSUME IInv, NEW h \in Handles,
           \/ \E overwrite, reachable \in BOOLEAN : NewDID(h, overwrite, reachable)
           \/ EditSeal(h)
           \/ StoreDoc(h)
           \/ LoadDID(h)
           \/ SetAlias(h)
    PROVE  IInv'
<1> DEFINE s == h[1]
<1>0. /\ s \in Stores /\ h[2] \in Slots
      /\ handle[h] \in Handle /\ handle[h].meta \in Metadata
      /\ disk[s] \in StoredDID /\ disk[s].meta \in Metadata
      /\ TypeOK /\ LocalFine
    BY LocalFineMeaning DEF IInv, TypeOK, Handles, Handle, StoredDID
<1> HIDE DEF s
<1>1. TypeOK'
    BY <1>0, TypeHandleStep DEF HandleStep
<1>2. UNCHANGED <<chain, closed, pool, seen>> /\ job[s].step = "idle"
    BY DEF NewDID, EditSeal, StoreDoc, LoadDID, SetAlias, Open, Idle, s
<1>3. Grows
    BY <1>0, <1>2 DEF Grows, TypeOK
<1>4. /\ Fine(s, disk[s], seen'[s], closed')
      /\ Fine(s, handle[h], seen'[s], closed')
      /\ \A g \in Handles : g[1] = s => Fine(s, handle[g], seen'[s], closed')
    BY <1>0, <1>3, StillFine DEF s
<1>5. ASSUME NEW overwrite \in BOOLEAN, NEW reachable \in BOOLEAN,
             NewDID(h, overwrite, reachable)
      PROVE  IInv'
    <2> DEFINE v == <<s, seals + 1>>
               fresh == [NoMetadata EXCEPT !.deactivated = FALSE]
               meta == Merge(fresh, disk[s].meta)
               new == [doc |-> v, meta |-> meta, named |-> TRUE]
    <2>1. /\ \/ /\ StoreDID(s, v, meta)
                /\ handle' = [handle EXCEPT ![h] = new]
                /\ UNCHANGED job
             \/ StoreDIDCut(s, v)
             \/ RemoveDID(s) /\ UNCHANGED <<handle, job>>
        BY <1>5 DEF NewDID, s
    <2>2. /\ fresh \in Metadata /\ v[1] = s
          /\ Fine(s, [doc |-> Absent, meta |-> fresh], seen'[s], closed')
          /\ Fine(s, [doc |-> Absent, meta |-> disk[s].meta], seen'[s], closed')
        BY <1>4 DEF NoMetadata, Metadata, MaybeVersion, Fine
    <2>3. /\ Fine(s, [doc |-> v, meta |-> meta], seen'[s], closed')
          /\ Fine(s, new, seen'[s], closed')
        BY <1>0, <2>2, FineMerge
    <2> HIDE DEF v, fresh, meta, new
    <2>4. /\ Fine(s, disk'[s], seen'[s], closed')
          /\ \A t \in Stores : t # s => disk'[t] = disk[t]
        BY <1>0, <1>3, <2>1, <2>3, StoreFine
    <2>5. CASE StoreDIDCut(s, v)
        BY <1>0, <1>1, <1>2, <1>3, <2>4, <2>5, DieFine, QuietStep DEF StoreDIDCut
    <2>6. CASE handle' = [handle EXCEPT ![h] = new] /\ UNCHANGED job
        BY <1>0, <1>1, <1>2, <1>3, <2>3, <2>4, <2>6, HandleFine, QuietStep DEF s
    <2>7. CASE UNCHANGED <<handle, job>>
        BY <1>0, <1>1, <1>2, <1>3, <1>4, <2>4, <2>7, QuietStep
    <2> QED BY <2>1, <2>5, <2>6, <2>7
<1>6. CASE EditSeal(h)
    <2> DEFINE r == [handle[h] EXCEPT !.doc = <<s, seals + 1>>, !.named = FALSE]
    <2>1. Fine(s, r, seen'[s], closed')
        BY <1>0, <1>4, FineReseal
    <2>2. handle' = [handle EXCEPT ![h] = r] /\ UNCHANGED <<disk, job>>
        BY <1>0, <1>6 DEF EditSeal, s, TypeOK, Handle
    <2> HIDE DEF r
    <2> QED BY <1>0, <1>1, <1>2, <1>3, <1>4, <2>1, <2>2, HandleFine, QuietStep DEF s
<1>7. CASE StoreDoc(h)
    <2> DEFINE doc == handle[h].doc
               meta == StoredMeta(h)
               r == [doc |-> doc, meta |-> meta, named |-> TRUE]
    <2>1. /\ Fine(s, [doc |-> Absent, meta |-> handle[h].meta], seen'[s], closed')
          /\ Fine(s, [doc |-> Absent, meta |-> disk[s].meta], seen'[s], closed')
          /\ doc # Absent => doc[1] = s \/ doc \in seen'[s]
        BY <1>4 DEF Fine
    <2>2. /\ Fine(s, [doc |-> doc, meta |-> meta], seen'[s], closed')
          /\ Fine(s, r, seen'[s], closed')
        BY <1>0, <2>1, FineMerge DEF StoredMeta, s
    <2>3. \/ /\ StoreDID(s, doc, meta) \/ StoreDIDFailed(s)
             /\ handle' = [handle EXCEPT ![h] = r]
             /\ UNCHANGED job
          \/ StoreDIDCut(s, doc)
        BY <1>0, <1>7 DEF StoreDoc, s, TypeOK, Handle
    <2> HIDE DEF doc, meta, r
    <2>4. /\ Fine(s, disk'[s], seen'[s], closed')
          /\ \A t \in Stores : t # s => disk'[t] = disk[t]
        BY <1>0, <1>3, <2>2, <2>3, StoreFine
    <2>5. CASE StoreDIDCut(s, doc)
        BY <1>0, <1>1, <1>2, <1>3, <2>4, <2>5, DieFine, QuietStep DEF StoreDIDCut
    <2>6. CASE handle' = [handle EXCEPT ![h] = r] /\ UNCHANGED job
        BY <1>0, <1>1, <1>2, <1>3, <2>2, <2>4, <2>6, HandleFine, QuietStep DEF s
    <2> QED BY <2>3, <2>5, <2>6
<1>8. CASE LoadDID(h)
    <2> DEFINE r == [doc |-> disk[s].doc, meta |-> disk[s].meta, named |-> FALSE]
    <2>1. Fine(s, r, seen'[s], closed')
        BY <1>4 DEF Fine
    <2>2. handle' = [handle EXCEPT ![h] = r] /\ UNCHANGED <<disk, job>>
        BY <1>8 DEF LoadDID, s
    <2> HIDE DEF r
    <2> QED BY <1>0, <1>1, <1>2, <1>3, <1>4, <2>1, <2>2, HandleFine, QuietStep DEF s
<1>9. CASE SetAlias(h)
    <2>1. disk' = [disk EXCEPT ![s].meta = handle[h].meta] \/ disk' = disk
        BY <1>9 DEF SetAlias, Persist, s
    <2>2. /\ Fine(s, disk'[s], seen'[s], closed')
          /\ \A t \in Stores : t # s => disk'[t] = disk[t]
        BY <1>0, <1>4, <2>1 DEF Fine, TypeOK, StoredDID
    <2>3. UNCHANGED <<handle, job>>
        BY <1>9 DEF SetAlias
    <2> QED BY <1>0, <1>1, <1>2, <1>3, <1>4, <2>2, <2>3, QuietStep
<1> QED BY <1>5, <1>6, <1>7, <1>8, <1>9

\* The check of a publication: what it goes on with is a version the store knows,
\* because the signatures of fine metadata are.
LEMMA InvPublishCheck ==
    ASSUME IInv, NEW h \in Handles, NEW force \in BOOLEAN, PublishCheck(h, force)
    PROVE  IInv'
<1> DEFINE s == h[1]
           head == IF chain = <<>> THEN Absent ELSE ChainHead
           new == [step |-> "checked", slot |-> h[2], txid |-> ResolvedTxid, head |-> head]
<1>0. /\ s \in Stores /\ h[2] \in Slots /\ h = <<s, h[2]>>
      /\ TypeOK /\ LocalFine /\ JobKnown /\ PoolKnown /\ NoBlindOverwrite
    BY LocalFineMeaning DEF IInv, Handles
<1>1. TypeOK'
    BY <1>0, TypeHandleStep DEF HandleStep
<1>2. /\ job' = [job EXCEPT ![s] = new]
      /\ seen' = IF force /\ chain # <<>>
                 THEN [seen EXCEPT ![s] = @ \cup {ChainHead}] ELSE seen
      /\ UNCHANGED <<chain, closed, pool, disk, handle, seals, upsets>>
      /\ handle[h].doc # Absent
      /\ chain # <<>> => force \/ UpToDate(handle[h].meta, ChainHead)
    BY DEF PublishCheck, Open
<1>3. Grows
    BY <1>0, <1>2 DEF Grows, TypeOK
<1>4. LocalFine'
    <2>1. \A g \in Handles : g[1] = s => Fine(s, handle'[g], seen'[s], closed')
        BY <1>0, <1>2, <1>3, StillFine
    <2>2. Fine(s, disk'[s], seen'[s], closed')
        BY <1>0, <1>2, <1>3, StillFine
    <2> HIDE DEF s, new
    <2> QED BY <1>0, <1>2, <1>3, <2>1, <2>2, LocalKeeps
<1>5. ASSUME chain # <<>>
      PROVE  /\ ChainHead = chain[Len(chain)].ver /\ Len(chain) \in 1..Len(chain)
             /\ ChainHead[1] = s \/ ChainHead \in seen'[s]
    <2>1. ChainHead # Absent /\ Len(chain) \in 1..Len(chain)
        BY <1>0, <1>5, HeadFacts, PublishAssumption
    <2>2. CASE force
        BY <1>0, <1>2, <1>5, <2>1, <2>2 DEF ChainHead, TypeOK
    <2>3. CASE ~force
        <3>1. Fine(s, handle[h], seen'[s], closed')
            BY <1>0, <1>3, StillFine
        <3> QED BY <1>2, <1>5, <2>1, <2>3, <3>1 DEF Fine, UpToDate, ChainHead
    <2> QED BY <2>2, <2>3
<1>6. JobKnown'
    <2> SUFFICES ASSUME NEW t \in Stores, job'[t].step = "checked"
                 PROVE  /\ job'[t].slot \in Slots
                        /\ handle'[<<t, job'[t].slot>>].doc # Absent
                        /\ job'[t].head # Absent =>
                              /\ job'[t].txid \in 1..Len(chain')
                              /\ job'[t].head = chain'[job'[t].txid].ver
                              /\ job'[t].head[1] = t \/ job'[t].head \in seen'[t]
        BY DEF JobKnown, Knows
    <2>1. CASE t = s
        <3>1. job'[t] = new
            BY <1>0, <1>2, <2>1 DEF TypeOK
        <3> QED BY <1>0, <1>2, <1>5, <2>1, <3>1 DEF ResolvedTxid
    <2>2. CASE t # s
        <3>1. job'[t] = job[t]
            BY <1>0, <1>2, <2>2 DEF TypeOK
        <3>2. job[t].head # Absent => job[t].head[1] = t \/ job[t].head \in seen[t]
            BY <1>0, <3>1 DEF JobKnown, Knows
        <3> QED BY <1>0, <1>2, <1>3, <3>1, <3>2 DEF JobKnown, Grows
    <2> QED BY <2>1, <2>2
<1>7. PoolKnown'
    BY <1>0, <1>2, <1>3, PoolKeeps
<1>8. NoBlindOverwrite'
    BY <1>0, <1>2, <1>3, BlindKeeps
<1>9. LocalKnown' /\ DeactivatedTrue'
    BY <1>1, <1>4, LocalFineNext
<1> QED BY <1>1, <1>6, <1>7, <1>8, <1>9 DEF IInv

\* A justified transaction leaves chain and pool in order, whether the chain
\* answers at once or later.
LEMMA SubmitKeeps ==
    ASSUME TypeOK, PoolKnown, NoBlindOverwrite, NEW tx \in Tx, NEW ok \in BOOLEAN,
           Justified(tx), Submit(tx, ok), UNCHANGED seen
    PROVE  Grows /\ PoolKnown' /\ NoBlindOverwrite'
<1>1. Grows
    BY SubmitType DEF Grows, Justified
<1>2. \A u \in pool' : u \in pool \/ (u \in Tx /\ Justified(u))
    BY DEF Submit
<1>3. NoBlindOverwrite'
    <2>1. CASE Valid(tx) /\ Apply(tx)
        BY <1>1, <2>1, BlindApply
    <2>2. CASE chain' = chain
        BY <1>1, <2>2, BlindKeeps
    <2> QED BY <2>1, <2>2 DEF Submit
<1> QED BY <1>1, <1>2, <1>3, PoolKeeps

\* Deactivating the DID.
LEMMA InvDeactivateDID ==
    ASSUME IInv, NEW h \in Handles, NEW ok \in BOOLEAN, DeactivateDID(h, ok)
    PROVE  IInv'
<1> DEFINE s == h[1]
           tx == [op |-> "deactivate", ver |-> Absent, prev |-> 0, by |-> s]
<1>0. /\ s \in Stores /\ TypeOK /\ LocalFine /\ JobKnown /\ PoolKnown /\ NoBlindOverwrite
    BY LocalFineMeaning DEF IInv, Handles
<1>1. TypeOK'
    BY <1>0, TypeHandleStep DEF HandleStep
<1>2. tx \in Tx /\ Justified(tx)
    BY <1>0, PublishAssumption DEF Tx, Justified, MaybeVersion
<1>3. Submit(tx, ok) /\ UNCHANGED <<disk, handle, job, seen>>
    BY DEF DeactivateDID
<1> HIDE DEF tx
<1>4. Grows /\ PoolKnown' /\ NoBlindOverwrite'
    BY <1>0, <1>2, <1>3, SubmitKeeps
<1>5. LocalFine'
    BY <1>0, <1>3, <1>4, StillFine, LocalKeeps
<1>6. JobKnown'
    BY <1>0, <1>3, <1>4, JobKeeps
<1>7. LocalKnown' /\ DeactivatedTrue'
    BY <1>1, <1>5, LocalFineNext
<1> QED BY <1>1, <1>4, <1>6, <1>7 DEF IInv

\* The end of a publication.  The transaction is justified by JobKnown; what the
\* metadata then record is the document and the version it replaced.
LEMMA InvPublishSubmit ==
    ASSUME IInv, NEW s \in Stores, NEW ok \in BOOLEAN, PublishSubmit(s, ok)
    PROVE  IInv'
<1> DEFINE j == job[s]
           h == <<s, j.slot>>
           hd == handle[h]
           create == j.head = Absent
           signed == [hd EXCEPT !.meta.signature = hd.doc]
           recorded == IF create THEN signed ELSE [signed EXCEPT !.meta.prevSignature = j.head]
           tx == [op |-> IF create THEN "create" ELSE "update",
                  ver |-> hd.doc, prev |-> j.txid, by |-> s]
           finish(res) == /\ job' = [job EXCEPT ![s] = NoJob]
                          /\ handle' = [handle EXCEPT ![h] = res]
                          /\ UNCHANGED upsets
<1>0. TypeOK /\ LocalFine /\ JobKnown /\ PoolKnown /\ NoBlindOverwrite
    BY LocalFineMeaning DEF IInv
<1>1. TypeOK'
    BY <1>0, TypePublishSubmit
<1>2. /\ j.step = "checked" /\ j \in Job /\ h \in Handles /\ h[1] = s
      /\ hd \in Handle /\ hd.doc \in Versions /\ j.txid \in 0..MaxTx
      /\ j.head # Absent => /\ j.txid \in 1..Len(chain)
                            /\ j.head = chain[j.txid].ver
                            /\ Knows(s, j.head)
    BY <1>0 DEF PublishSubmit, JobKnown, TypeOK, Job, Handles, Handle, MaybeVersion
<1>3. tx \in Tx /\ Justified(tx)
    BY <1>2, PublishAssumption DEF Tx, MaybeVersion, Justified
<1>4. /\ Submit(tx, ok)
      /\ \/ ok /\ Persist(h, recorded) /\ finish(recorded)
         \/ ok /\ Persist(h, signed) /\ Die(s)
         \/ (IF create THEN UNCHANGED disk ELSE Persist(h, hd)) /\ Die(s)
         \/ ~ok /\ (IF create THEN UNCHANGED disk ELSE Persist(h, hd)) /\ finish(hd)
      /\ UNCHANGED seen
    BY DEF PublishSubmit
<1> HIDE DEF tx
<1>5. Grows /\ PoolKnown' /\ NoBlindOverwrite'
    BY <1>0, <1>3, <1>4, SubmitKeeps
<1>6. /\ Fine(s, disk[s], seen'[s], closed')
      /\ Fine(s, hd, seen'[s], closed')
      /\ \A g \in Handles : g[1] = s => Fine(s, handle[g], seen'[s], closed')
    BY <1>0, <1>2, <1>5, StillFine
<1>7. Fine(s, signed, seen'[s], closed') /\ Fine(s, recorded, seen'[s], closed')
    <2>1. signed \in Handle
        BY <1>2 DEF Handle, Metadata, MaybeVersion
    <2>2. Fine(s, signed, seen'[s], closed')
        BY <1>2, <1>6 DEF Fine, Handle, Metadata
    <2>3. ~create => j.head[1] = s \/ j.head \in seen'[s]
        BY <1>2, <1>4 DEF Knows
    <2>4. ~create => Fine(s, [signed EXCEPT !.meta.prevSignature = j.head], seen'[s], closed')
        BY <2>1, <2>2, <2>3 DEF Fine, Handle, Metadata
    <2> QED BY <2>2, <2>4
<1> HIDE DEF signed, recorded, create, hd, h, j
<1>8. /\ Fine(s, disk'[s], seen'[s], closed')
      /\ \A t \in Stores : t # s => disk'[t] = disk[t]
    <2>1. ASSUME NEW r, Fine(s, r, seen'[s], closed'), Persist(h, r)
          PROVE  /\ Fine(s, disk'[s], seen'[s], closed')
                 /\ \A t \in Stores : t # s => disk'[t] = disk[t]
        BY <1>0, <1>2, <1>6, <2>1 DEF Persist, Fine, TypeOK, StoredDID
    <2>2. CASE UNCHANGED disk
        BY <1>6, <2>2
    <2> QED BY <1>4, <1>6, <1>7, <2>1, <2>2
<1>9. /\ \A g \in Handles : g[1] = s => Fine(s, handle'[g], seen'[s], closed')
      /\ \A g \in Handles : g[1] # s => handle'[g] = handle[g]
      /\ job'[s].step = "idle" /\ \A t \in Stores : t # s => job'[t] = job[t]
    <2>1. CASE Die(s)
        BY <1>0, <2>1, DieFine
    <2>2. ASSUME NEW r, Fine(s, r, seen'[s], closed'), finish(r)
          PROVE  <1>9!:
        <3>1. handle' = [handle EXCEPT ![h] = r] /\ job' = [job EXCEPT ![s] = NoJob]
            BY <2>2
        <3>2. job'[s].step = "idle" /\ \A t \in Stores : t # s => job'[t] = job[t]
            BY <1>0, <3>1 DEF TypeOK, NoJob
        <3>3. h \in Handles /\ h[1] = s
            BY <1>2
        <3>4. Fine(s, r, seen'[s], closed')
            BY <2>2
        <3>5. /\ \A g \in Handles : g[1] = s => Fine(s, handle'[g], seen'[s], closed')
              /\ \A g \in Handles : g[1] # s => handle'[g] = handle[g]
            BY <1>0, <1>5, <3>1, <3>3, <3>4, HandleFine
        <3> QED BY <3>2, <3>5
    <2>3. CASE finish(recorded) \/ finish(hd)
        BY <1>6, <1>7, <2>2, <2>3
    <2> QED BY <1>4, <2>1, <2>3
<1>10. LocalFine'
    BY <1>0, <1>5, <1>8, <1>9, LocalKeeps
<1>11. JobKnown'
    <2>1. ASSUME NEW t \in Stores, t # s, NEW sl \in Slots
          PROVE  handle'[<<t, sl>>] = handle[<<t, sl>>]
        BY <1>9, <2>1 DEF Handles
    <2> QED BY <1>0, <1>5, <1>9, <2>1, JobKeeps
<1> QED BY <1>1, <1>5, <1>10, <1>11, LocalFineNext DEF IInv

\* Storing a document at the end of a synchronization: its metadata name the
\* chain's version, which the store has just read.
LEMMA InvSyncStore ==
    ASSUME IInv, TypeOK', NEW s \in Stores, NEW doc \in Versions, chain # <<>>,
           job[s].step = "idle", SyncStore(s, doc),
           doc[1] = s \/ doc \in seen[s] \/ doc = ChainHead
    PROVE  IInv'
<1>0. TypeOK /\ LocalFine
    BY LocalFineMeaning DEF IInv
<1>1. /\ UNCHANGED <<chain, closed, pool>>
      /\ seen' = [seen EXCEPT ![s] = @ \cup {ChainHead}]
    BY DEF SyncStore
<1>2. /\ seen'[s] = seen[s] \cup {ChainHead}
      /\ \A t \in Stores : t # s => seen'[t] = seen[t]
      /\ closed \in BOOLEAN
    BY <1>0, <1>1 DEF TypeOK
<1>3. Grows
    BY <1>0, <1>1, <1>2 DEF Grows, TypeOK
<1>4. Fine(s, disk[s], seen'[s], closed')
    BY <1>0, <1>3, StillFine
<1>5. Fine(s, [doc |-> doc, meta |-> SyncMeta(s)], seen'[s], closed')
    BY <1>1, <1>2, <1>4 DEF Fine, SyncMeta
<1>6. /\ Fine(s, disk'[s], seen'[s], closed')
      /\ \A t \in Stores : t # s => disk'[t] = disk[t]
    BY <1>0, <1>3, <1>5, StoreFine DEF SyncStore
<1>7. CASE UNCHANGED <<handle, job>>
    BY <1>0, <1>1, <1>3, <1>6, <1>7, StillFine, QuietStep
<1>8. CASE Die(s)
    BY <1>0, <1>1, <1>3, <1>6, <1>8, DieFine, QuietStep
<1> QED BY <1>7, <1>8 DEF SyncStore, StoreDIDCut

\* The actions of a store.
LEMMA InvStoreStep ==
    ASSUME IInv, NEW s \in Stores, StoreStep(s)
    PROVE  IInv'
<1>0. TypeOK /\ LocalFine /\ JobKnown
    BY LocalFineMeaning DEF IInv
<1>1. TypeOK'
    BY <1>0, TypeStoreStep
<1>2. ASSUME NEW ok \in BOOLEAN, PublishSubmit(s, ok)
      PROVE  IInv'
    BY <1>2, InvPublishSubmit
<1>3. CASE DeleteDID(s)
    <2>1. /\ RemoveDID(s) /\ UNCHANGED <<chain, closed, pool, handle, job, seen>>
          /\ job[s].step = "idle"
        BY <1>3 DEF DeleteDID, Idle
    <2>2. Grows
        BY <1>0, <2>1 DEF Grows, TypeOK
    <2>3. /\ Fine(s, disk'[s], seen'[s], closed')
          /\ \A t \in Stores : t # s => disk'[t] = disk[t]
        BY <1>0, <2>1, FineNothing DEF RemoveDID, TypeOK
    <2> QED BY <1>0, <1>1, <2>1, <2>2, <2>3, StillFine, QuietStep
<1>4. CASE SyncTakeChain(s)
    BY <1>0, <1>1, <1>4, HeadFacts, InvSyncStore DEF SyncTakeChain, CanSync, Idle
<1>5. CASE SyncConflict(s)
    <2>1. chain # <<>> /\ job[s].step = "idle" /\ disk[s].doc # Absent
        BY <1>5 DEF SyncConflict, CanSync, Idle, Conflict
    <2>2. /\ disk[s].doc \in Versions
          /\ disk[s].doc[1] = s \/ disk[s].doc \in seen[s]
        BY <1>0, <2>1 DEF TypeOK, StoredDID, MaybeVersion, LocalFine, Fine
    <2>3. CASE SyncStore(s, disk[s].doc)
        BY <1>1, <2>1, <2>2, <2>3, InvSyncStore
    <2>4. CASE SyncStore(s, ChainHead)
        BY <1>0, <1>1, <2>1, <2>4, HeadFacts, InvSyncStore
    <2>5. CASE seals < MaxSeals /\ SyncStore(s, <<s, seals + 1>>)
        BY <1>0, <1>1, <2>1, <2>5, SealType, InvSyncStore
    <2> QED BY <1>5, <2>3, <2>4, <2>5 DEF SyncConflict
<1>6. CASE SyncMissingSignature(s) \/ Crash(s)
    <2>1. Die(s) /\ UNCHANGED <<chain, closed, pool, disk, seen>>
        BY <1>6 DEF SyncMissingSignature, Crash
    <2>2. Grows
        BY <1>0, <2>1 DEF Grows, TypeOK
    <2> QED BY <1>0, <1>1, <2>1, <2>2, StillFine, DieFine, QuietStep
<1> QED BY <1>2, <1>3, <1>4, <1>5, <1>6 DEF StoreStep

\* The actions of the chain.
LEMMA InvChainStep ==
    ASSUME IInv, ChainStep
    PROVE  IInv'
<1>0. TypeOK /\ LocalFine /\ JobKnown /\ PoolKnown /\ NoBlindOverwrite
    BY LocalFineMeaning DEF IInv
<1>1. TypeOK'
    BY <1>0, TypeChainStep
<1>2. PICK tx \in pool : Confirm(tx) \/ Reject(tx)
    BY DEF ChainStep
<1>3. tx \in Tx /\ Justified(tx)
    BY <1>0 DEF TypeOK, PoolKnown
<1>4. UNCHANGED <<disk, handle, job, seals, upsets, seen>> /\ pool' \subseteq pool
    BY <1>2 DEF Confirm, Reject
<1>5. Grows /\ NoBlindOverwrite'
    <2>1. CASE Confirm(tx)
        <3>1. Valid(tx) /\ Apply(tx)
            BY <2>1 DEF Confirm
        <3>2. Grows
            BY <1>0, <1>3, <1>4, <3>1, ApplyType DEF Grows, Justified
        <3> QED BY <1>0, <1>3, <1>4, <3>1, <3>2, BlindApply
    <2>2. CASE Reject(tx)
        <3>1. Grows
            BY <1>0, <2>2 DEF Grows, TypeOK, Reject
        <3> QED BY <1>0, <2>2, <3>1, BlindKeeps DEF Reject
    <2> QED BY <1>2, <2>1, <2>2
<1>6. LocalFine'
    <2>1. ASSUME NEW s \in Stores
          PROVE  /\ Fine(s, disk'[s], seen'[s], closed')
                 /\ \A h \in Handles : h[1] = s => Fine(s, handle'[h], seen'[s], closed')
        BY <1>0, <1>4, <1>5, StillFine
    <2> QED BY <2>1 DEF LocalFine, Handles
<1>7. JobKnown' /\ PoolKnown'
    BY <1>0, <1>4, <1>5, JobKeeps, PoolKeeps
<1> QED BY <1>1, <1>5, <1>6, <1>7, LocalFineNext DEF IInv

\* Every step keeps the invariant.
LEMMA InvNext == IInv /\ [Next]_vars => IInv'
<1> SUFFICES ASSUME IInv, [Next]_vars PROVE IInv'
    OBVIOUS
<1>1. ASSUME NEW h \in Handles, HandleStep(h)
      PROVE  IInv'
    BY <1>1, InvLocalHandleStep, InvPublishCheck, InvDeactivateDID DEF HandleStep
<1>2. ASSUME NEW s \in Stores, StoreStep(s)
      PROVE  IInv'
    BY <1>2, InvStoreStep
<1>3. CASE ChainStep
    BY <1>3, InvChainStep
<1>4. CASE UNCHANGED vars
    BY <1>4 DEF IInv, TypeOK, LocalKnown, DocKnown, MetaKnown, Knows, JobKnown, PoolKnown,
                Justified, DeactivatedTrue, NoBlindOverwrite, vars
<1> QED BY <1>1, <1>2, <1>3, <1>4 DEF Next

--------------------------------------------------------------------------------
\* The invariant IInv holds in every reachable state, for any numbers of stores,
\* handles, documents, transactions and crashes.
THEOREM Invariant == Spec => []IInv
<1>1. Init => IInv
    BY InvInit
<1>2. IInv /\ [Next]_vars => IInv'
    BY InvNext
<1> QED BY <1>1, <1>2, PTL DEF Spec

\* Type correctness of the publishing of a DID.
THEOREM TypeCorrect == Spec => []TypeOK
<1>1. IInv => TypeOK
    BY DEF IInv
<1> QED BY <1>1, Invariant, PTL

\* No update is lost: no store replaces on the chain a version of another store
\* that it neither read nor was told to overwrite.
THEOREM NoLostUpdate == Spec => []NoBlindOverwrite
<1>1. IInv => NoBlindOverwrite
    BY DEF IInv
<1> QED BY <1>1, Invariant, PTL

\* What a store keeps names only versions it knows, and it takes the DID for
\* deactivated only when it is.
THEOREM LocalTruth == Spec => [](LocalKnown /\ DeactivatedTrue)
<1>1. IInv => LocalKnown /\ DeactivatedTrue
    BY DEF IInv
<1> QED BY <1>1, Invariant, PTL

\* A store takes the DID for deactivated only when it is.
THEOREM DeactivatedIsTrue == Spec => []DeactivatedTrue
<1>1. IInv => DeactivatedTrue
    BY DEF IInv
<1> QED BY <1>1, Invariant, PTL

--------------------------------------------------------------------------------
\* With a chain that answers at once (Prompt), the signature that metadata record
\* is one of the chain: it is written when the document was accepted, or read.

\* The signature a record r names, if any, is in the chain c.
Signed(r, c) ==
    r.meta.signature # Absent => \E i \in 1..Len(c) : c[i].ver = r.meta.signature

SignaturesPublished ==
    /\ \A s \in Stores : Signed(disk[s], chain)
    /\ \A h \in Handles : Signed(handle[h], chain)

\* The chain c2 holds what the chain c1 does.
Extends(c2, c1) ==
    /\ Len(c1) \in Nat /\ Len(c2) \in Nat /\ Len(c1) <= Len(c2)
    /\ \A i \in 1..Len(c1) : c2[i] = c1[i]

\* A step extends the chain or leaves it alone.
LEMMA ChainExtends == IInv /\ [Next]_vars => Extends(chain', chain)
<1> SUFFICES ASSUME IInv, [Next]_vars PROVE Extends(chain', chain)
    OBVIOUS
<1>0. TypeOK /\ JobKnown /\ PoolKnown
    BY DEF IInv
<1>1. CASE chain' = chain
    BY <1>0, <1>1 DEF Extends, TypeOK
<1>2. ASSUME NEW tx \in Tx, tx.op # "deactivate" => tx.ver # Absent, Apply(tx)
      PROVE  Extends(chain', chain)
    BY <1>0, <1>2, ApplyType DEF Extends
<1>3. ASSUME NEW tx \in Tx, tx.op # "deactivate" => tx.ver # Absent, NEW ok, Submit(tx, ok)
      PROVE  Extends(chain', chain)
    BY <1>1, <1>2, <1>3 DEF Submit
<1>4. ASSUME NEW h \in Handles, NEW ok, DeactivateDID(h, ok)
      PROVE  Extends(chain', chain)
    <2> DEFINE tx == [op |-> "deactivate", ver |-> Absent, prev |-> 0, by |-> h[1]]
    <2>1. tx \in Tx /\ tx.op = "deactivate" /\ Submit(tx, ok)
        BY <1>4, PublishAssumption DEF DeactivateDID, Tx, MaybeVersion, Handles
    <2> HIDE DEF tx
    <2> QED BY <2>1, <1>3
<1>5. ASSUME NEW s \in Stores, NEW ok, PublishSubmit(s, ok)
      PROVE  Extends(chain', chain)
    <2> DEFINE j == job[s]
               tx == [op |-> IF j.head = Absent THEN "create" ELSE "update",
                      ver |-> handle[<<s, j.slot>>].doc, prev |-> j.txid, by |-> s]
    <2>1. tx \in Tx /\ tx.ver # Absent /\ Submit(tx, ok)
        BY <1>0, <1>5 DEF PublishSubmit, JobKnown, TypeOK, Job, Handles, Handle, Tx
    <2> HIDE DEF tx
    <2> QED BY <2>1, <1>3
<1>6. CASE ChainStep
    <2>1. PICK tx \in pool : Confirm(tx) \/ Reject(tx)
        BY <1>6 DEF ChainStep
    <2>2. tx \in Tx /\ (tx.op # "deactivate" => tx.ver # Absent)
        BY <1>0 DEF TypeOK, PoolKnown, Justified
    <2> QED BY <1>1, <1>2, <2>1, <2>2 DEF Confirm, Reject
<1>7. CASE UNCHANGED vars
    BY <1>1, <1>7 DEF vars
<1>8. ASSUME NEW h \in Handles, HandleStep(h)
      PROVE  Extends(chain', chain)
    BY <1>1, <1>4, <1>8
       DEF HandleStep, NewDID, EditSeal, StoreDoc, LoadDID, SetAlias, PublishCheck
<1>9. ASSUME NEW s \in Stores, StoreStep(s)
      PROVE  Extends(chain', chain)
    BY <1>1, <1>5, <1>9
       DEF StoreStep, DeleteDID, SyncTakeChain, SyncConflict, SyncStore,
           SyncMissingSignature, Crash
<1> QED BY <1>6, <1>7, <1>8, <1>9 DEF Next

\* What is signed stays so when the chain grows.
LEMMA SignedFacts ==
    ASSUME NEW r, NEW c1, NEW c2, Extends(c2, c1)
    PROVE  Signed(r, c1) => Signed(r, c2)
BY DEF Signed, Extends

\* Every way of writing a store's files leaves there the new metadata, the old
\* ones or none.
LEMMA StoreWrites ==
    ASSUME TypeOK, NEW s \in Stores, NEW doc, NEW meta,
           \/ StoreDID(s, doc, meta)
           \/ StoreDIDCut(s, doc)
           \/ StoreDIDFailed(s)
           \/ RemoveDID(s)
    PROVE  /\ disk'[s].meta \in {meta, disk[s].meta, NoMetadata}
           /\ \A t \in Stores : t # s => disk'[t] = disk[t]
<1>1. disk \in [Stores -> StoredDID]
    BY DEF TypeOK
<1> QED BY <1>1 DEF StoreDID, StoreDIDCut, StoreDIDFailed, RemoveDID, StoredDID

\* The signatures of one store change in a step, and are in the new chain.
LEMMA SignedKeeps ==
    ASSUME SignaturesPublished, Extends(chain', chain), NEW s \in Stores,
           \A t \in Stores : t # s => disk'[t] = disk[t],
           \A h \in Handles : h[1] # s => handle'[h] = handle[h],
           Signed(disk'[s], chain'),
           \A h \in Handles : h[1] = s => Signed(handle'[h], chain')
    PROVE  SignaturesPublished'
<1>1. \A t \in Stores : Signed(disk'[t], chain')
    BY SignedFacts DEF SignaturesPublished
<1>2. \A h \in Handles : Signed(handle'[h], chain')
    BY SignedFacts DEF SignaturesPublished
<1> QED BY <1>1, <1>2 DEF SignaturesPublished

\* After a crash the handles of a store name no signature.
LEMMA DieSigned ==
    ASSUME NEW s \in Stores, Die(s)
    PROVE  /\ \A h \in Handles : h[1] = s => Signed(handle'[h], chain')
           /\ \A h \in Handles : h[1] # s => handle'[h] = handle[h]
BY DEF Die, Signed, NoHandle, NoMetadata

\* A handle that is replaced by a signed one leaves signed handles.
LEMMA HandleSigned ==
    ASSUME TypeOK, SignaturesPublished, Extends(chain', chain), NEW s \in Stores,
           NEW h \in Handles, h[1] = s, NEW r, Signed(r, chain'),
           handle' = [handle EXCEPT ![h] = r]
    PROVE  /\ \A g \in Handles : g[1] = s => Signed(handle'[g], chain')
           /\ \A g \in Handles : g[1] # s => handle'[g] = handle[g]
BY SignedFacts DEF TypeOK, SignaturesPublished

\* The actions of a handle write no signature that was not there.
LEMMA SignedHandleStep ==
    ASSUME TypeOK, SignaturesPublished, Extends(chain', chain), NEW h \in Handles, HandleStep(h)
    PROVE  SignaturesPublished'
<1> DEFINE s == h[1]
<1>0. /\ s \in Stores /\ Signed(disk[s], chain) /\ Signed(handle[h], chain)
      /\ disk[s] \in StoredDID /\ handle[h] \in Handle
      /\ disk[s].meta \in Metadata /\ handle[h].meta \in Metadata
    BY DEF SignaturesPublished, TypeOK, Handles, StoredDID, Handle
<1> HIDE DEF s
<1>1. /\ Signed(disk[s], chain') /\ Signed(handle[h], chain')
      /\ \A g \in Handles : Signed(handle[g], chain')
    BY <1>0, SignedFacts DEF SignaturesPublished
<1>2. ASSUME NEW doc, NEW meta, Signed([meta |-> meta], chain'),
             \/ StoreDID(s, doc, meta)
             \/ StoreDIDCut(s, doc)
             \/ StoreDIDFailed(s)
             \/ RemoveDID(s)
      PROVE  /\ Signed(disk'[s], chain')
             /\ \A t \in Stores : t # s => disk'[t] = disk[t]
    <2>1. /\ disk'[s].meta \in {meta, disk[s].meta, NoMetadata}
          /\ \A t \in Stores : t # s => disk'[t] = disk[t]
        BY <1>0, <1>2, StoreWrites
    <2> QED BY <1>1, <1>2, <2>1 DEF Signed, NoMetadata
<1>3. ASSUME NEW overwrite \in BOOLEAN, NEW reachable \in BOOLEAN,
             NewDID(h, overwrite, reachable)
      PROVE  SignaturesPublished'
    <2> DEFINE v == <<s, seals + 1>>
               meta == Merge([NoMetadata EXCEPT !.deactivated = FALSE], disk[s].meta)
               new == [doc |-> v, meta |-> meta, named |-> TRUE]
    <2>1. /\ \/ /\ StoreDID(s, v, meta)
                /\ handle' = [handle EXCEPT ![h] = new]
             \/ StoreDIDCut(s, v)
             \/ RemoveDID(s) /\ UNCHANGED handle
        BY <1>3 DEF NewDID, s
    <2>2. meta.signature = disk[s].meta.signature
        BY DEF Merge, NoMetadata
    <2>3. Signed([meta |-> meta], chain') /\ Signed(new, chain')
        BY <1>1, <2>2 DEF Signed
    <2> HIDE DEF v, meta, new
    <2>4. /\ Signed(disk'[s], chain')
          /\ \A t \in Stores : t # s => disk'[t] = disk[t]
        BY <1>2, <2>1, <2>3
    <2>5. CASE StoreDIDCut(s, v)
        BY <1>0, <2>4, <2>5, DieSigned, SignedKeeps DEF StoreDIDCut
    <2>6. CASE handle' = [handle EXCEPT ![h] = new]
        BY <1>0, <2>3, <2>4, <2>6, HandleSigned, SignedKeeps DEF s
    <2>7. CASE UNCHANGED handle
        BY <1>0, <1>1, <2>4, <2>7, SignedKeeps
    <2> QED BY <2>1, <2>5, <2>6, <2>7
<1>4. CASE EditSeal(h)
    <2> DEFINE r == [handle[h] EXCEPT !.doc = <<s, seals + 1>>, !.named = FALSE]
    <2>1. Signed(r, chain')
        BY <1>0, <1>1 DEF Signed, Handle
    <2>2. handle' = [handle EXCEPT ![h] = r] /\ UNCHANGED disk
        BY <1>0, <1>4 DEF EditSeal, s, TypeOK, Handle
    <2> HIDE DEF r
    <2> QED BY <1>0, <1>1, <2>1, <2>2, HandleSigned, SignedKeeps DEF s
<1>5. CASE StoreDoc(h)
    <2> DEFINE doc == handle[h].doc
               meta == StoredMeta(h)
               r == [handle[h] EXCEPT !.meta = meta, !.named = TRUE]
    <2>1. meta.signature \in {handle[h].meta.signature, disk[s].meta.signature}
        BY DEF StoredMeta, Merge, s
    <2> HIDE DEF meta
    <2>2. r.meta = meta
        BY <1>0 DEF Handle
    <2>3. Signed([meta |-> meta], chain') /\ Signed(r, chain')
        BY <1>1, <2>1, <2>2 DEF Signed
    <2>4. /\ \/ StoreDID(s, doc, meta) \/ StoreDIDFailed(s) \/ StoreDIDCut(s, doc)
          /\ StoreDIDCut(s, doc) \/ handle' = [handle EXCEPT ![h] = r]
        BY <1>0, <1>5 DEF StoreDoc, s, meta, TypeOK
    <2> HIDE DEF doc, r
    <2>5. /\ Signed(disk'[s], chain')
          /\ \A t \in Stores : t # s => disk'[t] = disk[t]
        BY <1>2, <2>3, <2>4
    <2>6. CASE StoreDIDCut(s, doc)
        BY <1>0, <2>5, <2>6, DieSigned, SignedKeeps DEF StoreDIDCut
    <2>7. CASE handle' = [handle EXCEPT ![h] = r]
        BY <1>0, <2>3, <2>5, <2>7, HandleSigned, SignedKeeps DEF s
    <2> QED BY <2>4, <2>6, <2>7
<1>6. CASE LoadDID(h)
    <2> DEFINE r == [doc |-> disk[s].doc, meta |-> disk[s].meta, named |-> FALSE]
    <2>1. Signed(r, chain') /\ handle' = [handle EXCEPT ![h] = r] /\ UNCHANGED disk
        BY <1>1, <1>6 DEF LoadDID, Signed, s
    <2> HIDE DEF r
    <2> QED BY <1>0, <1>1, <2>1, HandleSigned, SignedKeeps DEF s
<1>7. CASE SetAlias(h)
    <2>1. /\ handle' = handle
          /\ disk' = [disk EXCEPT ![s].meta = handle[h].meta]
        BY <1>7 DEF SetAlias, Persist, s
    <2>2. /\ disk'[s].meta = handle[h].meta
          /\ \A t \in Stores : t # s => disk'[t] = disk[t]
        BY <1>0, <2>1 DEF TypeOK, StoredDID
    <2>3. Signed(disk'[s], chain')
        BY <1>1, <2>2 DEF Signed
    <2> QED BY <1>0, <1>1, <2>1, <2>2, <2>3, SignedKeeps
<1>8. CASE UNCHANGED <<disk, handle>>
    BY <1>0, <1>1, <1>8, SignedKeeps
<1> QED BY <1>3, <1>4, <1>5, <1>6, <1>7, <1>8 DEF HandleStep, PublishCheck, DeactivateDID

\* The end of a publication: the chain accepts the document at once, and only then
\* its signature goes into the metadata.
LEMMA SignedPublishSubmit ==
    ASSUME TypeOK, JobKnown, SignaturesPublished, Extends(chain', chain), Prompt,
           NEW s \in Stores, NEW ok \in BOOLEAN, PublishSubmit(s, ok)
    PROVE  SignaturesPublished'
<1> DEFINE j == job[s]
           h == <<s, j.slot>>
           hd == handle[h]
           create == j.head = Absent
           signed == [hd EXCEPT !.meta.signature = hd.doc]
           recorded == IF create THEN signed ELSE [signed EXCEPT !.meta.prevSignature = j.head]
           tx == [op |-> IF create THEN "create" ELSE "update",
                  ver |-> hd.doc, prev |-> j.txid, by |-> s]
<1>1. /\ h \in Handles /\ h[1] = s /\ hd \in Handle /\ hd.doc \in Versions
    BY DEF PublishSubmit, JobKnown, TypeOK, Job, Handles, Handle, MaybeVersion
<1>2. tx.op # "deactivate" /\ tx.ver = hd.doc
    OBVIOUS
<1>3. /\ Submit(tx, ok)
      /\ \/ ok /\ Persist(h, recorded) /\ handle' = [handle EXCEPT ![h] = recorded]
         \/ ok /\ Persist(h, signed) /\ Die(s)
         \/ (UNCHANGED disk \/ Persist(h, hd)) /\ Die(s)
         \/ (UNCHANGED disk \/ Persist(h, hd)) /\ handle' = [handle EXCEPT ![h] = hd]
    BY DEF PublishSubmit
<1>4. signed.meta.signature = hd.doc /\ recorded.meta.signature = hd.doc
    BY <1>1 DEF Handle, Metadata
<1> HIDE DEF tx, signed, recorded, create, hd, h, j
<1>5. ASSUME ok
      PROVE  Signed(signed, chain') /\ Signed(recorded, chain')
    <2> DEFINE D == [ver : Versions, by : Stores]
               d == [ver |-> tx.ver, by |-> tx.by]
    <2>1. chain' = Append(chain, d)
        BY <1>2, <1>3, <1>5 DEF Submit, Apply
    <2>2. chain \in Seq(D)
        BY DEF TypeOK
    <2>3. d.ver = hd.doc
        BY <1>2
    <2> HIDE DEF D, d
    <2>4. Len(chain) + 1 \in 1..Len(chain') /\ chain'[Len(chain) + 1] = d
        BY <2>1, <2>2
    <2>5. \E i \in 1..Len(chain') : chain'[i].ver = hd.doc
        BY <2>3, <2>4
    <2> QED BY <1>4, <2>5 DEF Signed
<1>6. /\ Signed(disk[s], chain') /\ Signed(hd, chain')
    BY <1>1, SignedFacts DEF SignaturesPublished, hd
<1>7. ASSUME NEW r, Signed(r, chain'), Persist(h, r)
      PROVE  /\ Signed(disk'[s], chain')
             /\ \A t \in Stores : t # s => disk'[t] = disk[t]
    <2>1. disk'[s].meta \in {r.meta, disk[s].meta} /\ \A t \in Stores : t # s => disk'[t] = disk[t]
        BY <1>1, <1>7 DEF Persist, TypeOK, StoredDID
    <2> QED BY <1>6, <1>7, <2>1 DEF Signed
<1>8. /\ Signed(disk'[s], chain')
      /\ \A t \in Stores : t # s => disk'[t] = disk[t]
    <2>1. CASE UNCHANGED disk
        BY <1>6, <2>1
    <2> QED BY <1>3, <1>5, <1>6, <1>7, <2>1
<1>9. /\ \A g \in Handles : g[1] = s => Signed(handle'[g], chain')
      /\ \A g \in Handles : g[1] # s => handle'[g] = handle[g]
    BY <1>1, <1>3, <1>5, <1>6, DieSigned, HandleSigned
<1> QED BY <1>8, <1>9, SignedKeeps

\* The actions of a store write no signature that is not in the chain.
LEMMA SignedStoreStep ==
    ASSUME TypeOK, JobKnown, SignaturesPublished, Extends(chain', chain), Prompt,
           NEW s \in Stores, StoreStep(s)
    PROVE  SignaturesPublished'
<1>1. /\ Signed(disk[s], chain')
      /\ \A g \in Handles : Signed(handle[g], chain')
    BY SignedFacts DEF SignaturesPublished
<1>2. ASSUME NEW ok \in BOOLEAN, PublishSubmit(s, ok)
      PROVE  SignaturesPublished'
    BY <1>2, SignedPublishSubmit
<1>3. CASE DeleteDID(s)
    <2>1. RemoveDID(s) /\ UNCHANGED handle
        BY <1>3 DEF DeleteDID
    <2>2. /\ disk'[s].meta = NoMetadata
          /\ \A t \in Stores : t # s => disk'[t] = disk[t]
        BY <2>1 DEF RemoveDID, TypeOK
    <2>3. Signed(disk'[s], chain')
        BY <2>2 DEF Signed, NoMetadata
    <2> QED BY <1>1, <2>1, <2>2, <2>3, SignedKeeps
<1>4. ASSUME NEW doc, SyncStore(s, doc), chain # <<>>
      PROVE  SignaturesPublished'
    <2>1. /\ disk'[s].meta \in {SyncMeta(s), disk[s].meta, NoMetadata}
          /\ \A t \in Stores : t # s => disk'[t] = disk[t]
        BY <1>4, StoreWrites DEF SyncStore
    <2>2. Len(chain) \in 1..Len(chain) /\ chain' = chain
        BY <1>4, HeadFacts DEF SyncStore
    <2>3. \E i \in 1..Len(chain') : chain'[i].ver = SyncMeta(s).signature
        BY <2>2 DEF SyncMeta, ChainHead
    <2>4. Signed(disk'[s], chain')
        BY <1>1, <2>1, <2>3 DEF Signed, NoMetadata
    <2>5. CASE UNCHANGED handle
        BY <1>1, <2>1, <2>4, <2>5, SignedKeeps
    <2>6. CASE Die(s)
        BY <2>1, <2>4, <2>6, DieSigned, SignedKeeps
    <2> QED BY <1>4, <2>5, <2>6 DEF SyncStore, StoreDIDCut
<1>5. CASE SyncTakeChain(s) \/ SyncConflict(s)
    BY <1>4, <1>5 DEF SyncTakeChain, SyncConflict, CanSync
<1>6. CASE SyncMissingSignature(s) \/ Crash(s)
    <2>1. Die(s) /\ UNCHANGED disk
        BY <1>6 DEF SyncMissingSignature, Crash
    <2> QED BY <1>1, <2>1, DieSigned, SignedKeeps
<1> QED BY <1>2, <1>3, <1>5, <1>6 DEF StoreStep

\* With a prompt chain, every signature that metadata record is in the chain.
LEMMA SignedNext ==
    ASSUME IInv, SignaturesPublished, Prompt, [Next]_vars
    PROVE  SignaturesPublished'
<1>0. TypeOK /\ JobKnown /\ Extends(chain', chain)
    BY ChainExtends DEF IInv
<1>1. CASE UNCHANGED <<disk, handle>>
    <2>1. \A s \in Stores : Signed(disk'[s], chain')
        BY <1>0, <1>1, SignedFacts DEF SignaturesPublished
    <2>2. \A h \in Handles : Signed(handle'[h], chain')
        BY <1>0, <1>1, SignedFacts DEF SignaturesPublished
    <2> QED BY <2>1, <2>2 DEF SignaturesPublished
<1>2. ASSUME NEW h \in Handles, HandleStep(h)
      PROVE  SignaturesPublished'
    BY <1>0, <1>2, SignedHandleStep
<1>3. ASSUME NEW s \in Stores, StoreStep(s)
      PROVE  SignaturesPublished'
    BY <1>0, <1>3, SignedStoreStep
<1> QED BY <1>1, <1>2, <1>3 DEF Next, ChainStep, Confirm, Reject, vars

\* With a chain that answers at once, synchronizing discards no local edit without
\* asking the conflict handler: what equals the recorded signature is published.
THEOREM NoSilentDiscard == Prompt => (Spec => []HandlerSeesUnpublished)
<1> SUFFICES ASSUME Prompt PROVE Spec => []HandlerSeesUnpublished
    OBVIOUS
<1>1. Init => SignaturesPublished
    BY DEF Init, SignaturesPublished, Signed, NoHandle, NoMetadata
<1>2. IInv /\ SignaturesPublished /\ [Next]_vars => SignaturesPublished'
    BY SignedNext
<1>3. SignaturesPublished => HandlerSeesUnpublished
    BY DEF SignaturesPublished, Signed, HandlerSeesUnpublished, Conflict, OnChain
<1> QED BY <1>1, <1>2, <1>3, Invariant, PTL DEF Spec

--------------------------------------------------------------------------------
\* The stores implement the abstract register.

\* A transaction the chain takes from a justified one writes or closes the register.
LEMMA ApplyImplements ==
    ASSUME TypeOK, NEW tx \in Tx, Justified(tx), Valid(tx), Apply(tx), UNCHANGED seen
    PROVE  Register!Next
<1>1. CASE tx.op = "deactivate"
    <2>1. Register!Close
        BY <1>1 DEF Valid, Apply, Register!Close
    <2> QED BY <2>1 DEF Register!Next
<1>2. CASE tx.op # "deactivate"
    <2>1. tx.ver \in Versions /\ tx.by \in Stores
        BY <1>2 DEF Tx, Justified, MaybeVersion
    <2>2. /\ chain' = Append(chain, [ver |-> tx.ver, by |-> tx.by])
          /\ UNCHANGED <<closed, seen>>
        BY <1>2 DEF Apply
    <2>3. chain # <<>> => ~closed /\ Knows(tx.by, chain[Len(chain)].ver)
        BY <1>2 DEF Valid, Justified
    <2>4. chain # <<>> => chain[Len(chain)].ver \in Versions
        BY HeadFacts DEF ChainHead
    <2>5. chain # <<>> => ~closed /\ Register!Knows(tx.by, Register!Last(chain).ver)
        BY <2>3, <2>4 DEF Knows, Register!Knows, Register!Last
    <2>6. Register!Write(tx.by)
        BY <2>1, <2>2, <2>5 DEF Register!Write
    <2> QED BY <2>1, <2>6 DEF Register!Next
<1> QED BY <1>1, <1>2

\* A store that reads or forces its way past the newest version reads the register.
LEMMA ReadImplements ==
    ASSUME TypeOK, chain # <<>>, NEW s \in Stores, UNCHANGED <<chain, closed>>,
           seen' = [seen EXCEPT ![s] = @ \cup {ChainHead}]
    PROVE  Register!Next
<1>1. Len(chain) \in 1..Len(chain)
    BY HeadFacts
<1>2. Register!Read(s)
    BY <1>1 DEF Register!Read, ChainHead
<1> QED BY <1>2 DEF Register!Next

\* A submission writes or closes the register, or leaves it alone.
LEMMA SubmitImplements ==
    ASSUME TypeOK, NEW tx \in Tx, NEW ok \in BOOLEAN, Justified(tx), Submit(tx, ok),
           UNCHANGED seen
    PROVE  [Register!Next]_(Register!vars)
<1>1. CASE Valid(tx) /\ Apply(tx)
    BY <1>1, ApplyImplements
<1>2. CASE UNCHANGED <<chain, closed>>
    BY <1>2 DEF Register!vars
<1> QED BY <1>1, <1>2 DEF Submit

\* Every step of the stores and the chain is a step of the register or a stutter.
LEMMA StepImplements == IInv /\ [Next]_vars => [Register!Next]_(Register!vars)
<1> SUFFICES ASSUME IInv, [Next]_vars PROVE [Register!Next]_(Register!vars)
    OBVIOUS
<1>0. TypeOK /\ JobKnown /\ PoolKnown
    BY DEF IInv
<1>1. ASSUME NEW h \in Handles, HandleStep(h)
      PROVE  [Register!Next]_(Register!vars)
    <2>1. CASE UNCHANGED <<chain, closed, seen>>
        BY <2>1 DEF Register!vars
    <2>2. ASSUME NEW force \in BOOLEAN, PublishCheck(h, force)
          PROVE  [Register!Next]_(Register!vars)
        <3>1. h[1] \in Stores
            BY DEF Handles
        <3>2. CASE force /\ chain # <<>>
            BY <1>0, <2>2, <3>1, <3>2, ReadImplements DEF PublishCheck
        <3>3. CASE ~(force /\ chain # <<>>)
            BY <2>2, <3>3 DEF PublishCheck, Register!vars
        <3> QED BY <3>2, <3>3
    <2>3. ASSUME NEW ok \in BOOLEAN, DeactivateDID(h, ok)
          PROVE  [Register!Next]_(Register!vars)
        <3> DEFINE tx == [op |-> "deactivate", ver |-> Absent, prev |-> 0, by |-> h[1]]
        <3>1. tx \in Tx /\ Justified(tx)
            BY PublishAssumption DEF Tx, Justified, MaybeVersion, Handles
        <3>2. Submit(tx, ok) /\ UNCHANGED seen
            BY <2>3 DEF DeactivateDID
        <3> HIDE DEF tx
        <3> QED BY <1>0, <3>1, <3>2, SubmitImplements
    <2> QED BY <1>1, <2>1, <2>2, <2>3
            DEF HandleStep, NewDID, EditSeal, StoreDoc, LoadDID, SetAlias
<1>2. ASSUME NEW s \in Stores, StoreStep(s)
      PROVE  [Register!Next]_(Register!vars)
    <2>1. CASE UNCHANGED <<chain, closed, seen>>
        BY <2>1 DEF Register!vars
    <2>2. ASSUME NEW ok \in BOOLEAN, PublishSubmit(s, ok)
          PROVE  [Register!Next]_(Register!vars)
        <3> DEFINE j == job[s]
                   tx == [op |-> IF j.head = Absent THEN "create" ELSE "update",
                          ver |-> handle[<<s, j.slot>>].doc, prev |-> j.txid, by |-> s]
        <3>1. tx \in Tx /\ Justified(tx)
            BY <1>0, <2>2 DEF PublishSubmit, JobKnown, TypeOK, Job, Handles, Handle, Tx, Justified
        <3>2. Submit(tx, ok) /\ UNCHANGED seen
            BY <2>2 DEF PublishSubmit
        <3> HIDE DEF tx
        <3> QED BY <1>0, <3>1, <3>2, SubmitImplements
    <2>3. ASSUME NEW doc, SyncStore(s, doc), chain # <<>>
          PROVE  [Register!Next]_(Register!vars)
        BY <1>0, <2>3, ReadImplements DEF SyncStore
    <2>4. CASE SyncTakeChain(s) \/ SyncConflict(s)
        BY <2>3, <2>4 DEF SyncTakeChain, SyncConflict, CanSync
    <2> QED BY <1>2, <2>1, <2>2, <2>4
            DEF StoreStep, DeleteDID, SyncMissingSignature, Crash
<1>3. CASE ChainStep
    <2>1. PICK tx \in pool : Confirm(tx) \/ Reject(tx)
        BY <1>3 DEF ChainStep
    <2>2. tx \in Tx /\ Justified(tx)
        BY <1>0 DEF TypeOK, PoolKnown
    <2>3. CASE Confirm(tx)
        BY <1>0, <2>2, <2>3, ApplyImplements DEF Confirm
    <2>4. CASE Reject(tx)
        BY <2>4 DEF Reject, Register!vars
    <2> QED BY <2>1, <2>3, <2>4
<1>4. CASE UNCHANGED vars
    BY <1>4 DEF vars, Register!vars
<1> QED BY <1>1, <1>2, <1>3, <1>4 DEF Next

\* The stores that publish a DID together implement a register that never loses an
\* update and is never written after it was closed.
THEOREM Refinement == Spec => ImplementsRegister
<1>1. Init => Register!Init
    BY DEF Init, Register!Init
<1>2. IInv /\ [Next]_vars => [Register!Next]_(Register!vars)
    BY StepImplements
<1> QED BY <1>1, <1>2, Invariant, PTL DEF Spec, ImplementsRegister, Register!Spec

================================================================================
