--------------------------- MODULE CustomDID_proofs ---------------------------
(***************************************************************************)
(* Proofs about CustomDID, for any finite set of controllers and any        *)
(* bounds.                                                                  *)
(***************************************************************************)
EXTENDS CustomDID, FiniteSetTheorems, SequenceTheorems, TLAPS

\* A document whose proofs are by its controllers and no more than it asks for.
NotOversigned(d) ==
    /\ d.signers \subseteq d.ctrls
    /\ Cardinality(d.signers) <= Needed(d)

Sound(d) ==
    /\ NotOversigned(d)
    /\ d.signers # {}
    /\ Needed(d) \in 1..Cardinality(d.ctrls)

\* What a session edits can still be sealed: whatever changed the number of proofs
\* it asks for took the proofs away.
BuilderSound ==
    builder # None => builder.by \in builder.doc.ctrls /\ NotOversigned(builder.doc)

\* A request carries a document that was sealed, with a ticket that was issued; an
\* update asks for as many proofs as the document it is to replace.
RequestSound(r) ==
    /\ r.op # "deactivate" => r.doc \in sealed
    /\ r.op = "transfer" => r.ticket \in tickets
    /\ r.op = "update" => r.prev \in 1..Len(chain) /\ r.doc.m = chain[r.prev].m

PoolSound == \A r \in pool : RequestSound(r)

\* What is on the chain was sealed before.
ChainSound ==
    /\ \A i \in 1..Len(chain) : chain[i] \in sealed
    /\ closed => chain # <<>>

\* No ticket names a transaction that is still to come.
TicketsPast == \A t \in tickets : t.txid <= Len(chain)

\* The inductive invariant.
IInv ==
    /\ TypeOK
    /\ SealedSound
    /\ BuilderSound
    /\ PoolSound
    /\ ChainSound
    /\ TicketsPast

--------------------------------------------------------------------------------
\* Documents.

\* Sets of controllers are finite, and so are their cardinalities ordered.
LEMMA ControllerSets ==
    ASSUME NEW T \in SUBSET Controllers, NEW S \in SUBSET T
    PROVE  /\ IsFiniteSet(S) /\ IsFiniteSet(T)
           /\ Cardinality(S) \in Nat /\ Cardinality(T) \in Nat
           /\ Cardinality(Controllers) \in Nat
           /\ Cardinality(S) <= Cardinality(T)
           /\ Cardinality(T) <= Cardinality(Controllers)
<1>1. IsFiniteSet(Controllers)
    BY CustomAssumption
<1>2. IsFiniteSet(T) /\ Cardinality(T) <= Cardinality(Controllers)
    BY <1>1, FS_Subset
<1>3. IsFiniteSet(S) /\ Cardinality(S) <= Cardinality(T)
    BY <1>2, FS_Subset
<1> QED BY <1>1, <1>2, <1>3, FS_CardinalityType

\* The fields of a document.
LEMMA DocumentFields ==
    ASSUME NEW d \in Document
    PROVE  /\ d \in [ctrls : SUBSET Controllers, m : 0..Cardinality(Controllers),
                     edition : 0..MaxEdition, signers : SUBSET Controllers]
           /\ d = [ctrls |-> d.ctrls, m |-> d.m, edition |-> d.edition, signers |-> d.signers]
           /\ d.ctrls \in SUBSET Controllers
           /\ d.signers \in SUBSET d.ctrls
           /\ d.edition \in 0..MaxEdition
           /\ d.m \in 0..Cardinality(d.ctrls) /\ d.m \in Nat /\ d.m <= Cardinality(d.ctrls)
           /\ Needed(d) \in Nat
           /\ Cardinality(d.ctrls) \in Nat
           /\ Cardinality(d.signers) \in Nat
<1>1. /\ d \in [ctrls : SUBSET Controllers, m : 0..Cardinality(Controllers),
                edition : 0..MaxEdition, signers : SUBSET Controllers]
      /\ d.m <= Cardinality(d.ctrls) /\ d.signers \subseteq d.ctrls
    BY DEF Document
<1>2. /\ d.ctrls \in SUBSET Controllers /\ d.signers \in SUBSET d.ctrls
      /\ d.edition \in 0..MaxEdition /\ d.m \in 0..Cardinality(Controllers)
    BY <1>1
<1>3. Cardinality(d.ctrls) \in Nat /\ Cardinality(d.signers) \in Nat /\ Cardinality(Controllers) \in Nat
    BY <1>2, ControllerSets
<1> QED BY <1>1, <1>2, <1>3 DEF Needed

\* What is a document.
LEMMA DocumentIntro ==
    ASSUME NEW C \in SUBSET Controllers, NEW S \in SUBSET C,
           NEW m \in 0..Cardinality(C), NEW e \in 0..MaxEdition
    PROVE  [ctrls |-> C, m |-> m, edition |-> e, signers |-> S] \in Document
<1>1. Cardinality(C) \in Nat /\ Cardinality(Controllers) \in Nat
      /\ Cardinality(C) <= Cardinality(Controllers)
    BY ControllerSets
<1>2. m \in 0..Cardinality(Controllers) /\ m <= Cardinality(C)
    BY <1>1
<1> QED BY <1>2 DEF Document

\* As JSON a document stays sound.
LEMMA JsonSound ==
    ASSUME NEW C \in SUBSET Controllers, NEW S \in SUBSET C, NEW m \in Nat,
           NEW e \in 0..MaxEdition,
           Cardinality(C) > 1 => m <= Cardinality(C),
           Sound([ctrls |-> C, m |-> m, edition |-> e, signers |-> S])
    PROVE  /\ Json([ctrls |-> C, m |-> m, edition |-> e, signers |-> S]) \in Document
           /\ Sound(Json([ctrls |-> C, m |-> m, edition |-> e, signers |-> S]))
<1> DEFINE d == [ctrls |-> C, m |-> m, edition |-> e, signers |-> S]
<1>1. Cardinality(C) \in Nat
    BY ControllerSets
<1>2. CASE Cardinality(C) > 1
    <2>1. Json(d) = d /\ m \in 0..Cardinality(C)
        BY <1>1, <1>2 DEF Json
    <2> QED BY <2>1, DocumentIntro
<1>3. CASE ~(Cardinality(C) > 1)
    <2>1. Json(d) = [ctrls |-> C, m |-> 0, edition |-> e, signers |-> S]
        BY <1>3 DEF Json
    <2>2. Needed(Json(d)) = 1 /\ Needed(d) = 1
        BY <1>3, <2>1 DEF Needed
    <2>3. Json(d) \in Document
        BY <1>1, <2>1, DocumentIntro
    <2>4. Sound(Json(d))
        BY <2>1, <2>2 DEF Sound, NotOversigned
    <2> QED BY <2>3, <2>4
<1> QED BY <1>2, <1>3

\* Sealing a document that may be sealed gives a sound one.
LEMMA SealSound ==
    ASSUME NEW C \in SUBSET Controllers, NEW S \in SUBSET C, NEW m \in Nat,
           NEW e \in 0..MaxEdition, NEW c,
           Cardinality(C) > 1 => m <= Cardinality(C),
           NotOversigned([ctrls |-> C, m |-> m, edition |-> e, signers |-> S]),
           CanSeal(c, [ctrls |-> C, m |-> m, edition |-> e, signers |-> S])
    PROVE  /\ Json(Seal(c, [ctrls |-> C, m |-> m, edition |-> e, signers |-> S])) \in Document
           /\ Sound(Json(Seal(c, [ctrls |-> C, m |-> m, edition |-> e, signers |-> S])))
<1> DEFINE d == [ctrls |-> C, m |-> m, edition |-> e, signers |-> S]
           f == [ctrls |-> C, m |-> m, edition |-> e, signers |-> S \cup {c}]
<1>1. Seal(c, d) = f
    BY DEF Seal
<1>2. c \in C /\ c \notin S
    BY DEF CanSeal
<1>3. /\ IsFiniteSet(S) /\ IsFiniteSet(C)
      /\ Cardinality(S) \in Nat /\ Cardinality(C) \in Nat
    BY ControllerSets
<1>4. Cardinality(S \cup {c}) = Cardinality(S) + 1
    BY <1>2, <1>3, FS_AddElement
<1>5. Cardinality(C) # 0
    BY <1>2, <1>3, FS_EmptySet
<1>6. Needed(d) \in 1..Cardinality(C) /\ Needed(f) = Needed(d)
    <2>1. Needed(d) = IF Cardinality(C) > 1 THEN m ELSE 1
        BY DEF Needed
    <2>2. Cardinality(C) > 1 => m # 0
        BY DEF CanSeal
    <2>3. Needed(f) = IF Cardinality(C) > 1 THEN m ELSE 1
        BY DEF Needed
    <2> QED BY <1>3, <1>5, <2>1, <2>2, <2>3
<1>7. Cardinality(S) # Needed(d) /\ Cardinality(S) <= Needed(d)
    BY DEF CanSeal, Qualified, NotOversigned
<1>8. Cardinality(S \cup {c}) <= Needed(f)
    BY <1>3, <1>4, <1>6, <1>7
<1>9. Sound(f)
    BY <1>2, <1>6, <1>8 DEF Sound, NotOversigned
<1> QED BY <1>1, <1>2, <1>9, JsonSound

\* The same of a document that is well typed.
LEMMA SealDocument ==
    ASSUME NEW d \in Document, NEW c, NotOversigned(d), CanSeal(c, d)
    PROVE  Json(Seal(c, d)) \in Document /\ Sound(Json(Seal(c, d)))
<1>1. /\ d = [ctrls |-> d.ctrls, m |-> d.m, edition |-> d.edition, signers |-> d.signers]
      /\ d.ctrls \in SUBSET Controllers /\ d.signers \in SUBSET d.ctrls
      /\ d.edition \in 0..MaxEdition /\ d.m \in Nat /\ d.m <= Cardinality(d.ctrls)
    BY DocumentFields
<1> DEFINE C == d.ctrls
           S == d.signers
           m == d.m
           e == d.edition
<1>2. d = [ctrls |-> C, m |-> m, edition |-> e, signers |-> S]
    BY <1>1
<1>3. C \in SUBSET Controllers /\ S \in SUBSET C /\ e \in 0..MaxEdition /\ m \in Nat
      /\ m <= Cardinality(C)
    BY <1>1
<1> HIDE DEF C, S, m, e
<1>4. /\ NotOversigned([ctrls |-> C, m |-> m, edition |-> e, signers |-> S])
      /\ CanSeal(c, [ctrls |-> C, m |-> m, edition |-> e, signers |-> S])
    BY <1>2
<1> QED BY <1>2, <1>3, <1>4, SealSound

\* Merging gives a sound document.
LEMMA MergeSound ==
    ASSUME NEW d \in Document, Sound(d), NEW taken,
           Genuine([d EXCEPT !.signers = @ \cup taken])
    PROVE  /\ Json([d EXCEPT !.signers = @ \cup taken]) \in Document
           /\ Sound(Json([d EXCEPT !.signers = @ \cup taken]))
<1> DEFINE C == d.ctrls
           S == d.signers \cup taken
           m == d.m
           e == d.edition
           f == [ctrls |-> C, m |-> m, edition |-> e, signers |-> S]
<1>1. [d EXCEPT !.signers = @ \cup taken] = f
    <2>1. d \in [ctrls : SUBSET Controllers, m : Nat, edition : Nat,
                 signers : SUBSET Controllers]
        BY DEF Document
    <2>2. [d EXCEPT !.signers = @ \cup taken]
             = [ctrls |-> d.ctrls, m |-> d.m, edition |-> d.edition,
                signers |-> d.signers \cup taken]
        BY <2>1
    <2> QED BY <2>2
<1>2. C \in SUBSET Controllers /\ e \in 0..MaxEdition /\ m \in Nat /\ m <= Cardinality(C)
      /\ d.signers # {} /\ Needed(d) \in 1..Cardinality(C) /\ Needed(d) \in Nat
    BY DocumentFields DEF Sound
<1>3. S \in SUBSET C /\ S # {} /\ Cardinality(S) = Needed(f)
    BY <1>1, <1>2 DEF Genuine, Qualified, Signed
<1>4. Needed(f) = Needed(d)
    BY DEF Needed
<1>5. Sound(f)
    BY <1>2, <1>3, <1>4 DEF Sound, NotOversigned
<1> HIDE DEF C, S, m, e
<1> QED BY <1>1, <1>2, <1>3, <1>5, JsonSound

\* Edits leave a document that has not too many proofs: none at all, if the number
\* it asks for has changed.
LEMMA CleanSound ==
    ASSUME NEW d \in Document
    PROVE  /\ \A x \in Controllers :
                  LET f == Clean([d EXCEPT !.ctrls = @ \cup {x}, !.m = 0])
                  IN  f \in Document /\ NotOversigned(f) /\ f.ctrls = d.ctrls \cup {x}
           /\ \A x \in Controllers :
                  LET f == Clean([d EXCEPT !.ctrls = @ \ {x}, !.m = 0])
                  IN  f \in Document /\ NotOversigned(f) /\ f.ctrls = d.ctrls \ {x}
           /\ \A m \in 1..Cardinality(d.ctrls) :
                  LET f == Clean([d EXCEPT !.m = m])
                  IN  f \in Document /\ NotOversigned(f) /\ f.ctrls = d.ctrls
           /\ d.edition < MaxEdition =>
                  LET f == Clean([d EXCEPT !.edition = @ + 1])
                  IN  f \in Document /\ NotOversigned(f) /\ f.ctrls = d.ctrls
<1> DEFINE R == [ctrls : SUBSET Controllers, m : Nat, edition : 0..MaxEdition,
                 signers : SUBSET Controllers]
<1>0. Cardinality({}) = 0
    BY FS_EmptySet
<1>1. ASSUME NEW f \in R, f.m <= Cardinality(f.ctrls), f.signers = {}
      PROVE  f \in Document /\ NotOversigned(f)
    <2>1. f \in Document
        <3>1. /\ Cardinality(f.ctrls) \in Nat /\ Cardinality(Controllers) \in Nat
              /\ Cardinality(f.ctrls) <= Cardinality(Controllers)
            BY ControllerSets
        <3>2. f.m \in 0..Cardinality(Controllers)
            BY <1>1, <3>1
        <3>3. f \in [ctrls : SUBSET Controllers, m : 0..Cardinality(Controllers),
                     edition : 0..MaxEdition, signers : SUBSET Controllers]
            BY <3>2
        <3> QED BY <1>1, <3>3 DEF Document
    <2>2. Needed(f) \in Nat
        BY <2>1, DocumentFields
    <2>3. NotOversigned(f)
        BY <1>0, <1>1, <2>2 DEF NotOversigned
    <2> QED BY <2>1, <2>3
<1>2. /\ d \in R /\ d.ctrls \in SUBSET Controllers
      /\ d.m <= Cardinality(d.ctrls) /\ Cardinality(d.ctrls) \in Nat
    <2>1. d \in R
        BY DEF Document
    <2> QED BY <2>1, DocumentFields
<1>3. ASSUME NEW C \in SUBSET Controllers
      PROVE  LET f == Clean([d EXCEPT !.ctrls = C, !.m = 0])
             IN  f \in Document /\ NotOversigned(f) /\ f.ctrls = C
    <2> DEFINE f == Clean([d EXCEPT !.ctrls = C, !.m = 0])
    <2>1. f \in R /\ f.ctrls = C /\ f.m = 0 /\ f.signers = {}
        BY <1>2 DEF Clean
    <2>2. 0 <= Cardinality(C)
        BY ControllerSets
    <2> HIDE DEF f
    <2>3. f.m <= Cardinality(f.ctrls)
        BY <2>1, <2>2
    <2>4. f \in Document /\ NotOversigned(f) /\ f.ctrls = C
        BY <1>1, <2>1, <2>3
    <2> QED BY <2>4 DEF f
<1>4. ASSUME NEW m \in 1..Cardinality(d.ctrls)
      PROVE  LET f == Clean([d EXCEPT !.m = m])
             IN  f \in Document /\ NotOversigned(f) /\ f.ctrls = d.ctrls
    <2> DEFINE f == Clean([d EXCEPT !.m = m])
    <2>1. m \in Nat /\ m <= Cardinality(d.ctrls)
        BY <1>2
    <2>2. f \in R /\ f.ctrls = d.ctrls /\ f.m = m /\ f.signers = {}
        BY <1>2, <2>1 DEF Clean
    <2> HIDE DEF f
    <2>3. f \in Document /\ NotOversigned(f) /\ f.ctrls = d.ctrls
        BY <1>1, <2>1, <2>2
    <2> QED BY <2>3 DEF f
<1>5. ASSUME d.edition < MaxEdition
      PROVE  LET f == Clean([d EXCEPT !.edition = @ + 1])
             IN  f \in Document /\ NotOversigned(f) /\ f.ctrls = d.ctrls
    <2> DEFINE f == Clean([d EXCEPT !.edition = @ + 1])
    <2>1. d.edition + 1 \in 0..MaxEdition
        BY <1>2, <1>5, CustomAssumption
    <2>2. f \in R /\ f.ctrls = d.ctrls /\ f.m = d.m /\ f.signers = {}
        BY <1>2, <2>1 DEF Clean
    <2> HIDE DEF f
    <2>3. f.m <= Cardinality(f.ctrls)
        BY <1>2, <2>2
    <2>4. f \in Document /\ NotOversigned(f) /\ f.ctrls = d.ctrls
        BY <1>1, <2>2, <2>3
    <2> QED BY <2>4 DEF f
<1>6. ASSUME NEW x \in Controllers
      PROVE  d.ctrls \cup {x} \in SUBSET Controllers /\ d.ctrls \ {x} \in SUBSET Controllers
    BY <1>2
<1> HIDE DEF R
<1> QED BY <1>3, <1>4, <1>5, <1>6

\* Taking a proof away as well.
LEMMA RemoveProofSound ==
    ASSUME NEW d \in Document, NotOversigned(d), NEW x
    PROVE  LET f == [d EXCEPT !.signers = @ \ {x}]
           IN  f \in Document /\ NotOversigned(f) /\ f.ctrls = d.ctrls
<1> DEFINE f == [ctrls |-> d.ctrls, m |-> d.m, edition |-> d.edition, signers |-> d.signers \ {x}]
<1>1. [d EXCEPT !.signers = @ \ {x}] = f
    <2>1. d \in [ctrls : SUBSET Controllers, m : 0..Cardinality(Controllers),
                 edition : 0..MaxEdition, signers : SUBSET Controllers]
        BY DocumentFields
    <2> QED BY <2>1
<1>2. /\ d.ctrls \in SUBSET Controllers /\ d.edition \in 0..MaxEdition
      /\ d.m \in 0..Cardinality(d.ctrls) /\ d.signers \ {x} \in SUBSET d.ctrls
      /\ d.signers \in SUBSET Controllers /\ d.signers \ {x} \in SUBSET d.signers
      /\ Needed(d) \in Nat
    BY DocumentFields
<1>3. f \in Document
    BY <1>2, DocumentIntro
<1>4. /\ Cardinality(d.signers \ {x}) <= Cardinality(d.signers)
      /\ Cardinality(d.signers \ {x}) \in Nat /\ Cardinality(d.signers) \in Nat
    BY <1>2, ControllerSets
<1>5. Needed(f) = Needed(d)
    BY DEF Needed
<1>6. NotOversigned(f)
    BY <1>2, <1>4, <1>5 DEF NotOversigned
<1> QED BY <1>1, <1>3, <1>6

--------------------------------------------------------------------------------
\* The invariant, for each way in which the actions change the state.

\* A request stays sound while documents and tickets are added.
LEMMA RequestKeeps ==
    ASSUME sealed \subseteq sealed', tickets \subseteq tickets', chain' = chain,
           NEW r, RequestSound(r)
    PROVE  RequestSound(r)'
BY DEF RequestSound

\* A sound document is kept, and the session ends or is none of it.
LEMMA KeepKeeps ==
    ASSUME IInv, NEW d, Json(d) \in Document, Sound(Json(d)), Keep(d),
           builder' \in {builder, None}
    PROVE  IInv'
<1>1. sealed' = sealed \cup {Json(d)} /\ UNCHANGED <<tickets, pool, chain, closed>>
    BY DEF Keep
<1>2. TypeOK'
    BY <1>1 DEF IInv, TypeOK
<1>3. SealedSound'
    <2> SUFFICES ASSUME NEW e \in sealed' PROVE Sound(e)
        BY DEF SealedSound, Sound, NotOversigned
    <2>1. e \in sealed => Sound(e)
        BY DEF IInv, SealedSound, Sound, NotOversigned
    <2> QED BY <1>1, <2>1
<1>4. BuilderSound'
    BY DEF IInv, BuilderSound
<1>5. PoolSound'
    BY <1>1, RequestKeeps DEF IInv, PoolSound
<1> QED BY <1>1, <1>2, <1>3, <1>4, <1>5 DEF IInv, ChainSound, TicketsPast

\* A session begins, goes on or ends.
LEMMA SessionKeeps ==
    ASSUME IInv, UNCHANGED <<sealed, tickets, pool, chain, closed>>,
           \/ builder' = None
           \/ /\ builder' \in Builder
              /\ builder'.by \in builder'.doc.ctrls
              /\ NotOversigned(builder'.doc)
    PROVE  IInv'
<1>1. PoolSound'
    BY RequestKeeps DEF IInv, PoolSound
<1>2. BuilderSound'
    BY DEF BuilderSound
<1>3. TypeOK'
    BY DEF IInv, TypeOK
<1>4. SealedSound' /\ ChainSound' /\ TicketsPast'
    BY DEF IInv, SealedSound, ChainSound, TicketsPast
<1> QED BY <1>1, <1>2, <1>3, <1>4 DEF IInv

\* A ticket is issued for a transaction there is.
LEMMA IssueKeeps ==
    ASSUME IInv, NEW t \in Ticket, t.txid <= Len(chain), Issue(t)
    PROVE  IInv'
<1>1. tickets' = tickets \cup {t} /\ UNCHANGED <<sealed, builder, pool, chain, closed>>
    BY DEF Issue
<1>2. PoolSound'
    BY <1>1, RequestKeeps DEF IInv, PoolSound
<1>3. TypeOK' /\ TicketsPast'
    BY <1>1 DEF IInv, TypeOK, TicketsPast
<1>4. SealedSound' /\ BuilderSound' /\ ChainSound'
    BY <1>1 DEF IInv, SealedSound, BuilderSound, ChainSound
<1> QED BY <1>2, <1>3, <1>4 DEF IInv

\* A request is sent, or leaves the pool without effect.
LEMMA PoolKeeps ==
    ASSUME IInv, UNCHANGED <<sealed, builder, tickets, chain, closed>>,
           \A r \in pool' : r \in pool \/ (r \in Request /\ RequestSound(r))
    PROVE  IInv'
<1>1. PoolSound'
    <2> SUFFICES ASSUME NEW r \in pool' PROVE RequestSound(r)'
        BY DEF PoolSound
    <2>1. RequestSound(r)
        BY DEF IInv, PoolSound
    <2> QED BY <2>1, RequestKeeps
<1>2. TypeOK'
    BY DEF IInv, TypeOK
<1>3. SealedSound' /\ BuilderSound' /\ ChainSound' /\ TicketsPast'
    BY DEF IInv, SealedSound, BuilderSound, ChainSound, TicketsPast
<1> QED BY <1>1, <1>2, <1>3 DEF IInv

\* The length of the chain, as a number.
LEMMA ChainLength ==
    ASSUME TypeOK
    PROVE  \E n \in Nat :
              /\ n = Len(chain) /\ n <= MaxTx /\ n \in 0..MaxTx
              /\ (chain = <<>>) <=> (n = 0)
              /\ chain # <<>> => n \in 1..n /\ n \in 1..MaxTx
              /\ \A i \in 1..n : chain[i] \in Document
<1> HIDE DEF Document
<1>1. chain \in Seq(Document) /\ Len(chain) \in Nat /\ Len(chain) <= MaxTx
    BY DEF TypeOK
<1>2. PICK n \in Nat : n = Len(chain)
    BY <1>1
<1>3. (chain = <<>>) <=> (n = 0)
    BY <1>1, <1>2, EmptySeq
<1>4. n <= MaxTx /\ MaxTx \in Nat
    BY <1>1, <1>2, CustomAssumption
<1>5. \A i \in 1..n : chain[i] \in Document
    BY <1>1, <1>2
<1>6. n \in 0..MaxTx /\ (n # 0 => n \in 1..n /\ n \in 1..MaxTx)
    BY <1>4
<1> QED BY <1>2, <1>3, <1>4, <1>5, <1>6

\* The chain takes a document that was sealed.
LEMMA AppendKeeps ==
    ASSUME IInv, NEW d \in sealed, Len(chain) < MaxTx, chain' = Append(chain, d),
           UNCHANGED <<sealed, builder, tickets, closed>>, pool' \subseteq pool
    PROVE  /\ IInv'
           /\ \E n \in Nat :
                 /\ n = Len(chain) /\ Len(chain') = n + 1 /\ chain' # <<>>
                 /\ chain'[n + 1] = d
                 /\ \A i \in 1..n : chain'[i] = chain[i]
<1>1. PICK n \in Nat : n = Len(chain)
    BY ChainLength DEF IInv
<1>2. d \in Document /\ chain \in Seq(Document) /\ MaxTx \in Nat
    BY CustomAssumption DEF IInv, TypeOK
<1>3. /\ chain' \in Seq(Document) /\ Len(chain') = n + 1 /\ chain'[n + 1] = d
      /\ \A i \in 1..n : chain'[i] = chain[i]
    <2> HIDE DEF Document
    <2> QED BY <1>1, <1>2
<1>4. chain' # <<>>
    <2> HIDE DEF Document
    <2>1. Len(<<>>) = 0
        OBVIOUS
    <2>2. n + 1 # 0
        OBVIOUS
    <2> QED BY <1>3, <2>1, <2>2
<1>5. n + 1 <= MaxTx
    BY <1>1, <1>2
<1>6. TypeOK'
    <2>1. Len(chain') <= MaxTx
        BY <1>3, <1>5
    <2> QED BY <1>3, <2>1 DEF IInv, TypeOK
<1>7. PoolSound'
    <2> SUFFICES ASSUME NEW r \in pool' PROVE RequestSound(r)'
        BY DEF PoolSound
    <2>1. RequestSound(r)
        BY DEF IInv, PoolSound
    <2>2. r.op = "update" => r.prev \in 1..n /\ r.doc.m = chain[r.prev].m
        BY <1>1, <2>1 DEF RequestSound
    <2>3. r.op = "update" => r.prev \in 1..n + 1 /\ r.doc.m = chain'[r.prev].m
        BY <1>3, <2>2
    <2>4. r.op = "update" => r.prev \in 1..Len(chain') /\ r.doc.m = chain'[r.prev].m
        BY <1>3, <2>3
    <2> QED BY <2>1, <2>4 DEF RequestSound
<1>8. ChainSound'
    <2>1. \A i \in 1..n + 1 : i \in 1..n \/ i = n + 1
        OBVIOUS
    <2>2. \A i \in 1..n + 1 : chain'[i] \in sealed'
        BY <1>1, <1>3, <2>1 DEF IInv, ChainSound
    <2> QED BY <1>3, <1>4, <2>2 DEF ChainSound
<1>9. TicketsPast'
    <2> SUFFICES ASSUME NEW t \in tickets PROVE t.txid <= Len(chain')
        BY DEF TicketsPast
    <2>1. t \in Ticket /\ t.txid <= n
        BY <1>1 DEF IInv, TypeOK, TicketsPast
    <2>2. t.txid \in Nat
        BY <2>1 DEF Ticket
    <2>3. t.txid <= n + 1
        BY <2>1, <2>2
    <2> QED BY <1>3, <2>3
<1>10. SealedSound' /\ BuilderSound'
    BY DEF IInv, SealedSound, BuilderSound
<1> QED BY <1>1, <1>3, <1>4, <1>6, <1>7, <1>8, <1>9, <1>10 DEF IInv

--------------------------------------------------------------------------------
\* The invariant, action by action.

LEMMA InvInit == Init => IInv
<1> SUFFICES ASSUME Init PROVE IInv
    OBVIOUS
<1>1. chain \in Seq(Document) /\ Len(chain) = 0 /\ 0 <= MaxTx
    BY CustomAssumption DEF Init
<1>2. TypeOK
    BY <1>1 DEF Init, TypeOK
<1> QED BY <1>1, <1>2 DEF Init, IInv, SealedSound, BuilderSound, PoolSound,
                          ChainSound, TicketsPast

\* A document that was sealed is sound.
LEMMA SealedDocument ==
    ASSUME IInv, NEW d \in sealed
    PROVE  d \in Document /\ Sound(d) /\ NotOversigned(d)
BY DEF IInv, TypeOK, SealedSound, Sound, NotOversigned

LEMMA InvNewCustomizedDID ==
    ASSUME IInv, NEW c \in Controllers, NEW others \in SUBSET Controllers,
           NEW m \in 0..Cardinality(Controllers), NewCustomizedDID(c, others, m)
    PROVE  IInv'
<1> DEFINE C == others \cup {c}
           d == [ctrls |-> C, m |-> m, edition |-> 0, signers |-> {}]
<1>1. /\ others \ {c} # {} => m <= Cardinality(d.ctrls)
      /\ CanSeal(c, d) /\ Keep(Seal(c, d)) /\ builder' = builder
    BY DEF NewCustomizedDID
<1>2. C \in SUBSET Controllers /\ {} \in SUBSET C /\ m \in Nat /\ 0 \in 0..MaxEdition
    BY CustomAssumption
<1>3. others \ {c} = {} => Cardinality(C) = 1
    <2>1. others \ {c} = {} => C = {c}
        OBVIOUS
    <2> QED BY <2>1, FS_Singleton
<1>4. Cardinality(C) > 1 => m <= Cardinality(C)
    BY <1>1, <1>3
<1>5. NotOversigned(d)
    <2>1. Cardinality({}) = 0
        BY FS_EmptySet
    <2>2. Needed(d) \in Nat
        BY <1>2 DEF Needed
    <2> QED BY <2>1, <2>2 DEF NotOversigned
<1> HIDE DEF C
<1>6. Json(Seal(c, d)) \in Document /\ Sound(Json(Seal(c, d)))
    BY <1>1, <1>2, <1>4, <1>5, SealSound
<1> QED BY <1>1, <1>6, KeepKeeps

LEMMA InvSignDIDDocument ==
    ASSUME IInv, NEW c, NEW d \in sealed, SignDIDDocument(c, d)
    PROVE  IInv'
<1>1. CanSeal(c, d) /\ Keep(Seal(c, d)) /\ builder' = builder
    BY DEF SignDIDDocument
<1>2. Json(Seal(c, d)) \in Document /\ Sound(Json(Seal(c, d)))
    BY <1>1, SealedDocument, SealDocument
<1> QED BY <1>1, <1>2, KeepKeeps

LEMMA InvMergeDIDDocuments ==
    ASSUME IInv, NEW ds \in SUBSET sealed, NEW d \in ds, MergeDIDDocuments(d, ds)
    PROVE  IInv'
<1>1. PICK taken : LET merged == [d EXCEPT !.signers = @ \cup taken]
                   IN  Genuine(merged) /\ Keep(merged)
    BY DEF MergeDIDDocuments
<1>2. d \in Document /\ Sound(d)
    BY SealedDocument
<1> DEFINE merged == [d EXCEPT !.signers = @ \cup taken]
<1>3. Json(merged) \in Document /\ Sound(Json(merged))
    BY <1>1, <1>2, MergeSound
<1>4. builder' = builder
    BY DEF MergeDIDDocuments
<1> HIDE DEF merged
<1>5. Keep(merged)
    BY <1>1 DEF merged
<1> QED BY <1>3, <1>4, <1>5, KeepKeeps

LEMMA InvEdit ==
    ASSUME IInv, NEW c \in Controllers, NEW d \in sealed, Edit(c, d)
    PROVE  IInv'
<1>1. d \in Document /\ NotOversigned(d) /\ c \in d.ctrls
    BY SealedDocument DEF Edit
<1>2. builder' = [by |-> c, doc |-> d, ops |-> 0]
      /\ UNCHANGED <<sealed, tickets, pool, chain, closed>>
    BY DEF Edit
<1>3. builder' \in Builder
    BY <1>1, <1>2, CustomAssumption DEF Builder
<1> QED BY <1>1, <1>2, <1>3, SessionKeeps

\* An operation of the session that leaves its document fit to be sealed.
LEMMA BecomesKeeps ==
    ASSUME IInv, builder # None, NEW f \in Document, NotOversigned(f),
           builder.by \in f.ctrls, Becomes(f)
    PROVE  IInv'
<1>1. builder \in Builder /\ builder.ops < MaxOps
    BY DEF IInv, TypeOK, Becomes
<1>2. builder.by \in Controllers /\ builder.ops + 1 \in 0..MaxOps
    BY <1>1, CustomAssumption DEF Builder
<1>3. builder' = [by |-> builder.by, doc |-> f, ops |-> builder.ops + 1]
    BY <1>1 DEF Becomes, Builder
<1>4. builder' \in Builder
    BY <1>2, <1>3 DEF Builder
<1>5. builder'.by \in builder'.doc.ctrls /\ NotOversigned(builder'.doc)
    BY <1>3
<1> QED BY <1>4, <1>5, SessionKeeps DEF Becomes

LEMMA InvSession ==
    ASSUME IInv, Session
    PROVE  IInv'
<1>1. builder # None /\ builder \in Builder
    BY DEF Session, IInv, TypeOK
<1> DEFINE d == builder.doc
<1>2. d \in Document /\ NotOversigned(d) /\ builder.by \in d.ctrls
      /\ d.ctrls \in SUBSET Controllers /\ builder.by \in Controllers
    <2>1. d \in Document /\ builder.by \in Controllers
        BY <1>1 DEF Builder
    <2>2. NotOversigned(d) /\ builder.by \in d.ctrls
        BY <1>1 DEF IInv, BuilderSound
    <2> QED BY <2>1, <2>2, DocumentFields
<1>3. ASSUME NEW x \in Controllers, AddController(x)
      PROVE  IInv'
    <2> DEFINE f == Clean([builder.doc EXCEPT !.ctrls = @ \cup {x}, !.m = 0])
    <2>1. f \in Document /\ NotOversigned(f) /\ f.ctrls = d.ctrls \cup {x}
        BY <1>2, CleanSound
    <2>2. Becomes(f)
        BY <1>3 DEF AddController
    <2> HIDE DEF f
    <2>3. builder.by \in f.ctrls
        BY <1>2, <2>1
    <2> QED BY <1>1, <2>1, <2>2, <2>3, BecomesKeeps
<1>4. ASSUME NEW x \in Controllers, RemoveController(x)
      PROVE  IInv'
    <2> DEFINE f == Clean([builder.doc EXCEPT !.ctrls = @ \ {x}, !.m = 0])
    <2>1. f \in Document /\ NotOversigned(f) /\ f.ctrls = d.ctrls \ {x}
        BY <1>2, CleanSound
    <2>2. Becomes(f) /\ x # builder.by
        BY <1>4 DEF RemoveController
    <2> HIDE DEF f
    <2>3. builder.by \in f.ctrls
        BY <1>2, <2>1, <2>2
    <2> QED BY <1>1, <2>1, <2>2, <2>3, BecomesKeeps
<1>5. ASSUME NEW x \in Controllers, RemoveProof(x)
      PROVE  IInv'
    <2> DEFINE f == [builder.doc EXCEPT !.signers = @ \ {x}]
    <2>1. f \in Document /\ NotOversigned(f) /\ f.ctrls = d.ctrls
        BY <1>2, RemoveProofSound
    <2>2. Becomes(f)
        BY <1>5 DEF RemoveProof
    <2> HIDE DEF f
    <2>3. builder.by \in f.ctrls
        BY <1>2, <2>1
    <2> QED BY <1>1, <2>1, <2>2, <2>3, BecomesKeeps
<1>6. ASSUME NEW m, SetMultisig(m)
      PROVE  IInv'
    <2> DEFINE f == Clean([builder.doc EXCEPT !.m = m])
    <2>1. Becomes(f) /\ m \in 1..Cardinality(d.ctrls)
        BY <1>6 DEF SetMultisig
    <2>2. f \in Document /\ NotOversigned(f) /\ f.ctrls = d.ctrls
        BY <1>2, <2>1, CleanSound
    <2> HIDE DEF f
    <2>3. builder.by \in f.ctrls
        BY <1>2, <2>2
    <2> QED BY <1>1, <2>1, <2>2, <2>3, BecomesKeeps
<1>7. ASSUME OtherEdit
      PROVE  IInv'
    <2> DEFINE f == Clean([builder.doc EXCEPT !.edition = @ + 1])
    <2>1. Becomes(f) /\ d.edition < MaxEdition
        BY <1>7 DEF OtherEdit
    <2>2. f \in Document /\ NotOversigned(f) /\ f.ctrls = d.ctrls
        BY <1>2, <2>1, CleanSound
    <2> HIDE DEF f
    <2>3. builder.by \in f.ctrls
        BY <1>2, <2>2
    <2> QED BY <1>1, <2>1, <2>2, <2>3, BecomesKeeps
<1>8. ASSUME SealBuilder
      PROVE  IInv'
    <2>1. CanSeal(builder.by, d) /\ Keep(Seal(builder.by, d)) /\ builder' = None
        BY <1>8 DEF SealBuilder
    <2>2. Json(Seal(builder.by, d)) \in Document /\ Sound(Json(Seal(builder.by, d)))
        BY <1>2, <2>1, SealDocument
    <2> QED BY <2>1, <2>2, KeepKeeps
<1>9. ASSUME Discard
      PROVE  IInv'
    BY <1>9, SessionKeeps DEF Discard
<1> QED BY <1>3, <1>4, <1>5, <1>6, <1>7, <1>8, <1>9 DEF Session

LEMMA InvCreateTransferTicket ==
    ASSUME IInv, NEW c \in Controllers, NEW to \in Controllers, NEW v \in 1..Len(chain),
           CreateTransferTicket(c, to, v)
    PROVE  IInv'
<1>1. PICK n \in Nat : n = Len(chain) /\ n <= MaxTx
    BY ChainLength DEF IInv
<1>2. v \in 1..MaxTx /\ v <= n
    BY <1>1, CustomAssumption
<1>3. [txid |-> v, to |-> to, signers |-> {c}] \in Ticket
    BY <1>2 DEF Ticket
<1>4. Issue([txid |-> v, to |-> to, signers |-> {c}])
    BY DEF CreateTransferTicket
<1> QED BY <1>1, <1>2, <1>3, <1>4, IssueKeeps

LEMMA InvSignTransferTicket ==
    ASSUME IInv, NEW c \in Controllers, NEW t \in tickets, NEW v \in 1..Len(chain),
           SignTransferTicket(c, t, v)
    PROVE  IInv'
<1> DEFINE u == [t EXCEPT !.signers = @ \cup {c}]
<1>1. t \in Ticket /\ t.txid <= Len(chain)
    BY DEF IInv, TypeOK, TicketsPast
<1>2. u \in Ticket /\ u.txid = t.txid
    BY <1>1 DEF Ticket
<1>3. Issue(u)
    BY DEF SignTransferTicket
<1> HIDE DEF u
<1> QED BY <1>1, <1>2, <1>3, IssueKeeps

\* A request is sent.
LEMMA SendKeeps ==
    ASSUME IInv, NEW r \in Request, RequestSound(r), Send(r)
    PROVE  IInv'
BY PoolKeeps DEF Send

LEMMA InvPublishDID ==
    ASSUME IInv, NEW d \in sealed, PublishDID(d)
    PROVE  IInv'
<1>1. PICK n \in Nat : /\ n = Len(chain) /\ n \in 0..MaxTx
                       /\ chain = <<>> <=> n = 0
                       /\ chain # <<>> => n \in 1..n
    BY ChainLength DEF IInv
<1> DEFINE op == IF chain = <<>> THEN "create" ELSE "update"
           r == [op |-> op, by |-> None, doc |-> d, prev |-> n, ticket |-> None]
<1>2. Send(r)
    BY <1>1 DEF PublishDID
<1>3. d \in Document
    BY SealedDocument
<1>4. r \in Request
    BY <1>1, <1>3 DEF Request
<1>5. op = "update" => chain # <<>>
    OBVIOUS
<1>6. op = "update" => n \in 1..Len(chain) /\ d.m = chain[n].m
    <2>1. chain # <<>> => d.m = chain[n].m
        BY <1>1 DEF PublishDID, SameOwnership, Latest
    <2> QED BY <1>1, <1>5, <2>1
<1>7. op # "transfer"
    OBVIOUS
<1> HIDE DEF op
<1>8. RequestSound(r)
    BY <1>6, <1>7 DEF RequestSound
<1> QED BY <1>2, <1>4, <1>8, SendKeeps

LEMMA InvTransferDID ==
    ASSUME IInv, NEW d \in sealed, NEW t \in tickets, TransferDID(d, t)
    PROVE  IInv'
<1>1. PICK n \in Nat : n = Len(chain) /\ n \in 0..MaxTx
    BY ChainLength DEF IInv
<1> DEFINE r == [op |-> "transfer", by |-> None, doc |-> d, prev |-> n, ticket |-> t]
<1>2. Send(r)
    BY <1>1 DEF TransferDID
<1>3. d \in Document /\ t \in Ticket
    BY SealedDocument DEF IInv, TypeOK
<1>4. r \in Request
    BY <1>1, <1>3 DEF Request
<1>5. RequestSound(r)
    BY DEF RequestSound
<1> QED BY <1>2, <1>4, <1>5, SendKeeps

LEMMA InvDeactivateDID ==
    ASSUME IInv, NEW c \in Controllers, NEW d \in sealed, DeactivateDID(c, d)
    PROVE  IInv'
<1> DEFINE r == [op |-> "deactivate", by |-> c, doc |-> None, prev |-> 0, ticket |-> None]
<1>1. Send(r)
    BY DEF DeactivateDID
<1>2. r \in Request
    BY CustomAssumption DEF Request
<1>3. RequestSound(r)
    BY DEF RequestSound
<1> QED BY <1>1, <1>2, <1>3, SendKeeps

LEMMA InvSettle ==
    ASSUME IInv, NEW r \in pool, Settle(r)
    PROVE  IInv'
<1>1. /\ RequestSound(r) /\ pool' \subseteq pool
      /\ UNCHANGED <<sealed, builder, tickets>>
    BY DEF Settle, IInv, PoolSound
<1>2. CASE UNCHANGED <<chain, closed>>
    BY <1>1, <1>2, PoolKeeps
<1>3. CASE Acceptable(r) /\ r.op = "deactivate" /\ closed' = TRUE /\ UNCHANGED chain
    <2>1. chain # <<>>
        BY <1>3 DEF Acceptable, Fits, InForce
    <2>2. PoolSound'
        BY <1>1, <1>3, RequestKeeps DEF IInv, PoolSound
    <2>3. TypeOK'
        BY <1>1, <1>3 DEF IInv, TypeOK
    <2>4. SealedSound' /\ BuilderSound' /\ ChainSound' /\ TicketsPast'
        BY <1>1, <1>3, <2>1 DEF IInv, SealedSound, BuilderSound, ChainSound, TicketsPast
    <2> QED BY <2>2, <2>3, <2>4 DEF IInv
<1>4. CASE /\ r.op # "deactivate" /\ Len(chain) < MaxTx
           /\ chain' = Append(chain, r.doc) /\ UNCHANGED closed
    <2>1. r.doc \in sealed
        BY <1>1, <1>4 DEF RequestSound
    <2> QED BY <1>1, <1>4, <2>1, AppendKeeps
<1> QED BY <1>2, <1>3, <1>4 DEF Settle

LEMMA InvNext == IInv /\ [Next]_vars => IInv'
<1> SUFFICES ASSUME IInv, [Next]_vars PROVE IInv'
    OBVIOUS
<1>1. CASE Session
    BY <1>1, InvSession
<1>2. CASE Others
    <2>1. ASSUME NEW r \in pool, Lose(r) PROVE IInv'
        BY <2>1, PoolKeeps DEF Lose
    <2> QED BY <1>2, <2>1, InvNewCustomizedDID, InvSignDIDDocument, InvEdit,
               InvDeactivateDID, InvCreateTransferTicket, InvSignTransferTicket,
               InvPublishDID, InvTransferDID, InvMergeDIDDocuments, InvSettle
            DEF Others
<1>3. CASE UNCHANGED vars
    BY <1>3, PoolKeeps DEF vars
<1> QED BY <1>1, <1>2, <1>3 DEF Next

THEOREM Invariant == Spec => []IInv
BY InvInit, InvNext, PTL DEF Spec

\* The state of the documents, sessions, tickets, requests and of the chain is what
\* CustomDID says it is, after any calls.
THEOREM TypeCorrect == Spec => []TypeOK
<1>1. IInv => TypeOK
    BY DEF IInv
<1> QED BY <1>1, Invariant, PTL

\* Whatever was added, removed, signed and merged, a document that leaves
\* DIDDocumentBuilder_Seal, DIDDocument_SignDIDDocument or
\* DIDDocument_MergeDIDDocuments has proofs by its controllers only, no more than
\* its multisig asks for, and a multisig they can reach.
THEOREM SealedIsSound == Spec => []SealedSound
<1>1. IInv => SealedSound
    BY DEF IInv
<1> QED BY <1>1, Invariant, PTL

--------------------------------------------------------------------------------
\* Ownership.

Quorum == IF chain = <<>> THEN 0 ELSE Needed(Latest)

AgreedNow == [to \in Controllers |-> Agreed(to) \cap Owners]

\* Ownership's instance of FiniteSets counts as this module's does.
LEMMA SameCardinality == \A S : O!Cardinality(S) = Cardinality(S)
BY DEF O!Cardinality, Cardinality

\* Nothing of the DID's ownership changes.
LEMMA OwnershipStutters ==
    ASSUME UNCHANGED <<tickets, chain, closed>>
    PROVE  UNCHANGED O!vars
BY DEF O!vars, Owners, Agreed, Latest, Needed

\* What the document in force says.
LEMMA InForceOwners ==
    ASSUME IInv, chain # <<>>
    PROVE  /\ Owners = Latest.ctrls /\ Owners \in SUBSET Controllers /\ Owners # {}
           /\ Quorum = Needed(Latest) /\ Latest \in Document
<1>1. PICK n \in Nat : n = Len(chain) /\ n \in 1..n
    BY ChainLength DEF IInv
<1>2. Latest \in sealed
    BY <1>1 DEF IInv, ChainSound, Latest
<1>3. Latest \in Document /\ Latest.signers # {} /\ Latest.signers \subseteq Latest.ctrls
    BY <1>2, SealedDocument DEF Sound, NotOversigned
<1>4. Latest.ctrls \in SUBSET Controllers
    BY <1>3, DocumentFields
<1> QED BY <1>3, <1>4 DEF Owners, Quorum

\* A ticket that says no more than tickets of its transaction and receiver said
\* before, but for the signature of c, adds at most the agreement of c.
LEMMA IssueAgrees ==
    ASSUME IInv, NEW t \in Ticket, NEW c \in t.signers, Issue(t), chain # <<>>,
           t.txid = Len(chain) => t.signers \subseteq Agreed(t.to) \cup {c}
    PROVE  O!Agree(c, t.to) \/ UNCHANGED O!vars
<1>1. tickets' = tickets \cup {t} /\ UNCHANGED <<chain, closed>>
    BY DEF Issue
<1>2. Owners' = Owners /\ Quorum' = Quorum /\ Owners \in SUBSET Controllers
    BY <1>1, InForceOwners DEF Owners, Quorum, Latest, Needed
<1>3. ASSUME NEW to \in Controllers, ~(to = t.to /\ t.txid = Len(chain) /\ c \in Owners)
      PROVE  (Agreed(to) \cap Owners)' = Agreed(to) \cap Owners
    BY <1>1, <1>2, <1>3 DEF Agreed
<1>4. ASSUME t.txid = Len(chain), c \in Owners
      PROVE  (Agreed(t.to) \cap Owners)' = (Agreed(t.to) \cap Owners) \cup {c}
    BY <1>1, <1>2, <1>4 DEF Agreed
<1>5. t.to \in Controllers
    BY DEF Ticket
<1>6. CASE t.txid = Len(chain) /\ c \in Owners
    <2>1. AgreedNow' = [AgreedNow EXCEPT ![t.to] = @ \cup {c}]
        BY <1>3, <1>4, <1>5, <1>6 DEF AgreedNow
    <2> QED BY <1>1, <1>2, <1>6, <2>1 DEF O!Agree, AgreedNow, Quorum
<1>7. CASE ~(t.txid = Len(chain) /\ c \in Owners)
    <2>1. AgreedNow' = AgreedNow
        BY <1>3, <1>7 DEF AgreedNow
    <2> QED BY <1>1, <1>2, <2>1 DEF O!vars, AgreedNow, Quorum
<1> QED BY <1>6, <1>7

\* A document that is appended is installed: its controllers own the DID, and
\* nobody has agreed to anything.
LEMMA AppendInstalls ==
    ASSUME IInv, NEW d \in sealed, Len(chain) < MaxTx, chain' = Append(chain, d),
           UNCHANGED <<sealed, builder, tickets, closed>>, pool' \subseteq pool
    PROVE  /\ O!Install(d.ctrls, Needed(d))
           /\ d.ctrls \in SUBSET Controllers /\ Needed(d) \in 1..Cardinality(Controllers)
           /\ Owners' = d.ctrls /\ Quorum' = Needed(d) /\ AgreedNow' = O!NoAgreement
<1>1. PICK n \in Nat : /\ n = Len(chain) /\ Len(chain') = n + 1 /\ chain' # <<>>
                       /\ chain'[n + 1] = d
    BY AppendKeeps
<1>2. Owners' = d.ctrls /\ Quorum' = Needed(d)
    BY <1>1 DEF Owners, Quorum, Latest, Needed
<1>3. d.ctrls \in SUBSET Controllers /\ Needed(d) \in 1..Cardinality(d.ctrls)
    BY SealedDocument, DocumentFields DEF Sound
<1>4. Needed(d) \in 1..Cardinality(Controllers)
    <2>1. /\ Cardinality(d.ctrls) \in Nat /\ Cardinality(Controllers) \in Nat
          /\ Cardinality(d.ctrls) <= Cardinality(Controllers)
        BY <1>3, ControllerSets
    <2> QED BY <1>3, <2>1
<1>5. ASSUME NEW to \in Controllers
      PROVE  Agreed(to)' = {}
    <2>1. ASSUME NEW t \in tickets PROVE t.txid # n + 1
        <3>1. t.txid \in Nat /\ t.txid <= n
            BY <1>1 DEF IInv, TypeOK, TicketsPast, Ticket
        <3> QED BY <3>1
    <2> QED BY <1>1, <2>1 DEF Agreed
<1>6. AgreedNow' = O!NoAgreement
    BY <1>5 DEF AgreedNow, O!NoAgreement
<1>7. O!Install(d.ctrls, Needed(d))
    <2>1. Quorum' = (IF chain = <<>> THEN 0 ELSE Needed(Latest))'
        BY DEF Quorum
    <2>2. AgreedNow' = [to \in Controllers |-> Agreed(to) \cap Owners]'
        BY DEF AgreedNow
    <2> QED BY <1>2, <1>3, <1>6, <2>1, <2>2, SameCardinality DEF O!Install
<1> QED BY <1>2, <1>3, <1>4, <1>6, <1>7

\* A request that the chain takes is a step of ownership: creation, update,
\* transfer to the receiver of a ticket, or deactivation.
LEMMA SettleOwnership ==
    ASSUME IInv, NEW r \in pool, Settle(r)
    PROVE  O!Next \/ UNCHANGED O!vars
<1>1. /\ RequestSound(r) /\ r \in Request /\ pool' \subseteq pool
      /\ UNCHANGED <<sealed, builder, tickets>>
    BY DEF Settle, IInv, PoolSound, TypeOK
<1>2. CASE UNCHANGED <<chain, closed>>
    BY <1>1, <1>2, OwnershipStutters
<1>3. CASE Acceptable(r) /\ r.op = "deactivate" /\ closed' = TRUE /\ UNCHANGED chain
    <2>1. chain # <<>> /\ ~closed
        BY <1>3 DEF Acceptable, Fits, InForce
    <2>2. Owners # {}
        BY <2>1, InForceOwners
    <2>3. Owners' = Owners /\ Quorum' = Quorum /\ AgreedNow' = AgreedNow
        BY <1>1, <1>3 DEF Owners, Quorum, AgreedNow, Agreed, Latest, Needed
    <2>4. O!Close
        BY <1>3, <2>1, <2>2, <2>3 DEF O!Close, O!InForce, AgreedNow, Quorum
    <2> QED BY <2>4 DEF O!Next
<1>4. CASE /\ Acceptable(r) /\ r.op # "deactivate" /\ Len(chain) < MaxTx
           /\ chain' = Append(chain, r.doc) /\ UNCHANGED closed
    <2> DEFINE d == r.doc
    <2>1. d \in sealed
        BY <1>1, <1>4 DEF RequestSound
    <2>2. /\ O!Install(d.ctrls, Needed(d))
          /\ d.ctrls \in SUBSET Controllers /\ Needed(d) \in 1..Cardinality(Controllers)
          /\ Owners' = d.ctrls /\ Quorum' = Needed(d) /\ AgreedNow' = O!NoAgreement
        BY <1>1, <1>4, <2>1, AppendInstalls
    <2>3. CASE r.op = "create"
        <3>1. chain = <<>> /\ Owners = {}
            BY <1>4, <2>3 DEF Acceptable, Fits, Owners
        <3>2. ~closed
            BY <3>1 DEF IInv, ChainSound, TypeOK
        <3>3. O!Create(d.ctrls, Needed(d))
            BY <2>2, <3>1, <3>2 DEF O!Create
        <3>4. \E new \in SUBSET Controllers, q \in 1..Cardinality(Controllers) : O!Create(new, q)
            BY <2>2, <3>3
        <3> QED BY <3>4, SameCardinality DEF O!Next
    <2>4. CASE r.op = "update"
        <3>1. /\ chain # <<>> /\ ~closed /\ r.prev = Len(chain)
              /\ d.ctrls = Latest.ctrls
            BY <1>4, <2>4 DEF Acceptable, Fits, UpdateFits, InForce
        <3>2. d.m = Latest.m
            BY <1>1, <2>4, <3>1 DEF RequestSound, Latest
        <3>3. Owners = d.ctrls /\ Quorum = Needed(d) /\ Owners # {}
            BY <3>1, <3>2, InForceOwners DEF Needed
        <3>4. O!Update
            BY <1>4, <2>2, <3>1, <3>3 DEF O!Update, O!InForce, AgreedNow, Quorum
        <3> QED BY <3>4 DEF O!Next
    <2>5. CASE r.op = "transfer"
        <3> DEFINE t == r.ticket
        <3>1. /\ chain # <<>> /\ ~closed /\ TicketValid(t, Len(chain)) /\ t.to \in d.ctrls
            BY <1>4, <2>5 DEF Acceptable, Fits, TransferFits, InForce
        <3>2. t \in tickets /\ t \in Ticket
            BY <1>1, <2>5 DEF RequestSound, IInv, TypeOK
        <3>3. t.to \in Controllers /\ t.signers \in SUBSET Controllers
            BY <3>2 DEF Ticket
        <3>4. /\ Owners = Latest.ctrls /\ Owners \in SUBSET Controllers /\ Owners # {}
              /\ Quorum = Needed(Latest) /\ Latest \in Document
            BY <3>1, InForceOwners
        <3>5. /\ t.signers \subseteq Owners /\ Cardinality(t.signers) = Quorum
              /\ t.txid = Len(chain)
            BY <3>1, <3>4 DEF TicketValid, Latest
        <3>6. t.signers \subseteq Agreed(t.to) \cap Owners
            BY <3>2, <3>5 DEF Agreed
        <3>7. Cardinality(AgreedNow[t.to]) >= Quorum
            <4>1. AgreedNow[t.to] \in SUBSET Controllers /\ t.signers \in SUBSET AgreedNow[t.to]
                BY <3>3, <3>4, <3>6 DEF AgreedNow
            <4>2. /\ Cardinality(t.signers) <= Cardinality(AgreedNow[t.to])
                  /\ Cardinality(t.signers) \in Nat /\ Cardinality(AgreedNow[t.to]) \in Nat
                BY <4>1, ControllerSets
            <4> QED BY <3>5, <4>2
        <3>8. O!HandOver(d.ctrls, Needed(d), t.to)
            <4>1. O!InForce
                BY <3>1, <3>4 DEF O!InForce
            <4>2. Cardinality([to \in Controllers |-> Agreed(to) \cap Owners][t.to])
                     >= (IF chain = <<>> THEN 0 ELSE Needed(Latest))
                BY <3>7 DEF AgreedNow, Quorum
            <4> QED BY <2>2, <3>1, <4>1, <4>2, SameCardinality DEF O!HandOver
        <3>9. \E new \in SUBSET Controllers, q \in 1..Cardinality(Controllers) :
                 \E to \in Controllers : O!HandOver(new, q, to)
            BY <2>2, <3>3, <3>8
        <3> QED BY <3>9, SameCardinality DEF O!Next
    <2> QED BY <1>4, <2>3, <2>4, <2>5 DEF Acceptable, Fits
<1> QED BY <1>2, <1>3, <1>4 DEF Settle

LEMMA RefinementInit == Init => O!Init
<1> SUFFICES ASSUME Init PROVE O!Init
    OBVIOUS
<1>1. \A to \in Controllers : Agreed(to) \cap Owners = {}
    BY DEF Init, Owners
<1> QED BY <1>1 DEF Init, O!Init, O!NoAgreement, Owners

LEMMA RefinementNext == IInv /\ [Next]_vars => [O!Next]_(O!vars)
<1> SUFFICES ASSUME IInv, [Next]_vars PROVE O!Next \/ UNCHANGED O!vars
    OBVIOUS
<1>1. CASE Session
    <2>1. UNCHANGED <<tickets, chain, closed>>
        BY <1>1 DEF Session, AddController, RemoveController, RemoveProof, SetMultisig,
                    OtherEdit, SealBuilder, Discard, Becomes, Keep
    <2> QED BY <2>1, OwnershipStutters
<1>2. ASSUME NEW c \in Controllers, NEW to \in Controllers, NEW v \in 1..Len(chain),
             CreateTransferTicket(c, to, v)
      PROVE  O!Next \/ UNCHANGED O!vars
    <2> DEFINE t == [txid |-> v, to |-> to, signers |-> {c}]
    <2>1. PICK n \in Nat : n = Len(chain) /\ n <= MaxTx /\ (chain = <<>> <=> n = 0)
        BY ChainLength DEF IInv
    <2>2. v \in 1..MaxTx /\ chain # <<>>
        BY <2>1, CustomAssumption
    <2>3. t \in Ticket /\ c \in t.signers /\ t.signers \subseteq Agreed(t.to) \cup {c}
        BY <2>2 DEF Ticket
    <2>4. Issue(t)
        BY <1>2 DEF CreateTransferTicket
    <2>5. t.to \in Controllers
        OBVIOUS
    <2> HIDE DEF t
    <2>6. O!Agree(c, t.to) \/ UNCHANGED O!vars
        BY <2>2, <2>3, <2>4, IssueAgrees
    <2> QED BY <2>5, <2>6 DEF O!Next
<1>3. ASSUME NEW c \in Controllers, NEW t \in tickets, NEW v \in 1..Len(chain),
             SignTransferTicket(c, t, v)
      PROVE  O!Next \/ UNCHANGED O!vars
    <2> DEFINE u == [t EXCEPT !.signers = @ \cup {c}]
    <2>1. PICK n \in Nat : n = Len(chain) /\ (chain = <<>> <=> n = 0)
        BY ChainLength DEF IInv
    <2>2. chain # <<>>
        BY <2>1
    <2>3. t \in Ticket
        BY DEF IInv, TypeOK
    <2>4. /\ u \in Ticket /\ u.to = t.to /\ u.txid = t.txid
          /\ u.signers = t.signers \cup {c} /\ u.to \in Controllers
        BY <2>3 DEF Ticket
    <2>5. Issue(u)
        BY <1>3 DEF SignTransferTicket
    <2> HIDE DEF u
    <2>6. u.txid = Len(chain) => u.signers \subseteq Agreed(u.to) \cup {c}
        BY <2>4 DEF Agreed
    <2>7. O!Agree(c, u.to) \/ UNCHANGED O!vars
        BY <2>2, <2>4, <2>5, <2>6, IssueAgrees
    <2> QED BY <2>4, <2>7 DEF O!Next
<1>4. CASE Others
    <2>1. \/ UNCHANGED <<tickets, chain, closed>>
          \/ \E c \in Controllers, v \in 1..Len(chain) :
                \/ \E to \in Controllers : CreateTransferTicket(c, to, v)
                \/ \E t \in tickets : SignTransferTicket(c, t, v)
          \/ \E r \in pool : Settle(r)
        BY <1>4 DEF Others, NewCustomizedDID, SignDIDDocument, Edit, DeactivateDID,
                    PublishDID, TransferDID, MergeDIDDocuments, Lose, Keep, Send
    <2> QED BY <1>2, <1>3, <2>1, OwnershipStutters, SettleOwnership
<1>5. CASE UNCHANGED vars
    BY <1>5, OwnershipStutters DEF vars
<1> QED BY <1>1, <1>4, <1>5 DEF Next

\* The DID stays its controllers': every step of the controllers' applications and
\* of the chain is a step of Ownership or changes nothing of it
\* (DIDDocument_PublishDID, DIDDocument_TransferDID, TransferTicket_IsValid).
THEOREM Refinement == Spec => ImplementsOwnership
BY Invariant, RefinementInit, RefinementNext, PTL DEF Spec, ImplementsOwnership, O!Spec

================================================================================
