------------------------- MODULE DocumentBuilder_proofs --------------------------
(***************************************************************************)
(* Proofs about DocumentBuilder, for any keys, controllers and credentials, *)
(* and any number of sessions and operations, whenever documents expire and *)
(* DIDs are deactivated.  The types hold whatever the application does; that *)
(* sealed documents are genuine and the default key is kept, when it does   *)
(* not give the default key's value to the builder under another id.        *)
(***************************************************************************)
EXTENDS DocumentBuilder, FiniteSetTheorems, TLAPS

\* The builder is not given the default key's value for an authentication or an
\* authorization key.
OneDefault == ~Twins

--------------------------------------------------------------------------------
\* The inductive invariants.

Session == [doc : Document, by : Controllers \cup {None}, ops : 0..MaxOps]

\* The documents that are not being edited.
Finals == {stored} \cup ({sealed} \ {None})

\* Key i of d is one that the name of d can come from.
NamingKey(d, i) == i \in KeyIds(d) /\ d.keys[i].value = Root /\ d.keys[i].own

\* What is known of the copies.
Marks ==
    /\ expired \cup deactivated \subseteq Copies
    /\ unverified \subseteq {"sealed", "stored"}

\* The types, with a naming key in every document of an ordinary DID; the session's
\* document has found it, and the session's controller is one of the document.
Shape ==
    /\ builder \in Session \cup {None}
    /\ sealed \in Document \cup {None}
    /\ stored \in Document
    /\ priv \in [Ids -> Values \cup {None}]
    /\ sessions \in 0..MaxSessions
    /\ \A d \in Finals : Customized(d) \/ \E i \in Ids : NamingKey(d, i)
    /\ builder # None =>
          /\ IF Customized(Doc) THEN Doc.def = None ELSE Doc.def \in Ids /\ NamingKey(Doc, Doc.def)
          /\ builder.by # None => builder.by \in Doc.ctrls
    /\ Marks

\* As many proofs as a document asks for.
Limit(d) == IF Cardinality(d.ctrls) > 1 THEN d.m ELSE 1

\* The default key of an ordinary DID is the one it began with, and no other key has
\* its value.
PrimaryKept(d) ==
    Customized(d) \/ /\ d.def = Primary /\ NamingKey(d, Primary) /\ d.keys[Primary].auth
                     /\ \A i \in KeyIds(d) : d.keys[i].value = Root => i = Primary

\* The proofs are no more than asked for, by those who may sign.
ProofsFit(d) ==
    /\ IsFiniteSet(d.proofs) /\ Cardinality(d.proofs) <= Limit(d)
    /\ Entitled(d)

Finished(d) ==
    /\ PrimaryKept(d) /\ CredentialsGenuine(d)
    /\ ProofsFit(d) /\ Cardinality(d.proofs) >= 1

\* What is sealed or stored is finished, and its proofs are of its text if sealing
\* verified them; a session keeps what sealing relies on; all of them are of one DID,
\* whose private key is in the store.
Sound ==
    /\ \A d \in Finals :
          Finished(d) /\ (Customized(d) <=> Customized(stored))
    /\ "stored" \notin unverified => Fresh(stored)
    /\ sealed # None /\ "sealed" \notin unverified => Fresh(sealed)
    /\ builder # None =>
          PrimaryKept(Doc) /\ ProofsFit(Doc) /\ (Customized(Doc) <=> Customized(stored))
    /\ ~Customized(stored) => priv[Primary] = Root

--------------------------------------------------------------------------------
\* Writing a field of a document or of a key.

LEMMA DocumentWrites ==
    ASSUME NEW d \in Document, NEW y
    PROVE  /\ [d EXCEPT !.ctrls = y] = [ctrls |-> y, m |-> d.m, keys |-> d.keys, def |-> d.def,
                                        creds |-> d.creds, proofs |-> d.proofs]
           /\ [d EXCEPT !.m = y] = [ctrls |-> d.ctrls, m |-> y, keys |-> d.keys, def |-> d.def,
                                    creds |-> d.creds, proofs |-> d.proofs]
           /\ [d EXCEPT !.keys = y] = [ctrls |-> d.ctrls, m |-> d.m, keys |-> y, def |-> d.def,
                                       creds |-> d.creds, proofs |-> d.proofs]
           /\ [d EXCEPT !.def = y] = [ctrls |-> d.ctrls, m |-> d.m, keys |-> d.keys, def |-> y,
                                      creds |-> d.creds, proofs |-> d.proofs]
           /\ [d EXCEPT !.creds = y] = [ctrls |-> d.ctrls, m |-> d.m, keys |-> d.keys,
                                        def |-> d.def, creds |-> y, proofs |-> d.proofs]
           /\ [d EXCEPT !.proofs = y] = [ctrls |-> d.ctrls, m |-> d.m, keys |-> d.keys,
                                         def |-> d.def, creds |-> d.creds, proofs |-> y]
BY DEF Document

\* A document is what its fields are.
LEMMA DocumentFields ==
    ASSUME NEW c \in SUBSET Controllers, NEW n \in Nat, n <= Cardinality(c),
           NEW k \in [Ids -> Key \cup {None}], NEW f \in Ids \cup {None},
           NEW x \in [CredIds -> SignKey \cup {External, None}], NEW q \in SUBSET Proof
    PROVE  [ctrls |-> c, m |-> n, keys |-> k, def |-> f, creds |-> x, proofs |-> q] \in Document
<1>1. IsFiniteSet(c) /\ Cardinality(c) \in Nat /\ Cardinality(Controllers) \in Nat
      /\ Cardinality(c) <= Cardinality(Controllers)
    BY BuilderAssumption, FS_Subset, FS_CardinalityType
<1>2. n \in 0..Cardinality(Controllers)
    BY <1>1
<1> QED BY <1>2 DEF Document

LEMMA FieldsOf ==
    ASSUME NEW d \in Document
    PROVE  /\ d.ctrls \in SUBSET Controllers /\ d.m \in Nat /\ d.m <= Cardinality(d.ctrls)
           /\ d.keys \in [Ids -> Key \cup {None}] /\ d.def \in Ids \cup {None}
           /\ d.creds \in [CredIds -> SignKey \cup {External, None}]
           /\ d.proofs \in SUBSET Proof
           /\ IsFiniteSet(d.ctrls) /\ Cardinality(d.ctrls) \in Nat
           /\ d.ctrls = {} => Cardinality(d.ctrls) = 0 /\ d.m = 0
<1>1. /\ d.ctrls \in SUBSET Controllers /\ d.m \in 0..Cardinality(Controllers)
      /\ d.m <= Cardinality(d.ctrls)
      /\ d.keys \in [Ids -> Key \cup {None}] /\ d.def \in Ids \cup {None}
      /\ d.creds \in [CredIds -> SignKey \cup {External, None}]
      /\ d.proofs \in SUBSET Proof
    BY DEF Document
<1>2. /\ IsFiniteSet(d.ctrls) /\ Cardinality(d.ctrls) \in Nat
      /\ Cardinality(Controllers) \in Nat
    BY <1>1, BuilderAssumption, FS_Subset, FS_CardinalityType
<1>3. d.ctrls = {} => Cardinality(d.ctrls) = 0
    BY FS_EmptySet
<1> QED BY <1>1, <1>2, <1>3

LEMMA KeyWrites ==
    ASSUME NEW k \in Key, NEW y
    PROVE  /\ [k EXCEPT !.auth = y] =
                 [value |-> k.value, own |-> k.own, auth |-> y, authz |-> k.authz]
           /\ [k EXCEPT !.authz = y] =
                 [value |-> k.value, own |-> k.own, auth |-> k.auth, authz |-> y]
BY DEF Key

--------------------------------------------------------------------------------
\* The operations of a session, by what they do to its document.

\* The proofs q come from the proofs o: they are no more, by the same signers.
Descend(q, o) ==
    /\ \A x \in q : \E y \in o : x.by = y.by /\ x.id = y.id
    /\ IsFiniteSet(o) => IsFiniteSet(q) /\ Cardinality(q) <= Cardinality(o)

\* The document stays the DID's: its default key, its controllers, its being
\* customized; Root is not given to another key; the proofs are gone, or they come
\* from those there were and the same signers are asked for.
Edited(d, by, e) ==
    /\ e \in Document /\ e.def = d.def
    /\ Customized(e) <=> Customized(d)
    /\ by \in d.ctrls => by \in e.ctrls
    /\ d.def \in KeyIds(d) =>
          /\ d.def \in KeyIds(e)
          /\ e.keys[d.def].value = d.keys[d.def].value
          /\ e.keys[d.def].own = d.keys[d.def].own
          /\ d.keys[d.def].auth => e.keys[d.def].auth
    /\ OneDefault => \A i \in KeyIds(e) :
          e.keys[i].value = Root =>
              \/ i \in KeyIds(d) /\ d.keys[i].value = Root
              \/ \A j \in KeyIds(d) : d.keys[j].value # Root
    /\ e.proofs = {} \/ (e.ctrls = d.ctrls /\ e.m = d.m /\ Descend(e.proofs, d.proofs))

\* Only one key is written, and the proofs of the text before are gone or come from them.
LEMMA KeyEdited ==
    ASSUME NEW d \in Document, NEW by, NEW i \in Ids, NEW k \in Key \cup {None},
           NEW q \in SUBSET Proof, q = {} \/ Descend(q, d.proofs),
           NEW e, e = [ctrls |-> d.ctrls, m |-> d.m, keys |-> [d.keys EXCEPT ![i] = k],
                       def |-> d.def, creds |-> d.creds, proofs |-> q],
           k = None => i # d.def,
           i \in KeyIds(d) /\ k # None =>
               /\ k.value = d.keys[i].value /\ k.own = d.keys[i].own
               /\ i = d.def /\ d.keys[i].auth => k.auth,
           OneDefault /\ i \notin KeyIds(d) /\ k # None /\ k.value = Root =>
               \A j \in KeyIds(d) : d.keys[j].value # Root
    PROVE  Edited(d, by, e)
<1>1. PICK ks : ks = [d.keys EXCEPT ![i] = k]
    OBVIOUS
<1>2. /\ ks \in [Ids -> Key \cup {None}] /\ ks[i] = k
      /\ \A j \in Ids : j # i => ks[j] = d.keys[j]
    BY <1>1, FieldsOf
<1>3. e \in Document
    BY <1>1, <1>2, FieldsOf, DocumentFields
<1>4. /\ e.ctrls = d.ctrls /\ e.m = d.m /\ e.keys = ks /\ e.def = d.def /\ e.proofs = q
    BY <1>1
<1>5. KeyIds(e) = {j \in Ids : ks[j] # None} /\ KeyIds(d) = {j \in Ids : d.keys[j] # None}
    BY <1>4 DEF KeyIds
<1>6. d.def \in KeyIds(d) =>
          /\ d.def \in KeyIds(e)
          /\ e.keys[d.def].value = d.keys[d.def].value
          /\ e.keys[d.def].own = d.keys[d.def].own
          /\ d.keys[d.def].auth => e.keys[d.def].auth
    <2>1. CASE i = d.def
        BY <1>2, <1>4, <1>5, <2>1
    <2>2. CASE i # d.def
        BY <1>2, <1>4, <1>5, <2>2
    <2> QED BY <2>1, <2>2
<1>7. ASSUME OneDefault, NEW j \in KeyIds(e), e.keys[j].value = Root
      PROVE  \/ j \in KeyIds(d) /\ d.keys[j].value = Root
             \/ \A h \in KeyIds(d) : d.keys[h].value # Root
    <2>1. CASE j = i
        BY <1>2, <1>4, <1>5, <1>7, <2>1
    <2>2. CASE j # i
        BY <1>2, <1>4, <1>5, <1>7, <2>2
    <2> QED BY <2>1, <2>2
<1> QED BY <1>3, <1>4, <1>6, <1>7 DEF Edited, Customized

\* The keys are not written.
LEMMA OtherEdited ==
    ASSUME NEW d \in Document, NEW by, NEW e \in Document,
           e.def = d.def, e.keys = d.keys,
           Customized(e) <=> Customized(d),
           by \in d.ctrls => by \in e.ctrls,
           e.proofs = {} \/ (e.ctrls = d.ctrls /\ e.m = d.m /\ Descend(e.proofs, d.proofs))
    PROVE  Edited(d, by, e)
BY DEF Edited, KeyIds

LEMMA CleanKey ==
    ASSUME NEW d \in Document, NEW i \in Ids, NEW k \in Key \cup {None}
    PROVE  Clean([d EXCEPT !.keys[i] = k]) =
               [ctrls |-> d.ctrls, m |-> d.m, keys |-> [d.keys EXCEPT ![i] = k],
                def |-> d.def, creds |-> d.creds, proofs |-> {}]
<1>1. PICK ks : ks = [d.keys EXCEPT ![i] = k]
    OBVIOUS
<1>2. ks \in [Ids -> Key \cup {None}]
    BY <1>1, FieldsOf
<1>3. [d EXCEPT !.keys[i] = k] = [d EXCEPT !.keys = ks]
    BY <1>1 DEF Document
<1>4. PICK a : a = [ctrls |-> d.ctrls, m |-> d.m, keys |-> ks, def |-> d.def,
                    creds |-> d.creds, proofs |-> d.proofs]
    OBVIOUS
<1>5. a = [d EXCEPT !.keys[i] = k]
    BY <1>3, <1>4, DocumentWrites
<1>6. a \in Document
    BY <1>2, <1>4, FieldsOf, DocumentFields
<1>7. Clean(a) = [ctrls |-> a.ctrls, m |-> a.m, keys |-> a.keys, def |-> a.def,
                  creds |-> a.creds, proofs |-> {}]
    BY <1>6, DocumentWrites DEF Clean
<1> QED BY <1>1, <1>4, <1>5, <1>7

\* The proofs of a text that has changed.
LEMMA StaleProofs ==
    ASSUME NEW q \in SUBSET Proof
    PROVE  /\ {[p EXCEPT !.fresh = FALSE] : p \in q} \in SUBSET Proof
           /\ Descend({[p EXCEPT !.fresh = FALSE] : p \in q}, q)
<1>1. PICK u : u = FALSE
    OBVIOUS
<1>2. PICK f : f = [p \in q |-> [p EXCEPT !.fresh = u]]
    OBVIOUS
<1>3. PICK t : t = {[p EXCEPT !.fresh = u] : p \in q}
    OBVIOUS
<1>4. \A p \in q : /\ [p EXCEPT !.fresh = u] \in Proof
                   /\ [p EXCEPT !.fresh = u].by = p.by /\ [p EXCEPT !.fresh = u].id = p.id
    <2> TAKE p \in q
    <2>1. [p EXCEPT !.fresh = u] = [by |-> p.by, id |-> p.id, fresh |-> u]
        BY DEF Proof
    <2>2. u \in BOOLEAN
        BY <1>1
    <2> QED BY <2>1, <2>2 DEF Proof
<1>5. IsFiniteSet(q) => IsFiniteSet(t) /\ Cardinality(t) <= Cardinality(q)
    <2>1. f \in Surjection(q, t)
        BY <1>2, <1>3 DEF Surjection
    <2> QED BY <2>1, FS_Surjection
<1> QED BY <1>1, <1>3, <1>4, <1>5 DEF Descend

LEMMA FewerProofs ==
    ASSUME NEW o, NEW q \in SUBSET o
    PROVE  Descend(q, o)
BY FS_Subset DEF Descend

LEMMA StaleWrites ==
    ASSUME NEW d \in Document
    PROVE  \E q \in SUBSET Proof :
               /\ Descend(q, d.proofs)
               /\ Stale(d) = [ctrls |-> d.ctrls, m |-> d.m, keys |-> d.keys, def |-> d.def,
                              creds |-> d.creds, proofs |-> q]
<1>1. PICK q : q = {[p EXCEPT !.fresh = FALSE] : p \in d.proofs}
    OBVIOUS
<1>2. q \in SUBSET Proof /\ Descend(q, d.proofs)
    <2>1. d.proofs \in SUBSET Proof
        BY FieldsOf
    <2> QED BY <1>1, <2>1, StaleProofs
<1>3. Stale(d) = [d EXCEPT !.proofs = q]
    BY <1>1 DEF Stale
<1>4. [d EXCEPT !.proofs = q] = [ctrls |-> d.ctrls, m |-> d.m, keys |-> d.keys, def |-> d.def,
                                 creds |-> d.creds, proofs |-> q]
    BY DEF Document
<1> QED BY <1>2, <1>3, <1>4

LEMMA StaleKey ==
    ASSUME NEW d \in Document, NEW i \in Ids, NEW k \in Key \cup {None}
    PROVE  \E q \in SUBSET Proof :
               /\ Descend(q, d.proofs)
               /\ Stale([d EXCEPT !.keys[i] = k]) =
                     [ctrls |-> d.ctrls, m |-> d.m, keys |-> [d.keys EXCEPT ![i] = k],
                      def |-> d.def, creds |-> d.creds, proofs |-> q]
<1>1. PICK ks : ks = [d.keys EXCEPT ![i] = k]
    OBVIOUS
<1>2. ks \in [Ids -> Key \cup {None}]
    BY <1>1, FieldsOf
<1>3. [d EXCEPT !.keys[i] = k] = [d EXCEPT !.keys = ks]
    BY <1>1 DEF Document
<1>4. PICK a : a = [ctrls |-> d.ctrls, m |-> d.m, keys |-> ks, def |-> d.def,
                    creds |-> d.creds, proofs |-> d.proofs]
    OBVIOUS
<1>5. a = [d EXCEPT !.keys[i] = k]
    BY <1>3, <1>4, DocumentWrites
<1>6. a \in Document
    BY <1>2, <1>4, FieldsOf, DocumentFields
<1>7. PICK q \in SUBSET Proof :
          /\ Descend(q, a.proofs)
          /\ Stale(a) = [ctrls |-> a.ctrls, m |-> a.m, keys |-> a.keys, def |-> a.def,
                         creds |-> a.creds, proofs |-> q]
    BY <1>6, StaleWrites
<1>8. a.proofs = d.proofs
    BY <1>4
<1> QED BY <1>1, <1>4, <1>5, <1>7, <1>8

LEMMA NewKeys ==
    ASSUME NEW v \in Values, NEW a \in BOOLEAN, NEW b \in BOOLEAN, NEW c \in BOOLEAN
    PROVE  /\ NewKey(v, a, b, c) \in Key /\ NewKey(v, a, b, c) # None
           /\ NewKey(v, a, b, c).value = v
BY KeyAssumption DEF NewKey, Key

\* A purpose of a key is set or taken back; Clean or Stale then.
LEMMA PurposeWrites ==
    ASSUME NEW d \in Document, NEW i \in KeyIds(d), NEW y \in BOOLEAN
    PROVE  /\ [d EXCEPT !.keys[i].auth = y] = [d EXCEPT !.keys[i] = [@ EXCEPT !.auth = y]]
           /\ [d EXCEPT !.keys[i].authz = y] = [d EXCEPT !.keys[i] = [@ EXCEPT !.authz = y]]
           /\ i \in Ids /\ d.keys[i] \in Key
           /\ [d.keys[i] EXCEPT !.auth = y] \in Key /\ [d.keys[i] EXCEPT !.authz = y] \in Key
           /\ [d.keys[i] EXCEPT !.auth = y].value = d.keys[i].value
           /\ [d.keys[i] EXCEPT !.auth = y].own = d.keys[i].own
           /\ [d.keys[i] EXCEPT !.auth = y].auth = y
           /\ [d.keys[i] EXCEPT !.authz = y].value = d.keys[i].value
           /\ [d.keys[i] EXCEPT !.authz = y].own = d.keys[i].own
           /\ [d.keys[i] EXCEPT !.authz = y].auth = d.keys[i].auth
<1>1. i \in Ids /\ d.keys[i] \in Key
    BY FieldsOf DEF KeyIds
<1>2. PICK k \in Key : k = d.keys[i]
    BY <1>1
<1>3. [k EXCEPT !.auth = y] = [value |-> k.value, own |-> k.own, auth |-> y, authz |-> k.authz]
    BY KeyWrites
<1>4. [k EXCEPT !.authz = y] = [value |-> k.value, own |-> k.own, auth |-> k.auth, authz |-> y]
    BY KeyWrites
<1>5. /\ [k EXCEPT !.auth = y] \in Key /\ [k EXCEPT !.authz = y] \in Key
      /\ [k EXCEPT !.auth = y].value = k.value /\ [k EXCEPT !.auth = y].own = k.own
      /\ [k EXCEPT !.auth = y].auth = y
      /\ [k EXCEPT !.authz = y].value = k.value /\ [k EXCEPT !.authz = y].own = k.own
      /\ [k EXCEPT !.authz = y].auth = k.auth
    BY <1>3, <1>4 DEF Key
<1>6. /\ [d EXCEPT !.keys[i].auth = y] = [d EXCEPT !.keys[i] = [@ EXCEPT !.auth = y]]
      /\ [d EXCEPT !.keys[i].authz = y] = [d EXCEPT !.keys[i] = [@ EXCEPT !.authz = y]]
    OBVIOUS
<1> QED BY <1>1, <1>2, <1>5, <1>6

LEMMA Signers ==
    ASSUME Shape, NEW k \in IssuerKeys
    PROVE  k \in SignKey
<1>1. stored.ctrls \in SUBSET Controllers /\ Primary \in Ids /\ Root \in Values
    BY FieldsOf, BuilderAssumption DEF Shape
<1>2. CASE k \in {ControllerKey(c) : c \in stored.ctrls}
    BY <1>1, <1>2 DEF ControllerKey, SignKey
<1>3. CASE k \in {[did |-> Self, id |-> i, value |-> priv[i]] :
                     i \in {j \in KeyIds(stored) : stored.keys[j].auth /\ stored.keys[j].own
                                                   /\ priv[j] # None}}
    <2>1. PICK i \in KeyIds(stored) :
              k = [did |-> Self, id |-> i, value |-> priv[i]] /\ priv[i] # None
        BY <1>3
    <2>2. i \in Ids /\ priv[i] \in Values
        BY <2>1 DEF KeyIds, Shape
    <2> QED BY <2>1, <2>2 DEF SignKey
<1> QED BY <1>2, <1>3 DEF IssuerKeys

\* What an operation of the session does: another document, and perhaps a private
\* key that goes, but not the default key's.
Edits == \E e : Edited(Doc, builder.by, e) /\ Rewritten(e) /\ expired' \subseteq expired \cup {"edited"}

PrivEdits == priv' = priv \/ \E i \in Ids : i # Doc.def /\ priv' = [priv EXCEPT ![i] = None]

LEMMA EditsKey ==
    ASSUME Shape, builder # None, NEW i \in Ids,
           \/ \E v \in Values, own \in BOOLEAN : AddPublicKey(i, v, own)
           \/ \E force \in BOOLEAN : RemovePublicKey(i, force)
           \/ \E v \in GivenValues : AddAuthenticationKey(i, v)
           \/ \E v \in GivenValues, own \in BOOLEAN \cup {None} : AddAuthorizationKey(i, v, own)
           \/ RemoveAuthenticationKey(i)
           \/ RemoveAuthorizationKey(i)
    PROVE  Edits /\ PrivEdits
<1>1. PICK d \in Document : d = Doc
    BY DEF Shape, Session, Doc
<1>2. PICK by : by = builder.by
    OBVIOUS
<1>3. ASSUME NEW k \in Key \cup {None},
             \/ Becomes(Clean([d EXCEPT !.keys[i] = k]))
             \/ Becomes(Stale([d EXCEPT !.keys[i] = k])),
             k = None => i # d.def,
             i \in KeyIds(d) /\ k # None =>
                 /\ k.value = d.keys[i].value /\ k.own = d.keys[i].own
                 /\ i = d.def /\ d.keys[i].auth => k.auth,
             OneDefault /\ i \notin KeyIds(d) /\ k # None /\ k.value = Root =>
                 \A j \in KeyIds(d) : d.keys[j].value # Root
      PROVE  Edits
    <2>1. PICK q \in SUBSET Proof :
              /\ q = {} \/ Descend(q, d.proofs)
              /\ Becomes([ctrls |-> d.ctrls, m |-> d.m, keys |-> [d.keys EXCEPT ![i] = k],
                          def |-> d.def, creds |-> d.creds, proofs |-> q])
        <3>1. CASE Becomes(Clean([d EXCEPT !.keys[i] = k]))
            BY <3>1, CleanKey
        <3>2. CASE Becomes(Stale([d EXCEPT !.keys[i] = k]))
            BY <3>2, StaleKey
        <3> QED BY <1>3, <3>1, <3>2
    <2>2. PICK e : e = [ctrls |-> d.ctrls, m |-> d.m, keys |-> [d.keys EXCEPT ![i] = k],
                        def |-> d.def, creds |-> d.creds, proofs |-> q]
        OBVIOUS
    <2>3. Edited(d, by, e)
        <3>1. q = {} \/ Descend(q, d.proofs)
            BY <2>1
        <3>2. /\ k = None => i # d.def
              /\ i \in KeyIds(d) /\ k # None =>
                    /\ k.value = d.keys[i].value /\ k.own = d.keys[i].own
                    /\ i = d.def /\ d.keys[i].auth => k.auth
              /\ OneDefault /\ i \notin KeyIds(d) /\ k # None /\ k.value = Root =>
                    \A j \in KeyIds(d) : d.keys[j].value # Root
            BY <1>3
        <3> QED BY <2>2, <3>1, <3>2, KeyEdited
    <2>4. Rewritten(e) /\ expired' \subseteq expired \cup {"edited"}
        <3>1. Becomes(e)
            BY <2>1, <2>2
        <3> QED BY <3>1 DEF Becomes
    <2> QED BY <1>1, <1>2, <2>3, <2>4 DEF Edits
<1>4. ASSUME NEW v \in GivenValues, v # None
      PROVE  v \in Values /\ (OneDefault => v # Root)
    BY <1>4 DEF GivenValues, OneDefault
<1>5. ASSUME NEW v \in Values, NEW own \in BOOLEAN, AddPublicKey(i, v, own)
      PROVE  Edits /\ PrivEdits
    <2>1. PICK k : k = NewKey(v, own, FALSE, FALSE)
        OBVIOUS
    <2>2. k \in Key /\ k # None /\ k.value = v
        BY <2>1, NewKeys
    <2>3. /\ i \notin KeyIds(d) /\ (\A j \in KeyIds(d) : d.keys[j].value # v)
          /\ Becomes(Clean([d EXCEPT !.keys[i] = k])) /\ priv' = priv
        BY <1>1, <1>5, <2>1 DEF AddPublicKey
    <2>4. Edits
        BY <1>3, <2>2, <2>3
    <2> QED BY <2>3, <2>4 DEF PrivEdits
<1>6. ASSUME NEW force \in BOOLEAN, RemovePublicKey(i, force)
      PROVE  Edits /\ PrivEdits
    <2>1. /\ i # d.def /\ Becomes(Clean([d EXCEPT !.keys[i] = None]))
          /\ priv' = [priv EXCEPT ![i] = None]
        BY <1>1, <1>6 DEF RemovePublicKey
    <2>2. Edits
        BY <1>3, <2>1
    <2> QED BY <1>1, <2>1, <2>2 DEF PrivEdits
<1>7. ASSUME NEW v \in GivenValues, AddAuthenticationKey(i, v)
      PROVE  Edits /\ PrivEdits
    <2>0. priv' = priv
        BY <1>7 DEF AddAuthenticationKey
    <2>1. CASE Unused(i) /\ Becomes(Stale([d EXCEPT !.keys[i].auth = TRUE]))
        <3>1. i \in KeyIds(d)
            BY <1>1, <2>1 DEF Unused
        <3>2. PICK k \in Key : k = [d.keys[i] EXCEPT !.auth = TRUE]
            BY <3>1, PurposeWrites
        <3>3. k.value = d.keys[i].value /\ k.own = d.keys[i].own /\ k.auth
            BY <3>1, <3>2, PurposeWrites
        <3>4. Becomes(Stale([d EXCEPT !.keys[i] = k]))
            BY <2>1, <3>1, <3>2, PurposeWrites
        <3>5. Edits
            BY <1>3, <3>1, <3>3, <3>4, KeyAssumption
        <3> QED BY <2>0, <3>5 DEF PrivEdits
    <2>2. CASE /\ i \notin KeyIds(Doc) /\ v # None
               /\ Becomes(Clean([d EXCEPT !.keys[i] = NewKey(v, TRUE, TRUE, FALSE)]))
        <3>1. PICK k : k = NewKey(v, TRUE, TRUE, FALSE)
            OBVIOUS
        <3>2. k \in Key /\ k # None /\ k.value = v /\ (OneDefault => v # Root)
            BY <1>4, <2>2, <3>1, NewKeys
        <3>3. Edits
            BY <1>1, <1>3, <2>2, <3>1, <3>2
        <3> QED BY <2>0, <3>3 DEF PrivEdits
    <2> QED BY <1>1, <1>7, <2>1, <2>2 DEF AddAuthenticationKey
<1>8. ASSUME NEW v \in GivenValues, NEW own \in BOOLEAN \cup {None},
             AddAuthorizationKey(i, v, own)
      PROVE  Edits /\ PrivEdits
    <2>0. priv' = priv
        BY <1>8 DEF AddAuthorizationKey
    <2>1. CASE Unused(i) /\ Becomes(Clean([d EXCEPT !.keys[i].authz = TRUE]))
        <3>1. i \in KeyIds(d)
            BY <1>1, <2>1 DEF Unused
        <3>2. PICK k \in Key : k = [d.keys[i] EXCEPT !.authz = TRUE]
            BY <3>1, PurposeWrites
        <3>3. k.value = d.keys[i].value /\ k.own = d.keys[i].own /\ k.auth = d.keys[i].auth
            BY <3>1, <3>2, PurposeWrites
        <3>4. Becomes(Clean([d EXCEPT !.keys[i] = k]))
            BY <2>1, <3>1, <3>2, PurposeWrites
        <3>5. Edits
            BY <1>3, <3>1, <3>3, <3>4, KeyAssumption
        <3> QED BY <2>0, <3>5 DEF PrivEdits
    <2>2. CASE /\ i \notin KeyIds(Doc) /\ v # None
               /\ Becomes(Clean([d EXCEPT !.keys[i] = NewKey(v, FALSE, FALSE, TRUE)]))
        <3>1. PICK k : k = NewKey(v, FALSE, FALSE, TRUE)
            OBVIOUS
        <3>2. k \in Key /\ k # None /\ k.value = v /\ (OneDefault => v # Root)
            BY <1>4, <2>2, <3>1, NewKeys
        <3>3. Edits
            BY <1>1, <1>3, <2>2, <3>1, <3>2
        <3> QED BY <2>0, <3>3 DEF PrivEdits
    <2> QED BY <1>1, <1>8, <2>1, <2>2 DEF AddAuthorizationKey
<1>9. ASSUME RemoveAuthenticationKey(i)
      PROVE  Edits /\ PrivEdits
    <2>1. /\ i \in KeyIds(d) /\ i # d.def /\ priv' = priv
          /\ Becomes(Clean([d EXCEPT !.keys[i].auth = FALSE]))
        BY <1>1, <1>9 DEF RemoveAuthenticationKey
    <2>2. PICK k \in Key : k = [d.keys[i] EXCEPT !.auth = FALSE]
        BY <2>1, PurposeWrites
    <2>3. k.value = d.keys[i].value /\ k.own = d.keys[i].own
        BY <2>1, <2>2, PurposeWrites
    <2>4. Becomes(Clean([d EXCEPT !.keys[i] = k]))
        BY <2>1, <2>2, PurposeWrites
    <2>5. Edits
        BY <1>3, <2>1, <2>3, <2>4, KeyAssumption
    <2> QED BY <2>1, <2>5 DEF PrivEdits
<1>10. ASSUME RemoveAuthorizationKey(i)
       PROVE  Edits /\ PrivEdits
    <2>1. /\ i \in KeyIds(d) /\ i # d.def /\ priv' = priv
          /\ Becomes(Clean([d EXCEPT !.keys[i].authz = FALSE]))
        BY <1>1, <1>10 DEF RemoveAuthorizationKey
    <2>2. PICK k \in Key : k = [d.keys[i] EXCEPT !.authz = FALSE]
        BY <2>1, PurposeWrites
    <2>3. k.value = d.keys[i].value /\ k.own = d.keys[i].own
        BY <2>1, <2>2, PurposeWrites
    <2>4. Becomes(Clean([d EXCEPT !.keys[i] = k]))
        BY <2>1, <2>2, PurposeWrites
    <2>5. Edits
        BY <1>3, <2>1, <2>3, <2>4, KeyAssumption
    <2> QED BY <2>1, <2>5 DEF PrivEdits
<1> QED BY <1>5, <1>6, <1>7, <1>8, <1>9, <1>10

LEMMA CleanFields ==
    ASSUME NEW d \in Document
    PROVE  /\ Clean(d) = [ctrls |-> d.ctrls, m |-> d.m, keys |-> d.keys, def |-> d.def,
                          creds |-> d.creds, proofs |-> {}]
           /\ Clean(d) \in Document
<1>1. Clean(d) = [ctrls |-> d.ctrls, m |-> d.m, keys |-> d.keys, def |-> d.def,
                  creds |-> d.creds, proofs |-> {}]
    BY DocumentWrites DEF Clean
<1>2. {} \in SUBSET Proof
    OBVIOUS
<1>3. PICK q \in SUBSET Proof : q = {}
    BY <1>2
<1>4. [ctrls |-> d.ctrls, m |-> d.m, keys |-> d.keys, def |-> d.def,
       creds |-> d.creds, proofs |-> q] \in Document
    BY FieldsOf, DocumentFields
<1> QED BY <1>1, <1>3, <1>4

\* A document with other controllers, credentials or proofs, and the same keys.
LEMMA CleanControllers ==
    ASSUME NEW d \in Document, NEW c \in SUBSET Controllers
    PROVE  /\ Clean([d EXCEPT !.ctrls = c, !.m = 0]) =
                 [ctrls |-> c, m |-> 0, keys |-> d.keys, def |-> d.def,
                  creds |-> d.creds, proofs |-> {}]
           /\ Clean([d EXCEPT !.ctrls = c, !.m = 0]) \in Document
<1>1. PICK n : n = 0
    OBVIOUS
<1>2. IsFiniteSet(c) /\ Cardinality(c) \in Nat
    BY BuilderAssumption, FS_Subset, FS_CardinalityType
<1>3. PICK a : a = [ctrls |-> c, m |-> n, keys |-> d.keys, def |-> d.def,
                    creds |-> d.creds, proofs |-> d.proofs]
    OBVIOUS
<1>4. a = [d EXCEPT !.ctrls = c, !.m = n]
    <2>1. PICK b : b = [ctrls |-> c, m |-> d.m, keys |-> d.keys, def |-> d.def,
                        creds |-> d.creds, proofs |-> d.proofs]
        OBVIOUS
    <2>2. b = [d EXCEPT !.ctrls = c]
        BY <2>1, DocumentWrites
    <2>3. a = [b EXCEPT !.m = n]
        BY <1>3, <2>1
    <2> QED BY <2>2, <2>3
<1>5. a \in Document
    BY <1>1, <1>2, <1>3, FieldsOf, DocumentFields
<1>6. Clean(a) = [ctrls |-> a.ctrls, m |-> a.m, keys |-> a.keys, def |-> a.def,
                  creds |-> a.creds, proofs |-> {}]
    BY <1>5, DocumentWrites DEF Clean
<1>7. Clean(a) = [ctrls |-> c, m |-> 0, keys |-> d.keys, def |-> d.def,
                  creds |-> d.creds, proofs |-> {}]
    BY <1>1, <1>3, <1>6
<1>8. Clean(a) \in Document
    BY <1>2, <1>7, FieldsOf, DocumentFields
<1> QED BY <1>1, <1>4, <1>7, <1>8

LEMMA CleanMultisig ==
    ASSUME NEW d \in Document, NEW n \in Nat, n <= Cardinality(d.ctrls)
    PROVE  /\ Clean([d EXCEPT !.m = n]) =
                 [ctrls |-> d.ctrls, m |-> n, keys |-> d.keys, def |-> d.def,
                  creds |-> d.creds, proofs |-> {}]
           /\ Clean([d EXCEPT !.m = n]) \in Document
<1>1. PICK a : a = [ctrls |-> d.ctrls, m |-> n, keys |-> d.keys, def |-> d.def,
                    creds |-> d.creds, proofs |-> d.proofs]
    OBVIOUS
<1>2. a = [d EXCEPT !.m = n] /\ a \in Document
    <2>1. a = [d EXCEPT !.m = n]
        BY <1>1, DocumentWrites
    <2>2. a \in Document
        BY <1>1, FieldsOf, DocumentFields
    <2> QED BY <2>1, <2>2
<1>3. Clean(a) = [ctrls |-> a.ctrls, m |-> a.m, keys |-> a.keys, def |-> a.def,
                  creds |-> a.creds, proofs |-> {}]
    BY <1>2, CleanFields
<1>4. Clean(a) = [ctrls |-> d.ctrls, m |-> n, keys |-> d.keys, def |-> d.def,
                  creds |-> d.creds, proofs |-> {}]
    BY <1>1, <1>3
<1>5. Clean(a) \in Document
    BY <1>4, FieldsOf, DocumentFields
<1> QED BY <1>2, <1>4, <1>5

LEMMA CredentialsWritten ==
    ASSUME NEW d \in Document, NEW x \in [CredIds -> SignKey \cup {External, None}]
    PROVE  /\ [d EXCEPT !.creds = x] \in Document
           /\ [d EXCEPT !.creds = x] =
                 [ctrls |-> d.ctrls, m |-> d.m, keys |-> d.keys, def |-> d.def,
                  creds |-> x, proofs |-> d.proofs]
           /\ Clean([d EXCEPT !.creds = x]) =
                 [ctrls |-> d.ctrls, m |-> d.m, keys |-> d.keys, def |-> d.def,
                  creds |-> x, proofs |-> {}]
           /\ Clean([d EXCEPT !.creds = x]) \in Document
<1>1. PICK a : a = [ctrls |-> d.ctrls, m |-> d.m, keys |-> d.keys, def |-> d.def,
                    creds |-> x, proofs |-> d.proofs]
    OBVIOUS
<1>2. a = [d EXCEPT !.creds = x] /\ a \in Document
    BY <1>1, DocumentWrites, FieldsOf, DocumentFields
<1>3. /\ Clean(a) \in Document
      /\ Clean(a) = [ctrls |-> a.ctrls, m |-> a.m, keys |-> a.keys, def |-> a.def,
                     creds |-> a.creds, proofs |-> {}]
    BY <1>2, CleanFields
<1> QED BY <1>1, <1>2, <1>3

LEMMA EditsControllers ==
    ASSUME Shape, builder # None,
           \/ \E c \in Controllers : AddController(c) \/ RemoveController(c)
           \/ \E m \in 1..Cardinality(Controllers) : SetMultisig(m)
    PROVE  Edits /\ PrivEdits
<1>1. PICK d \in Document : d = Doc
    BY DEF Shape, Session, Doc
<1>2. PICK by : by = builder.by
    OBVIOUS
<1>3. ASSUME NEW e \in Document, e.def = d.def, e.keys = d.keys, e.proofs = {},
             Customized(e) <=> Customized(d), by \in d.ctrls => by \in e.ctrls, Becomes(e),
             priv' = priv
      PROVE  Edits /\ PrivEdits
    <2>1. Edited(d, by, e)
        BY <1>3, OtherEdited
    <2> QED BY <1>1, <1>2, <1>3, <2>1 DEF Edits, PrivEdits, Becomes
<1>4. ASSUME NEW c \in Controllers, AddController(c)
      PROVE  Edits /\ PrivEdits
    <2>1. /\ Customized(d) /\ Becomes(Clean([d EXCEPT !.ctrls = d.ctrls \cup {c}, !.m = 0]))
          /\ priv' = priv
        BY <1>1, <1>4 DEF AddController
    <2>2. PICK cs \in SUBSET Controllers : cs = d.ctrls \cup {c}
        BY FieldsOf
    <2>3. PICK e : e = Clean([d EXCEPT !.ctrls = cs, !.m = 0])
        OBVIOUS
    <2>4. /\ e \in Document
          /\ e = [ctrls |-> cs, m |-> 0, keys |-> d.keys, def |-> d.def,
                  creds |-> d.creds, proofs |-> {}]
        BY <2>3, CleanControllers
    <2>5. /\ e.def = d.def /\ e.keys = d.keys /\ e.proofs = {} /\ e.ctrls = cs
        BY <2>4
    <2>6. Customized(e) /\ (by \in d.ctrls => by \in e.ctrls)
        BY <2>2, <2>5 DEF Customized
    <2> QED BY <1>3, <2>1, <2>2, <2>3, <2>4, <2>5, <2>6
<1>5. ASSUME NEW c \in Controllers, RemoveController(c)
      PROVE  Edits /\ PrivEdits
    <2>1. /\ Customized(d) /\ by # None /\ c # by /\ priv' = priv
          /\ Becomes(Clean([d EXCEPT !.ctrls = d.ctrls \ {c}, !.m = 0]))
        BY <1>1, <1>2, <1>5 DEF RemoveController
    <2>2. PICK cs \in SUBSET Controllers : cs = d.ctrls \ {c}
        BY FieldsOf
    <2>3. PICK e : e = Clean([d EXCEPT !.ctrls = cs, !.m = 0])
        OBVIOUS
    <2>4. /\ e \in Document
          /\ e = [ctrls |-> cs, m |-> 0, keys |-> d.keys, def |-> d.def,
                  creds |-> d.creds, proofs |-> {}]
        BY <2>3, CleanControllers
    <2>5. /\ e.def = d.def /\ e.keys = d.keys /\ e.proofs = {} /\ e.ctrls = cs
        BY <2>4
    <2>6. by \in d.ctrls /\ by \in cs
        BY <1>1, <1>2, <2>1, <2>2 DEF Shape
    <2>7. Customized(e) /\ (by \in d.ctrls => by \in e.ctrls)
        BY <2>5, <2>6 DEF Customized
    <2> QED BY <1>3, <2>1, <2>2, <2>3, <2>4, <2>5, <2>7
<1>6. ASSUME NEW m \in 1..Cardinality(Controllers), SetMultisig(m)
      PROVE  Edits /\ PrivEdits
    <2>1. /\ Customized(d) /\ m \in 1..Cardinality(d.ctrls) /\ priv' = priv
          /\ Becomes(Clean([d EXCEPT !.m = m]))
        BY <1>1, <1>6 DEF SetMultisig
    <2>2. Cardinality(d.ctrls) \in Nat
        BY FieldsOf
    <2>3. PICK n \in Nat : n = m /\ n <= Cardinality(d.ctrls)
        BY <2>1, <2>2
    <2>4. PICK e : e = Clean([d EXCEPT !.m = n])
        OBVIOUS
    <2>5. /\ e \in Document
          /\ e = [ctrls |-> d.ctrls, m |-> n, keys |-> d.keys, def |-> d.def,
                  creds |-> d.creds, proofs |-> {}]
        BY <2>3, <2>4, CleanMultisig
    <2>6. /\ e.def = d.def /\ e.keys = d.keys /\ e.proofs = {} /\ e.ctrls = d.ctrls
        BY <2>5
    <2>7. Customized(e) <=> Customized(d)
        BY <2>6 DEF Customized
    <2> QED BY <1>3, <2>1, <2>3, <2>4, <2>5, <2>6, <2>7
<1> QED BY <1>4, <1>5, <1>6

LEMMA EditsCredentials ==
    ASSUME Shape, builder # None,
           \/ OtherEdit \/ (\E past \in BOOLEAN : SetExpires(past))
           \/ \E x \in Controllers \cup {Self} :
                 \/ RemoveProof(x) \/ RemoveSelfProclaimedCredential(x)
                 \/ \E k \in IssuerKeys : RenewSelfProclaimedCredential(x, k)
           \/ \E c \in CredIds :
                 \/ \E s \in SignKey \cup {External} : AddCredential(c, s)
                 \/ \E k \in IssuerKeys : AddSelfProclaimedCredential(c, k)
                 \/ RemoveCredential(c)
    PROVE  Edits /\ PrivEdits
<1>1. PICK d \in Document : d = Doc
    BY DEF Shape, Session, Doc
<1>2. PICK by : by = builder.by
    OBVIOUS
<1>3. d.creds \in [CredIds -> SignKey \cup {External, None}]
    BY FieldsOf
<1>4. ASSUME NEW e \in Document, e.def = d.def, e.keys = d.keys, e.ctrls = d.ctrls,
             e.proofs = {} \/ (e.m = d.m /\ Descend(e.proofs, d.proofs)),
             Rewritten(e), expired' \subseteq expired \cup {"edited"}, priv' = priv
      PROVE  Edits /\ PrivEdits
    <2>1. Edited(d, by, e)
        BY <1>4, OtherEdited DEF Customized
    <2> QED BY <1>1, <1>2, <1>4, <2>1 DEF Edits, PrivEdits
<1>5. CASE OtherEdit \/ (\E past \in BOOLEAN : SetExpires(past))
    <2>1. /\ Rewritten(Clean(d)) /\ priv' = priv
          /\ expired' \subseteq expired \cup {"edited"}
        BY <1>1, <1>5 DEF OtherEdit, SetExpires, Becomes
    <2>2. PICK e : e = Clean(d)
        OBVIOUS
    <2>3. /\ e \in Document
          /\ e = [ctrls |-> d.ctrls, m |-> d.m, keys |-> d.keys, def |-> d.def,
                  creds |-> d.creds, proofs |-> {}]
        BY <2>2, CleanFields
    <2>4. /\ e.def = d.def /\ e.keys = d.keys /\ e.ctrls = d.ctrls /\ e.proofs = {}
        BY <2>3
    <2> QED BY <1>4, <2>1, <2>2, <2>3, <2>4
<1>6. ASSUME NEW x, RemoveProof(x)
      PROVE  Edits /\ PrivEdits
    <2>1. PICK p \in d.proofs : Becomes([d EXCEPT !.proofs = d.proofs \ {p}]) /\ priv' = priv
        BY <1>1, <1>6 DEF RemoveProof
    <2>2. PICK q \in SUBSET Proof : q = d.proofs \ {p}
        BY FieldsOf
    <2>3. PICK e : e = [ctrls |-> d.ctrls, m |-> d.m, keys |-> d.keys, def |-> d.def,
                        creds |-> d.creds, proofs |-> q]
        OBVIOUS
    <2>4. e = [d EXCEPT !.proofs = q] /\ e \in Document
        BY <2>3, DocumentWrites, FieldsOf, DocumentFields
    <2>5. /\ e.def = d.def /\ e.keys = d.keys /\ e.ctrls = d.ctrls /\ e.m = d.m
          /\ Descend(e.proofs, d.proofs)
        BY <2>2, <2>3, FewerProofs
    <2> QED BY <1>4, <2>1, <2>2, <2>4, <2>5 DEF Becomes
<1>7. ASSUME NEW y \in [CredIds -> SignKey \cup {External, None}],
             Becomes(Clean([d EXCEPT !.creds = y])), priv' = priv
      PROVE  Edits /\ PrivEdits
    <2>1. PICK e : e = Clean([d EXCEPT !.creds = y])
        OBVIOUS
    <2>2. /\ e \in Document
          /\ e = [ctrls |-> d.ctrls, m |-> d.m, keys |-> d.keys, def |-> d.def,
                  creds |-> y, proofs |-> {}]
        BY <2>1, CredentialsWritten
    <2>3. /\ e.def = d.def /\ e.keys = d.keys /\ e.ctrls = d.ctrls /\ e.proofs = {}
        BY <2>2
    <2> QED BY <1>4, <1>7, <2>1, <2>2, <2>3 DEF Becomes
<1>8. ASSUME NEW c \in CredIds, NEW s \in SignKey \cup {External, None},
             Becomes(SetCredential(c, s)), priv' = priv
      PROVE  Edits /\ PrivEdits
    <2>1. PICK y : y = [d.creds EXCEPT ![c] = s]
        OBVIOUS
    <2>2. y \in [CredIds -> SignKey \cup {External, None}]
        BY <1>3, <2>1
    <2>3. [d EXCEPT !.creds[c] = s] = [d EXCEPT !.creds = y]
        BY <2>1 DEF Document
    <2> QED BY <1>1, <1>7, <1>8, <2>2, <2>3 DEF SetCredential
<1>9. ASSUME NEW x, RemoveSelfProclaimedCredential(x)
      PROVE  Edits /\ PrivEdits
    <2>1. PICK y : y = [c \in CredIds |-> IF c \in SignedBy(x) THEN None ELSE d.creds[c]]
        OBVIOUS
    <2>2. y \in [CredIds -> SignKey \cup {External, None}]
        BY <1>3, <2>1
    <2> QED BY <1>1, <1>7, <1>9, <2>1, <2>2 DEF RemoveSelfProclaimedCredential
<1>10. ASSUME NEW x, NEW k \in IssuerKeys, RenewSelfProclaimedCredential(x, k)
       PROVE  Edits /\ PrivEdits
    <2>1. PICK y : y = [c \in CredIds |-> IF c \in SignedBy(x) THEN k ELSE d.creds[c]]
        OBVIOUS
    <2>2. y \in [CredIds -> SignKey \cup {External, None}]
        BY <1>3, <2>1, Signers
    <2>3. Becomes(Stale([d EXCEPT !.creds = y])) /\ priv' = priv
        BY <1>1, <1>10, <2>1 DEF RenewSelfProclaimedCredential
    <2>4. PICK a : a = [d EXCEPT !.creds = y]
        OBVIOUS
    <2>5. /\ a \in Document
          /\ a = [ctrls |-> d.ctrls, m |-> d.m, keys |-> d.keys, def |-> d.def,
                  creds |-> y, proofs |-> d.proofs]
        BY <2>2, <2>4, CredentialsWritten
    <2>6. PICK q \in SUBSET Proof :
              /\ Descend(q, a.proofs)
              /\ Stale(a) = [ctrls |-> a.ctrls, m |-> a.m, keys |-> a.keys, def |-> a.def,
                             creds |-> a.creds, proofs |-> q]
        BY <2>5, StaleWrites
    <2>7. PICK e : e = Stale(a)
        OBVIOUS
    <2>8. /\ e.def = d.def /\ e.keys = d.keys /\ e.ctrls = d.ctrls /\ e.proofs = q
          /\ e.m = d.m /\ a.proofs = d.proofs
        BY <2>5, <2>6, <2>7
    <2>9. e \in Document
        <3>1. /\ a.ctrls \in SUBSET Controllers /\ a.m \in Nat /\ a.m <= Cardinality(a.ctrls)
              /\ a.keys \in [Ids -> Key \cup {None}] /\ a.def \in Ids \cup {None}
              /\ a.creds \in [CredIds -> SignKey \cup {External, None}]
            BY <2>5, FieldsOf
        <3>2. [ctrls |-> a.ctrls, m |-> a.m, keys |-> a.keys, def |-> a.def,
               creds |-> a.creds, proofs |-> q] \in Document
            BY <3>1, DocumentFields
        <3> QED BY <2>6, <2>7, <3>2
    <2> QED BY <1>4, <2>3, <2>4, <2>6, <2>7, <2>8, <2>9 DEF Becomes
<1>11. ASSUME NEW c \in CredIds,
              \/ \E s \in SignKey \cup {External} : AddCredential(c, s)
              \/ \E k \in IssuerKeys : AddSelfProclaimedCredential(c, k)
              \/ RemoveCredential(c)
       PROVE  Edits /\ PrivEdits
    <2>1. PICK s \in SignKey \cup {External, None} : Becomes(SetCredential(c, s)) /\ priv' = priv
        BY <1>11, Signers
        DEF AddCredential, AddSelfProclaimedCredential, RemoveCredential
    <2> QED BY <1>8, <2>1
<1> QED BY <1>5, <1>6, <1>9, <1>10, <1>11

\* What an operation does, but for the application's storing a private key.
LEMMA OperationEdits ==
    ASSUME Shape, builder # None, Operation
    PROVE  (Edits /\ PrivEdits) \/ \E i \in Ids : StorePrivateKey(i)
<1>1. ASSUME NEW i \in Ids,
             \/ \E v \in Values, own \in BOOLEAN : AddPublicKey(i, v, own)
             \/ \E force \in BOOLEAN : RemovePublicKey(i, force)
             \/ \E v \in GivenValues :
                   \/ AddAuthenticationKey(i, v)
                   \/ \E own \in BOOLEAN \cup {None} : AddAuthorizationKey(i, v, own)
             \/ RemoveAuthenticationKey(i) \/ RemoveAuthorizationKey(i) \/ StorePrivateKey(i)
      PROVE  (Edits /\ PrivEdits) \/ StorePrivateKey(i)
    BY <1>1, EditsKey
<1>2. ASSUME \/ \E c \in Controllers : AddController(c) \/ RemoveController(c)
             \/ \E m \in 1..Cardinality(Controllers) : SetMultisig(m)
      PROVE  Edits /\ PrivEdits
    BY <1>2, EditsControllers
<1>3. ASSUME \/ OtherEdit \/ (\E past \in BOOLEAN : SetExpires(past))
             \/ \E x \in Controllers \cup {Self} :
                   \/ RemoveProof(x) \/ RemoveSelfProclaimedCredential(x)
                   \/ \E k \in IssuerKeys : RenewSelfProclaimedCredential(x, k)
             \/ \E c \in CredIds :
                   \/ \E s \in SignKey \cup {External} : AddCredential(c, s)
                   \/ \E k \in IssuerKeys : AddSelfProclaimedCredential(c, k)
                   \/ RemoveCredential(c)
      PROVE  Edits /\ PrivEdits
    BY <1>3, EditsCredentials
<1> QED BY <1>1, <1>2, <1>3 DEF Operation

\* The session goes on with another document.
LEMMA Continued ==
    ASSUME Shape, builder # None, NEW e \in Document, Rewritten(e)
    PROVE  /\ builder' \in Session
           /\ builder'.doc = e /\ builder'.by = builder.by
           /\ sealed' = sealed /\ stored' = stored /\ sessions' = sessions
           /\ deactivated' = deactivated /\ unverified' = unverified
<1>1. builder \in Session /\ MaxOps \in Nat
    BY BuilderAssumption DEF Shape
<1>2. PICK n \in 0..MaxOps : n = builder.ops
    BY <1>1 DEF Session
<1>3. builder.by \in Controllers \cup {None}
    BY <1>1 DEF Session
<1>4. n < MaxOps /\ n + 1 \in 0..MaxOps
    BY <1>1, <1>2 DEF Rewritten
<1>5. PICK k : k = n + 1
    OBVIOUS
<1>6. builder' = [doc |-> e, by |-> builder.by, ops |-> k]
    BY <1>1, <1>2, <1>5 DEF Rewritten, Session
<1>7. builder' \in Session
    BY <1>3, <1>4, <1>5, <1>6 DEF Session
<1> QED BY <1>6, <1>7 DEF Rewritten

--------------------------------------------------------------------------------
\* What the default key of a document is.

LEMMA Smallest ==
    ASSUME NEW S \in SUBSET Nat, S # {}
    PROVE  Min(S) \in S
<1>1. PICK R : R = {ss \in Nat \X Nat : ss[1] < ss[2]}
    OBVIOUS
<1>2. IsWellFoundedOn(R, Nat)
    BY <1>1, NatLessThanWellFounded DEF OpToRel
<1>3. PICK x \in S : \A y \in S : ~(<<y, x>> \in R)
    BY <1>2, WFMin
<1>4. ASSUME NEW y \in S PROVE x <= y
    <2>1. y \in Nat /\ x \in Nat
        OBVIOUS
    <2>2. PICK t \in Nat \X Nat : t = <<y, x>>
        BY <2>1
    <2>3. t[1] = y /\ t[2] = x
        BY <2>2
    <2>4. ~(y < x)
        BY <1>1, <1>3, <2>2, <2>3
    <2> QED BY <2>1, <2>4
<1> QED BY <1>4 DEF Min

\* DIDDocument_Edit finds a default key that the name can come from, in an ordinary
\* DID's document that has one.
LEMMA Found ==
    ASSUME NEW d \in Document, Customized(d) \/ \E i \in Ids : NamingKey(d, i)
    PROVE  IF Customized(d) THEN DefaultKey(d) = None
                            ELSE DefaultKey(d) \in Ids /\ NamingKey(d, DefaultKey(d))
<1>1. PICK roots : roots = {i \in KeyIds(d) : d.keys[i].value = Root /\ d.keys[i].own}
    OBVIOUS
<1>2. DefaultKey(d) = IF Customized(d) \/ roots = {} THEN None ELSE Min(roots)
    BY <1>1 DEF DefaultKey
<1>3. CASE ~Customized(d)
    <2>1. roots # {} /\ roots \in SUBSET Nat
        BY <1>1, <1>3, BuilderAssumption DEF NamingKey, KeyIds
    <2>2. Min(roots) \in roots
        BY <2>1, Smallest
    <2> QED BY <1>1, <1>2, <1>3, <2>1, <2>2 DEF NamingKey, KeyIds
<1> QED BY <1>2, <1>3

\* The one it had, when no other key has its value.
LEMMA FoundPrimary ==
    ASSUME NEW d \in Document, PrimaryKept(d), ~Customized(d)
    PROVE  DefaultKey(d) = Primary
<1>1. NamingKey(d, DefaultKey(d))
    BY Found, BuilderAssumption DEF PrimaryKept
<1> QED BY <1>1 DEF PrimaryKept, NamingKey

\* The keys of d are those of e, with all their purposes.
KeysStay(d, e) ==
    /\ KeyIds(e) = KeyIds(d)
    /\ \A i \in KeyIds(d) :
          /\ e.keys[i].value = d.keys[i].value /\ e.keys[i].own = d.keys[i].own
          /\ d.keys[i].auth => e.keys[i].auth

\* Reading a document that was written.
LEMMA RereadFields ==
    ASSUME NEW d \in Document, Customized(d) \/ \E i \in Ids : NamingKey(d, i)
    PROVE  /\ Reread(d) \in Document
           /\ Reread(d).ctrls = d.ctrls /\ Reread(d).creds = d.creds
           /\ Reread(d).proofs = d.proofs
           /\ KeysStay(d, Reread(d))
           /\ IF Customized(d)
              THEN Reread(d).m = IF Cardinality(d.ctrls) > 1 THEN d.m ELSE 0
              ELSE /\ Reread(d).m = d.m
                   /\ Reread(d).def \in KeyIds(d) /\ d.keys[Reread(d).def].value = Root
                   /\ Reread(d).keys[Reread(d).def].auth
<1>1. CASE Customized(d)
    <2>1. PICK f : f = None
        OBVIOUS
    <2>2. PICK n : n = IF Cardinality(d.ctrls) > 1 THEN d.m ELSE 0
        OBVIOUS
    <2>3. n \in Nat /\ n <= Cardinality(d.ctrls)
        BY <2>2, FieldsOf
    <2>4. PICK a : a = [ctrls |-> d.ctrls, m |-> d.m, keys |-> d.keys, def |-> f,
                        creds |-> d.creds, proofs |-> d.proofs]
        OBVIOUS
    <2>5. a = [d EXCEPT !.def = f] /\ a \in Document
        BY <2>1, <2>4, DocumentWrites, FieldsOf, DocumentFields
    <2>6. PICK b : b = [ctrls |-> d.ctrls, m |-> n, keys |-> d.keys, def |-> f,
                        creds |-> d.creds, proofs |-> d.proofs]
        OBVIOUS
    <2>7. b \in Document
        BY <2>1, <2>3, <2>6, FieldsOf, DocumentFields
    <2>8. b = [a EXCEPT !.m = n]
        BY <2>4, <2>6
    <2>9. Reread(d) = [d EXCEPT !.def = f, !.m = n]
        BY <1>1, <2>1, <2>2 DEF Reread
    <2>10. Reread(d) = b
        BY <2>5, <2>8, <2>9
    <2>11. /\ b.ctrls = d.ctrls /\ b.creds = d.creds /\ b.proofs = d.proofs
           /\ b.keys = d.keys /\ b.m = n
        BY <2>6
    <2> QED BY <1>1, <2>2, <2>7, <2>10, <2>11 DEF KeysStay, KeyIds
<1>2. CASE ~Customized(d)
    <2>1. PICK roots : roots = {i \in KeyIds(d) : d.keys[i].value = Root}
        OBVIOUS
    <2>2. roots # {} /\ roots \in SUBSET Nat
        BY <1>2, <2>1, BuilderAssumption DEF NamingKey, KeyIds
    <2>3. PICK r \in roots : r = Min(roots)
        BY <2>2, Smallest
    <2>4. r \in KeyIds(d) /\ r \in Ids /\ d.keys[r].value = Root
        BY <2>1 DEF KeyIds
    <2>5. PICK u \in BOOLEAN : u = TRUE
        OBVIOUS
    <2>6. PICK k \in Key : k = [d.keys[r] EXCEPT !.auth = u]
        BY <2>4, PurposeWrites
    <2>7. k.value = d.keys[r].value /\ k.own = d.keys[r].own /\ k.auth
        BY <2>4, <2>5, <2>6, PurposeWrites
    <2>8. PICK ks : ks = [d.keys EXCEPT ![r] = k]
        OBVIOUS
    <2>9. /\ ks \in [Ids -> Key \cup {None}] /\ ks[r] = k
          /\ \A i \in Ids \ {r} : ks[i] = d.keys[i]
        BY <2>4, <2>8, FieldsOf
    <2>10. PICK a : a = [ctrls |-> d.ctrls, m |-> d.m, keys |-> d.keys, def |-> r,
                         creds |-> d.creds, proofs |-> d.proofs]
        OBVIOUS
    <2>11. a = [d EXCEPT !.def = r] /\ a \in Document
        BY <2>4, <2>10, DocumentWrites, FieldsOf, DocumentFields
    <2>12. PICK b : b = [ctrls |-> d.ctrls, m |-> d.m, keys |-> ks, def |-> r,
                         creds |-> d.creds, proofs |-> d.proofs]
        OBVIOUS
    <2>13. b \in Document
        BY <2>4, <2>9, <2>12, FieldsOf, DocumentFields
    <2>14. b = [a EXCEPT !.keys = ks]
        BY <2>10, <2>12
    <2>15. Reread(d) = [d EXCEPT !.def = r, !.keys[r].auth = u]
        BY <1>2, <2>1, <2>3, <2>5 DEF Reread
    <2>16. ks = [d.keys EXCEPT ![r].auth = u]
        BY <2>4, <2>6, <2>8, FieldsOf
    <2>17. Reread(d) = [d EXCEPT !.def = r, !.keys = ks]
        BY <2>15, <2>16 DEF Document
    <2>18. Reread(d) = b
        BY <2>11, <2>14, <2>17
    <2>19. /\ b.ctrls = d.ctrls /\ b.creds = d.creds /\ b.proofs = d.proofs
           /\ b.keys = ks /\ b.m = d.m /\ b.def = r
        BY <2>12
    <2>20. KeyIds(b) = KeyIds(d)
        BY <2>4, <2>9, <2>19, KeyAssumption DEF KeyIds
    <2>21. ASSUME NEW i \in KeyIds(d)
           PROVE  /\ b.keys[i].value = d.keys[i].value
                  /\ b.keys[i].own = d.keys[i].own
                  /\ d.keys[i].auth => b.keys[i].auth
        BY <2>7, <2>9, <2>19 DEF KeyIds
    <2>22. KeysStay(d, b)
        BY <2>20, <2>21 DEF KeysStay
    <2> QED BY <1>2, <2>4, <2>7, <2>9, <2>13, <2>18, <2>19, <2>22
<1> QED BY <1>1, <1>2

--------------------------------------------------------------------------------
\* The beginning.

NoCredentials(d) == \A c \in CredIds : d.creds[c] = None

OnlyPrimary(d) ==
    /\ d.def = Primary /\ d.keys[Primary] = NewKey(Root, TRUE, TRUE, FALSE)
    /\ \A i \in Ids \ {Primary} : d.keys[i] = None

Begun(cs, n, q) == [Blank(cs, n) EXCEPT !.proofs = q]

LEMMA Blanks ==
    ASSUME NEW cs \in SUBSET Controllers, NEW n \in Nat, n <= Cardinality(cs),
           NEW q \in SUBSET Proof
    PROVE  /\ Begun(cs, n, q) \in Document /\ Begun(cs, n, q).ctrls = cs
           /\ Begun(cs, n, q).m = n /\ Begun(cs, n, q).proofs = q
           /\ cs = {} => OnlyPrimary(Begun(cs, n, q))
           /\ NoCredentials(Begun(cs, n, q))
<1>1. PICK ks : ks = [i \in Ids |-> IF i = Primary /\ cs = {} THEN NewKey(Root, TRUE, TRUE, FALSE)
                                    ELSE None]
    OBVIOUS
<1>2. ks \in [Ids -> Key \cup {None}]
    BY <1>1, NewKeys, BuilderAssumption
<1>3. PICK f \in Ids \cup {None} : f = IF cs = {} THEN Primary ELSE None
    BY BuilderAssumption
<1>4. PICK x \in [CredIds -> SignKey \cup {External, None}] : x = [c \in CredIds |-> None]
    OBVIOUS
<1>5. Blank(cs, n) = [ctrls |-> cs, m |-> n, keys |-> ks, def |-> f, creds |-> x, proofs |-> {}]
    BY <1>1, <1>3, <1>4 DEF Blank
<1>6. Begun(cs, n, q) = [ctrls |-> cs, m |-> n, keys |-> ks, def |-> f, creds |-> x, proofs |-> q]
    BY <1>5 DEF Begun
<1>7. PICK e : e = [ctrls |-> cs, m |-> n, keys |-> ks, def |-> f, creds |-> x, proofs |-> q]
    OBVIOUS
<1>8. e \in Document
    BY <1>2, <1>7, DocumentFields
<1>9. /\ e.ctrls = cs /\ e.m = n /\ e.proofs = q /\ e.keys = ks /\ e.def = f /\ e.creds = x
    BY <1>7
<1>10. Begun(cs, n, q) = e
    BY <1>6, <1>7
<1>11. cs = {} => OnlyPrimary(e)
    BY <1>1, <1>3, <1>9, BuilderAssumption DEF OnlyPrimary
<1>12. NoCredentials(e)
    BY <1>4, <1>9 DEF NoCredentials
<1> QED BY <1>8, <1>9, <1>10, <1>11, <1>12

LEMMA Signatures ==
    ASSUME NEW c \in Controllers \cup {Self}
    PROVE  /\ Signature(c) \in Proof /\ Signature(c).by = c /\ Signature(c).fresh
           /\ Signature(c).id = Primary
BY BuilderAssumption DEF Signature, Proof

\* RootIdentity_NewDID's document, and a customized DID's that its controllers signed.
LEMMA Initial ==
    ASSUME Init
    PROVE  Shape /\ Sound
<1>1. /\ builder = None /\ sealed = None /\ sessions = 0
      /\ priv = [i \in Ids |-> IF stored.keys[i] = None THEN None ELSE Root]
      /\ Finals = {stored} /\ 0 \in 0..MaxSessions
      /\ expired = {} /\ deactivated = {} /\ unverified = {}
    BY BuilderAssumption DEF Init, Finals
<1>2. priv \in [Ids -> Values \cup {None}]
    BY <1>1, BuilderAssumption
<1>3. CASE stored = [Blank({}, 0) EXCEPT !.proofs = {Signature(Self)}]
    <2>1. {Signature(Self)} \in SUBSET Proof /\ {} \in SUBSET Controllers /\ 0 <= Cardinality({})
        BY Signatures, FS_EmptySet
    <2>2. PICK q \in SUBSET Proof : q = {Signature(Self)}
        BY <2>1
    <2>3. PICK n \in Nat : n = 0
        OBVIOUS
    <2>4. PICK cs \in SUBSET Controllers : cs = {}
        OBVIOUS
    <2>5. PICK d : d = stored
        OBVIOUS
    <2>6. /\ d \in Document /\ d.ctrls = {} /\ d.m = 0 /\ d.proofs = {Signature(Self)}
          /\ OnlyPrimary(d) /\ NoCredentials(d)
        <3>1. d = Begun(cs, n, q)
            BY <1>3, <2>2, <2>3, <2>4, <2>5 DEF Begun
        <3>2. n <= Cardinality(cs)
            BY <2>1, <2>3, <2>4
        <3>3. /\ d \in Document /\ d.ctrls = cs /\ d.m = n /\ d.proofs = q
              /\ (cs = {} => OnlyPrimary(d)) /\ NoCredentials(d)
            BY <3>1, <3>2, Blanks
        <3> QED BY <2>2, <2>3, <2>4, <3>3
    <2>7. ~Customized(d) /\ Limit(d) = 1
        BY <2>6, FS_EmptySet DEF Customized, Limit
    <2>8. /\ NewKey(Root, TRUE, TRUE, FALSE) # None
          /\ NewKey(Root, TRUE, TRUE, FALSE).value = Root
          /\ NewKey(Root, TRUE, TRUE, FALSE).own /\ NewKey(Root, TRUE, TRUE, FALSE).auth
        BY NewKeys, BuilderAssumption DEF NewKey
    <2>9. /\ Primary \in Ids /\ d.keys[Primary] = NewKey(Root, TRUE, TRUE, FALSE)
          /\ KeyIds(d) = {Primary}
        BY <2>6, <2>8, BuilderAssumption DEF KeyIds, OnlyPrimary
    <2>10. NamingKey(d, Primary) /\ PrimaryKept(d)
        BY <2>6, <2>8, <2>9 DEF NamingKey, PrimaryKept, OnlyPrimary
    <2>11. Entitled(d) /\ Fresh(d)
        BY <2>6, <2>7, Signatures DEF Entitled, Fresh, OnlyPrimary
    <2>12. CredentialsGenuine(d)
        BY <2>6 DEF CredentialsGenuine, SelfProclaimed, NoCredentials
    <2>13. /\ IsFiniteSet(d.proofs) /\ Cardinality(d.proofs) <= Limit(d)
           /\ Cardinality(d.proofs) >= 1
        <3>1. IsFiniteSet({Signature(Self)}) /\ Cardinality({Signature(Self)}) = 1
            BY FS_Singleton
        <3> QED BY <2>6, <2>7, <3>1
    <2>14. priv[Primary] = Root
        BY <1>1, <2>5, <2>8, <2>9
    <2> QED BY <1>1, <1>2, <2>5, <2>6, <2>9, <2>10, <2>11, <2>12, <2>13, <2>14
            DEF Shape, Marks, Sound, Finished, ProofsFit
<1>4. ASSUME NEW cs \in (SUBSET Controllers) \ {{}}, NEW signers \in SUBSET cs,
             stored = [Blank(cs, IF Cardinality(cs) > 1 THEN Cardinality(signers) ELSE 0)
                          EXCEPT !.proofs = {Signature(c) : c \in signers}],
             signers # {}, Qualified(stored)
      PROVE  Shape /\ Sound
    <2>1. /\ IsFiniteSet(cs) /\ IsFiniteSet(signers)
          /\ Cardinality(cs) \in Nat /\ Cardinality(signers) \in Nat \ {0}
          /\ Cardinality(signers) <= Cardinality(cs)
        <3>1. IsFiniteSet(cs)
            BY BuilderAssumption, FS_Subset
        <3>2. IsFiniteSet(signers) /\ Cardinality(signers) <= Cardinality(cs)
            BY <3>1, FS_Subset
        <3>3. Cardinality(signers) # 0
            BY <1>4, <3>2, FS_EmptySet
        <3> QED BY <3>1, <3>2, <3>3, FS_CardinalityType
    <2>2. PICK n \in Nat : n = IF Cardinality(cs) > 1 THEN Cardinality(signers) ELSE 0
        BY <2>1
    <2>3. n <= Cardinality(cs)
        BY <2>1, <2>2
    <2>4. PICK q \in SUBSET Proof : q = {Signature(c) : c \in signers}
        BY Signatures
    <2>5. PICK d : d = stored
        OBVIOUS
    <2>6. /\ d \in Document /\ d.ctrls = cs /\ d.m = n /\ d.proofs = q
          /\ NoCredentials(d)
        <3>1. d = Begun(cs, n, q)
            BY <1>4, <2>2, <2>4, <2>5 DEF Begun
        <3> QED BY <2>3, <3>1, Blanks
    <2>7. Customized(d)
        BY <2>6 DEF Customized
    <2>8. Entitled(d) /\ Fresh(d)
        BY <2>4, <2>6, <2>7, Signatures DEF Entitled, Fresh
    <2>9. CredentialsGenuine(d)
        BY <2>6 DEF CredentialsGenuine, SelfProclaimed, NoCredentials
    <2>10. IsFiniteSet(q)
        <3>1. PICK f : f = [c \in signers |-> Signature(c)]
            OBVIOUS
        <3>2. f \in Surjection(signers, q)
            BY <2>4, <3>1 DEF Surjection
        <3> QED BY <2>1, <3>2, FS_Surjection
    <2>11. Cardinality(d.proofs) = Limit(d) /\ Limit(d) \in Nat \ {0}
        BY <1>4, <2>1, <2>2, <2>5, <2>6 DEF Qualified, Limit
    <2> QED BY <1>1, <1>2, <2>5, <2>6, <2>7, <2>8, <2>9, <2>10, <2>11
            DEF Shape, Marks, Sound, Finished, ProofsFit, PrimaryKept
<1> QED BY <1>3, <1>4 DEF Init

--------------------------------------------------------------------------------
\* Sealing and storing.

\* What DIDDocumentBuilder_Seal has verified, and the proof p that it adds.
Seals(d, p) ==
    /\ IF Customized(d) THEN p.by \in d.ctrls /\ p.fresh
       ELSE /\ p.by = Self /\ p.id = d.def
            /\ p.fresh <=> priv[d.def] = d.keys[d.def].value
    /\ ~Qualified(d) /\ CredentialsGenuine(d)
    /\ Customized(d) /\ Cardinality(d.ctrls) > 1 => d.m # 0

LEMMA SealWrites ==
    ASSUME Shape, builder # None, Seal
    PROVE  \E d \in Document, p \in Proof :
               /\ d = Doc /\ Seals(d, p)
               /\ sealed' = [d EXCEPT !.proofs = d.proofs \cup {p}]
               /\ builder' = None /\ UNCHANGED <<stored, priv, sessions>>
               /\ "sealed" \notin unverified' => Fresh(d)
               /\ unverified' \subseteq unverified \cup {"sealed"}
               /\ "stored" \in unverified => "stored" \in unverified'
<1>1. PICK d \in Document : d = Doc
    BY DEF Shape, Session, Doc
<1>2. PICK by \in Controllers \cup {None} : by = builder.by
    BY DEF Shape, Session
<1>3. PICK sg : sg = Signer
    OBVIOUS
<1>4. IF Customized(d) THEN d.def = None ELSE d.def \in Ids
    BY <1>1 DEF Shape
<1>5. IF Customized(d) THEN sg \in d.ctrls ELSE sg = Self
    BY <1>1, <1>2, <1>3 DEF Seal, MaySeal, HasSigner, Signer, Customized
<1>6. d.ctrls \in SUBSET Controllers /\ Self \notin Controllers
    BY FieldsOf, BuilderAssumption
<1>7. PICK u \in BOOLEAN : u = (sg = Self => priv[d.def] = d.keys[d.def].value)
    OBVIOUS
<1>8. PICK i \in Ids : i = IF sg = Self THEN d.def ELSE Primary
    BY <1>4, <1>5, <1>6, BuilderAssumption
<1>9. PICK p : p = [by |-> sg, id |-> i, fresh |-> u]
    OBVIOUS
<1>10. p \in Proof
    BY <1>5, <1>6, <1>9 DEF Proof
<1>11. p.by = sg /\ p.id = i /\ p.fresh = u
    BY <1>9
<1>12. Seals(d, p)
    <2>1. /\ ~Qualified(d) /\ CredentialsGenuine(d)
          /\ Customized(d) /\ Cardinality(d.ctrls) > 1 => d.m # 0
        BY <1>1 DEF Seal, MaySeal, HasSigner, CredentialsValid
    <2>2. CASE Customized(d)
        <3>1. sg # Self
            BY <1>5, <1>6, <2>2
        <3> QED BY <1>5, <1>7, <1>11, <2>1, <2>2, <3>1 DEF Seals
    <2>3. CASE ~Customized(d)
        BY <1>5, <1>7, <1>8, <1>11, <2>1, <2>3 DEF Seals
    <2> QED BY <2>2, <2>3
<1>13. /\ sealed' = [d EXCEPT !.proofs = d.proofs \cup {p}]
       /\ builder' = None /\ UNCHANGED <<stored, priv, sessions>>
    BY <1>1, <1>3, <1>7, <1>8, <1>9 DEF Seal
<1>14. /\ unverified' \subseteq unverified \cup {"sealed"}
       /\ "stored" \in unverified => "stored" \in unverified'
    BY DEF Seal
<1>15. "sealed" \notin unverified' => Fresh(d)
    <2>1. Lapsed \/ Genuine(d)
        BY <1>1 DEF Seal, MaySeal
    <2>2. CASE Genuine(d)
        BY <2>2 DEF Genuine
    <2>3. CASE d.proofs = {}
        BY <2>3 DEF Fresh
    <2>4. CASE Lapsed /\ d.proofs # {}
        BY <1>1, <2>4 DEF Seal
    <2> QED BY <2>1, <2>2, <2>3, <2>4
<1> QED BY <1>1, <1>10, <1>12, <1>13, <1>14, <1>15

\* The document with the proof.
LEMMA SealedFields ==
    ASSUME NEW d \in Document, NEW p \in Proof
    PROVE  LET e == [d EXCEPT !.proofs = d.proofs \cup {p}]
           IN  /\ e \in Document /\ e.ctrls = d.ctrls /\ e.m = d.m /\ e.keys = d.keys
               /\ e.def = d.def /\ e.creds = d.creds /\ e.proofs = d.proofs \cup {p}
<1>1. PICK q \in SUBSET Proof : q = d.proofs \cup {p}
    BY FieldsOf
<1>2. PICK e : e = [ctrls |-> d.ctrls, m |-> d.m, keys |-> d.keys, def |-> d.def,
                    creds |-> d.creds, proofs |-> q]
    OBVIOUS
<1>3. e = [d EXCEPT !.proofs = q] /\ e \in Document
    BY <1>2, DocumentWrites, FieldsOf, DocumentFields
<1>4. /\ e.ctrls = d.ctrls /\ e.m = d.m /\ e.keys = d.keys
      /\ e.def = d.def /\ e.creds = d.creds /\ e.proofs = q
    BY <1>2
<1> QED BY <1>1, <1>3, <1>4

\* What is sealed is finished: the proofs that were there are fewer than asked for,
\* and one more is not too many.  It is of the text, if the others are.
LEMMA SealFinishes ==
    ASSUME NEW d \in Document, NEW p \in Proof, NEW e \in Document,
           e.ctrls = d.ctrls, e.m = d.m, e.keys = d.keys,
           e.def = d.def, e.creds = d.creds, e.proofs = d.proofs \cup {p},
           Seals(d, p), PrimaryKept(d), ProofsFit(d),
           Customized(d) \/ priv[Primary] = Root
    PROVE  Finished(e) /\ (Fresh(d) => Fresh(e))
<1>1. Customized(e) <=> Customized(d)
    BY DEF Customized
<1>2. KeyIds(e) = KeyIds(d) /\ Limit(e) = Limit(d)
    BY DEF KeyIds, Limit
<1>3. PrimaryKept(e)
    BY <1>1, <1>2 DEF PrimaryKept, NamingKey
<1>4. CredentialsGenuine(e)
    BY <1>2 DEF Seals, CredentialsGenuine, Authenticates
<1>5. p.fresh
    BY DEF Seals, PrimaryKept, NamingKey
<1>6. Entitled(e) /\ (Fresh(d) => Fresh(e))
    BY <1>1, <1>5 DEF Seals, ProofsFit, Entitled, Fresh
<1>7. /\ Limit(d) \in Nat /\ Limit(d) # 0
      /\ Cardinality(d.proofs) # Limit(d)
    BY FieldsOf DEF Seals, Limit, Qualified, Customized
<1>8. IsFiniteSet(d.proofs) /\ Cardinality(d.proofs) <= Limit(d)
    BY DEF ProofsFit
<1>9. Cardinality(d.proofs) \in Nat
    BY <1>8, FS_CardinalityType
<1>10. /\ IsFiniteSet(e.proofs)
       /\ Cardinality(e.proofs) = IF p \in d.proofs THEN Cardinality(d.proofs)
                                                    ELSE Cardinality(d.proofs) + 1
    BY <1>8, FS_AddElement
<1>11. p \in d.proofs => Cardinality(d.proofs) # 0
    BY <1>8, FS_EmptySet
<1>12. Cardinality(e.proofs) <= Limit(e) /\ Cardinality(e.proofs) >= 1
    BY <1>2, <1>7, <1>8, <1>9, <1>10, <1>11
<1> QED BY <1>3, <1>4, <1>6, <1>10, <1>12 DEF Finished, ProofsFit

\* What is finished is so when it is read again.
LEMMA RereadFinished ==
    ASSUME NEW d \in Document, Finished(d)
    PROVE  /\ Reread(d) \in Document /\ Finished(Reread(d))
           /\ Reread(d).proofs = d.proofs
           /\ Customized(Reread(d)) <=> Customized(d)
           /\ \E i \in Ids : Customized(d) \/ NamingKey(d, i)
<1>1. Primary \in Ids /\ (Customized(d) \/ NamingKey(d, Primary))
    BY BuilderAssumption DEF Finished, PrimaryKept
<1>2. Customized(d) \/ \E i \in Ids : NamingKey(d, i)
    BY <1>1
<1>3. PICK e \in Document : e = Reread(d)
    BY <1>2, RereadFields
<1>4. /\ e.ctrls = d.ctrls /\ e.creds = d.creds /\ e.proofs = d.proofs /\ KeysStay(d, e)
      /\ IF Customized(d)
         THEN e.m = IF Cardinality(d.ctrls) > 1 THEN d.m ELSE 0
         ELSE e.m = d.m /\ e.def \in KeyIds(d) /\ d.keys[e.def].value = Root /\ e.keys[e.def].auth
    BY <1>2, <1>3, RereadFields
<1>5. Customized(e) <=> Customized(d)
    BY <1>4 DEF Customized
<1>6. Limit(e) = Limit(d)
    BY <1>4 DEF Limit
<1>7. PrimaryKept(e)
    <2>1. CASE ~Customized(d)
        <3>1. e.def = Primary /\ d.def = Primary
            BY <1>4, <2>1 DEF Finished, PrimaryKept
        <3>2. NamingKey(e, Primary) /\ e.keys[Primary].auth
            BY <1>4, <2>1, <3>1 DEF Finished, PrimaryKept, NamingKey, KeysStay
        <3>3. \A i \in KeyIds(e) : e.keys[i].value = Root => i = Primary
            BY <1>4, <2>1 DEF Finished, PrimaryKept, KeysStay
        <3> QED BY <3>1, <3>2, <3>3 DEF PrimaryKept
    <2> QED BY <1>5, <2>1 DEF PrimaryKept
<1>8. Entitled(e)
    <2>1. ~Customized(d) => e.def = d.def
        BY <1>4 DEF Finished, PrimaryKept
    <2> QED BY <1>4, <1>5, <2>1 DEF Finished, ProofsFit, Entitled
<1>9. CredentialsGenuine(e)
    <2>1. ASSUME NEW k, Authenticates(k, d)
          PROVE  Authenticates(k, e)
        BY <1>4, <2>1 DEF Authenticates, KeysStay
    <2> QED BY <1>4, <2>1 DEF Finished, CredentialsGenuine
<1>10. /\ IsFiniteSet(e.proofs) /\ Cardinality(e.proofs) <= Limit(e)
       /\ Cardinality(e.proofs) >= 1
    BY <1>4, <1>6 DEF Finished, ProofsFit
<1> QED BY <1>1, <1>3, <1>4, <1>5, <1>7, <1>8, <1>9, <1>10 DEF Finished, ProofsFit

--------------------------------------------------------------------------------
\* The types: every step.

LEMMA EditWrites ==
    ASSUME Shape, NEW s \in {"sealed", "stored"}, Held(s) # None,
           NEW c \in Controllers \cup {None}, Edit(s, c), NEW d, d = Held(s)
    PROVE  /\ d \in Document /\ d \in Finals
           /\ builder' \in Session /\ builder'.by = c
           /\ builder'.doc = [d EXCEPT !.def = DefaultKey(d)]
           /\ builder'.doc \in Document
           /\ builder'.doc.ctrls = d.ctrls /\ builder'.doc.m = d.m
           /\ builder'.doc.keys = d.keys /\ builder'.doc.def = DefaultKey(d)
           /\ builder'.doc.proofs = d.proofs
           /\ IF Customized(d) THEN DefaultKey(d) = None
                               ELSE DefaultKey(d) \in Ids /\ NamingKey(d, DefaultKey(d))
           /\ IF Customized(d) THEN c \in d.ctrls \cup {None} ELSE c = None
           /\ sealed' = None /\ stored' = stored /\ priv' = priv
           /\ sessions' \in 0..MaxSessions
           /\ unverified' = unverified \ {"sealed"} /\ Marks'
<1>0. d \in Finals
    BY DEF Held, Finals
<1>1. d \in Document /\ (Customized(d) \/ \E i \in Ids : NamingKey(d, i))
    BY <1>0 DEF Shape, Finals
<1>2. IF Customized(d) THEN DefaultKey(d) = None
                       ELSE DefaultKey(d) \in Ids /\ NamingKey(d, DefaultKey(d))
    BY <1>1, Found
<1>3. PICK f \in Ids \cup {None} : f = DefaultKey(d)
    BY <1>2
<1>4. PICK e : e = [ctrls |-> d.ctrls, m |-> d.m, keys |-> d.keys, def |-> f,
                    creds |-> d.creds, proofs |-> d.proofs]
    OBVIOUS
<1>5. e = [d EXCEPT !.def = f] /\ e \in Document
    BY <1>1, <1>4, DocumentWrites, FieldsOf, DocumentFields
<1>6. /\ e.ctrls = d.ctrls /\ e.m = d.m /\ e.keys = d.keys /\ e.def = f
      /\ e.proofs = d.proofs
    BY <1>4
<1>7. MaxOps \in Nat /\ MaxSessions \in Nat /\ sessions \in 0..MaxSessions
    BY BuilderAssumption DEF Shape
<1>8. PICK n \in 0..MaxOps : n = 0
    BY <1>7
<1>9. builder' = [doc |-> e, by |-> c, ops |-> n]
    BY <1>3, <1>5, <1>8 DEF Edit
<1>10. builder' \in Session /\ builder'.doc = e /\ builder'.by = c
    <2>1. PICK b : b = [doc |-> e, by |-> c, ops |-> n]
        OBVIOUS
    <2>2. b \in Session /\ b.doc = e /\ b.by = c
        BY <1>5, <2>1 DEF Session
    <2> QED BY <1>9, <2>1, <2>2
<1>11. IF Customized(d) THEN c \in d.ctrls \cup {None} ELSE c = None
    BY DEF Edit
<1>12. sealed' = None /\ stored' = stored /\ priv' = priv /\ sessions' \in 0..MaxSessions
    BY <1>7 DEF Edit
<1>13. unverified' = unverified \ {"sealed"}
    BY DEF Edit
<1>14. Marks'
    BY <1>13 DEF Edit, Shape, Marks, Copies, CarryOver, Copied
<1> QED BY <1>0, <1>1, <1>2, <1>3, <1>5, <1>6, <1>10, <1>11, <1>12, <1>13, <1>14

LEMMA ShapeNext ==
    ASSUME Shape, [Next]_vars
    PROVE  Shape'
<1>1. ASSUME NEW s \in {"sealed", "stored"}, Held(s) # None,
             NEW c \in Controllers \cup {None}, Edit(s, c)
      PROVE  Shape'
    <2>1. PICK d : d = Held(s)
        OBVIOUS
    <2>2. /\ d \in Document /\ d \in Finals
          /\ builder' \in Session /\ builder'.by = c /\ builder'.doc \in Document
          /\ builder'.doc.ctrls = d.ctrls /\ builder'.doc.keys = d.keys
          /\ builder'.doc.def = DefaultKey(d)
          /\ IF Customized(d) THEN DefaultKey(d) = None
                              ELSE DefaultKey(d) \in Ids /\ NamingKey(d, DefaultKey(d))
          /\ IF Customized(d) THEN c \in d.ctrls \cup {None} ELSE c = None
          /\ sealed' = None /\ stored' = stored /\ priv' = priv
          /\ sessions' \in 0..MaxSessions /\ Marks'
        BY <1>1, <2>1, EditWrites
    <2>3. PICK e \in Document : e = builder'.doc
        BY <2>2
    <2>4. /\ Customized(e) <=> Customized(d)
          /\ \A i : NamingKey(e, i) <=> NamingKey(d, i)
        BY <2>2, <2>3 DEF Customized, NamingKey, KeyIds
    <2>5. IF Customized(e) THEN e.def = None ELSE e.def \in Ids /\ NamingKey(e, e.def)
        BY <2>2, <2>3, <2>4
    <2>6. builder'.by # None => builder'.by \in e.ctrls
        BY <2>2, <2>3
    <2>7. Finals' = {stored}
        BY <2>2 DEF Finals
    <2> QED BY <2>2, <2>3, <2>5, <2>6, <2>7 DEF Shape, Doc, Finals
<1>2. ASSUME builder # None, NEW e, Edited(Doc, builder.by, e), Rewritten(e),
             expired' \subseteq expired \cup {"edited"}, PrivEdits
      PROVE  Shape'
    <2>1. PICK d \in Document : d = Doc
        BY <1>2 DEF Shape, Session, Doc
    <2>2. /\ e \in Document /\ e.def = d.def
          /\ Customized(e) <=> Customized(d)
          /\ builder.by \in d.ctrls => builder.by \in e.ctrls
          /\ d.def \in KeyIds(d) =>
                /\ d.def \in KeyIds(e)
                /\ e.keys[d.def].value = d.keys[d.def].value
                /\ e.keys[d.def].own = d.keys[d.def].own
        BY <1>2, <2>1 DEF Edited
    <2>3. /\ builder' \in Session /\ builder'.doc = e /\ builder'.by = builder.by
          /\ sealed' = sealed /\ stored' = stored /\ sessions' = sessions
          /\ deactivated' = deactivated /\ unverified' = unverified
        BY <1>2, <2>2, Continued
    <2>4. priv' \in [Ids -> Values \cup {None}]
        BY <1>2 DEF Shape, PrivEdits
    <2>5. IF Customized(d) THEN d.def = None ELSE d.def \in Ids /\ NamingKey(d, d.def)
        BY <1>2, <2>1 DEF Shape
    <2>6. IF Customized(e) THEN e.def = None ELSE e.def \in Ids /\ NamingKey(e, e.def)
        BY <2>2, <2>5 DEF NamingKey
    <2>7. builder.by # None => builder.by \in e.ctrls
        BY <1>2, <2>1, <2>2 DEF Shape
    <2>8. Marks'
        BY <1>2, <2>3 DEF Shape, Marks, Copies
    <2> QED BY <2>3, <2>4, <2>6, <2>7, <2>8 DEF Shape, Doc, Finals
<1>3. ASSUME NEW i \in Ids, builder # None, StorePrivateKey(i)
      PROVE  Shape'
    <2>1. /\ priv' = [priv EXCEPT ![i] = Doc.keys[i].value]
          /\ UNCHANGED <<builder, sealed, stored, sessions, expired, deactivated, unverified>>
        BY <1>3 DEF StorePrivateKey
    <2>2. Doc \in Document /\ Doc.keys[i] \in Key
        BY <1>3, FieldsOf DEF Shape, Session, Doc, StorePrivateKey, KeyIds
    <2>3. Doc.keys[i].value \in Values
        BY <2>2 DEF Key
    <2>4. priv' \in [Ids -> Values \cup {None}]
        BY <2>1, <2>3 DEF Shape
    <2> QED BY <2>1, <2>4 DEF Shape, Marks, Doc, Finals
<1>4. ASSUME builder # None, Seal
      PROVE  Shape'
    <2>1. PICK d \in Document, p \in Proof :
              /\ d = Doc
              /\ sealed' = [d EXCEPT !.proofs = d.proofs \cup {p}]
              /\ builder' = None /\ UNCHANGED <<stored, priv, sessions>>
        BY <1>4, SealWrites
    <2>2. PICK e : e = [d EXCEPT !.proofs = d.proofs \cup {p}]
        OBVIOUS
    <2>3. e \in Document /\ e.ctrls = d.ctrls /\ e.keys = d.keys
        BY <2>2, SealedFields
    <2>4. Customized(e) \/ \E i \in Ids : NamingKey(e, i)
        <3>1. Customized(d) \/ \E i \in Ids : NamingKey(d, i)
            BY <1>4, <2>1 DEF Shape
        <3> QED BY <2>3, <3>1 DEF Customized, NamingKey, KeyIds
    <2>5. Finals' \subseteq {stored, e}
        BY <2>1, <2>2 DEF Finals
    <2>6. \A f \in Finals' : Customized(f) \/ \E i \in Ids : NamingKey(f, i)
        BY <2>4, <2>5 DEF Shape, Finals
    <2>7. Marks'
        BY <1>4 DEF Seal, CarryOver, Copied, Shape, Marks, Copies
    <2> QED BY <2>1, <2>2, <2>3, <2>6, <2>7 DEF Shape
<1>5. CASE Discard
    BY <1>5 DEF Discard, Shape, Marks, Finals
<1>6. CASE StoreDID
    <2>1. PICK d \in Document : d = sealed /\ (Customized(d) \/ \E i \in Ids : NamingKey(d, i))
        BY <1>6 DEF StoreDID, Shape, Finals
    <2>2. /\ stored' = Reread(d) /\ sealed' = None /\ builder = None
          /\ UNCHANGED <<builder, priv, sessions>>
        BY <1>6, <2>1 DEF StoreDID
    <2>3. PICK e \in Document : e = Reread(d)
        BY <2>1, RereadFields
    <2>4. e.ctrls = d.ctrls /\ KeysStay(d, e)
        BY <2>1, <2>3, RereadFields
    <2>5. Customized(e) \/ \E i \in Ids : NamingKey(e, i)
        BY <2>1, <2>4 DEF Customized, NamingKey, KeysStay
    <2>6. Finals' = {e}
        BY <2>2, <2>3 DEF Finals
    <2>7. Marks'
        BY <1>6 DEF StoreDID, CarryOver, Copied, Shape, Marks, Copies
    <2> QED BY <2>2, <2>3, <2>5, <2>6, <2>7 DEF Shape
<1>7. CASE UNCHANGED vars
    BY <1>7 DEF vars, Shape, Marks, Finals, Doc
<1>8. ASSUME builder # None, Operation
      PROVE  Shape'
    <2>1. (Edits /\ PrivEdits) \/ \E i \in Ids : StorePrivateKey(i)
        BY <1>8, OperationEdits
    <2>2. CASE Edits /\ PrivEdits
        BY <1>2, <1>8, <2>2 DEF Edits
    <2>3. CASE \E i \in Ids : StorePrivateKey(i)
        BY <1>3, <1>8, <2>3
    <2> QED BY <2>1, <2>2, <2>3
<1>9. CASE Expire \/ Deactivate
    BY <1>9 DEF Expire, Deactivate, Shape, Marks, Copies, Finals, Doc
<1> QED BY <1>1, <1>4, <1>5, <1>6, <1>7, <1>8, <1>9 DEF Next

--------------------------------------------------------------------------------
\* Soundness: every step, when Root is not given to another key.

\* An edited document keeps what sealing relies on.
LEMMA EditedKeeps ==
    ASSUME OneDefault, NEW d \in Document, NEW by, NEW e, Edited(d, by, e),
           PrimaryKept(d), ProofsFit(d)
    PROVE  PrimaryKept(e) /\ ProofsFit(e)
<1>1. PrimaryKept(e)
    <2>1. CASE ~Customized(d)
        <3>1. /\ d.def = Primary /\ NamingKey(d, Primary) /\ d.keys[Primary].auth
              /\ \A i \in KeyIds(d) : d.keys[i].value = Root => i = Primary
            BY <2>1 DEF PrimaryKept
        <3>2. e.def = Primary /\ NamingKey(e, Primary) /\ e.keys[Primary].auth
            BY <3>1 DEF Edited, NamingKey
        <3>3. \A i \in KeyIds(e) : e.keys[i].value = Root => i = Primary
            BY <3>1 DEF Edited, NamingKey
        <3> QED BY <3>2, <3>3 DEF PrimaryKept
    <2> QED BY <2>1 DEF PrimaryKept, Edited
<1>2. ProofsFit(e)
    <2>1. CASE e.proofs = {}
        <3>1. IsFiniteSet({}) /\ Cardinality({}) = 0 /\ Limit(e) \in Nat /\ 0 <= Limit(e)
            BY FS_EmptySet, FieldsOf DEF Edited, Limit
        <3> QED BY <2>1, <3>1 DEF ProofsFit, Entitled
    <2>2. CASE e.ctrls = d.ctrls /\ e.m = d.m /\ Descend(e.proofs, d.proofs)
        <3>1. IsFiniteSet(e.proofs) /\ Cardinality(e.proofs) <= Cardinality(d.proofs)
            BY <2>2 DEF Descend, ProofsFit
        <3>2. /\ Cardinality(e.proofs) \in Nat /\ Cardinality(d.proofs) \in Nat
              /\ Limit(d) \in Nat /\ Limit(e) = Limit(d)
            BY <2>2, <3>1, FS_CardinalityType, FieldsOf DEF Limit, ProofsFit
        <3>3. Entitled(e)
            BY <2>2 DEF Descend, ProofsFit, Entitled, Edited, Customized
        <3> QED BY <3>1, <3>2, <3>3 DEF ProofsFit
    <2> QED BY <2>1, <2>2 DEF Edited
<1> QED BY <1>1, <1>2

LEMMA SoundNext ==
    ASSUME OneDefault, Shape, Sound, [Next]_vars
    PROVE  Sound'
<1>1. ASSUME NEW s \in {"sealed", "stored"}, Held(s) # None,
             NEW c \in Controllers \cup {None}, Edit(s, c)
      PROVE  Sound'
    <2>1. PICK d : d = Held(s)
        OBVIOUS
    <2>2. /\ d \in Document /\ d \in Finals
          /\ builder'.doc \in Document
          /\ builder'.doc.ctrls = d.ctrls /\ builder'.doc.m = d.m
          /\ builder'.doc.keys = d.keys /\ builder'.doc.def = DefaultKey(d)
          /\ builder'.doc.proofs = d.proofs
          /\ sealed' = None /\ stored' = stored /\ priv' = priv
          /\ unverified' = unverified \ {"sealed"}
        BY <1>1, <2>1, EditWrites
    <2>3. PICK e \in Document : e = builder'.doc
        BY <2>2
    <2>4. Finished(d) /\ (Customized(d) <=> Customized(stored))
        BY <2>2 DEF Sound
    <2>5. ~Customized(d) => e.def = Primary
        BY <2>2, <2>3, <2>4, FoundPrimary DEF Finished
    <2>6. PrimaryKept(e)
        BY <2>2, <2>3, <2>4, <2>5
        DEF Finished, PrimaryKept, Customized, NamingKey, KeyIds
    <2>7. ProofsFit(e)
        <3>1. ProofsFit(d) /\ e.proofs = d.proofs /\ Limit(e) = Limit(d)
            BY <2>2, <2>3, <2>4 DEF Finished, Limit
        <3>2. Entitled(e)
            BY <2>2, <2>3, <2>4, <2>5, <3>1
            DEF Entitled, ProofsFit, Customized, Finished, PrimaryKept
        <3> QED BY <3>1, <3>2 DEF ProofsFit
    <2>8. Customized(e) <=> Customized(stored)
        BY <2>2, <2>3, <2>4 DEF Customized
    <2>9. Finals' \subseteq Finals
        BY <2>2 DEF Finals
    <2> QED BY <2>2, <2>3, <2>6, <2>7, <2>8, <2>9 DEF Sound, Doc
<1>2. ASSUME builder # None, NEW e, Edited(Doc, builder.by, e), Rewritten(e),
             expired' \subseteq expired \cup {"edited"}, PrivEdits
      PROVE  Sound'
    <2>1. PICK d \in Document : d = Doc
        BY <1>2 DEF Shape, Session, Doc
    <2>2. PICK by : by = builder.by
        OBVIOUS
    <2>3. Edited(d, by, e)
        BY <1>2, <2>1, <2>2
    <2>4. PrimaryKept(d) /\ ProofsFit(d) /\ (Customized(d) <=> Customized(stored))
        BY <1>2, <2>1 DEF Sound
    <2>5. e \in Document /\ (Customized(e) <=> Customized(d))
        BY <2>3 DEF Edited
    <2>6. PrimaryKept(e) /\ ProofsFit(e)
        BY <2>3, <2>4, EditedKeeps
    <2>7. /\ builder'.doc = e /\ sealed' = sealed /\ stored' = stored
          /\ unverified' = unverified
        BY <1>2, <2>5, Continued
    <2>8. ~Customized(stored) => priv'[Primary] = Root
        <3>1. CASE ~Customized(stored)
            <4>1. d.def = Primary /\ Primary \in Ids /\ priv[Primary] = Root
                BY <2>4, <3>1, BuilderAssumption DEF PrimaryKept, Sound
            <4> QED BY <1>2, <2>1, <4>1 DEF PrivEdits, Shape
        <3> QED BY <3>1
    <2> QED BY <2>4, <2>5, <2>6, <2>7, <2>8 DEF Sound, Doc, Finals
<1>3. ASSUME NEW i \in Ids, builder # None, StorePrivateKey(i)
      PROVE  Sound'
    <2>1. /\ priv' = [priv EXCEPT ![i] = Doc.keys[i].value]
          /\ UNCHANGED <<builder, sealed, stored, sessions, expired, deactivated, unverified>>
        BY <1>3 DEF StorePrivateKey
    <2>2. ~Customized(stored) => priv'[Primary] = Root
        <3>1. CASE ~Customized(stored)
            <4>1. Doc.keys[Primary].value = Root /\ priv[Primary] = Root /\ Primary \in Ids
                BY <1>3, <3>1, BuilderAssumption DEF PrimaryKept, Sound, NamingKey
            <4> QED BY <2>1, <4>1 DEF Shape
        <3> QED BY <3>1
    <2> QED BY <2>1, <2>2 DEF Sound, Doc, Finals
<1>4. ASSUME builder # None, Seal
      PROVE  Sound'
    <2>1. PICK d \in Document, p \in Proof :
              /\ d = Doc /\ Seals(d, p)
              /\ sealed' = [d EXCEPT !.proofs = d.proofs \cup {p}]
              /\ builder' = None /\ UNCHANGED <<stored, priv, sessions>>
              /\ "sealed" \notin unverified' => Fresh(d)
              /\ "stored" \in unverified => "stored" \in unverified'
        BY <1>4, SealWrites
    <2>2. PICK e : e = [d EXCEPT !.proofs = d.proofs \cup {p}]
        OBVIOUS
    <2>3. /\ e \in Document /\ e.ctrls = d.ctrls /\ e.m = d.m /\ e.keys = d.keys
          /\ e.def = d.def /\ e.creds = d.creds /\ e.proofs = d.proofs \cup {p}
        BY <2>2, SealedFields
    <2>4. /\ PrimaryKept(d) /\ ProofsFit(d) /\ (Customized(d) <=> Customized(stored))
          /\ Customized(d) \/ priv[Primary] = Root
        BY <1>4, <2>1 DEF Sound
    <2>5. Finished(e) /\ (Fresh(d) => Fresh(e))
        BY <2>1, <2>3, <2>4, SealFinishes
    <2>6. Customized(e) <=> Customized(stored)
        BY <2>3, <2>4 DEF Customized
    <2>7. Finals' \subseteq {stored, e}
        BY <2>1, <2>2 DEF Finals
    <2>8. \A f \in Finals' : Finished(f) /\ (Customized(f) <=> Customized(stored))
        BY <2>5, <2>6, <2>7 DEF Sound, Finals
    <2>9. /\ "stored" \notin unverified' => Fresh(stored')
          /\ "sealed" \notin unverified' => Fresh(sealed')
        BY <2>1, <2>2, <2>5 DEF Sound
    <2> QED BY <2>1, <2>8, <2>9 DEF Sound
<1>5. CASE Discard
    BY <1>5 DEF Discard, Sound, Finals
<1>6. CASE StoreDID
    <2>1. PICK d \in Document : /\ d = sealed /\ Finished(d)
                                /\ (Customized(d) <=> Customized(stored))
        BY <1>6 DEF StoreDID, Shape, Sound, Finals
    <2>2. /\ stored' = Reread(d) /\ sealed' = None /\ builder = None
          /\ UNCHANGED <<builder, priv, sessions>>
        BY <1>6, <2>1 DEF StoreDID
    <2>3. PICK e \in Document : e = Reread(d)
        BY <2>1, RereadFinished
    <2>4. Finished(e) /\ (Customized(e) <=> Customized(d)) /\ e.proofs = d.proofs
        BY <2>1, <2>3, RereadFinished
    <2>5. Finals' = {e}
        BY <2>2, <2>3 DEF Finals
    <2>6. "stored" \notin unverified' => Fresh(e)
        <3>1. "stored" \notin unverified' => "sealed" \notin unverified
            BY <1>6 DEF StoreDID, Copied
        <3>2. "sealed" \notin unverified => Fresh(d)
            BY <1>6, <2>1 DEF StoreDID, Sound
        <3> QED BY <2>4, <3>1, <3>2 DEF Fresh
    <2> QED BY <2>1, <2>2, <2>3, <2>4, <2>5, <2>6 DEF Sound
<1>7. CASE UNCHANGED vars
    BY <1>7 DEF vars, Sound, Finals, Doc
<1>8. ASSUME builder # None, Operation
      PROVE  Sound'
    <2>1. (Edits /\ PrivEdits) \/ \E i \in Ids : StorePrivateKey(i)
        BY <1>8, OperationEdits
    <2>2. CASE Edits /\ PrivEdits
        BY <1>2, <1>8, <2>2 DEF Edits
    <2>3. CASE \E i \in Ids : StorePrivateKey(i)
        BY <1>3, <1>8, <2>3
    <2> QED BY <2>1, <2>2, <2>3
<1>9. CASE Expire \/ Deactivate
    BY <1>9 DEF Expire, Deactivate, Sound, Finals, Doc
<1> QED BY <1>1, <1>4, <1>5, <1>6, <1>7, <1>8, <1>9 DEF Next

--------------------------------------------------------------------------------
\* The theorems.

\* In every session a document keeps its shape: no sequence of the builder's
\* operations leaves an ordinary DID's document without a key that its name can come
\* from, or takes the session's own controller out of it.
THEOREM Invariant == Spec => []Shape
<1>1. Init => Shape
    BY Initial
<1>2. Shape /\ [Next]_vars => Shape'
    BY ShapeNext
<1> QED BY <1>1, <1>2, PTL DEF Spec

\* The state has its type, whatever is given to the builder.
THEOREM TypeCorrect == Spec => []TypeOK
<1>1. Shape => TypeOK
    BY DEF Shape, Marks, TypeOK, Session
<1> QED BY <1>1, Invariant, PTL

\* Unless Root is given to the builder under another id, what is sealed or stored is
\* finished, its proofs are of its text if sealing verified those it found, and a
\* session keeps what sealing relies on.
THEOREM Soundness == OneDefault => (Spec => [](Shape /\ Sound))
<1> SUFFICES ASSUME OneDefault PROVE Spec => [](Shape /\ Sound)
    OBVIOUS
<1>1. Init => Shape /\ Sound
    BY Initial
<1>2. Shape /\ Sound /\ [Next]_vars => (Shape /\ Sound)'
    BY ShapeNext, SoundNext
<1> QED BY <1>1, <1>2, PTL DEF Spec

\* DIDDocumentBuilder_Seal leaves a document that can be written, read and used,
\* however many operations came between the signatures: its proofs are by those who
\* may sign and no more than asked for, its self-proclaimed credentials verify, and
\* the proofs are of its text unless it was sealed, over another's proof, when it had
\* expired or its DID was deactivated.
THEOREM SealingIsGenuine == OneDefault => (Spec => []SealedGenuine)
<1> SUFFICES ASSUME OneDefault PROVE Spec => []SealedGenuine
    OBVIOUS
<1>1. Shape /\ Sound => SealedGenuine
    <2> SUFFICES ASSUME Shape, Sound, NEW s \in {"sealed", "stored"}, NEW d, d = Held(s),
                        d # None
                 PROVE  /\ Entitled(Reread(d))
                        /\ s \notin unverified => Fresh(Reread(d))
                        /\ Cardinality(d.proofs) \in
                               1..(IF Cardinality(d.ctrls) > 1 THEN d.m ELSE 1)
                        /\ CredentialsGenuine(Reread(d))
        BY DEF SealedGenuine
    <2>1. d \in Finals
        BY DEF Held, Finals
    <2>2. d \in Document /\ Finished(d)
        BY <2>1 DEF Shape, Sound, Finals
    <2>3. Finished(Reread(d)) /\ Reread(d).proofs = d.proofs
        BY <2>2, RereadFinished
    <2>4. s \notin unverified => Fresh(d)
        BY DEF Sound, Held
    <2>5. Cardinality(d.proofs) \in 1..Limit(d)
        <3>1. Cardinality(d.proofs) \in Nat /\ Limit(d) \in Nat
            BY <2>2, FS_CardinalityType, FieldsOf DEF Finished, ProofsFit, Limit
        <3> QED BY <2>2, <3>1 DEF Finished, ProofsFit
    <2> QED BY <2>3, <2>4, <2>5 DEF Finished, ProofsFit, Fresh, Limit
<1> QED BY <1>1, Soundness, PTL

\* The key that an ordinary DID's name comes from stays in its document and its
\* private key in the store, whatever remove_publickey deletes in a session.
THEOREM DefaultKeyStays == OneDefault => (Spec => []DefaultKeyKept)
<1> SUFFICES ASSUME OneDefault PROVE Spec => []DefaultKeyKept
    OBVIOUS
<1>1. Shape /\ Sound => DefaultKeyKept
    <2> SUFFICES ASSUME Shape, Sound, ~Customized(stored)
                 PROVE  /\ stored.def # None /\ stored.keys[stored.def].auth
                        /\ priv[stored.def] = Root
        BY DEF DefaultKeyKept
    <2>1. PrimaryKept(stored) /\ priv[Primary] = Root
        BY DEF Sound, Finals, Finished
    <2> QED BY <2>1, BuilderAssumption DEF PrimaryKept
<1> QED BY <1>1, Soundness, PTL

================================================================================
