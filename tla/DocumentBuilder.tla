----------------------------- MODULE DocumentBuilder -----------------------------
(***************************************************************************)
(* Editing sessions on one document in one store: DIDDocument_Edit, the     *)
(* builder's operations on keys, controllers, credentials, services,        *)
(* expiration, multisig and proofs, DIDDocumentBuilder_Seal, and storing     *)
(* and loading, which write the document as JSON and read it back.  The     *)
(* document is an ordinary DID's, with a default key of its own, or a        *)
(* customized DID's, with controllers; the store has the private keys of    *)
(* all of them.  It expires as time passes, and the store learns that its    *)
(* DID was deactivated: such a document can still be edited, and sealing it  *)
(* does not verify the proofs it has.  CustomDID has the sessions of        *)
(* controllers who do not share a store.                                    *)
(***************************************************************************)
EXTENDS Naturals, FiniteSets, FiniteSetsExt

CONSTANTS
    Ids,         \* ids of the document's own keys, numbered as their texts are sorted
    Primary,     \* the id of the default key of an ordinary DID
    Values,      \* public keys
    Root,        \* the one of which the ordinary DID's name is the address
    Controllers, \* ordinary DIDs
    CredIds,
    Self,        \* the document's DID
    External,    \* stands for the signer of a credential that another DID issued
    None,
    Twins,       \* the application gives Root to the builder under another id
    MaxOps,      \* bound: operations of a session
    MaxSessions  \* bound: sessions

ASSUME BuilderAssumption ==
    /\ Ids \subseteq Nat /\ IsFiniteSet(Ids) /\ Primary \in Ids /\ Root \in Values
    /\ IsFiniteSet(Controllers) /\ Self \notin Controllers
    /\ None \notin Ids \cup Values \cup Controllers \cup {Self, External}
    /\ Twins \in BOOLEAN /\ {MaxOps, MaxSessions} \subseteq Nat

VARIABLES
    builder,  \* the session in progress, or None
    sealed,   \* the document that was sealed last and is not stored, or None
    stored,   \* the document in the store, as it is loaded
    priv,     \* per id: the public key of the private key in the store
    sessions, \* the sessions begun
    expired,     \* which copies, of Copies, are past their date
    deactivated, \* which ones have metadata that says that the DID was deactivated
    unverified   \* which ones were sealed over proofs that nothing verified then

vars == <<builder, sealed, stored, priv, sessions, expired, deactivated, unverified>>

\* The session's document, the sealed one and the stored one.
Copies == {"edited", "sealed", "stored"}

Held(s) == CASE s = "edited" -> builder [] s = "sealed" -> sealed [] s = "stored" -> stored

Key == [value : Values, own : BOOLEAN, auth : BOOLEAN, authz : BOOLEAN]

ASSUME KeyAssumption == None \notin Key

\* A key that signs credentials, with the public key its signatures verify with.
SignKey == [did : Controllers \cup {Self}, id : Ids, value : Values]

\* A proof is fresh as long as the text is the one that was signed; a proof by the
\* DID itself names the default key.
Proof == [by : Controllers \cup {Self}, id : Ids, fresh : BOOLEAN]

Document ==
    {d \in [ctrls : SUBSET Controllers, m : 0..Cardinality(Controllers),
            keys : [Ids -> Key \cup {None}], def : Ids \cup {None},
            creds : [CredIds -> SignKey \cup {External, None}], proofs : SUBSET Proof] :
        d.m <= Cardinality(d.ctrls)}

Customized(d) == d.ctrls # {}

ControllerKey(c) == [did |-> c, id |-> Primary, value |-> Root]

KeyIds(d) == {i \in Ids : d.keys[i] # None}

--------------------------------------------------------------------------------
\* Proofs, credentials and the text of documents.

\* DIDDocument_GetDefaultPublicKey of an ordinary DID, in a list sorted by id.
DefaultKey(d) ==
    LET roots == {i \in KeyIds(d) : d.keys[i].value = Root /\ d.keys[i].own}
    IN  IF Customized(d) \/ roots = {} THEN None ELSE Min(roots)

Qualified(d) ==
    Cardinality(d.proofs) = IF Cardinality(d.ctrls) > 1 THEN d.m ELSE 1

\* DIDDocument_IsGenuine_Internal without the count: who signed, and what.
Entitled(d) ==
    \A p \in d.proofs :
        IF Customized(d) THEN p.by \in d.ctrls ELSE p.by = Self /\ p.id = d.def

Fresh(d) == \A p \in d.proofs : p.fresh

Genuine(d) == Entitled(d) /\ Fresh(d)

\* Key k is an authentication key of d, or of a controller of d.
Authenticates(k, d) ==
    IF k.did = Self
    THEN k.id \in KeyIds(d) /\ d.keys[k.id].auth /\ d.keys[k.id].value = k.value
    ELSE k.did \in d.ctrls

SelfProclaimed(s) == s \notin {External, None}

\* Credential_IsGenuine_Internal, for the credentials of d; other issuers' are genuine.
CredentialsGenuine(d) ==
    \A c \in CredIds : SelfProclaimed(d.creds[c]) => Authenticates(d.creds[c], d)

\* Credential_IsValid_Internal: in a document that is past its date every credential
\* is expired.  A credential's own date is later than the document's, and other
\* issuers are valid.
CredentialsValid(d, past) ==
    /\ CredentialsGenuine(d)
    /\ past => \A c \in CredIds : d.creds[c] = None

\* DIDDocument_ToJson and DIDDocument_FromJson: keys are sorted by id, and the
\* first one with the right address, whoever controls it, is the default key and
\* an authentication key.  One controller has no multisig.
Reread(d) ==
    LET roots == {i \in KeyIds(d) : d.keys[i].value = Root}
    IN  IF Customized(d)
        THEN [d EXCEPT !.def = None, !.m = IF Cardinality(d.ctrls) > 1 THEN @ ELSE 0]
        ELSE [d EXCEPT !.def = Min(roots), !.keys[Min(roots)].auth = TRUE]

--------------------------------------------------------------------------------
NewKey(v, own, auth, authz) == [value |-> v, own |-> own, auth |-> auth, authz |-> authz]

\* The document of RootIdentity_NewDID, and those of DIDDocument_NewCustomizedDID
\* after as many controllers as it takes have signed.
Blank(ctrls, m) ==
    [ctrls |-> ctrls, m |-> m,
     keys |-> [i \in Ids |-> IF i = Primary /\ ctrls = {} THEN NewKey(Root, TRUE, TRUE, FALSE)
                             ELSE None],
     def |-> IF ctrls = {} THEN Primary ELSE None,
     creds |-> [c \in CredIds |-> None], proofs |-> {}]

Signature(c) == [by |-> c, id |-> Primary, fresh |-> TRUE]

Init ==
    /\ builder = None
    /\ sealed = None
    /\ \/ stored = [Blank({}, 0) EXCEPT !.proofs = {Signature(Self)}]
       \/ \E ctrls \in (SUBSET Controllers) \ {{}} : \E signers \in SUBSET ctrls :
             /\ stored = [Blank(ctrls, IF Cardinality(ctrls) > 1 THEN Cardinality(signers) ELSE 0)
                              EXCEPT !.proofs = {Signature(c) : c \in signers}]
             /\ signers # {} /\ Qualified(stored)
    /\ priv = [i \in Ids |-> IF stored.keys[i] = None THEN None ELSE Root]
    /\ sessions = 0
    /\ expired = {} /\ deactivated = {} /\ unverified = {}

Copied(S, from, to) == IF from \in S THEN S \cup {to} ELSE S \ {to}

\* The date and the metadata go with the document; the copy gone is no more.
CarryOver(from, to, gone) ==
    /\ expired' = Copied(expired, from, to) \ {gone}
    /\ deactivated' = Copied(deactivated, from, to) \ {gone}

\* DIDDocument_Edit, for a controller when there are some.  The copy finds its
\* default key anew.  For the only controller c may be left out.  A document that
\* was sealed and not stored is done with.  Nothing asks whether the document has
\* expired or its DID was deactivated.
Edit(s, c) ==
    /\ builder = None /\ sessions < MaxSessions
    /\ LET d == Held(s)
       IN  /\ IF Customized(d) THEN c \in d.ctrls \/ (c = None /\ Cardinality(d.ctrls) = 1)
                               ELSE c = None
           /\ builder' = [doc |-> [d EXCEPT !.def = DefaultKey(d)], by |-> c, ops |-> 0]
    /\ CarryOver(s, "edited", "sealed")
    /\ sealed' = None
    /\ unverified' = unverified \ {"sealed"}
    /\ sessions' = sessions + 1
    /\ UNCHANGED <<stored, priv>>

\* An operation of the builder makes its document d; only one sets the date.
Rewritten(d) ==
    /\ builder.ops < MaxOps
    /\ builder' = [builder EXCEPT !.doc = d, !.ops = @ + 1]
    /\ UNCHANGED <<sealed, stored, sessions, deactivated, unverified>>

Becomes(d) == Rewritten(d) /\ UNCHANGED expired

\* clean_proofs
Clean(d) == [d EXCEPT !.proofs = {}]

\* The proofs stay, and are of another text.
Stale(d) == [d EXCEPT !.proofs = {[p EXCEPT !.fresh = FALSE] : p \in @}]

Doc == builder.doc

--------------------------------------------------------------------------------
\* Keys.  own is whether the document's DID is the key's controller.

AddPublicKey(i, v, own) ==
    /\ i \notin KeyIds(Doc)
    /\ \A j \in KeyIds(Doc) : Doc.keys[j].value # v
    /\ Becomes(Clean([Doc EXCEPT !.keys[i] = NewKey(v, own, FALSE, FALSE)]))
    /\ UNCHANGED priv

\* Bug for the mutants: the default key may go.
RemovePublicKeyAny(i, force) ==
    /\ i \in KeyIds(Doc)
    /\ force \/ ~(Doc.keys[i].auth \/ Doc.keys[i].authz)
    /\ Becomes(Clean([Doc EXCEPT !.keys[i] = None]))
    /\ priv' = [priv EXCEPT ![i] = None]

\* The private key goes at once, whatever becomes of the session.
RemovePublicKey(i, force) ==
    /\ i \in KeyIds(Doc) \ {Doc.def}
    /\ force \/ ~(Doc.keys[i].auth \/ Doc.keys[i].authz)
    /\ Becomes(Clean([Doc EXCEPT !.keys[i] = None]))
    /\ priv' = [priv EXCEPT ![i] = None]

Unused(i) == i \in KeyIds(Doc) /\ ~(Doc.keys[i].auth \/ Doc.keys[i].authz)

\* A key of the document is taken as it is, and the proofs stay.
AddAuthenticationKey(i, v) ==
    /\ \/ /\ Unused(i) /\ v \in {None, Doc.keys[i].value}
          /\ Becomes(Stale([Doc EXCEPT !.keys[i].auth = TRUE]))
       \/ /\ i \notin KeyIds(Doc) /\ v # None
          /\ Becomes(Clean([Doc EXCEPT !.keys[i] = NewKey(v, TRUE, TRUE, FALSE)]))
    /\ UNCHANGED priv

RemoveAuthenticationKey(i) ==
    /\ i \in KeyIds(Doc) \ {Doc.def}
    /\ Becomes(Clean([Doc EXCEPT !.keys[i].auth = FALSE]))
    /\ UNCHANGED priv

\* Also for DIDDocumentBuilder_AuthorizeDid, which finds v in another DID's
\* document.  own is None when no controller is given.
AddAuthorizationKey(i, v, own) ==
    /\ ~Customized(Doc) /\ own # TRUE
    /\ \/ /\ Unused(i) /\ v \in {None, Doc.keys[i].value}
          /\ own \in {None, Doc.keys[i].own}
          /\ Becomes(Clean([Doc EXCEPT !.keys[i].authz = TRUE]))
       \/ /\ i \notin KeyIds(Doc) /\ v # None /\ own = FALSE
          /\ Becomes(Clean([Doc EXCEPT !.keys[i] = NewKey(v, FALSE, FALSE, TRUE)]))
    /\ UNCHANGED priv

RemoveAuthorizationKey(i) ==
    /\ i \in KeyIds(Doc) \ {Doc.def}
    /\ Becomes(Clean([Doc EXCEPT !.keys[i].authz = FALSE]))
    /\ UNCHANGED priv

\* The application stores the private key it made for a key of the document.
StorePrivateKey(i) ==
    /\ i \in KeyIds(Doc)
    /\ Doc.keys[i].own /\ priv[i] # Doc.keys[i].value
    /\ priv' = [priv EXCEPT ![i] = Doc.keys[i].value]
    /\ UNCHANGED <<builder, sealed, stored, sessions, expired, deactivated, unverified>>

--------------------------------------------------------------------------------
\* Controllers and proofs.

AddController(c) ==
    /\ Customized(Doc) /\ c \notin Doc.ctrls
    /\ Becomes(Clean([Doc EXCEPT !.ctrls = @ \cup {c}, !.m = 0]))
    /\ UNCHANGED priv

\* Bug for the mutants: multisig and proofs stay.
RemoveControllerOnly(c) ==
    /\ Customized(Doc) /\ c \in Doc.ctrls \ {builder.by}
    /\ Becomes([Doc EXCEPT !.ctrls = @ \ {c}])
    /\ UNCHANGED priv

\* Without a controller of the session's, an assertion fails.
RemoveController(c) ==
    /\ Customized(Doc) /\ builder.by # None
    /\ c \in Doc.ctrls \ {builder.by}
    /\ \A x \in CredIds : SelfProclaimed(Doc.creds[x]) => Doc.creds[x].did # c
    /\ Becomes(Clean([Doc EXCEPT !.ctrls = @ \ {c}, !.m = 0]))
    /\ UNCHANGED priv

SetMultisig(m) ==
    /\ Customized(Doc) /\ m \in 1..Cardinality(Doc.ctrls)
    /\ Becomes(Clean([Doc EXCEPT !.m = m]))
    /\ UNCHANGED priv

\* Without a proof, an ordinary DID's array of -1 proofs is the outcome.
RemoveProof(c) ==
    /\ \E p \in Doc.proofs : p.by = c /\ Becomes([Doc EXCEPT !.proofs = @ \ {p}])
    /\ UNCHANGED priv

\* DIDDocumentBuilder_AddService and RemoveService: services are not told apart.
OtherEdit == Becomes(Clean(Doc)) /\ UNCHANGED priv

\* Any date up to the longest one is taken, a past one too.
SetExpires(past) ==
    /\ Rewritten(Clean(Doc))
    /\ expired' = IF past THEN expired \cup {"edited"} ELSE expired \ {"edited"}
    /\ UNCHANGED priv

--------------------------------------------------------------------------------
\* Credentials.

SetCredential(c, s) == Clean([Doc EXCEPT !.creds[c] = s])

\* A credential that the application has: another DID's, or the stored document's.
AddCredential(c, s) ==
    /\ Doc.creds[c] = None
    /\ s = External \/ (s = stored.creds[c] /\ s # None)
    /\ Becomes(SetCredential(c, s))
    /\ UNCHANGED priv

\* What Issuer_Create and DIDDocument_Sign can sign with: the authentication keys
\* of the document in the store, with the private keys that are there.
IssuerKeys ==
    {ControllerKey(c) : c \in stored.ctrls}
    \cup {[did |-> Self, id |-> i, value |-> priv[i]] :
             i \in {j \in KeyIds(stored) : stored.keys[j].auth /\ stored.keys[j].own
                                           /\ priv[j] # None}}

\* The key must be an authentication key of the edited document, too.
AddSelfProclaimedCredential(c, k) ==
    /\ Doc.creds[c] = None
    /\ k \in IssuerKeys
    /\ IF k.did = Self THEN k.id \in KeyIds(Doc) /\ Doc.keys[k.id].auth ELSE k.did \in Doc.ctrls
    /\ Becomes(SetCredential(c, k))
    /\ UNCHANGED priv

SignedBy(x) == {c \in CredIds : SelfProclaimed(Doc.creds[c]) /\ Doc.creds[c].did = x}

\* The key need not be the edited document's, and the proofs stay.
RenewSelfProclaimedCredential(x, k) ==
    /\ Customized(Doc)
    /\ k \in IssuerKeys
    /\ SignedBy(x) # {}
    /\ Becomes(Stale([Doc EXCEPT !.creds =
                  [c \in CredIds |-> IF c \in SignedBy(x) THEN k ELSE @[c]]]))
    /\ UNCHANGED priv

RemoveSelfProclaimedCredential(x) ==
    /\ Customized(Doc)
    /\ Becomes(Clean([Doc EXCEPT !.creds =
                  [c \in CredIds |-> IF c \in SignedBy(x) THEN None ELSE @[c]]]))
    /\ UNCHANGED priv

RemoveCredential(c) ==
    /\ Doc.creds[c] # None
    /\ Becomes(SetCredential(c, None))
    /\ UNCHANGED priv

--------------------------------------------------------------------------------
\* DIDDocumentBuilder_Seal: who signs, and whether the document may be signed.
Signer == IF ~Customized(Doc) THEN Self
          ELSE IF builder.by = None THEN CHOOSE c \in Doc.ctrls : TRUE ELSE builder.by

HasSigner ==
    IF Customized(Doc)
    THEN /\ Cardinality(Doc.ctrls) > 1 => Doc.m # 0 /\ builder.by # None
         /\ builder.by # None => builder.by \in Doc.ctrls
    ELSE Doc.def # None /\ priv[Doc.def] # None

\* DIDDocument_IsValid_Internal returns 1 for these two before it comes to the proofs.
Lapsed == "edited" \in expired \cup deactivated

\* Bug for the mutants: the proofs there are, are not verified.
MaySealUnverified ==
    /\ HasSigner
    /\ ~Qualified(Doc) /\ Signer \notin {p.by : p \in Doc.proofs}
    /\ CredentialsValid(Doc, "edited" \in expired)

MaySeal ==
    /\ HasSigner
    /\ ~Qualified(Doc) /\ Signer \notin {p.by : p \in Doc.proofs}
    /\ CredentialsValid(Doc, "edited" \in expired)
    /\ Lapsed \/ Genuine(Doc)

Seal ==
    /\ MaySeal
    /\ sealed' = [Doc EXCEPT !.proofs = @ \cup
                     {[by |-> Signer, id |-> IF Signer = Self THEN Doc.def ELSE Primary,
                       fresh |-> Signer = Self => priv[Doc.def] = Doc.keys[Doc.def].value]}]
    /\ unverified' = IF Lapsed /\ Doc.proofs # {} THEN unverified \cup {"sealed"}
                                                ELSE unverified \ {"sealed"}
    /\ CarryOver("edited", "sealed", "edited")
    /\ builder' = None
    /\ UNCHANGED <<stored, priv, sessions>>

\* DIDDocumentBuilder_Destroy
Discard ==
    /\ builder' = None
    /\ expired' = expired \ {"edited"} /\ deactivated' = deactivated \ {"edited"}
    /\ UNCHANGED <<sealed, stored, priv, sessions, unverified>>

\* DIDStore_StoreDID, and DIDStore_LoadDID whenever it is needed.  Of the metadata
\* what the document has is kept before what the store has.
StoreDID ==
    /\ builder = None /\ sealed # None
    /\ stored' = Reread(sealed)
    /\ unverified' = Copied(unverified, "sealed", "stored") \ {"sealed"}
    /\ CarryOver("sealed", "stored", "sealed")
    /\ sealed' = None
    /\ UNCHANGED <<builder, priv, sessions>>

--------------------------------------------------------------------------------
\* Time passes, for all the documents there are.
Expire ==
    /\ expired # {s \in Copies : Held(s) # None}
    /\ expired' = {s \in Copies : Held(s) # None}
    /\ UNCHANGED <<builder, sealed, stored, priv, sessions, deactivated, unverified>>

\* The document is resolved after its DID was deactivated and stored, by
\* RootIdentity_Synchronize or by the application.
Deactivate ==
    /\ "stored" \notin deactivated
    /\ deactivated' = deactivated \cup {"stored"}
    /\ UNCHANGED <<builder, sealed, stored, priv, sessions, expired, unverified>>

GivenValues == IF Twins THEN Values \cup {None} ELSE (Values \ {Root}) \cup {None}

Operation ==
    \/ \E i \in Ids :
          \/ \E v \in Values, own \in BOOLEAN : AddPublicKey(i, v, own)
          \/ \E force \in BOOLEAN : RemovePublicKey(i, force)
          \/ \E v \in GivenValues :
                \/ AddAuthenticationKey(i, v)
                \/ \E own \in BOOLEAN \cup {None} : AddAuthorizationKey(i, v, own)
          \/ RemoveAuthenticationKey(i) \/ RemoveAuthorizationKey(i) \/ StorePrivateKey(i)
    \/ \E c \in Controllers : AddController(c) \/ RemoveController(c)
    \/ \E m \in 1..Cardinality(Controllers) : SetMultisig(m)
    \/ \E x \in Controllers \cup {Self} :
          \/ RemoveProof(x) \/ RemoveSelfProclaimedCredential(x)
          \/ \E k \in IssuerKeys : RenewSelfProclaimedCredential(x, k)
    \/ OtherEdit \/ (\E past \in BOOLEAN : SetExpires(past))
    \/ \E c \in CredIds :
          \/ \E s \in SignKey \cup {External} : AddCredential(c, s)
          \/ \E k \in IssuerKeys : AddSelfProclaimedCredential(c, k)
          \/ RemoveCredential(c)

Next ==
    \/ \E s \in {"sealed", "stored"}, c \in Controllers \cup {None} :
          Held(s) # None /\ Edit(s, c)
    \/ builder # None /\ (Operation \/ Seal \/ Discard)
    \/ StoreDID
    \/ Expire \/ Deactivate

Spec == Init /\ [][Next]_vars

--------------------------------------------------------------------------------
TypeOK ==
    /\ builder = None \/ (/\ builder.doc \in Document /\ builder.ops \in 0..MaxOps
                          /\ builder.by \in Controllers \cup {None})
    /\ sealed \in Document \cup {None}
    /\ stored \in Document
    /\ priv \in [Ids -> Values \cup {None}]
    /\ sessions \in 0..MaxSessions
    /\ expired \cup deactivated \subseteq Copies /\ unverified \subseteq {"sealed", "stored"}

\* Whatever was edited between the signatures, a document that was sealed can be
\* written, read and used: its proofs are by its default key or by controllers it
\* has now, no more than its multisig asks for, its self-proclaimed credentials
\* verify with keys that it or its controllers still authenticate with, and the
\* proofs are of the text it has now, unless a signer sealed it over another's proof
\* when it had expired or its DID was deactivated (DIDDocumentBuilder_Seal after any
\* operations).
SealedGenuine ==
    \A s \in {"sealed", "stored"} : LET d == Held(s) IN d # None =>
        /\ Entitled(Reread(d))
        /\ s \notin unverified => Fresh(Reread(d))
        /\ Cardinality(d.proofs) \in 1..(IF Cardinality(d.ctrls) > 1 THEN d.m ELSE 1)
        /\ CredentialsGenuine(Reread(d))

\* No editing, sealed or given up, takes from an ordinary DID the key that its name
\* comes from, which seals and publishes its documents: the stored document
\* authenticates with it and its private key is in the store (remove_publickey
\* deletes private keys while the document is being edited).
DefaultKeyKept ==
    ~Customized(stored) =>
        /\ stored.def # None /\ stored.keys[stored.def].auth
        /\ priv[stored.def] = Root

================================================================================
