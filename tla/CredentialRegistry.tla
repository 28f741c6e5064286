--------------------------- MODULE CredentialRegistry ---------------------------
(***************************************************************************)
(* One credential: Credential_Declare, Credential_Revoke,                  *)
(* Credential_RevokeById, Credential_Resolve, Credential_ResolveBiography, *)
(* Credential_ResolveRevocation and Credential_IsRevoked on the devices of *)
(* its holder and its issuer, the stored credential with the revoked flag  *)
(* of its metadata, the cache of answers, and the chain.                   *)
(*                                                                         *)
(* A publication checks first and sends its transaction later; other       *)
(* devices get in between.  A question to the chain may stay without an    *)
(* answer.  DIDs are resolved as they are on the chain: how old a cached   *)
(* one may be is the subject of DIDResolver; their documents keep their    *)
(* keys.  A call works on the credential as the store has it when the call *)
(* begins.                                                                 *)
(***************************************************************************)
EXTENDS Integers, Sequences, FiniteSets

CONSTANTS
    Holder, Issuer,   \* DIDs; the same one if the credential is self-proclaimed
    HolderKeys,       \* the authentication keys of the holder's document
    IssuerKeys,       \* and of the issuer's; empty if it is the holder's
    HolderDevices,
    IssuerDevices,    \* empty if the credential is self-proclaimed
    None

Parties == {Holder, Issuer}

Keys == HolderKeys \cup IssuerKeys

\* The DID a key belongs to, and its keys.
Signer(key) == IF key \in HolderKeys THEN Holder ELSE Issuer

KeysOf(p) == {key \in Keys : Signer(key) = p}

Devices == HolderDevices \cup IssuerDevices

Owner(a) == IF a \in HolderDevices THEN Holder ELSE Issuer

ASSUME RegistryAssumption ==
    /\ HolderKeys \cap IssuerKeys = {}
    /\ HolderDevices \cap IssuerDevices = {}
    /\ Holder = Issuer => IssuerKeys = {} /\ IssuerDevices = {}
    /\ None \notin Parties

VARIABLES
    txs,          \* transactions of the credential on the chain, oldest first
    expired,      \* the DIDs whose document has expired
    deactivated,  \* the DIDs that are deactivated
    stored,       \* per device: the revoked flag of the stored credential, which is
                  \* false if it was never set
    cache,        \* per device: the cache file of the credential
    job           \* per device: a publication that passed its checks

docs == <<expired, deactivated>>
vars == <<txs, docs, stored, cache, job>>

Flags == {"false", "true"}

--------------------------------------------------------------------------------
\* Validity of documents and credentials.

\* DIDDocument_IsValid returns the first result that is not 0 of IsExpired and
\* IsDeactivated, which is 1, and else that of IsGenuine, which is 1.
DocIsValid(p) ==
    LET isExpired == IF p \in expired THEN 1 ELSE 0
        isDeactivated == IF p \in deactivated THEN 1 ELSE 0
    IN  IF isExpired # 0 THEN isExpired
        ELSE IF isDeactivated # 0 THEN isDeactivated ELSE 1

\* Credential_IsValid: holder and issuer are valid, and the credential has not
\* expired, which it does with the documents of its holder and its issuer.
CredentialIsValid ==
    /\ DocIsValid(Holder) = 1
    /\ DocIsValid(Issuer) = 1
    /\ Parties \cap expired = {}

--------------------------------------------------------------------------------
\* What the chain says of the credential.  It is asked for the revocations of
\* the holder and of iss; without iss, the issuer is that of the declaration.

Is(i, op) == txs[i].op = op

Counts(i, iss) ==
    Is(i, "revoke") =>
        \/ Signer(txs[i].by) = Holder
        \/ IF iss # None THEN Signer(txs[i].by) = iss
           ELSE (\E j \in 1..i : Is(j, "declare")) => Signer(txs[i].by) = Issuer

\* Every transaction up to the first one that does not count, newest first.
ChainSays(iss) ==
    LET n == CHOOSE n \in 0..Len(txs) :
                /\ \A i \in 1..n : Counts(i, iss)
                /\ n < Len(txs) => ~Counts(n + 1, iss)
    IN  [status |-> IF n = 0 THEN "notfound"
                    ELSE IF Is(n, "declare") THEN "valid" ELSE "revoked",
         txs |-> [i \in 1..n |-> txs[n + 1 - i]]]

Revoked == \E i \in DOMAIN txs : Is(i, "revoke")

Declared == \E i \in DOMAIN txs : Is(i, "declare")

\* Bug for the mutants: a declaration is taken although there is one.
DeclarableTwice == CredentialIsValid /\ ~Revoked

\* The chain takes a declaration of what is neither declared nor revoked ...
Declarable == CredentialIsValid /\ ~Declared /\ ~Revoked

\* ... and a revocation if neither this key nor one of the holder revoked before,
\* nor, once the chain knows the issuer, one of the issuer.
Revocable(key) ==
    \A i \in DOMAIN txs :
        Is(i, "revoke") => /\ txs[i].by # key
                           /\ Signer(txs[i].by) # Holder
                           /\ Declared => Signer(txs[i].by) # Issuer

Fits(op, key) == IF op = "declare" THEN Declarable ELSE Revocable(key)

--------------------------------------------------------------------------------
\* Resolving, and the cache.

\* CredentialBiography_FromJson takes no more than two transactions.
Readable(biography) == Len(biography.txs) <= 2

\* What may come of a question to the chain: an answer, or None if the resolver
\* fails or the answer cannot be read.
Answered(iss) == {None} \cup {b \in {ChainSays(iss)} : Readable(b)}

\* Bug for the mutants: the file is written with the field that is read.
WrittenReadable(biography) ==
    [id |-> TRUE, status |-> biography.status, txs |-> biography.txs]

\* Credentialbiography_ToJson writes the credential's id as the field did ...
Written(biography) ==
    [did |-> TRUE, status |-> biography.status, txs |-> biography.txs]

\* ... and CredentialBiography_FromJson wants the field id.
Parsed(json) ==
    IF json = None \/ "id" \notin DOMAIN json THEN None
    ELSE [status |-> json.status, txs |-> json.txs]

\* Answers that found the credential are kept in the cache.
Kept(a, biography) ==
    IF biography = None \/ biography.status = "notfound" THEN cache
    ELSE [cache EXCEPT ![a] = Written(biography)]

\* DIDBackend_ResolveCredential: the cache is asked first, with force or without.
Looked(a) ==
    LET cached == Parsed(cache[a])
    IN  IF cached # None THEN {cached} ELSE Answered(None)

\* What it makes of the transactions.  A declared credential has to be valid.
ResolveSays(biography) ==
    IF biography = None THEN "error"
    ELSE IF biography.status = "notfound" THEN "notfound"
    ELSE IF /\ \E i \in DOMAIN biography.txs : biography.txs[i].op = "declare"
            /\ ~CredentialIsValid
    THEN "error" ELSE biography.status

\* Credential_Resolve has a credential to return; if it fails it has none.
ResolveFinds(biography) ==
    /\ ResolveSays(biography) \in {"valid", "revoked"}
    /\ \E i \in DOMAIN biography.txs : biography.txs[i].op = "declare"

\* DIDBackend_ResolveRevocation, which always asks the chain.
RevocationOf(biography) ==
    IF biography = None THEN -1 ELSE IF biography.status = "revoked" THEN 1 ELSE 0

\* Bug for the mutants: only the holder's revocations are asked for.
IsRevokedByHolder(flag, byIssuer, byHolder) ==
    flag = "true" \/ RevocationOf(byHolder) # 0

\* Credential_IsRevoked, with what came of the two questions: a failing one is
\* taken for a revocation, -1 || 0 being 1.
IsRevoked(flag, byIssuer, byHolder) ==
    \/ flag = "true"
    \/ RevocationOf(byIssuer) # 0
    \/ RevocationOf(byHolder) # 0

--------------------------------------------------------------------------------
Init ==
    /\ txs = <<>>
    /\ expired = {}
    /\ deactivated = {}
    /\ stored \in [Devices -> {None, "false"}]
    /\ cache = [a \in Devices |-> None]
    /\ job = [a \in Devices |-> None]

Idle(a) == job[a] = None

\* The checks passed.  document: the DID whose document signs the request;
\* given: the caller had the credential and not only its id; fresh: every question
\* of the checks was answered, and the chain is as it was then.
Ready(a, op, document, given, fresh) ==
    job' = [job EXCEPT ![a] = [op |-> op, document |-> document, given |-> given,
                               fresh |-> fresh]]

\* Every other publication was checked against an older chain.
Outdated(jobs) ==
    [a \in Devices |-> IF jobs[a] = None THEN None ELSE [jobs[a] EXCEPT !.fresh = FALSE]]

\* Credential_IsRevoked of the stored credential says that it is not.
NotRevoked(a) ==
    \E byIssuer \in Answered(Issuer), byHolder \in Answered(Holder) :
        ~IsRevoked(stored[a], byIssuer, byHolder)

\* Credential_Declare, up to the transaction.  The holder's key signs.  That the
\* resolve of Credential_WasDeclared fails is taken for not declared; what it is
\* answered is what Credential_IsRevoked was, as there is no revocation.
DeclareCheck(a) ==
    /\ Idle(a) /\ a \in HolderDevices
    /\ stored[a] # None
    /\ CredentialIsValid
    /\ NotRevoked(a)
    /\ \E biography \in Looked(a) :
          /\ ~ResolveFinds(biography)
          /\ Ready(a, "declare", Holder, TRUE, biography # None)
    /\ cache' = Kept(a, ChainSays(Holder))
    /\ UNCHANGED <<txs, docs, stored>>

\* Credential_Revoke with a key of the caller, up to the transaction.  It is
\* signed with the document of the one whose key signed the credential.
RevokeCheck(a) ==
    /\ Idle(a)
    /\ stored[a] # None
    /\ CredentialIsValid
    /\ NotRevoked(a)
    /\ Ready(a, "revoke", Issuer, TRUE, TRUE)
    /\ cache' = Kept(a, ChainSays(Holder))
    /\ UNCHANGED <<txs, docs, stored>>

\* Credential_RevokeById, up to the transaction.  The stored credential is asked
\* if there is one; if not, only revocations by holder and caller are known.
RevokeByIdCheck(a) ==
    /\ Idle(a)
    /\ stored[a] # None => NotRevoked(a)
    /\ \E biography \in Answered(Owner(a)) :
          /\ RevocationOf(biography) = 0
          /\ cache' = Kept(a, biography)
    /\ Ready(a, "revoke", Owner(a), stored[a] # None, TRUE)
    /\ UNCHANGED <<txs, docs, stored>>

\* DIDDocument_SignDigest: the key has to be one of the document.
Signs(a) == job[a].document = Owner(a)

\* The request is signed, with any key of the document, and sent; the chain takes
\* it ...
Accepted(a) ==
    /\ ~Idle(a) /\ Signs(a)
    /\ \E key \in KeysOf(Owner(a)) :
          /\ Fits(job[a].op, key)
          /\ txs' = Append(txs, [op |-> job[a].op, by |-> key])
    /\ job' = Outdated([job EXCEPT ![a] = None])
    /\ UNCHANGED <<docs, stored, cache>>

\* ... or refuses it, or nothing is sent: it is not signed, the adapter fails, or
\* the process dies.  Whether a transaction that was taken is reported as failed
\* makes no difference: the call writes nothing after it.
NotAccepted(a) ==
    /\ ~Idle(a)
    /\ job' = [job EXCEPT ![a] = None]
    /\ UNCHANGED <<txs, docs, stored, cache>>

\* Credential_Resolve, with force or without.  DIDStore_StoreCredential may
\* follow: the flag that came with the answer replaces the stored one.
Resolve(a) ==
    /\ Idle(a)
    /\ \E biography \in Looked(a) :
          /\ cache' = Kept(a, biography)
          /\ \/ UNCHANGED stored
             \/ /\ ResolveFinds(biography)
                /\ stored' = [stored EXCEPT ![a] =
                                 IF biography.status = "revoked" THEN "true" ELSE "false"]
    /\ UNCHANGED <<txs, docs, job>>

\* Credential_ResolveBiography, Credential_ResolveRevocation, and the questions of
\* a publication that is given up: the answer is kept.
Query(a, iss) ==
    /\ Idle(a)
    /\ \E biography \in Answered(iss) : cache' = Kept(a, biography)
    /\ UNCHANGED <<txs, docs, stored, job>>

\* DIDStore_StoreCredential of a credential as the issuer made it: a flag that is
\* not set would leave a stored one as it is.
StoreCredential(a) ==
    /\ Idle(a) /\ stored[a] = None
    /\ stored' = [stored EXCEPT ![a] = "false"]
    /\ UNCHANGED <<txs, docs, cache, job>>

\* DIDStore_DeleteCredential.
DeleteCredential(a) ==
    /\ Idle(a) /\ stored[a] # None
    /\ stored' = [stored EXCEPT ![a] = None]
    /\ UNCHANGED <<txs, docs, cache, job>>

\* A document expires, or is published again with a new date.
Expire(p) ==
    /\ expired' = expired \cup {p}
    /\ job' = Outdated(job)
    /\ UNCHANGED <<txs, deactivated, stored, cache>>

Renew(p) ==
    /\ p \notin deactivated
    /\ expired' = expired \ {p}
    /\ job' = Outdated(job)
    /\ UNCHANGED <<txs, deactivated, stored, cache>>

Deactivate(p) ==
    /\ deactivated' = deactivated \cup {p}
    /\ job' = Outdated(job)
    /\ UNCHANGED <<txs, expired, stored, cache>>

Next ==
    \/ \E a \in Devices :
          \/ DeclareCheck(a)
          \/ RevokeCheck(a)
          \/ RevokeByIdCheck(a)
          \/ Accepted(a)
          \/ NotAccepted(a)
          \/ Resolve(a)
          \/ \E iss \in Parties \cup {None} : Query(a, iss)
          \/ StoreCredential(a)
          \/ DeleteCredential(a)
    \/ \E p \in Parties : Expire(p) \/ Renew(p) \/ Deactivate(p)

Spec == Init /\ [][Next]_vars

--------------------------------------------------------------------------------
\* Properties.

Jobs == [op : {"declare", "revoke"}, document : Parties, given : BOOLEAN, fresh : BOOLEAN]

\* Types.  No key declares or revokes twice, so that the chain's rules bound the
\* history by the keys there are; it outgrows the two transactions that
\* CredentialBiography_FromJson accepts only if keys of the issuer revoke what was
\* never declared.
TypeOK ==
    /\ txs \in Seq([op : {"declare", "revoke"}, by : Keys])
    /\ \A i, j \in DOMAIN txs : i # j => txs[i] # txs[j]
    /\ Len(txs) > 2 => ~Declared /\ Signer(txs[1].by) = Issuer
    /\ expired \subseteq Parties
    /\ deactivated \subseteq Parties
    /\ stored \in [Devices -> Flags \cup {None}]
    /\ \A a \in Devices : cache[a] # None => cache[a].status \in {"valid", "revoked"}
    /\ job \in [Devices -> Jobs \cup {None}]

\* Credential_IsRevoked never misses a revocation of a stored credential, whatever
\* its metadata remember, whoever of the two revoked it, whichever question fails
\* and however many transactions there are; and it makes none up, unless a
\* question fails.
RevocationKnown ==
    \A a \in Devices, byIssuer \in Answered(Issuer), byHolder \in Answered(Holder) :
        stored[a] # None =>
            /\ Revoked => IsRevoked(stored[a], byIssuer, byHolder)
            /\ IsRevoked(stored[a], byIssuer, byHolder) =>
                   Revoked \/ byIssuer = None \/ byHolder = None

\* Credential_Resolve never says valid of a credential that is revoked.  Nothing
\* removes a cached answer when a revocation is published, and the argument force
\* is not used: that no cached answer can be read is what makes it so.
RevocationSeen ==
    \A a \in Devices : \A biography \in Looked(a) :
        ResolveSays(biography) = "valid" => ~Revoked

\* The one request that is never signed: Credential_Revoke takes the key of the
\* holder and the document of the issuer, who signed the credential.
HolderRevokesIssued(a) ==
    job[a].op = "revoke" /\ Owner(a) = Holder /\ job[a].document # Holder

\* A publication of a stored credential that passed its checks is one that can be
\* signed and that the chain takes, whichever of its keys signs it: the checks of
\* Credential_Declare, Credential_Revoke and Credential_RevokeById miss none of the
\* chain's rules.  Excepted are what happened in between, a question that was not
\* answered, and the holder's Credential_Revoke of an issued credential.
ChecksComplete ==
    \A a \in Devices :
        ~Idle(a) /\ job[a].given /\ job[a].fresh =>
            /\ \A key \in KeysOf(Owner(a)) : Fits(job[a].op, key)
            /\ Signs(a) \/ HolderRevokesIssued(a)

Life == INSTANCE CredentialLife
            WITH declarations <- Cardinality({i \in DOMAIN txs : Is(i, "declare")}),
                 revokers <- {txs[i].by : i \in {j \in DOMAIN txs : Is(j, "revoke")}}

\* Whatever the devices check and send, and whatever they learn of the chain, the
\* history is that of a credential.
ImplementsLife == Life!Spec

================================================================================
