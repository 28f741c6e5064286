# A TLA+ model of the Elastos DID Native SDK

The SDK (C, `src/src`) keeps decentralized identities in a *DID store* on disk,
publishes their documents to a chain through a backend, resolves them back and
caches what it resolved. This project models the parts of it that keep state and
can go wrong over several steps, checks them with TLC on small instances, and
proves the main results with TLAPS.

## 1. Inventory

| Part | State | Operations | Hard behaviour |
|---|---|---|---|
| Publishing (`diddocument.c` 4496-4779, `didbackend.c` 123-254) | metadata of the document in memory and on disk: signature, previous signature, deactivated | PublishDID, DeactivateDID, TransferDID, DeactivateDIDByAuthorizor | the up-to-date check compares signatures that were recorded by earlier calls, perhaps in another handle, perhaps before a crash; another store may publish between check and transaction |
| DID store (`didstore.c`) | document and metadata files per DID, private keys, root identities, store metadata with the password fingerprint | Open, StoreDID, LoadDID, DeleteDID, StorePrivateKey, ..., ChangePassword, export and import | several files per operation, journal directory and tag files, recovery in Open, upgrade of version 2 stores |
| Root identity (`rootidentity.c`) | index counter, keys | NewDID, NewDIDByIndex, Synchronize, LazyCreatePrivateKey | a synchronization merges chain and local copy by the same recorded signatures |
| Document and builder (`diddocument.c` 1300-3300) | the document being edited | Edit, Add/Remove/Authorize..., Seal | guards on keys, credentials and controllers; m of n proofs |
| Resolving (`didbackend.c` 256-644, `backend/resolvercache.c`, `backend/resolveresult.c`) | one cache file per DID | ResolveDID (forced or cached), ResolveDIDBiography, invalidation by publications | the cache holds answers of two kinds of query, times out, and must be dropped by publications |
| Credentials (`credential.c`, `didbackend.c` 665-866, `credentialbiography.c`) | transactions on the chain, cached answers | declare, revoke, resolve | revocation by issuer or holder, before or after the declaration |
| Customized DIDs, tickets (`ticket.c`, `diddocument.c` 4425-4720) | controllers, m of n, ticket proofs | seal, transfer | ticket names a txid; a transfer in between must invalidate it |
| Issuer, presentation, JWT, JSON, HTTP resolver, error stack, cryptography | none that outlives a call | pure functions, wrappers and I/O | - |

Calls go downwards: applications call documents, root identities and stores;
these call `DIDBackend_*`, which builds a request and hands it to the callbacks
`CreateIdTransaction` and `Resolve` of the application. The chain is not part of
`src/src`; it is modelled from how the SDK uses it and from the adapter the tests
run against, `tests/testadapter/dummyadapter.c`. The SDK starts no threads. What
runs concurrently are processes: several devices of one owner, each with its own
store, and the chain, which settles transactions in its own time.

What would make each part correct:

- publishing: no update of another device is lost unless its user says so; no
  local edit is discarded unless the conflict handler says so; a deactivated DID
  stays deactivated and is the only kind that is marked so;
- store: no secret is lost, all of them can be read with the one password the
  store accepts, whatever crashes and failed writes happen in between;
- resolving: a cached answer is never older than the last publication of this
  process, and no older than its time to live;
- credentials: once revoked always revoked, by nobody but issuer or holder;
- customized DIDs: only the controllers in force at the transfer can hand it on,
  and what is signed by several of them stays what each of them signed;
- root identities: every stored document keeps a key that can be derived again, and
  synchronizing finds what is on the chain;
- document builder: whatever is edited between two signatures, a sealed document
  verifies, and the key a DID's name comes from is not lost;
- export and import: what one store exported is whole and readable in the other, or
  is not there.

## 2. Modules

| Module | What it is |
|---|---|
| `DIDRegister` | What publishing promises, seen from the chain: a register whose versions only accumulate; a store replaces a version only if it knows it; nothing is written after it was closed. |
| `DIDPublish` | Publishing one DID from several stores: PublishDID (check, then submission), DeactivateDID, NewDIDByIndex, Edit/Seal, StoreDID, LoadDID, DeleteDID, metadata setters, SynchronizeByIndex, the chain. |
| `DIDPublish_proofs` | The inductive invariant, the safety properties and the refinement of `DIDRegister`, for all constants. |
| `MCDIDPublish` | The symmetry set of the instances, and the restricted specification of the race. |
| `StoreVault` | What a store promises about its secrets: each under the store's password, changed for all of them in one step. |
| `StoreJournal` | The files behind that promise: ChangePassword with its journal and tag files, the upgrade of version 2 stores, the recovery in DIDStore_Open, storing, loading, deleting and lazily deriving keys, with crashes and failed writes. |
| `StoreJournal_proofs` | Which crashes and failures each promise of the store survives, and the refinement of `StoreVault`. |
| `MCStoreJournal` | The sets of the instances, and the steps at which a crash does no harm. |
| `DIDReader` | What resolving promises one process: answers do not go back, nor behind its own publications. |
| `DIDResolver` | DID_Resolve and DID_ResolveBiography with the cache directory, its time to live, and the publications that must drop cached answers. |
| `DIDResolver_proofs` | The safety properties of the cache and the refinement of `DIDReader`, for any DIDs, times and delays. |
| `CredentialLife` | The histories a credential may have on the chain. |
| `CredentialRegistry` | Declaring, revoking, resolving and storing one credential on the devices of its holder and its issuer, and the chain's rules. |
| `CredentialRegistry_proofs` | Its invariants and the refinement of `CredentialLife`, for any number of devices. |
| `MCCredentialRegistry` | The values and the symmetry set of the instances. |
| `Ownership` | What a customized DID promises: it is its controllers' until as many of them as it takes have agreed, since its last transaction, to hand it to one receiver. |
| `CustomDID` | Creating, editing, signing m of n, merging, tickets, PublishDID, TransferDID and DeactivateDID of one customized DID by its controllers, each in an application of its own, and the chain. |
| `CustomDID_proofs` | Sound documents and the refinement of `Ownership`, for any controllers, tickets and transactions. |
| `MCCustomDID` | The symmetry set of the instances. |
| `RootIdentity` | A root identity and the DIDs derived from it: Create, load, delete, NewDID, NewDIDByIndex, Synchronize, LazyCreatePrivateKey, file by file, with other devices on the chain. Its run needs no MC module. |
| `RootIdentity_proofs` | Recoverable keys and what a synchronization finds, for any indexes, gap and number of calls. |
| `DocumentBuilder` | Every operation of the builder on one document in one store, Seal, storing and reading back. |
| `DocumentBuilder_proofs` | What sealing promises, for any keys, controllers, credentials and any number of operations. |
| `MCDocumentBuilder` | The symmetry set of the instance. |
| `StoreExport` | Export and import of DIDs, root identities and whole stores between stores with different passwords, write by write. |
| `StoreExport_proofs` | What exports and imports promise, for any stores, identities, passwords and upsets. |
| `MCStoreExport` | Two stores, an identity with a mnemonic and one made from a root key, and a DID. |

### DIDPublish and the code

A document is its proof signature, which is how the code compares documents; a
signature is a pair of the store that sealed it and a number. `disk[s]` is the
document file and the metadata file of the DID in store `s`; `handle[h]` is a
`DIDDocument` in memory with its own copy of the metadata. `named` is whether
those metadata have the DID string: `DIDMetadata_Store` writes nothing without it,
`DIDStore_StoreDID` sets it, `DIDStore_LoadDID` does not. `chain` is what the
resolver answers; a txid is a position in it. `job[s]` is a PublishDID call
between its resolve and its transaction, which is where another store can get in
between; nothing else of one store is interleaved with it (one thread per store).
`seen` is a history variable: the versions a store read from the chain by
synchronizing, or was told by its user to overwrite (`force`).

Each file is written at once; a crash may come between two of them
(`StoreDIDCut`, the middle disjuncts of `PublishSubmit`), and a failed write takes
the old document with it (`StoreDIDFailed`, as the code does). With `Prompt` the
backend callback says whether the transaction was accepted, as in the tests'
adapter; without it the callback only submits, and the chain settles the transaction
later, refuses it or never gets to it (`Confirm`, `Reject`, and no fairness): what was
reported as sent is on its way, what was reported as failed may be (`Submit`). A
deactivated document can be edited and sealed again, as in the code (`EditSeal`);
what is refused is publishing it. Resolves are forced here, as in PublishDID.

### StoreJournal and the code

A file is the password it is encrypted with. `data` and `journal` are the
directories `data` and `data.journal` with a file per secret, the password
fingerprint (`print`) and whether the metadata file is there; `tags` are the empty
files `postUpgrade` and `postChangePassword`, which say that the journal is whole;
`v2` is what lies in the root directory of a version 2 store. `at` is the next
step of the call in progress, so that each write, rename and deletion that
another process could find half-done is an action: `Copy`, `TagPassword`,
`PostPassword`, `Swap`, `Untag`, `StorePrint` for a password change, `PostUpgrade`,
`MoveV2`, `Upgrade`, `TagUpgrade` for an upgrade, with `Open` running the recovery
steps in the code's order. `mem` is the fingerprint in the open handle. `CrashAt`
and `FailAt` name the steps a crash or a failed write may hit. Decryption succeeds
exactly with the password of the encryption. `DataInPath` is whether the path of
the store itself contains `data`, which `need_reencrypt` trips over.

### DIDResolver and the code

A DID's transactions are positions on its chain and a document is the position of
its transaction. `file` is the cache directory: the answer and the age of the file.
`call` is a resolve, a biography query or a publication whose answer has been given
by the chain (`Ask`) and is not yet in the cache (`Keep`), or whose transaction is
accepted (`Accept`) and whose cached answer is not yet dropped (`Done`); other
processes publish in between (`Elsewhere`), and the process may die (`Crash`) and
come back to its cache. `last` is what the last resolve returned. Ages stop counting
at `Old`. A transfer is an update here. Signatures in answers are assumed to
verify: the answers come from an honest chain, whose documents passed the same
checks (`DIDRequest_IsValid`). The metadata side of publications is `DIDPublish`.

### CredentialRegistry and the code

`txs` is the history of one credential on the chain. `job[a]` is a publication of
device `a` that passed the checks of Credential_Declare, Credential_Revoke or
Credential_RevokeById and has not sent its transaction yet: which document signs
it, whether the caller had the credential, and whether every question of the checks was
answered and the chain is still as they saw it (`fresh`, used in one property only). `stored[a]` is the revoked
flag of the stored credential, `cache[a]` the cache file as it is written: reading
it back is `Parsed`, which finds the field of `Written` missing. `ChainSays` is the
answer to a query with or without an issuer, `Answered` what comes of the query: the
answer, or nothing if the resolver fails or the answer has more than two transactions
(`Readable`). Transactions are signed with keys, and the chain (`Fits`) compares keys,
as `credential_readydeclare`, `credential_readyrevoke` and `vcresult_tojson` of the
tests' adapter do: two keys of the issuer can revoke what is not declared, and the
holder after them. Only the holder and the issuer act: revocations by strangers, which
that adapter records before a declaration, are left out. Documents keep their
authentication keys, and DIDs are resolved as they are on the chain.

### CustomDID and the code

A document is its controllers, its multisig, a number for the rest of its text
(`edition`) and the set of those who made a proof of that text. Documents and
tickets are JSON that the controllers send each other, so `sealed` and `tickets`
only grow: any of them may be signed, merged, published or used again at any later
time. `builder` is the editing session in progress; nothing is shared during one, so
that its steps are not interleaved with others. `pool` holds requests between their
checks and the chain, which is where publications, transfers and deactivations race;
`chain` is what the adapter of the tests accepts (`Fits`: `check_ticket` and its own
`controllers_equals`, which does compare all controllers). `ControllersEqual` is the
SDK's, which does not. `Needed` is `multisig`, or 1 with one controller;
`MergeDIDDocuments` takes any `m` of the proofs, since the code sorts pointers.
The refinement maps `agreed` to the signatures of the tickets that name the last
transaction: every transaction takes them back.

### RootIdentity and the code

`next` is the index file, `handle` the `index` field of the `RootIdentity` in memory,
which only loading and synchronizing set: NewDID reads and writes the file. `docs`,
`tagged` and `keys` are the document file, the metadata file that names root identity
and index, and the default private key (stored or lazy) per index. `task` is the call
in progress, at the write that comes next: `key`, `doc`, `meta`, `index` for a new
DID; `look`, `doc`, `meta`, `key` for each index of Synchronize, with the code's
`lastindex` and `blanks`. Every write may fail with what the code then deletes
(`NewFails`, `SyncFails`), and the application may die before it or leave the file
empty (`Torn`). `chain` moves at any time (`Elsewhere`). `due`, `missed` and `given`
are history variables.

### DocumentBuilder and the code

A document has its keys by id (value, whose, authentication, authorization), its
default key as the code keeps it, credentials with the key that signed them, and
proofs with whether the text is still the one that was signed (`fresh`):
`AddAuthenticationKey` of a key that is there and `RenewSelfProclaimedCredential`
leave proofs of the old text. `priv` are the private keys in the store, which
`RemovePublicKey` deletes at once and the issuer signs with (`IssuerKeys`, from the
stored document, not the edited one). `Reread` is what writing and parsing change:
the default key is the first key with the right address, whoever controls it, and it
becomes an authentication key. `expired` and `deactivated` name the copies (edited,
sealed, stored) that are past their date or whose metadata say that the DID was
deactivated: `SetExpires` takes a past date, time passes for all of them (`Expire`), a
resolved document brings the flag (`Deactivate`), and `DIDDocument_Copy` and storing
carry both along (`CarryOver`). Seal verifies the proofs of such a document no more
(`Lapsed`); `unverified` is a history variable, the copies that were sealed so over
proofs of others. Adding and removing services are `OtherEdit`. The date of a
credential is no earlier than the document's, so that in an expired document every
credential is expired (`CredentialsValid`).

### StoreExport and the code

A secret is the password its file is encrypted with, `Lazy`, or `Bad` when a damaged
backup decrypted to something else. Each store has its fingerprint (`print`), whether
`data/roots` exists, its root identities and its DIDs. `backup` is the one file
exports go to and imports come from: a single export or a zip of entries. An import
is a sequence of writes (`RootWrites`, `DIDWrites`): all of them (`AbsorbRoot`,
`AbsorbDID`) or cut short by a failure, with what the code then deletes, or by the
death of the process (`BreakRoot`, `BreakDID`). `job` is an ImportStore call between
two entries and `tmp` the file `/tmp/storeexport.json` it unpacks them to. `torn` and
`removed` are history: identities whose import a crash interrupted, and those deleted
by the user or by a failing import.

## 3. Runs

| Run | Question |
|---|---|
| `publish_prompt` | With a chain that answers at once, and one crash, failed write or deletion anywhere: are updates lost (`NoBlindOverwrite`), do stores take unread versions for handled ones (`LocalKnown`), is the deactivated flag true (`DeactivatedTrue`), does every discarded edit pass the conflict handler (`HandlerSeesUnpublished`)? All hold. |
| `publish_race` | Two stores race and updates of both wait on top of the same version (a restricted next-state relation, `RaceNext`, and larger bounds), also one that was reported as failed: does the inductive invariant hold, is the register still implemented? Both hold. |
| `journal` | A password change, an upgrade and ordinary use, with two crashes or failed copies at every step where the code survives one: is a secret ever lost (`NoSecretLost`), unreadable (`Readable`), does Open always find a store (`OpenFindsData`) and reach a usable one (`Usable`), is the change one step for all (`ImplementsVault`)? All hold. |
| `journal_swap` | With a crash between the two renames as well: the recovery of upgrades deletes the journal, and the store is gone. |
| `resolve` | Cached and forced resolves, biographies and publications of one process, others publishing, time passing: does the cache ever hide the process's own publication (`OwnWritesSeen`), is a cached answer older than time to live and transit allow (`BoundedStaleness`), are statuses and documents true (`AnswersTrue`), do answers go back (`ImplementsReader`), is a deactivation noticed in the end (`DeactivationNoticed`)? All hold. |
| `credential` | Two devices of the holder and two of the issuer, who has two keys, at once, over questions that may fail: does a device ever miss a revocation, or make one up when both questions are answered (`RevocationKnown`), does a revoked credential ever resolve as valid (`RevocationSeen`), do the checks miss a rule of the chain, for any key of the caller, or let pass what cannot be signed (`ChecksComplete`), is the history a credential's (`ImplementsLife`), and which histories are too long to be parsed (`TypeOK`)? All hold; `ChecksComplete` excepts one case by name, `HolderRevokesIssued`. |
| `custom_race` | Two controllers, no edits, with requests of both on their way at once: does anything but a ticket of the last transaction with enough signatures change whose the DID is (`ImplementsOwnership`)? It does not: the chain's comparison of controllers makes up for the SDK's. |
| `custom_edit` | Three controllers who also edit: are sealed and merged documents sound (`SealedSound`), is the promise kept (`ImplementsOwnership`)? Both hold. |
| `custom_controllers` | PublishDID sends an update in which a controller was replaced, without a ticket. |
| `roots` | Three calls of any kind on three indexes, with failed and torn writes, crashes and a chain that moves: does every stored document keep a key that is there or can be derived (`KeysRecoverable`), does a synchronization bring what was on the chain when it began (`SyncFinds`) and end (`SyncTerminates`)? All hold. |
| `builder` | Two sessions of two operations on an ordinary or a customized DID's document, sealed or given up, while it expires, gets a date or is deactivated: does what was sealed verify when it is read back, with its credentials (`SealedGenuine`), is the default key still there (`DefaultKeyKept`)? Both hold; that its proofs are of its text `SealedGenuine` says only of what was not sealed over proofs that nothing verified. |
| `export` | Seven calls on two stores with different passwords, one identity with a mnemonic, one without, one DID, and one failed write, crash or damaged backup: are secrets readable (`Readable`), identities whole (`IdentityWhole`), lazy keys derivable (`Derivable`), does a successful ImportStore bring everything (`ImportComplete`)? All hold. |

Bounds. `DIDPublish`: two stores, one handle each, two or three sealed documents,
two documents on the chain, one waiting transaction, at most one crash, failed
write or deletion; in the race three documents, three on the chain and two waiting
transactions, so that one of two updates of the same version must lose (2.4 and 3.7
million states). Two stores
are enough for every race between a store and the
rest of the world; two chain positions are the least where one version replaces
another; three documents let a store edit a version it has already published.
The proofs do not depend on the bounds: they hold for every value of them.
`StoreJournal`: two private keys and one root identity, two passwords, two crashes
or failed writes. Two keys let one be copied and the other not; two passwords are
what a change needs, and change again; two upsets hit a call and the recovery
from it. The passing run leaves out crashes at `create`, `swap`, `untag` and `print`
(`SafeSteps`): a crash there does break the store, `journal_swap` shows one of them
and the hazards list the others. Failed writes are at `copy`; with `FailAt =
{"upgrade"}` `NoSecretLost` is violated, see section 5.

`DIDResolver`: one DID and one authorizing DID, three transactions, a time to live
and a transit time of one tick each. Cache entries and chains of different DIDs do
not touch each other, except that an authorizor's publication concerns two, which
the instance has. Three transactions are the least where a biography is longer than
what a resolve of a deactivated DID reads. One tick is enough to tell fresh, aged
and too old apart.

`CredentialRegistry`: no bound; the chain's rules keep the history at a declaration and
one transaction per key (491,760 states, a minute and a half). Two devices of one
party can declare or revoke at once, those of the other meanwhile; two keys of the
issuer are the least where the history has three transactions, which cannot be read.

`CustomDID`: the race has two controllers, three sealed documents, two tickets, two
requests in the pool and three transactions: the least where a ticket made before an
update meets a transfer made after it. The edit run has three controllers, so that
two of three is a quorum, two operations of a session and two transactions.
Replacing one of two controllers needs a third and two operations.

`RootIdentity`: three indexes, `Gap` 2 in place of the code's 20 and three calls. A
DID behind a gap, one before it and one at the index of the handle are the cases the
loop tells apart; three calls are create, make or publish, synchronize, and what
other devices do is not counted.

`DocumentBuilder`: two own keys, three key values of which one is the DID's, two
controllers, one credential id, two operations in a session and two sessions: an edit,
and an edit of what another signed, sealed, stored, expired or deactivated before
(1,073,500 states). In two sessions of one operation each the second signer already
seals over a stale proof of the first.
`Twins = FALSE` says that the application does not add the default key's value under
another id.

`StoreExport`: an identity, a DID and credentials have to be made (two or three
calls), exported, imported, and the same again back or over what is there; that is
seven calls. One upset hits any write of an import, the unpacking of an entry or the
backup itself; the writes that make identities, DIDs and credentials and those of the
exports do not fail in the model. Two upsets with six calls hold as well. `Misuse =
FALSE` says that imports are given the store's own password, `MaxJobs = 1` that one
process imports at a time; section 5 says what happens otherwise.

Fairness. `RootIdentity`: weak fairness of the steps of a call, since code runs on;
failures and crashes are steps among others, and none is needed. `StoreJournal`: weak fairness of opening the store and of each step of a
call, since an application that wants its store opens it and code runs on; none of
crashes and failures, which are bounded. `DIDResolver`: weak fairness of the steps of
a call and of time; strong fairness of the application's own resolves and their
return, which other calls, crashes and failures interrupt but do not prevent for
ever. The other modules state no liveness: nothing in their code
retries or waits.

`CHECK_DEADLOCK FALSE` in the runs of `DIDPublish`, `CustomDID`, `RootIdentity`,
`DocumentBuilder` and `StoreExport`: once every bound is spent nothing is left to do.

## 4. Proofs

Eight modules hold the proofs, one per component. Every safety property and every
refinement that a passing run checks is proved there for all values of the constants,
so that no bound of section 3 matters to it. Each module first proves an inductive
invariant (`Invariant`), one lemma per action, and gets the rest from it;
`TypeCorrect` is `Spec => []TypeOK`.

| Module | Theorem | States | Under |
|---|---|---|---|
| `DIDPublish_proofs` | `NoLostUpdate` | `NoBlindOverwrite` | |
| | `LocalTruth`, `DeactivatedIsTrue` | `LocalKnown`, `DeactivatedTrue` | |
| | `NoSilentDiscard` | `HandlerSeesUnpublished` | `Prompt` |
| | `Refinement` | `ImplementsRegister` | |
| `StoreJournal_proofs` | `SecretsAreKept` | `NoSecretLost` | `SecretsSafe` |
| | `OpenFindsTheStore` | `OpenFindsData` | `StoreFindable` |
| | `SecretsAreReadable` | `Readable` | `PasswordSafe` |
| | `Refinement` | `ImplementsVault` | `VaultSafe` |
| `DIDResolver_proofs` | `OwnWritesAreSeen` | `OwnWritesSeen` | |
| | `StalenessIsBounded` | `BoundedStaleness` | |
| | `AnswersAreTrue` | `AnswersTrue` | |
| | `Refinement` | `ImplementsReader` | |
| `CredentialRegistry_proofs` | `RevocationsKnown`, `RevocationsSeen` | `RevocationKnown`, `RevocationSeen` | |
| | `ChecksAreComplete` | `ChecksComplete` | |
| | `Refinement` | `ImplementsLife` | |
| `CustomDID_proofs` | `SealedIsSound` | `SealedSound` | |
| | `Refinement` | `ImplementsOwnership` | |
| `RootIdentity_proofs` | `KeysAreRecoverable` | `KeysRecoverable` | |
| | `SynchronizeFinds` | `SyncFinds` | |
| `DocumentBuilder_proofs` | `SealingIsGenuine` | `SealedGenuine` | `OneDefault` |
| | `DefaultKeyStays` | `DefaultKeyKept` | `OneDefault` |
| `StoreExport_proofs` | `IdentitiesAreWhole`, `KeysAreDerivable` | `IdentityWhole`, `Derivable` | |
| | `SecretsAreReadable` | `Readable` | `OwnPassword` |
| | `ImportsAreComplete` | `ImportComplete` | `OneImport` |

### The inductive invariants

- `DIDPublish`. `NoBlindOverwrite` is not inductive: the update that is settled was
  checked earlier, against metadata written earlier still. `IInv` carries the
  knowledge along that path: whatever a store holds, on disk or in a handle, names only
  versions it knows (`LocalKnown`); so a publication that passed the check rests on a
  known head (`JobKnown`); so does the transaction in the pool (`PoolKnown`), and the
  chain's comparison of the previous txid makes sure that this head is the one that
  is replaced. With a prompt chain every recorded signature is on the chain
  (`SignaturesPublished`), which is why a synchronization that finds another one there
  knows that there are edits.
- `StoreJournal`. `Shape` holds whatever fails and wherever the process dies: which
  call can be at which step, when a journal and its tag exist, what the handle
  remembers. On top of it stands one invariant per promise: `Kept` (each live secret is in
  `data`, or in the version 2 files while they are needed), `Findable`, `Exact` (a
  tagged journal has the files of `data`, under the new password), `Sealed` (one
  password in `data`, that of the fingerprint, or the one the journal is about to
  bring), `Vaulted`.
- `DIDResolver`. What is in the cache, or in a call between chain and cache, was the
  chain's answer (`Shown`), is not behind the process's own publications (`Fresh`), and
  whatever it misses is no older than its age and the transit (`Behind`). `Holds` says
  it of the last answer. `ChainShape` keeps a deactivation last.
- `CredentialRegistry`. `Histories`: no key declares or revokes twice, a declaration is
  the first transaction if there is one and has at most one revocation after it, and
  more than two transactions are the issuer's keys, and the holder last. A cache
  file is one that a query writes (`Files`), none of which can be parsed when it is read
  back, so that what is answered is the chain's, or nothing. `FlagsTrue` and `DeclaredByHolder` relate metadata
  and chain; `ChecksComplete` is inductive with them.
- `CustomDID`. What a document carries is proved along its way: the session
  (`BuilderSound`), the sealed documents (`SealedSound`), the pool (`PoolSound`), the
  chain (`ChainSound`). `TicketsPast`: a ticket names a transaction that exists, so that
  every later one takes back the signatures under it, as `Ownership` demands.
- `RootIdentity`. `NewSound` and `SyncSound` say what each write of a call may rely on:
  which index has its key, its document, its metadata. In the loop of Synchronize every
  index that was due is either stored or among the `missed`, and the
  indexes since the last find are counted by `blanks`. `IndexKnown`: an identity that is
  stored has an index.
- `DocumentBuilder`. `Shape` needs no hypothesis. `Sound` says that documents outside the
  session are `Finished`, their proofs fresh unless they are `unverified`, and of the one
  in the session only what operations keep: the default key's value is under one id
  (`PrimaryKept`), its proofs are of those who may make them and not too many
  (`ProofsFit`). `Marks` and `Descend` follow the dates and flags from copy to copy. Three lemmas (`EditsKey`, `EditsControllers`, `EditsCredentials`) give
  what each kind of operation leaves alone.
- `StoreExport`. `Exports` says of every entry in a backup, a zip being imported or the
  temporary file what was true of the identity it came from; with it an import of any
  origin writes whole identities (`IdentityWhole`) that the lazy keys of its DIDs
  come from (`Rooted`). `Sealed`, for the passwords, and `Progressing`, for what an
  ImportStore has brought so far, come on top.

### Assumptions and conditions

The assumptions on constants are their types, finiteness where the code has finite
sets, and that "nothing" is none of the values: `PublishAssumption`,
`JournalAssumption`, `ResolverAssumption`, `RegistryAssumption`, `CustomAssumption`,
`RootAssumption`, `BuilderAssumption`, `ExportAssumption`, and `TreeAssumption`,
`NoneAssumption`, `KeyAssumption`, `EntryAssumption`, which say the last of a set of
records. TLC evaluates all of them in the runs.

A condition in the last column restricts constants, that is, what the environment may do
or what the caller gives. The passing run of the property meets it, and without it the
property is false: for each of them TLC finds the counterexample. Section 5 says what in
the code is behind the ones that matter. `Prompt` is the chain of the tests' adapter. `SecretsSafe`,
`StoreFindable`, `PasswordSafe` and `VaultSafe` name the steps of StoreJournal
at which a crash or a failed write breaks the promise; any one of them is enough, and the
constants of the journal run meet all four. `OneDefault` is `~Twins`, `OwnPassword` is `~Misuse`,
`OneImport` is `MaxJobs <= 1`.

### Left to TLC

`Usable`, `DeactivationNoticed` and `SyncTerminates` are liveness properties: they
depend on fairness, whose ENABLED the prover does not reason about. The two properties of
the violation runs are false. That the operators of the models that pick from
sequences and finite sets say what the code computes is checked only by the runs and
by comparison with the source.

## 5. Findings

Two have a violation run, whose trace is the evidence.

- `journal_swap`: DIDStore_Open runs the recovery of upgrades first, which deletes
  the finished journal of a password change (`didstore.c` 678).
- `custom_controllers`: `controllers_equals` does not reset its flag, and PublishDID
  takes a replaced controller for none (`diddocument.c` 4461).

The models show more, without a run of its own. The behaviour is in the module; the
action, operator or setting that shows it is named.

- `SyncMissingSignature` (`DIDPublish`): SynchronizeByIndex compares with a local
  signature that may be missing (`rootidentity.c` 713). With `Prompt = FALSE`
  `HandlerSeesUnpublished` is violated: a document whose publication is waiting is
  replaced without the conflict handler. `Persist`: a signature that a publication
  does not write to the metadata file.
- `FailAt = {"upgrade"}` (`StoreJournal`) violates `NoSecretLost`: the error exit of
  upgradeFromV2 deletes the wrong directory (`didstore.c` 1163). `DataInPath = TRUE`
  violates `Readable` (2870); `CrashAt` with `create`, `untag` or `print` violates
  `OpenFindsData` or `Readable`. `Copyable`: a lazy private key makes a password
  change fail (2420).
- `kind = "malformed"` (`DIDResolver`): biographies and resolves share a cache file
  and read it differently (`didbackend.c` 323). The default time to live is
  milliseconds compared with seconds (43). A document from the local resolve handle
  comes without a status (537). `Done`: the authorizor's cache entry goes, the
  target's stays (`diddocument.c` 4854).
- `HolderRevokesIssued` (`CredentialRegistry`): Credential_Revoke signs with the issuer's
  document whatever the key (`credential.c` 1201), so that the holder of an issued
  credential passes every check and never signs, where `ela_did.h` has "signkey can be
  owner's public key or issuer's public key."; Credential_RevokeById with the holder's
  document does work. `Readable`: revocations by two keys of an issuer and then the
  holder make a biography that no one can read. `DocIsValid`: DIDDocument_IsValid returns 1
  for an expired or a deactivated document (`diddocument.c` 1534). `Parsed`: revoked
  credentials do not resolve as valid only because cached biographies cannot be read
  back. Credential_IsRevoked takes a failure for a revocation (`credential.c` 1324), and
  Credential_WasDeclared one for not declared (1304).
- `Answered`, `SyncUnresolved` (`RootIdentity`): a failing resolve counts as "not
  published", for NewDID and for Synchronize, which returns true always
  (`rootidentity.c` 680) where `ela_did.h` 1588 has "true on success, false if an
  error occurred."; an index used by hand, by Synchronize or lost in a crash makes
  NewDID answer "already exists" from then on.
- `Lapsed` (`DocumentBuilder`): Seal does not verify the proofs of an expired or a
  deactivated document (`diddocument.c` 1534, 1963). One controller seals, another
  promotes a key, which keeps the proof, and seals over it what the first never signed.
- `Twins = TRUE` (`DocumentBuilder`) violates `SealedGenuine`: a key added for
  authentication is not compared with the others (`diddocument.c` 2162), and another
  default key is read back than the one that signed. Private keys of removed public
  keys are gone although the session is given up (797). "authentication keys are all
  did's own key." (2119) does not hold of promoted keys.
- `Misuse = TRUE` (`StoreExport`) violates `Readable`: ImportDID does not compare the
  password with the store's (`didstore.c` 3838). `MaxJobs = 2` violates
  `ImportComplete`: all processes unpack to `/tmp/storeexport.json` (4700).
  `AbsorbRoot`: an import of an identity that fails deletes the identity that was
  there (4486), and an identity made from a root key is exported and cannot be
  imported. `ExportDID`: a failed export has deleted the backup before (3407).

## 6. Not modelled

Text: JSON, DID and DIDURL syntax, JWT, HTTP, logging, the error stack.
Cryptography: a decryption succeeds exactly with the password of the encryption,
signatures are unforgeable names. Expiry of documents is left out of
`DIDPublish`: it only disables PublishDID. Credentials that expire before their
document are left out of `DocumentBuilder`, and rotation of authentication keys out of
`CredentialRegistry`. In `StoreExport` a first import of an identity that fails leaves
`rooted` FALSE, where the code may have made `data/roots` before (`didstore.c` 4262).

Presentations, the parsing of credentials and documents and their checks
(`presentation.c`, the `_FromJson` functions) keep no state; what a parsed document
keeps and loses is in `Reread`, `Parsed` and the history checks. Two handles of one
process on one store directory, and two processes on it, are left out: each
store here has one user, as in the tests. DeactivateDIDByAuthorizor is in
`DIDResolver` for its effect on the cache; its own checks are not modelled.

About half of the lines of `src/src/*.c` and `src/src/backend` are modelled. The rest
of the repository holds nothing to model: the public header and its copy for Python,
the word lists and tables of `hdkey`, vendored libraries, the tests and their data.

## 7. Plan

1. Presentations and credentials of other issuers as operators over documents,
   checked against reference definitions.
2. In the modules that have proofs, and with them: two handles on one store directory;
   credentials on disk and their metadata; DeactivateDIDByAuthorizor with its own checks.
3. Abstract specifications of export and import (a backup is a snapshot) and of the
   builder (a session is one edit), and their refinements.
