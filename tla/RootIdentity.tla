------------------------------ MODULE RootIdentity ------------------------------
(***************************************************************************)
(* A root identity in a store, from which DIDs are derived by index, while  *)
(* other devices with the same mnemonic use the chain: RootIdentity_Create, *)
(* RootIdentity_NewDID, RootIdentity_NewDIDByIndex,                         *)
(* RootIdentity_Synchronize and RootIdentity_SynchronizeByIndex,            *)
(* RootIdentity_LazyCreatePrivateKey, loading and deleting.  One            *)
(* application calls them one after the other; each writes several files,   *)
(* any write may fail, and the application may die between two of them.     *)
(* What a document says is the subject of DIDPublish: here it matters only  *)
(* whether it is a copy of the chain's.                                     *)
(***************************************************************************)
EXTENDS Integers, FiniteSets

CONSTANTS
    N,        \* bound: the DIDs with an index below N are published or created
    MaxCalls, \* bound: calls of the application
    Gap,      \* Synchronize stops after so many blanks in a row: 20 in the code
    None

ASSUME RootAssumption ==
    N \in Nat \ {0} /\ MaxCalls \in Nat /\ Gap \in Nat \ {0} /\ None \notin Nat

Index == 0..N - 1

VARIABLES
    root,    \* the files of the root identity: none, partial or stored
    next,    \* its index file, -1 when there is none
    docs,    \* per index: the stored document
    tagged,  \* the DIDs whose metadata file says which root identity and index
    keys,    \* per index: the file of the default private key
    given,   \* history: documents given up by a call that was to overwrite them
    handle,  \* index field of the application's RootIdentity, None without one
    task,    \* the call in progress, or None
    calls,   \* the calls made
    chain    \* per index: what the chain says of the DID

vars == <<root, next, docs, tagged, keys, given, handle, task, calls, chain>>

store == <<docs, tagged, keys>>

\* A gone document's metadata says that the DID is deactivated; a draft says
\* something the chain never said.
Docs == {"none", "draft", "copy", "gone"}

\* i is the index worked on and at the write that comes next.  Synchronize keeps
\* last and blanks; due and missed are history: what the chain had when it began,
\* and the indexes whose look-up or store failed.
Task ==
    [op : {"create"}, at : {"keys", "index"}]
    \cup [op : {"new"}, at : {"key", "doc", "meta", "index"}, i : Index, advance : BOOLEAN]
    \cup [op : {"sync"}, at : {"look", "doc", "meta", "key"}, i : 0..N + Gap, last : -1..N - 1,
          blanks : 0..Gap, take : {"none", "draft", "copy", "gone"},
          due : SUBSET Index, missed : SUBSET Index]

ASSUME NoneAssumption == None \notin Task

Live(i) == i \in Index /\ chain[i] # "none"

Doing(op, at) == task # None /\ task.op = op /\ task.at = at

Init ==
    /\ root = "none"
    /\ next = -1
    /\ docs = [i \in Index |-> "none"]
    /\ tagged = {}
    /\ keys = [i \in Index |-> "none"]
    /\ given = {}
    /\ handle = None
    /\ task = None
    /\ calls = 0
    /\ chain \in [Index -> {"none", "live"}]

--------------------------------------------------------------------------------
\* RootIdentity_Create and DIDStore_StoreRootIdentityWithElem: the secrets, the
\* pre-derived key, and last the index, which starts from 0 also when the
\* identity was there before.
Create(overwrite) ==
    /\ root = "none" \/ overwrite
    /\ task' = [op |-> "create", at |-> "keys"]
    /\ UNCHANGED <<root, next, store, given, handle, chain>>

CreateKeys ==
    /\ Doing("create", "keys")
    /\ root' = IF root = "stored" THEN root ELSE "partial"
    /\ task' = [task EXCEPT !.at = "index"]
    /\ UNCHANGED <<next, store, given, handle, chain>>

CreateIndex ==
    /\ Doing("create", "index")
    /\ root' = "stored"
    /\ next' = 0
    /\ handle' = 0
    /\ task' = None
    /\ UNCHANGED <<store, given, chain>>

\* DIDStore_LoadRootIdentity
Load ==
    /\ root = "stored"
    /\ handle' = next
    /\ UNCHANGED <<root, next, store, given, task, chain>>

\* DIDStore_DeleteRootIdentity
DeleteRootIdentity ==
    /\ root # "none"
    /\ root' = "none"
    /\ next' = -1
    /\ UNCHANGED <<store, given, handle, task, chain>>

--------------------------------------------------------------------------------
\* rootidentity_createdid.  A resolve that fails counts as "not published".
MayCreate(i, overwrite) ==
    /\ root = "stored"
    /\ docs[i] = "none" \/ (overwrite /\ ~(docs[i] = "gone" /\ i \in tagged))

StartNew(i, advance, overwrite) ==
    /\ MayCreate(i, overwrite)
    /\ task' = [op |-> "new", at |-> "key", i |-> i, advance |-> advance]
    /\ given' = given \cup ({i} \ {j \in Index : docs[j] = "none"})
    /\ UNCHANGED <<root, next, store, handle, chain>>

Answered(i, overwrite) == chain[i] = "none" \/ (overwrite /\ chain[i] = "live")

RootIdentity_NewDID(answered, overwrite) ==
    /\ handle # None
    /\ next \in Index
    /\ answered => Answered(next, overwrite)
    /\ StartNew(next, TRUE, overwrite)

RootIdentity_NewDIDByIndex(i, answered, overwrite) ==
    /\ handle # None
    /\ answered => Answered(i, overwrite)
    /\ StartNew(i, FALSE, overwrite)

NewKey ==
    /\ Doing("new", "key")
    /\ keys' = [keys EXCEPT ![task.i] = "stored"]
    /\ task' = [task EXCEPT !.at = "doc"]
    /\ UNCHANGED <<root, next, docs, tagged, given, handle, chain>>

\* DIDStore_StoreDID of d in two writes: the document, then its metadata.
WriteDoc(i, d) ==
    /\ docs' = [docs EXCEPT ![i] = d]
    /\ task' = [task EXCEPT !.at = "meta"]
    /\ UNCHANGED <<root, next, tagged, keys, given, handle, chain>>

NewDoc == Doing("new", "doc") /\ WriteDoc(task.i, "draft")

NewMeta ==
    /\ Doing("new", "meta")
    /\ tagged' = tagged \cup {task.i}
    /\ given' = given \ {task.i}
    /\ task' = IF task.advance THEN [task EXCEPT !.at = "index"] ELSE None
    /\ UNCHANGED <<root, next, docs, keys, handle, chain>>

NewIndex ==
    /\ Doing("new", "index")
    /\ next' = task.i + 1
    /\ task' = None
    /\ UNCHANGED <<root, store, given, handle, chain>>

\* Bug for the mutants: the document stays.
ForgottenKey(i) ==
    /\ keys' = [keys EXCEPT ![i] = "none"]
    /\ given' = given \ {i}
    /\ UNCHANGED <<docs, tagged>>

\* DIDStore_DeleteDID: the directory of the DID goes.
Forgotten(i) ==
    /\ docs' = [docs EXCEPT ![i] = "none"]
    /\ tagged' = tagged \ {i}
    /\ keys' = [keys EXCEPT ![i] = "none"]
    /\ given' = given \ {i}

\* A write fails: the whole DID is deleted, an overwritten one too, unless it was
\* the key, which comes first and goes alone, or the index, which comes last.
NewFails ==
    /\ task # None /\ task.op = "new"
    /\ \/ task.at = "key" /\ keys' = [keys EXCEPT ![task.i] = "none"] /\ UNCHANGED <<docs, tagged, given>>
       \/ task.at \in {"doc", "meta"} /\ Forgotten(task.i)
       \/ task.at = "index" /\ UNCHANGED <<store, given>>
    /\ task' = None
    /\ UNCHANGED <<root, next, handle, chain>>

--------------------------------------------------------------------------------
\* RootIdentity_Synchronize, one SynchronizeByIndex after the other.
Synchronize ==
    /\ handle # None
    /\ task' = [op |-> "sync", at |-> "look", i |-> 0, last |-> handle - 1, blanks |-> 0,
                take |-> "none", due |-> {i \in Index : Live(i)}, missed |-> {}]
    /\ UNCHANGED <<root, next, store, given, handle, chain>>

\* Bug for the mutants: one blank too many.
MoreByOne == task.i < task.last \/ task.blanks <= Gap

More == task.i < task.last \/ task.blanks < Gap

\* Bug for the mutants: blanks are counted from the start.
BlankAnywhere(t) == [t EXCEPT !.at = "look", !.i = @ + 1, !.blanks = @ + 1]

\* Nothing found at index i.
Blank(t) ==
    [t EXCEPT !.at = "look", !.i = @ + 1, !.blanks = IF t.i > t.last THEN @ + 1 ELSE @]

Found(t) ==
    [t EXCEPT !.at = "look", !.i = @ + 1, !.last = IF t.i > @ THEN t.i ELSE @, !.blanks = 0]

\* Bug for the mutants: a failure is tried again at once.
MissedRetried(t) == [t EXCEPT !.at = "look", !.missed = @ \cup ({t.i} \cap Index)]

Missed(t) == [Blank(t) EXCEPT !.missed = @ \cup ({t.i} \cap Index)]

\* The document to store: the chain's, unless the store has a draft and the
\* conflict handle, by default, prefers it.
Merged(i) ==
    IF chain[i] = "live"
    THEN {"copy"} \cup ({"draft"} \cap {docs[i]})
    ELSE {"gone"}

SyncLook ==
    /\ Doing("sync", "look") /\ More
    /\ IF Live(task.i)
       THEN \E d \in Merged(task.i) : task' = [task EXCEPT !.at = "doc", !.take = d]
       ELSE task' = Blank(task)
    /\ UNCHANGED <<root, next, store, given, handle, chain>>

\* The resolver fails, or the deriving does.
SyncUnresolved ==
    /\ Doing("sync", "look") /\ More
    /\ task' = Missed(task)
    /\ UNCHANGED <<root, next, store, given, handle, chain>>

SyncDoc == Doing("sync", "doc") /\ WriteDoc(task.i, task.take)

SyncMeta ==
    /\ Doing("sync", "meta")
    /\ tagged' = tagged \cup {task.i}
    /\ task' = [task EXCEPT !.at = "key"]
    /\ UNCHANGED <<root, next, docs, keys, given, handle, chain>>

\* DIDStore_StoreLazyPrivateKey
SyncKey ==
    /\ Doing("sync", "key")
    /\ keys' = [keys EXCEPT ![task.i] = "lazy"]
    /\ task' = Found([task EXCEPT !.take = "none"])
    /\ UNCHANGED <<root, next, docs, tagged, given, handle, chain>>

\* A write fails: DIDStore_StoreDID deletes the document, the key file is deleted
\* by DIDStore_StorePrivateKey_Internal, and the index counts as blank.
SyncFails ==
    /\ task # None /\ task.op = "sync" /\ task.at # "look"
    /\ IF task.at = "key"
       THEN keys' = [keys EXCEPT ![task.i] = "none"] /\ UNCHANGED docs
       ELSE docs' = [docs EXCEPT ![task.i] = "none"] /\ UNCHANGED keys
    /\ task' = Missed([task EXCEPT !.take = "none"])
    /\ UNCHANGED <<root, next, tagged, given, handle, chain>>

\* The loop ends: only the RootIdentity in memory learns of it.
SyncEnd ==
    /\ Doing("sync", "look") /\ ~More
    /\ handle' = IF task.last >= handle THEN task.last + 1 ELSE handle
    /\ task' = None
    /\ UNCHANGED <<root, next, store, given, chain>>

--------------------------------------------------------------------------------
\* The other calls of the application, and the other devices.

DeleteDID(i) ==
    /\ docs[i] # "none"
    /\ Forgotten(i)
    /\ UNCHANGED <<root, next, handle, task, chain>>

\* RootIdentity_LazyCreatePrivateKey, when the key is first used.
LazyCreatePrivateKey(i) ==
    /\ keys[i] = "lazy" /\ docs[i] # "none" /\ i \in tagged /\ root = "stored"
    /\ keys' = [keys EXCEPT ![i] = "stored"]
    /\ UNCHANGED <<root, next, docs, tagged, given, handle, task, chain>>

\* DIDDocument_Edit, DIDDocumentBuilder_Seal and DIDStore_StoreDID.
EditDID(i) ==
    /\ docs[i] = "copy" /\ keys[i] = "stored"
    /\ docs' = [docs EXCEPT ![i] = "draft"]
    /\ UNCHANGED <<root, next, tagged, keys, given, handle, task, chain>>

\* DIDDocument_PublishDID
PublishDID(i) ==
    /\ docs[i] = "draft" /\ keys[i] = "stored" /\ chain[i] # "dead"
    /\ docs' = [docs EXCEPT ![i] = "copy"]
    /\ chain' = [chain EXCEPT ![i] = "live"]
    /\ UNCHANGED <<root, next, tagged, keys, given, handle, task>>

Elsewhere ==
    /\ \E i \in Index :
          \/ chain[i] = "none" /\ chain' = [chain EXCEPT ![i] = "live"]
          \/ chain[i] = "live" /\ chain' = [chain EXCEPT ![i] = "dead"]
    /\ UNCHANGED <<root, next, store, given, handle, task>>

\* The application dies; the file it was writing may be left empty.  An empty
\* document does not load, an empty index reads as 0, and empty metadata is
\* replaced by what the chain says, which names no root identity.
Torn ==
    CASE Doing("create", "keys")  -> root' = "partial" /\ UNCHANGED <<next, store>>
      [] Doing("create", "index") -> next' = 0 /\ root' = "stored" /\ UNCHANGED store
      [] Doing("new", "index")    -> next' = 0 /\ UNCHANGED <<root, store>>
      [] task.at = "key"  -> keys' = [keys EXCEPT ![task.i] = "none"]
                             /\ UNCHANGED <<root, next, docs, tagged>>
      [] task.at = "doc"  -> docs' = [docs EXCEPT ![task.i] = "none"]
                             /\ UNCHANGED <<root, next, tagged, keys>>
      [] task.at = "meta" -> tagged' = tagged \ {task.i} /\ UNCHANGED <<root, next, docs, keys>>
      [] OTHER            -> UNCHANGED <<root, next, store>>

Crash ==
    /\ handle # None \/ task # None
    /\ handle' = None
    /\ task' = None
    /\ UNCHANGED <<root, next, store>> \/ (task # None /\ Torn)
    /\ UNCHANGED <<given, chain>>

Call ==
    /\ task = None /\ calls < MaxCalls
    /\ calls' = calls + 1
    /\ \/ \E overwrite \in BOOLEAN :
             \/ Create(overwrite)
             \/ \E answered \in BOOLEAN :
                   \/ RootIdentity_NewDID(answered, overwrite)
                   \/ \E i \in Index : RootIdentity_NewDIDByIndex(i, answered, overwrite)
       \/ Load
       \/ DeleteRootIdentity
       \/ Synchronize
       \/ \E i \in Index : DeleteDID(i) \/ LazyCreatePrivateKey(i) \/ EditDID(i) \/ PublishDID(i)

\* A call goes on.
Step ==
    \/ CreateKeys \/ CreateIndex
    \/ NewKey \/ NewDoc \/ NewMeta \/ NewIndex \/ NewFails
    \/ SyncLook \/ SyncUnresolved \/ SyncDoc \/ SyncMeta \/ SyncKey \/ SyncFails \/ SyncEnd

Next == Call \/ ((Step \/ Elsewhere \/ Crash) /\ UNCHANGED calls)

\* A call that has begun goes on unless the application dies.
Spec == Init /\ [][Next]_vars /\ WF_vars(Step /\ UNCHANGED calls)

--------------------------------------------------------------------------------
TypeOK ==
    /\ root \in {"none", "partial", "stored"}
    /\ next \in -1..N
    /\ docs \in [Index -> Docs]
    /\ tagged \subseteq Index
    /\ keys \in [Index -> {"none", "stored", "lazy"}]
    /\ given \subseteq Index
    /\ handle \in (0..N) \cup {None}
    /\ task \in Task \cup {None}
    /\ calls \in 0..MaxCalls
    /\ chain \in [Index -> {"none", "live", "dead"}]

\* Whatever call is cut short and wherever, the private key of every stored
\* document is in the store, or derivable from its metadata, or the chain has the
\* DID, so that the next RootIdentity_Synchronize makes it derivable; unless the
\* document was being overwritten (rootidentity_createdid,
\* RootIdentity_SynchronizeByIndex, RootIdentity_LazyCreatePrivateKey).
KeysRecoverable ==
    \A i \in Index :
        \/ docs[i] = "none"
        \/ keys[i] = "stored"
        \/ keys[i] = "lazy" /\ i \in tagged
        \/ Live(i)
        \/ i \in given

\* The indexes the loop of RootIdentity_Synchronize comes to when the chain has the
\* DIDs of P: no Gap blanks in a row lie between the last index it knew and them.
Reach(P, last) ==
    {i \in P : \A j \in (last + 1)..(i - Gap) : \E k \in j..(j + Gap - 1) : k \in P}

\* When RootIdentity_Synchronize ends, every DID that was on the chain when it
\* began, within the gap, and for which nothing failed, is in the store with a
\* derivable key, and the index has moved past it.
SyncFinds ==
    [][task # None /\ task.op = "sync" /\ task' = None /\ handle' # None =>
          \A i \in Reach(task.due \ task.missed, handle - 1) :
              docs'[i] # "none" /\ keys'[i] # "none" /\ i \in tagged' /\ handle' > i]_vars

\* RootIdentity_Synchronize ends however many DIDs other devices publish meanwhile
\* (its loop goes on as long as it finds some).
SyncTerminates == (task # None) ~> (task = None)

================================================================================
