----------------------------- MODULE StoreJournal -----------------------------
(***************************************************************************)
(* The secrets of one DID store on disk: private keys and root identities, *)
(* the password fingerprint in the store metadata, DIDStore_ChangePassword  *)
(* (copy `data` re-encrypted to `data.journal`, write a tag file, swap the  *)
(* directories), the upgrade of a version 2 store, and DIDStore_Open, which *)
(* finishes or undoes what a crash interrupted.                             *)
(*                                                                          *)
(* A file is the password it is encrypted with.  One process has the store  *)
(* open at a time.  A file is written at once, a directory is renamed at    *)
(* once, and only the first rename of a password change can fail.           *)
(* Documents and credentials are left out: they are copied as they are.     *)
(***************************************************************************)
EXTENDS Naturals

CONSTANTS
    Keys,         \* private keys of DIDs (data/ids/<did>/privatekeys)
    Roots,        \* keys and mnemonics of root identities (data/roots/<id>)
    RootOf,       \* the root identity a private key is derived from
    Passwords,
    DataInPath,   \* the path of the store has "data" in it before data/
    CrashAt,      \* the steps the process may die at
    FailAt,       \* the steps at which a write may fail
    MaxUpsets,    \* bound: crashes and failed writes
    Lazy,         \* file of a private key that is derived when first used
    None          \* no file, no directory, no password

Secrets == Keys \cup Roots

ASSUME JournalAssumption ==
    /\ RootOf \in [Keys -> Roots]
    /\ DataInPath \in BOOLEAN
    /\ MaxUpsets \in Nat
    /\ {Lazy, None} \cap Passwords = {}
    /\ Lazy # None

VARIABLES
    data,         \* directory data
    journal,      \* directory data.journal
    tags,         \* the tag files: post_upgrade, post_changepassword
    v2,           \* the files of a version 2 store, in the root directory
    at,           \* the next step of the call in progress; idle, closed
    call,         \* the call in progress
    mem,          \* the fingerprint in the open store's metadata
    target,       \* the passwords of the ChangePassword call in progress
    legacy,       \* the store began as a version 2 store
    owned,        \* history: secrets that were stored and not deleted
    upsets

disk == <<data, journal, tags, v2>>
vars == <<disk, at, call, mem, target, legacy, owned, upsets>>

MaybePassword == Passwords \cup {None}

File == Passwords \cup {Lazy, None}

Tree == [file : [Secrets -> File], print : MaybePassword, meta : BOOLEAN]

ASSUME TreeAssumption == None \notin Tree

OldTree == [file : [Secrets -> MaybePassword], meta : BOOLEAN]

Steps == {"create", "post_upgrade", "move_v2", "post_password", "swap",
          "untag", "check", "upgrade", "tag_upgrade", "copy", "tag_password",
          "print"}

NoFiles == [s \in Secrets |-> None]

NoV2 == [file |-> NoFiles, meta |-> FALSE]

NoTarget == [old |-> None, new |-> None]

\* Bugs for the mutants: the tag has a name Open does not know, or none is written.
WriteTagMisnamed(tag) == tags' = tags \cup {"post"}
WriteNoTag(tag) == UNCHANGED tags

\* The empty files postUpgrade and postChangePassword say the journal is whole.
WriteTag(tag) == tags' = tags \cup {tag}

Without(file, S) == [s \in Secrets |-> IF s \in S THEN None ELSE file[s]]

Upset == upsets < MaxUpsets /\ upsets' = upsets + 1

WriteFails(step) == at = step /\ step \in FailAt /\ Upset

\* The process ends.
Die == at' = "closed" /\ call' = "none" /\ mem' = None /\ target' = NoTarget

\* A call returns and the store stays open.
Return == at' = "idle" /\ call' = "none" /\ target' = NoTarget

Goto(step) == at' = step /\ UNCHANGED <<call, mem, target>>

--------------------------------------------------------------------------------
\* A new store, in an empty root directory, or one of version 2.
Init ==
    /\ data = None
    /\ journal = None
    /\ tags = {}
    /\ legacy \in BOOLEAN
    /\ owned \in SUBSET Secrets
    /\ ~legacy => owned = {}
    /\ \E p \in Passwords :
          v2 = [file |-> [s \in Secrets |-> IF s \in owned THEN p ELSE None],
                meta |-> legacy]
    /\ at = "closed"
    /\ call = "none"
    /\ mem = None
    /\ target = NoTarget
    /\ upsets = 0

EmptyRoot == disk = <<None, None, {}, NoV2>>

\* DIDStore_Open.
Open ==
    /\ at = "closed"
    /\ at' = IF EmptyRoot THEN "create" ELSE "post_upgrade"
    /\ call' = "open"
    /\ UNCHANGED <<disk, mem, target, legacy, owned, upsets>>

NewData(meta) == data' = [file |-> NoFiles, print |-> None, meta |-> meta]

\* create_store makes the directory, then the metadata file.
CreateStore ==
    /\ at = "create"
    /\ \/ NewData(TRUE) /\ Return /\ UNCHANGED <<mem, upsets>>
       \/ "create" \in CrashAt /\ NewData(FALSE) /\ Die /\ Upset
    /\ UNCHANGED <<journal, tags, v2, legacy, owned>>

\* post_upgrade without its tag takes the journal for an unfinished upgrade.
DropJournal == journal' = None /\ UNCHANGED data

\* A rename onto an existing directory fails, and nobody looks.
PostUpgrade ==
    /\ at = "post_upgrade"
    /\ IF "upgrade" \in tags
       THEN /\ IF journal # None /\ data = None
               THEN data' = journal /\ journal' = None
               ELSE UNCHANGED <<data, journal>>
            /\ Goto("move_v2")
       ELSE DropJournal /\ Goto("post_password")
    /\ UNCHANGED <<tags, v2, legacy, owned, upsets>>

\* private, ids and .meta move to an archive directory, then the tag goes.  A
\* crash in between leaves the tag, and the step is taken again.
MoveV2 ==
    /\ at = "move_v2"
    /\ v2' = NoV2
    /\ tags' = tags \ {"upgrade"}
    /\ Goto(IF call = "upgrade" THEN "check" ELSE "post_password")
    /\ UNCHANGED <<data, journal, legacy, owned, upsets>>

\* post_changepassword, up to its first rename (data -> data_<time>), which fails
\* when the password was already changed within the same second.
PostPassword ==
    /\ at = "post_password"
    /\ \/ /\ "password" \in tags /\ journal # None
          /\ data' = None
          /\ Goto("swap")
          /\ UNCHANGED <<journal, upsets>>
       \/ /\ "password" \in tags /\ journal # None /\ data # None
          /\ WriteFails("post_password")
          /\ IF call = "change" THEN Return /\ UNCHANGED mem ELSE Goto("check")
          /\ UNCHANGED <<data, journal>>
       \/ /\ "password" \in tags /\ journal = None
          /\ Goto("untag")
          /\ UNCHANGED <<data, journal, upsets>>
       \/ /\ "password" \notin tags
          /\ DropJournal
          /\ Goto("check")
          /\ UNCHANGED upsets
    /\ UNCHANGED <<tags, v2, legacy, owned>>

\* The second rename (data.journal -> data).
Swap ==
    /\ at = "swap"
    /\ data' = journal
    /\ journal' = None
    /\ Goto("untag")
    /\ UNCHANGED <<tags, v2, legacy, owned, upsets>>

Untag ==
    /\ at = "untag"
    /\ tags' = tags \ {"password"}
    /\ Goto(IF call = "change" THEN "print" ELSE "check")
    /\ UNCHANGED <<data, journal, v2, legacy, owned, upsets>>

\* check_store after the recovery.  Metadata without a type end the process.
Check ==
    /\ at = "check"
    /\ \/ /\ data # None /\ data.meta
          /\ mem' = data.print
          /\ Return
       \/ /\ data # None /\ ~data.meta
          /\ Die
       \/ /\ data = None /\ v2.meta
          /\ at' = "upgrade" /\ call' = "upgrade"
          /\ UNCHANGED <<mem, target>>
       \/ /\ data = None /\ ~v2.meta       \* "Invalid DID store."
          /\ Die
    /\ UNCHANGED <<disk, legacy, owned, upsets>>

\* Bugs for the mutants: ids or the store metadata are not upgraded.
UpgradedRoots(S, meta) ==
    [file |-> Without(v2.file, Keys \cup (Secrets \ S)), print |-> None, meta |-> meta]
UpgradedNoMeta(S, meta) ==
    [file |-> Without(v2.file, Secrets \ S), print |-> None, meta |-> FALSE]

\* What a journal has of the old store once the files of S are upgraded.
Upgraded(S, meta) ==
    [file |-> Without(v2.file, Secrets \ S), print |-> None, meta |-> meta]

\* upgradeFromV2 copies the old files to the journal.  When a write fails it
\* deletes the old directory it was copying from, and the metadata that are
\* still missing end the process.
Upgrade ==
    /\ at = "upgrade"
    /\ \/ /\ journal' = Upgraded(Secrets, TRUE)
          /\ Goto("tag_upgrade")
          /\ UNCHANGED <<v2, upsets>>
       \/ /\ WriteFails("upgrade")
          /\ \E S \in SUBSET Secrets : journal' = Upgraded(S, FALSE)
          /\ \E part \in {Roots, Keys} : v2' = [v2 EXCEPT !.file = Without(@, part)]
          /\ Die
       \/ /\ "upgrade" \in CrashAt /\ Upset
          /\ \E S \in SUBSET Secrets : journal' = Upgraded(S, FALSE)
          /\ Die
          /\ UNCHANGED v2
    /\ UNCHANGED <<data, tags, legacy, owned>>

TagUpgrade ==
    /\ at = "tag_upgrade"
    /\ \/ /\ WriteTag("upgrade")
          /\ Goto("post_upgrade")
          /\ UNCHANGED upsets
       \/ /\ WriteFails("tag_upgrade")
          /\ Die
          /\ UNCHANGED tags
    /\ UNCHANGED <<data, journal, v2, legacy, owned>>

--------------------------------------------------------------------------------
\* check_password: the first password used on a store without a fingerprint
\* becomes its password, whatever its files are encrypted with.
Admits(p) == mem \in {None, p}

Stamped(tree, p) ==
    IF mem = None THEN [tree EXCEPT !.print = p, !.meta = TRUE] ELSE tree

\* DIDStore_ChangePassword: the old password is checked.
ChangePassword(old, new) ==
    /\ at = "idle"
    /\ Admits(old)
    /\ mem' = old
    /\ data' = Stamped(data, old)
    /\ target' = [old |-> old, new |-> new]
    /\ at' = "copy"
    /\ call' = "change"
    /\ UNCHANGED <<journal, tags, v2, legacy, owned, upsets>>

\* Bug for the mutants: private keys are copied as they are.
NeedReencryptRoots(s) == s \in Roots

\* need_reencrypt finds the first "data" of the path and counts from there.
NeedReencrypt(s) == s \in Keys \/ ~DataInPath

\* dir_copy adds to what the journal holds already.
Copied(S) ==
    [s \in Secrets |->
        IF s \in S /\ data.file[s] # None
        THEN IF NeedReencrypt(s) THEN target.new ELSE data.file[s]
        ELSE IF journal = None THEN None ELSE journal.file[s]]

\* Bug for the mutants: what does not decrypt is encrypted all the same.
CopyableAlways == TRUE

\* A lazy private key does not decrypt, under any password.
Copyable ==
    \A s \in Secrets : NeedReencrypt(s) => data.file[s] \in {target.old, None}

Copy ==
    /\ at = "copy"
    /\ \/ /\ Copyable
          /\ journal' = [file |-> Copied(Secrets), print |-> data.print, meta |-> data.meta]
          /\ Goto("tag_password")
          /\ UNCHANGED upsets
       \/ /\ (~Copyable /\ UNCHANGED upsets) \/ WriteFails("copy")
          /\ journal' = None
          /\ Return
          /\ UNCHANGED mem
       \/ /\ "copy" \in CrashAt /\ Upset
          /\ \E S \in SUBSET Secrets :
                journal' = [file |-> Copied(S), print |-> None, meta |-> FALSE]
          /\ Die
    /\ UNCHANGED <<data, tags, v2, legacy, owned>>

\* When the tag cannot be written the journal stays where it is.
TagPassword ==
    /\ at = "tag_password"
    /\ \/ /\ WriteTag("password")
          /\ Goto("post_password")
          /\ UNCHANGED upsets
       \/ /\ WriteFails("tag_password")
          /\ Return
          /\ UNCHANGED <<tags, mem>>
    /\ UNCHANGED <<data, journal, v2, legacy, owned>>

\* Only now the new fingerprint is written; a failed write deletes the metadata.
StorePrint ==
    /\ at = "print"
    /\ mem' = target.new
    /\ \/ data' = [data EXCEPT !.print = target.new] /\ UNCHANGED upsets
       \/ WriteFails("print") /\ data' = [data EXCEPT !.print = None, !.meta = FALSE]
    /\ Return
    /\ UNCHANGED <<journal, tags, v2, legacy, owned>>

--------------------------------------------------------------------------------
Idle == at = "idle" /\ UNCHANGED <<journal, tags, v2, at, call, target, legacy, upsets>>

\* DIDStore_StorePrivateKey, store_extendedprvkey, store_mnemonic.
StoreSecret(s, p) ==
    /\ Idle
    /\ Admits(p)
    /\ mem' = p
    /\ data' = [Stamped(data, p) EXCEPT !.file[s] = p]
    /\ owned' = owned \cup {s}

\* Synchronizing a DID stores a lazy private key over whatever was there.
StoreLazyPrivateKey(k) ==
    /\ Idle
    /\ data.file[RootOf[k]] # None
    /\ data' = [data EXCEPT !.file[k] = Lazy]
    /\ owned' = owned \cup {k}
    /\ UNCHANGED mem

\* Loading a secret first decrypts it, then checks the password.
LoadSecret(s, p) ==
    /\ Idle
    /\ data.file[s] = p
    /\ Admits(p)
    /\ mem' = p
    /\ data' = Stamped(data, p)
    /\ UNCHANGED owned

\* Loading a lazy private key derives it from its root identity and stores it.
LazyCreatePrivateKey(k, p) ==
    /\ Idle
    /\ data.file[k] = Lazy
    /\ data.file[RootOf[k]] = p
    /\ Admits(p)
    /\ mem' = p
    /\ data' = [Stamped(data, p) EXCEPT !.file[k] = p]
    /\ UNCHANGED owned

\* DIDStore_DeletePrivateKey, DIDStore_DeleteRootIdentity.
DeleteSecret(s) ==
    /\ Idle
    /\ data.file[s] # None
    /\ data' = [data EXCEPT !.file[s] = None]
    /\ owned' = owned \ {s}
    /\ UNCHANGED mem

Close ==
    /\ at = "idle"
    /\ Die
    /\ UNCHANGED <<disk, legacy, owned, upsets>>

Crash ==
    /\ at \in CrashAt
    /\ Die
    /\ Upset
    /\ UNCHANGED <<disk, legacy, owned>>

Step ==
    \/ CreateStore \/ PostUpgrade \/ MoveV2 \/ PostPassword \/ Swap \/ Untag
    \/ Check \/ Upgrade \/ TagUpgrade \/ Copy \/ TagPassword \/ StorePrint

Use ==
    \/ \E old, new \in Passwords : ChangePassword(old, new)
    \/ \E s \in Secrets, p \in Passwords : StoreSecret(s, p) \/ LoadSecret(s, p)
    \/ \E k \in Keys : StoreLazyPrivateKey(k)
    \/ \E k \in Keys, p \in Passwords : LazyCreatePrivateKey(k, p)
    \/ \E s \in Secrets : DeleteSecret(s)
    \/ Close

Next == Open \/ Step \/ Use \/ Crash

\* The code of a call runs on, and the application opens a closed store again.
Fairness == WF_vars(Open) /\ WF_vars(Step)

Spec == Init /\ [][Next]_vars

FairSpec == Spec /\ Fairness

--------------------------------------------------------------------------------
TypeOK ==
    /\ data \in Tree \cup {None}
    /\ journal \in Tree \cup {None}
    /\ tags \subseteq {"upgrade", "password"}
    /\ v2 \in OldTree
    /\ at \in Steps \cup {"idle", "closed"}
    /\ call \in {"open", "upgrade", "change", "none"}
    /\ mem \in MaybePassword
    /\ target \in [old : MaybePassword, new : MaybePassword]
    /\ legacy \in BOOLEAN
    /\ owned \subseteq Secrets
    /\ upsets \in 0..MaxUpsets

\* Whenever the store is open, every secret that was stored and not deleted has
\* a file: no crash, failed write, recovery or upgrade loses one.
NoSecretLost == at = "idle" => \A s \in owned : data.file[s] # None

\* Whenever the store is open, every secret can be decrypted with the password
\* the store accepts.  (A version 2 store has no fingerprint; there the first
\* password the user tries is taken for the password.)
Readable ==
    at = "idle" /\ mem # None /\ ~legacy =>
        \A s \in Secrets : data.file[s] \in {mem, Lazy, None}

\* After the recovery DIDStore_Open finds a store: the data directory with its
\* metadata, or an old store to upgrade.
OpenFindsData == at = "check" => IF data # None THEN data.meta ELSE v2.meta

\* A store can always be opened in the end, and every call returns.
Usable == []<>(at = "idle")

\* What the next DIDStore_Open makes of the files, when no call is under way.
Contents ==
    IF data # None THEN data.file
    ELSE IF tags # {} THEN journal.file ELSE v2.file

Password ==
    IF at \in {"swap", "untag", "print"} /\ call = "change" THEN target.new
    ELSE IF data # None THEN data.print ELSE None

Vault == INSTANCE StoreVault WITH file <- Contents, password <- Password

\* The directories, tags and recovery implement the vault: in particular the
\* password changes for all secrets in one step.
ImplementsVault == Vault!Spec

================================================================================
