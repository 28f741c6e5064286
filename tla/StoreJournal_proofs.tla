-------------------------- MODULE StoreJournal_proofs --------------------------
(***************************************************************************)
(* Proofs about StoreJournal, for any sets of keys, roots and passwords and *)
(* any number of crashes and failed writes.  Types hold wherever the store  *)
(* is interrupted.  Each other promise is proved under the condition on     *)
(* the interruptions it depends on, which names the steps of the code that  *)
(* do not stand one; elsewhere the process may die and writes may fail.     *)
(***************************************************************************)
EXTENDS StoreJournal, TLAPS

\* No secret is lost if the process does not die between the two renames of a
\* password change, and no write of the upgrade fails.
SecretsSafe == "swap" \notin CrashAt /\ "upgrade" \notin FailAt

\* DIDStore_Open finds a store if, moreover, the metadata file is written.
StoreFindable == {"create", "swap"} \cap CrashAt = {} /\ "print" \notin FailAt

\* The journal of a password change has all the files of data, re-encrypted, and
\* no others: the path has no "data" in it, and no earlier journal was left.
JournalExact == ~DataInPath /\ {"tag_password", "post_password"} \cap FailAt = {}

\* The fingerprint goes with the files if the process does not die after the
\* renames and before the new fingerprint is written.
PasswordSafe == JournalExact /\ {"untag", "print"} \cap CrashAt = {}

\* All promises of the vault are kept.
VaultSafe ==
    /\ JournalExact
    /\ {"swap", "untag", "print"} \cap CrashAt = {}
    /\ {"upgrade", "print"} \cap FailAt = {}

--------------------------------------------------------------------------------
\* The shape of the directories at each step, whatever interrupts the store.

Changing == call = "change"

\* The steps at which the metadata in memory stand for those of data.
Live == at \in {"idle", "copy", "tag_password"} \/ (Changing /\ at = "post_password")

\* The steps at which the journal is whole, and is to become data.
JournalWhole ==
    \/ at \in {"tag_password", "swap", "tag_upgrade"}
    \/ Changing /\ at = "post_password"
    \/ "upgrade" \in tags /\ data = None

\* The steps that can happen in a call, and that need data.
CallShape ==
    /\ Changing => at \in {"copy", "tag_password", "post_password", "swap", "untag", "print"}
    /\ at \in {"copy", "tag_password", "swap", "print"} => Changing
    /\ Live \/ at \in {"move_v2", "print"} \/ (Changing /\ at = "untag") => data # None
    /\ at \in {"upgrade", "tag_upgrade"} => data = None
    /\ at = "create" => EmptyRoot
    /\ at \in {"idle", "closed"} => call = "none"

\* The journal and the tags.  The tags never tell of two journals, and the tag of
\* an upgrade says that exactly one of data and data.journal exists.
JournalShape ==
    /\ JournalWhole => journal # None
    /\ at \in {"move_v2", "check", "untag", "print"} => journal = None
    /\ at = "post_password" /\ ~Changing => journal = None
    /\ "upgrade" \in tags =>
          /\ at \in {"closed", "post_upgrade", "move_v2"}
          /\ "password" \notin tags
          /\ data = None \/ journal = None
    /\ at = "post_password" /\ Changing => "password" \in tags
    /\ at = "check" /\ data = None => "password" \notin tags
    /\ at \in {"upgrade", "tag_upgrade"} => tags = {}

\* The passwords in memory.  Metadata without a fingerprint stay on disk only
\* when their write failed.
MemoryShape ==
    /\ Changing => mem = target.old /\ target \in [old : Passwords, new : Passwords]
    /\ ~Changing /\ at # "idle" => mem = None
    /\ Live => mem = data.print \/ (data.print = None /\ ~data.meta /\ mem # None)

\* A store that was never of version 2 is not upgraded.
NewShape ==
    ~legacy => /\ ~v2.meta
               /\ "upgrade" \notin tags
               /\ at \notin {"upgrade", "tag_upgrade"}

Shape == TypeOK /\ CallShape /\ JournalShape /\ MemoryShape /\ NewShape

--------------------------------------------------------------------------------
\* The inductive invariants of the promises.

\* Secrets are in data, in the old store that is there until data is, and in
\* every journal that is to become data.
Kept ==
    /\ data # None => \A s \in owned : data.file[s] # None
    /\ data = None /\ at # "swap" => \A s \in owned : v2.file[s] # None
    /\ JournalWhole => \A s \in owned : journal.file[s] # None

\* So are the metadata.
Findable ==
    /\ data # None => data.meta
    /\ data = None /\ at # "swap" => v2.meta \/ (at \in {"closed", "create"} /\ EmptyRoot)
    /\ JournalWhole => journal.meta

\* The journal of a password change is data under the new password, until it
\* becomes data.
Exact ==
    /\ at \in {"idle", "copy"} => journal = None
    /\ at = "tag_password" \/ (Changing /\ at = "post_password") =>
          \A s \in Secrets :
              /\ data.file[s] \in {target.old, None}
              /\ journal.file[s] = IF data.file[s] = None THEN None ELSE target.new
    /\ at = "swap" => \A s \in Secrets : journal.file[s] \in {target.new, None}
    /\ Changing /\ at \in {"untag", "print"} =>
          \A s \in Secrets : data.file[s] \in {target.new, None}

\* The fingerprint, in memory while the store is open and on disk when it is not,
\* is that of every file.
Sealed ==
    ~legacy /\ data # None /\ ~(Changing /\ at \in {"untag", "print"}) =>
        \A s \in Secrets :
            IF Live THEN data.file[s] \in {mem, Lazy, None}
            ELSE data.meta => data.file[s] \in {data.print, Lazy, None}

\* What the vault needs to know besides: where the contents and the fingerprint
\* are while data is not there.
Vaulted ==
    /\ Live => mem = data.print
    /\ data = None /\ at # "swap" => "password" \notin tags
    /\ at = "swap" => data = None /\ "password" \in tags
    /\ at = "tag_upgrade" => journal.file = v2.file
    /\ at = "tag_upgrade" \/ ("upgrade" \in tags /\ data = None) => journal.print = None

--------------------------------------------------------------------------------
\* The shape is an invariant.

\* What a tree is made of.
LEMMA TreeFacts ==
    ASSUME NEW t \in Tree
    PROVE  /\ t.file \in [Secrets -> File] /\ t.print \in MaybePassword /\ t.meta \in BOOLEAN
BY DEF Tree

\* What Stamped does to a tree.
LEMMA StampedFacts ==
    ASSUME NEW t \in Tree, NEW p \in Passwords
    PROVE  /\ Stamped(t, p) \in Tree
           /\ Stamped(t, p).file = t.file
           /\ t.meta => Stamped(t, p).meta
           /\ mem = None => Stamped(t, p).print = p
           /\ mem # None => Stamped(t, p) = t
BY DEF Stamped, Tree, MaybePassword

\* A new store is a tree.
LEMMA NewTree ==
    ASSUME NEW m \in BOOLEAN, NEW t, t = [file |-> NoFiles, print |-> None, meta |-> m]
    PROVE  t \in Tree /\ t # None /\ t.print = None
<1>1. NoFiles \in [Secrets -> File]
    BY DEF NoFiles, File
<1>2. t \in Tree
    BY <1>1 DEF Tree, MaybePassword
<1> QED BY <1>2, TreeAssumption

\* Every way of copying or upgrading gives a tree.
LEMMA CopyTypes ==
    ASSUME TypeOK, NEW S \in SUBSET Secrets
    PROVE  /\ Without(v2.file, S) \in [Secrets -> MaybePassword]
           /\ \A m \in BOOLEAN : Upgraded(S, m) \in Tree
           /\ data # None /\ target.new \in Passwords =>
                 /\ Copied(S) \in [Secrets -> File]
                 /\ \A p \in MaybePassword, m \in BOOLEAN :
                       [file |-> Copied(S), print |-> p, meta |-> m] \in Tree
<1>1. \A T \in SUBSET Secrets : Without(v2.file, T) \in [Secrets -> MaybePassword]
    BY DEF TypeOK, OldTree, Without, MaybePassword
<1>2. ASSUME NEW m \in BOOLEAN
      PROVE  Upgraded(S, m) \in Tree
    <2>1. Without(v2.file, Secrets \ S) \in [Secrets -> File]
        BY <1>1 DEF File, MaybePassword
    <2> QED BY <2>1 DEF Upgraded, Tree, MaybePassword
<1>3. ASSUME data # None, target.new \in Passwords
      PROVE  /\ Copied(S) \in [Secrets -> File]
             /\ \A p \in MaybePassword, m \in BOOLEAN :
                   [file |-> Copied(S), print |-> p, meta |-> m] \in Tree
    <2>1. /\ data.file \in [Secrets -> File]
          /\ journal # None => journal.file \in [Secrets -> File]
          /\ target.new \in File /\ None \in File
        BY <1>3, TreeFacts DEF TypeOK, File
    <2>2. Copied(S) \in [Secrets -> File]
        BY <2>1 DEF Copied
    <2> QED BY <2>2 DEF Tree
<1> QED BY <1>1, <1>2, <1>3

\* A store, new or of version 2, begins in shape.
LEMMA ShapeInit == Init => Shape
<1> SUFFICES ASSUME Init PROVE Shape
    OBVIOUS
<1>1. v2 \in OldTree
    BY DEF Init, OldTree, MaybePassword
<1>2. TypeOK
    BY <1>1, JournalAssumption DEF Init, TypeOK, NoTarget, MaybePassword
<1>3. CallShape /\ JournalShape
    BY DEF Init, CallShape, JournalShape, Live, Changing, JournalWhole
<1>4. MemoryShape
    BY DEF Init, MemoryShape, Live, Changing
<1>5. NewShape
    BY DEF Init, NewShape
<1> QED BY <1>2, <1>3, <1>4, <1>5 DEF Shape

\* A crash or a failed write stays within its bound.
LEMMA UpsetType ==
    ASSUME TypeOK, Upset \/ upsets' = upsets
    PROVE  upsets' \in 0..MaxUpsets
BY JournalAssumption DEF TypeOK, Upset

\* A process that ends leaves a store in shape if the tags tell the truth.
LEMMA ClosedShape ==
    ASSUME TypeOK', at' = "closed", call' = "none", mem' = None,
           "upgrade" \in tags' =>
               /\ "password" \notin tags'
               /\ data' = None \/ journal' = None
               /\ data' = None => journal' # None,
           ~legacy' => ~v2'.meta /\ "upgrade" \notin tags'
    PROVE  Shape'
BY DEF Shape, CallShape, JournalShape, MemoryShape, NewShape, Live, Changing, JournalWhole

\* A call that returns leaves a store in shape if data is there, no upgrade is
\* under way, and the fingerprint in memory is that of data.
LEMMA IdleShape ==
    ASSUME TypeOK', at' = "idle", call' = "none", data' # None, "upgrade" \notin tags',
           mem' = data'.print \/ (data'.print = None /\ ~data'.meta /\ mem' # None),
           ~legacy' => ~v2'.meta
    PROVE  Shape'
BY DEF Shape, CallShape, JournalShape, MemoryShape, NewShape, Live, Changing, JournalWhole

\* DIDStore_Open.
LEMMA ShapeOpen ==
    ASSUME Shape, Open
    PROVE  Shape'
<1>1. /\ TypeOK /\ at = "closed" /\ call' = "open"
      /\ at' = IF EmptyRoot THEN "create" ELSE "post_upgrade"
      /\ UNCHANGED <<data, journal, tags, v2, mem, target, legacy, owned, upsets>>
    BY DEF Shape, Open, disk
<1>2. TypeOK'
    BY <1>1 DEF TypeOK, Steps
<1>3. EmptyRoot' = EmptyRoot
    BY <1>1 DEF EmptyRoot, disk
<1>4. EmptyRoot => data = None /\ journal = None /\ tags = {}
    BY DEF EmptyRoot, disk
<1>5. CallShape' /\ JournalShape'
    BY <1>1, <1>3, <1>4
       DEF Shape, CallShape, JournalShape, Live, Changing, JournalWhole
<1>6. MemoryShape' /\ NewShape'
    BY <1>1 DEF Shape, CallShape, MemoryShape, NewShape, Live, Changing
<1> QED BY <1>2, <1>5, <1>6 DEF Shape

\* create_store.
LEMMA ShapeCreateStore ==
    ASSUME Shape, CreateStore
    PROVE  Shape'
<1>1. /\ TypeOK /\ tags = {} /\ journal = None
      /\ \/ at' = "idle" /\ UNCHANGED <<mem, upsets>>
         \/ at' = "closed" /\ mem' = None /\ Upset
      /\ mem = None
      /\ call' = "none" /\ target' = NoTarget
      /\ UNCHANGED <<journal, tags, v2, legacy, owned>>
    BY DEF Shape, CreateStore, Return, Die, MemoryShape, CallShape, Changing, EmptyRoot, disk
<1>2. data' \in Tree /\ data'.print = None /\ data' # None
    BY NewTree DEF CreateStore, NewData
<1>3. TypeOK'
    BY <1>1, <1>2, UpsetType DEF TypeOK, NoTarget, MaybePassword
<1>4. CASE at' = "idle"
    BY <1>1, <1>2, <1>3, <1>4, IdleShape DEF Shape, NewShape
<1>5. CASE at' = "closed"
    BY <1>1, <1>3, <1>5, ClosedShape DEF Shape, NewShape
<1> QED BY <1>1, <1>4, <1>5

\* post_upgrade.
LEMMA ShapePostUpgrade ==
    ASSUME Shape, PostUpgrade
    PROVE  Shape'
<1>1. /\ TypeOK /\ at = "post_upgrade" /\ ~Changing
      /\ UNCHANGED <<tags, v2, legacy, owned, upsets, call, mem, target>>
      /\ mem = None
    BY DEF Shape, CallShape, MemoryShape, Changing, PostUpgrade, Goto
<1>2. CASE "upgrade" \in tags
    <2>1. /\ at' = "move_v2"
          /\ IF journal # None /\ data = None
             THEN data' = journal /\ journal' = None
             ELSE UNCHANGED <<data, journal>>
        BY <1>1, <1>2 DEF PostUpgrade, Goto
    <2>2. TypeOK'
        BY <1>1, <2>1 DEF TypeOK, Steps
    <2>3. data' # None /\ journal' = None
        BY <1>2, <2>1 DEF Shape, JournalShape, JournalWhole
    <2>4. CallShape' /\ JournalShape'
        BY <1>1, <1>2, <2>1, <2>3
           DEF Shape, CallShape, JournalShape, Live, Changing, JournalWhole
    <2>5. MemoryShape' /\ NewShape'
        BY <1>1, <2>1 DEF Shape, MemoryShape, NewShape, Live, Changing
    <2> QED BY <2>2, <2>4, <2>5 DEF Shape
<1>3. CASE "upgrade" \notin tags
    <2>1. at' = "post_password" /\ journal' = None /\ data' = data
        BY <1>1, <1>3 DEF PostUpgrade, DropJournal, Goto
    <2>2. TypeOK'
        BY <1>1, <2>1 DEF TypeOK, Steps
    <2>3. CallShape' /\ JournalShape'
        BY <1>1, <1>3, <2>1
           DEF CallShape, JournalShape, Live, Changing, JournalWhole
    <2>4. MemoryShape' /\ NewShape'
        BY <1>1, <2>1 DEF Shape, MemoryShape, NewShape, Live, Changing
    <2> QED BY <2>2, <2>3, <2>4 DEF Shape
<1> QED BY <1>2, <1>3

\* The rest of post_upgrade.
LEMMA ShapeMoveV2 ==
    ASSUME Shape, MoveV2
    PROVE  Shape'
<1>1. /\ TypeOK /\ at = "move_v2" /\ ~Changing /\ data # None /\ journal = None
      /\ mem = None
      /\ v2' = NoV2 /\ tags' = tags \ {"upgrade"}
      /\ at' = (IF call = "upgrade" THEN "check" ELSE "post_password")
      /\ UNCHANGED <<data, journal, legacy, owned, upsets, call, mem, target>>
    BY DEF Shape, CallShape, JournalShape, MemoryShape, Changing, MoveV2, Goto
<1>2. TypeOK'
    <2>1. NoV2 \in OldTree
        BY DEF NoV2, NoFiles, OldTree, MaybePassword
    <2> QED BY <1>1, <2>1 DEF TypeOK, Steps
<1>3. CallShape' /\ JournalShape'
    BY <1>1 DEF CallShape, JournalShape, Live, Changing, JournalWhole
<1>4. MemoryShape' /\ NewShape'
    BY <1>1 DEF Shape, MemoryShape, NewShape, Live, Changing, NoV2
<1> QED BY <1>2, <1>3, <1>4 DEF Shape

\* post_changepassword.  It ends its call only when the password is being changed.
LEMMA ShapePostPassword ==
    ASSUME Shape, PostPassword
    PROVE  Shape'
<1>1. /\ TypeOK /\ at = "post_password" /\ "upgrade" \notin tags
      /\ UNCHANGED <<tags, v2, legacy, owned>>
      /\ Changing => data # None /\ journal # None /\ "password" \in tags
      /\ ~Changing => journal = None /\ mem = None
    BY DEF Shape, CallShape, JournalShape, MemoryShape, Changing, PostPassword, Live,
           JournalWhole
<1>2. ASSUME /\ "password" \in tags /\ journal # None
             /\ data' = None
             /\ Goto("swap")
             /\ UNCHANGED <<journal, upsets>>
      PROVE  Shape'
    <2>1. TypeOK'
        BY <1>1, <1>2 DEF TypeOK, Steps, Goto
    <2>2. CallShape' /\ JournalShape'
        BY <1>1, <1>2 DEF CallShape, JournalShape, Live, Changing, JournalWhole, Goto
    <2>3. MemoryShape' /\ NewShape'
        BY <1>1, <1>2 DEF Shape, MemoryShape, NewShape, Live, Changing, Goto
    <2> QED BY <2>1, <2>2, <2>3 DEF Shape
<1>3. ASSUME journal # None, data # None, Upset, Return, UNCHANGED <<mem, data, journal>>
      PROVE  Shape'
    <2>1. TypeOK'
        BY <1>1, <1>3, UpsetType DEF TypeOK, Return, NoTarget, MaybePassword
    <2>2. mem = data.print \/ (data.print = None /\ ~data.meta /\ mem # None)
        BY <1>1, <1>3 DEF Shape, MemoryShape, Live
    <2> QED BY <1>1, <1>3, <2>1, <2>2, IdleShape DEF Shape, NewShape, Return
<1>4. ASSUME journal = None, Goto("untag"), UNCHANGED <<data, journal, upsets>>
      PROVE  Shape'
    <2>1. TypeOK'
        BY <1>1, <1>4 DEF TypeOK, Steps, Goto
    <2>2. CallShape' /\ JournalShape'
        BY <1>1, <1>4 DEF CallShape, JournalShape, Live, Changing, JournalWhole, Goto
    <2>3. MemoryShape' /\ NewShape'
        BY <1>1, <1>4 DEF Shape, MemoryShape, NewShape, Live, Changing, Goto
    <2> QED BY <2>1, <2>2, <2>3 DEF Shape
<1>5. ASSUME "password" \notin tags, DropJournal, Goto("check"), UNCHANGED upsets
      PROVE  Shape'
    <2>1. TypeOK'
        BY <1>1, <1>5 DEF TypeOK, Steps, Goto, DropJournal
    <2>2. CallShape' /\ JournalShape'
        BY <1>1, <1>5
           DEF CallShape, JournalShape, Live, Changing, JournalWhole, Goto, DropJournal
    <2>3. MemoryShape' /\ NewShape'
        BY <1>1, <1>5 DEF Shape, MemoryShape, NewShape, Live, Changing, Goto
    <2> QED BY <2>1, <2>2, <2>3 DEF Shape
<1> QED BY <1>1, <1>2, <1>3, <1>4, <1>5 DEF PostPassword, Changing, WriteFails

\* The second rename and the end of the recovery.
LEMMA ShapeSwap ==
    ASSUME Shape, Swap \/ Untag
    PROVE  Shape'
<1>1. CASE Swap
    <2>1. /\ TypeOK /\ Changing /\ journal # None /\ "upgrade" \notin tags
          /\ data' = journal /\ journal' = None /\ at' = "untag"
          /\ UNCHANGED <<tags, v2, legacy, owned, upsets, call, mem, target>>
        BY <1>1 DEF Shape, CallShape, JournalShape, Swap, Goto, JournalWhole
    <2>2. TypeOK'
        BY <2>1 DEF TypeOK, Steps
    <2>3. CallShape' /\ JournalShape'
        BY <2>1 DEF CallShape, JournalShape, Live, Changing, JournalWhole
    <2>4. MemoryShape' /\ NewShape'
        BY <2>1 DEF Shape, MemoryShape, NewShape, Live, Changing
    <2> QED BY <2>2, <2>3, <2>4 DEF Shape
<1>2. CASE Untag
    <2>1. /\ TypeOK /\ (Changing => data # None) /\ journal = None /\ "upgrade" \notin tags
          /\ tags' = tags \ {"password"} /\ at = "untag"
          /\ at' = (IF Changing THEN "print" ELSE "check")
          /\ UNCHANGED <<data, journal, v2, legacy, owned, upsets, call, mem, target>>
        BY <1>2 DEF Shape, CallShape, JournalShape, Untag, Goto, Changing
    <2>2. TypeOK'
        BY <2>1 DEF TypeOK, Steps
    <2>3. CallShape' /\ JournalShape'
        BY <2>1 DEF CallShape, JournalShape, Live, Changing, JournalWhole
    <2>4. MemoryShape' /\ NewShape'
        BY <2>1 DEF Shape, MemoryShape, NewShape, Live, Changing
    <2> QED BY <2>2, <2>3, <2>4 DEF Shape
<1> QED BY <1>1, <1>2

\* check_store.
LEMMA ShapeCheck ==
    ASSUME Shape, Check
    PROVE  Shape'
<1>1. /\ TypeOK /\ at = "check" /\ journal = None /\ "upgrade" \notin tags /\ mem = None
      /\ data = None => tags = {}
      /\ UNCHANGED <<data, journal, tags, v2, legacy, owned, upsets>>
    BY DEF Shape, TypeOK, CallShape, JournalShape, MemoryShape, Changing, Check, disk
<1>2. ASSUME data # None, mem' = data.print, Return
      PROVE  Shape'
    <2>1. TypeOK'
        BY <1>1, <1>2, TreeFacts DEF TypeOK, Return, NoTarget, MaybePassword
    <2> QED BY <1>1, <1>2, <2>1, IdleShape DEF Shape, NewShape, Return
<1>3. ASSUME Die
      PROVE  Shape'
    <2>1. TypeOK'
        BY <1>1, <1>3 DEF TypeOK, Die, NoTarget, MaybePassword
    <2> QED BY <1>1, <1>3, <2>1, ClosedShape DEF Shape, NewShape, Die
<1>4. ASSUME data = None, v2.meta, at' = "upgrade", call' = "upgrade", UNCHANGED <<mem, target>>
      PROVE  Shape'
    <2>1. TypeOK'
        BY <1>1, <1>4 DEF TypeOK, Steps
    <2>2. CallShape' /\ JournalShape'
        BY <1>1, <1>4 DEF CallShape, JournalShape, Live, Changing, JournalWhole
    <2>3. MemoryShape' /\ NewShape'
        BY <1>1, <1>4 DEF Shape, MemoryShape, NewShape, Live, Changing
    <2> QED BY <2>1, <2>2, <2>3 DEF Shape
<1> QED BY <1>2, <1>3, <1>4 DEF Check

\* upgradeFromV2 and the tag that ends it.
LEMMA ShapeUpgrade ==
    ASSUME Shape, Upgrade
    PROVE  Shape'
<1>1. /\ TypeOK /\ at = "upgrade" /\ ~Changing /\ tags = {} /\ data = None /\ mem = None
      /\ legacy
      /\ UNCHANGED <<data, tags, legacy, owned>>
    BY DEF Shape, TypeOK, CallShape, JournalShape, MemoryShape, NewShape, Changing, Upgrade
<1>2. ASSUME journal' = Upgraded(Secrets, TRUE), Goto("tag_upgrade"), UNCHANGED <<v2, upsets>>
      PROVE  Shape'
    <2>1. journal' \in Tree /\ journal' # None
        BY <1>1, <1>2, CopyTypes, TreeAssumption
    <2>2. TypeOK'
        BY <1>1, <1>2, <2>1 DEF TypeOK, Steps, Goto
    <2>3. CallShape' /\ JournalShape'
        BY <1>1, <1>2, <2>1 DEF CallShape, JournalShape, Live, Changing, JournalWhole, Goto
    <2>4. MemoryShape' /\ NewShape'
        BY <1>1, <1>2 DEF MemoryShape, NewShape, Live, Changing, Goto
    <2> QED BY <2>2, <2>3, <2>4 DEF Shape
<1>3. ASSUME NEW S \in SUBSET Secrets, journal' = Upgraded(S, FALSE), Die, Upset, v2' \in OldTree
      PROVE  Shape'
    <2>1. journal' \in Tree
        BY <1>1, <1>3, CopyTypes
    <2>2. TypeOK'
        BY <1>1, <1>3, <2>1, UpsetType DEF TypeOK, Die, NoTarget, MaybePassword
    <2> QED BY <1>1, <1>3, <2>2, ClosedShape DEF Die
<1>4. ASSUME NEW part \in {Roots, Keys}
      PROVE  [v2 EXCEPT !.file = Without(v2.file, part)] \in OldTree
    <2>1. Without(v2.file, part) \in [Secrets -> MaybePassword]
        BY <1>1, CopyTypes DEF Secrets
    <2> QED BY <1>1, <2>1 DEF TypeOK, OldTree
<1>5. v2' = v2 \/ v2' \in OldTree
    BY <1>4 DEF Upgrade
<1>6. v2' \in OldTree
    BY <1>1, <1>5 DEF TypeOK
<1> QED BY <1>2, <1>3, <1>6 DEF Upgrade, WriteFails

LEMMA ShapeTagUpgrade ==
    ASSUME Shape, TagUpgrade
    PROVE  Shape'
<1>1. /\ TypeOK /\ at = "tag_upgrade" /\ ~Changing /\ tags = {} /\ data = None
      /\ journal # None /\ mem = None /\ legacy
      /\ UNCHANGED <<data, journal, v2, legacy, owned>>
    BY DEF Shape, TypeOK, CallShape, JournalShape, MemoryShape, NewShape, Changing,
           TagUpgrade, JournalWhole
<1>2. ASSUME tags' = {"upgrade"}, Goto("post_upgrade"), UNCHANGED upsets
      PROVE  Shape'
    <2>1. TypeOK'
        BY <1>1, <1>2 DEF TypeOK, Steps, Goto
    <2>2. CallShape' /\ JournalShape'
        BY <1>1, <1>2 DEF CallShape, JournalShape, Live, Changing, JournalWhole, Goto
    <2>3. MemoryShape' /\ NewShape'
        BY <1>1, <1>2 DEF MemoryShape, NewShape, Live, Changing, Goto
    <2> QED BY <2>1, <2>2, <2>3 DEF Shape
<1>3. ASSUME Upset, Die, UNCHANGED tags
      PROVE  Shape'
    <2>1. TypeOK'
        BY <1>1, <1>3, UpsetType DEF TypeOK, Die, NoTarget, MaybePassword
    <2> QED BY <1>1, <1>3, <2>1, ClosedShape DEF Die
<1> QED BY <1>1, <1>2, <1>3 DEF TagUpgrade, WriteTag, WriteFails

\* What is there while the store is open.
LEMMA LiveFacts ==
    ASSUME Shape, Live
    PROVE  /\ TypeOK /\ data # None /\ data \in Tree /\ "upgrade" \notin tags
           /\ mem = data.print \/ (data.print = None /\ ~data.meta /\ mem # None)
           /\ ~legacy => ~v2.meta
           /\ at # "idle" => /\ mem = target.old
                             /\ target \in [old : Passwords, new : Passwords]
<1>1. at # "idle" => Changing
    BY DEF Shape, CallShape, Live
<1> QED BY <1>1 DEF Shape, TypeOK, CallShape, JournalShape, MemoryShape, NewShape, Live

\* DIDStore_ChangePassword checks the old password.
LEMMA ShapeChangePassword ==
    ASSUME Shape, NEW old \in Passwords, NEW new \in Passwords, ChangePassword(old, new)
    PROVE  Shape'
<1>1. /\ TypeOK /\ at = "idle" /\ data \in Tree /\ "upgrade" \notin tags
      /\ mem = data.print \/ (data.print = None /\ ~data.meta /\ mem # None)
      /\ mem \in {None, old} /\ mem' = old /\ data' = Stamped(data, old)
      /\ target' = [old |-> old, new |-> new] /\ at' = "copy" /\ call' = "change"
      /\ UNCHANGED <<journal, tags, v2, legacy, owned, upsets>>
    BY LiveFacts DEF ChangePassword, Admits, Live
<1>2. /\ data' \in Tree /\ data' # None
      /\ mem' = data'.print \/ (data'.print = None /\ ~data'.meta /\ mem' # None)
    BY <1>1, StampedFacts, TreeAssumption, JournalAssumption
<1>3. TypeOK'
    BY <1>1, <1>2 DEF TypeOK, Steps, MaybePassword
<1>4. CallShape' /\ JournalShape'
    BY <1>1, <1>2 DEF CallShape, JournalShape, Live, Changing, JournalWhole
<1>5. MemoryShape' /\ NewShape'
    BY <1>1, <1>2 DEF Shape, MemoryShape, NewShape, Live, Changing
<1> QED BY <1>3, <1>4, <1>5 DEF Shape

\* The copy of data to the journal.
LEMMA ShapeCopy ==
    ASSUME Shape, Copy
    PROVE  Shape'
<1>1. /\ TypeOK /\ at = "copy" /\ Changing /\ data # None /\ data \in Tree
      /\ "upgrade" \notin tags /\ mem = target.old /\ (~legacy => ~v2.meta)
      /\ target \in [old : Passwords, new : Passwords]
      /\ mem = data.print \/ (data.print = None /\ ~data.meta /\ mem # None)
      /\ UNCHANGED <<data, tags, v2, legacy, owned>>
    BY LiveFacts DEF Copy, Live, Shape, CallShape
<1>2. \A S \in SUBSET Secrets, p \in MaybePassword, m \in BOOLEAN :
          [file |-> Copied(S), print |-> p, meta |-> m] \in Tree
    BY <1>1, CopyTypes
<1>3. ASSUME journal' = [file |-> Copied(Secrets), print |-> data.print, meta |-> data.meta],
             Goto("tag_password"), UNCHANGED upsets
      PROVE  Shape'
    <2>0. data.print \in MaybePassword /\ data.meta \in BOOLEAN
        BY <1>1, TreeFacts
    <2>1. journal' \in Tree /\ journal' # None
        BY <1>2, <1>3, <2>0, TreeAssumption
    <2>2. TypeOK'
        BY <1>1, <1>3, <2>1 DEF TypeOK, Steps, Goto
    <2>3. CallShape' /\ JournalShape'
        BY <1>1, <1>3, <2>1 DEF CallShape, JournalShape, Live, Changing, JournalWhole, Goto
    <2>4. MemoryShape' /\ NewShape'
        BY <1>1, <1>3 DEF Shape, MemoryShape, NewShape, Live, Changing, Goto
    <2> QED BY <2>2, <2>3, <2>4 DEF Shape
<1>4. ASSUME journal' = None, Return, UNCHANGED mem, Upset \/ UNCHANGED upsets
      PROVE  Shape'
    <2>1. TypeOK'
        BY <1>1, <1>4, UpsetType DEF TypeOK, Return, NoTarget, MaybePassword
    <2> QED BY <1>1, <1>4, <2>1, IdleShape DEF Return
<1>5. ASSUME NEW S \in SUBSET Secrets, Upset, Die,
             journal' = [file |-> Copied(S), print |-> None, meta |-> FALSE]
      PROVE  Shape'
    <2>1. journal' \in Tree
        BY <1>2, <1>5 DEF MaybePassword
    <2>2. TypeOK'
        BY <1>1, <1>5, <2>1, UpsetType DEF TypeOK, Die, NoTarget, MaybePassword
    <2> QED BY <1>1, <1>5, <2>2, ClosedShape DEF Die, Shape, NewShape
<1> QED BY <1>3, <1>4, <1>5 DEF Copy, WriteFails

\* The tag of a password change.
LEMMA ShapeTagPassword ==
    ASSUME Shape, TagPassword
    PROVE  Shape'
<1>1. /\ TypeOK /\ at = "tag_password" /\ Changing /\ data # None /\ data \in Tree
      /\ journal # None
      /\ "upgrade" \notin tags /\ mem = target.old /\ (~legacy => ~v2.meta)
      /\ target \in [old : Passwords, new : Passwords]
      /\ mem = data.print \/ (data.print = None /\ ~data.meta /\ mem # None)
      /\ UNCHANGED <<data, journal, v2, legacy, owned>>
    BY LiveFacts DEF TagPassword, Live, Shape, CallShape, JournalShape, JournalWhole
<1>2. ASSUME tags' = tags \cup {"password"}, Goto("post_password"), UNCHANGED upsets
      PROVE  Shape'
    <2>1. TypeOK'
        BY <1>1, <1>2 DEF TypeOK, Steps, Goto
    <2>2. CallShape' /\ JournalShape'
        BY <1>1, <1>2 DEF CallShape, JournalShape, Live, Changing, JournalWhole, Goto
    <2>3. MemoryShape' /\ NewShape'
        BY <1>1, <1>2 DEF Shape, MemoryShape, NewShape, Live, Changing, Goto
    <2> QED BY <2>1, <2>2, <2>3 DEF Shape
<1>3. ASSUME Upset, Return, UNCHANGED <<tags, mem>>
      PROVE  Shape'
    <2>1. TypeOK'
        BY <1>1, <1>3, UpsetType DEF TypeOK, Return, NoTarget, MaybePassword
    <2> QED BY <1>1, <1>3, <2>1, IdleShape DEF Return
<1> QED BY <1>1, <1>2, <1>3 DEF TagPassword, WriteTag, WriteFails

\* The new fingerprint.
LEMMA ShapeStorePrint ==
    ASSUME Shape, StorePrint
    PROVE  Shape'
<1>1. /\ TypeOK /\ at = "print" /\ Changing /\ data # None /\ data \in Tree
      /\ "upgrade" \notin tags
      /\ target \in [old : Passwords, new : Passwords]
      /\ mem' = target.new /\ Return
      /\ UNCHANGED <<journal, tags, v2, legacy, owned>>
    BY DEF StorePrint, Shape, TypeOK, CallShape, JournalShape, MemoryShape, Changing
<1>2. target.new \in MaybePassword /\ None \in MaybePassword /\ target.new # None
    BY <1>1, JournalAssumption DEF MaybePassword
<1>3. /\ data' \in Tree
      /\ mem' = data'.print \/ (data'.print = None /\ ~data'.meta /\ mem' # None)
      /\ Upset \/ UNCHANGED upsets
    <2>1. CASE data' = [data EXCEPT !.print = target.new] /\ UNCHANGED upsets
        BY <1>1, <1>2, <2>1 DEF Tree
    <2>2. CASE WriteFails("print") /\ data' = [data EXCEPT !.print = None, !.meta = FALSE]
        BY <1>1, <1>2, <2>2 DEF Tree, WriteFails
    <2> QED BY <2>1, <2>2 DEF StorePrint
<1>4. TypeOK'
    BY <1>1, <1>2, <1>3, UpsetType DEF TypeOK, Return, NoTarget, MaybePassword
<1> QED BY <1>1, <1>3, <1>4, TreeAssumption, IdleShape DEF Return, Shape, NewShape

\* What a call that uses the open store leaves of secret s: file f, in data and in
\* what is owed to the user.  A call with a password makes it the store's.
Used(s, f) ==
    /\ data' \in Tree
    /\ data'.file = [data.file EXCEPT ![s] = f]
    /\ \/ /\ f \in Passwords /\ mem \in {None, f} /\ mem' = f
          /\ mem = None => data'.print = f /\ data'.meta
          /\ mem # None => data'.print = data.print /\ data'.meta = data.meta
       \/ /\ f \in {Lazy, None} /\ mem' = mem
          /\ data'.print = data.print /\ data'.meta = data.meta
    /\ f = None => s \notin owned'
    /\ owned' \subseteq owned \cup {s}

\* The calls of Use but for the first step of a password change and the close.
UseSecret ==
    \/ \E s \in Secrets, p \in Passwords : StoreSecret(s, p) \/ LoadSecret(s, p)
    \/ \E k \in Keys : StoreLazyPrivateKey(k)
    \/ \E k \in Keys, p \in Passwords : LazyCreatePrivateKey(k, p)
    \/ \E s \in Secrets : DeleteSecret(s)

\* A call with a password on a secret.
LEMMA UsedPassword ==
    ASSUME Shape, Live, NEW s \in Secrets, NEW p \in Passwords, Admits(p), mem' = p,
           \/ data' = [Stamped(data, p) EXCEPT !.file[s] = p]
           \/ data' = Stamped(data, p) /\ data.file[s] = p,
           owned' \subseteq owned \cup {s}
    PROVE  Used(s, p)
<1>1. data \in Tree /\ data.file \in [Secrets -> File] /\ p \in File /\ p # None
    BY LiveFacts, TreeFacts, JournalAssumption DEF File
<1>2. /\ data' \in Tree /\ data'.print = Stamped(data, p).print
      /\ data'.meta = Stamped(data, p).meta
      /\ data'.file = [data.file EXCEPT ![s] = p]
    <2>1. CASE data' = [Stamped(data, p) EXCEPT !.file[s] = p]
        <3>1. PICK t \in Tree : t = Stamped(data, p)
            BY <1>1, StampedFacts
        <3>2. t.file = data.file
            BY <1>1, <3>1, StampedFacts
        <3>3. data' = [t EXCEPT !.file[s] = p]
            BY <2>1, <3>1
        <3>4. /\ data' \in Tree /\ data'.print = t.print /\ data'.meta = t.meta
              /\ data'.file = [t.file EXCEPT ![s] = p]
            BY <1>1, <3>3 DEF Tree
        <3> QED BY <3>1, <3>2, <3>4
    <2>2. CASE data' = Stamped(data, p) /\ data.file[s] = p
        BY <1>1, <2>2, StampedFacts
    <2> QED BY <2>1, <2>2
<1>3. mem = None => Stamped(data, p).meta
    BY <1>1 DEF Stamped, Tree
<1> QED BY <1>1, <1>2, <1>3, StampedFacts DEF Used, Admits

\* Every call on a secret is of that form.
LEMMA UseFacts ==
    ASSUME Shape, UseSecret
    PROVE  /\ at = "idle" /\ at' = "idle" /\ call' = call /\ owned' \subseteq Secrets
           /\ UNCHANGED <<journal, tags, v2, target, legacy, upsets>>
           /\ \E s \in Secrets : \E f \in File : Used(s, f)
<1>1. at = "idle" /\ at' = "idle" /\ call' = call
      /\ UNCHANGED <<journal, tags, v2, target, legacy, upsets>>
    BY DEF UseSecret, StoreSecret, LoadSecret, StoreLazyPrivateKey, LazyCreatePrivateKey,
           DeleteSecret, Idle
<1>2. /\ TypeOK /\ data \in Tree /\ data.file \in [Secrets -> File]
      /\ Lazy \in File /\ None \in File /\ Lazy # None /\ owned \subseteq Secrets
      /\ Keys \subseteq Secrets /\ Passwords \subseteq File
    BY <1>1, LiveFacts, TreeFacts, JournalAssumption DEF Live, File, TypeOK, Secrets
<1>3. ASSUME NEW s \in Secrets, NEW p \in Passwords, StoreSecret(s, p) \/ LoadSecret(s, p)
      PROVE  Used(s, p) /\ owned' \subseteq Secrets
    BY <1>1, <1>2, <1>3, UsedPassword DEF StoreSecret, LoadSecret, Live
<1>4. ASSUME NEW k \in Keys, StoreLazyPrivateKey(k)
      PROVE  Used(k, Lazy) /\ owned' \subseteq Secrets
    <2>1. data' = [data EXCEPT !.file[k] = Lazy] /\ owned' = owned \cup {k} /\ mem' = mem
        BY <1>4 DEF StoreLazyPrivateKey
    <2>2. /\ data' \in Tree /\ data'.file = [data.file EXCEPT ![k] = Lazy]
          /\ data'.print = data.print /\ data'.meta = data.meta
        BY <1>2, <2>1 DEF Tree
    <2> QED BY <1>2, <2>1, <2>2 DEF Used
<1>5. ASSUME NEW k \in Keys, NEW p \in Passwords, LazyCreatePrivateKey(k, p)
      PROVE  Used(k, p) /\ owned' \subseteq Secrets
    BY <1>1, <1>2, <1>5, UsedPassword DEF LazyCreatePrivateKey, Live
<1>6. ASSUME NEW s \in Secrets, DeleteSecret(s)
      PROVE  Used(s, None) /\ owned' \subseteq Secrets
    <2>1. data' = [data EXCEPT !.file[s] = None] /\ owned' = owned \ {s} /\ mem' = mem
        BY <1>6 DEF DeleteSecret
    <2>2. /\ data' \in Tree /\ data'.file = [data.file EXCEPT ![s] = None]
          /\ data'.print = data.print /\ data'.meta = data.meta
        BY <1>2, <2>1 DEF Tree
    <2> QED BY <1>2, <2>1, <2>2 DEF Used
<1>7. owned' \subseteq Secrets
    BY <1>3, <1>4, <1>5, <1>6 DEF UseSecret
<1>8. \E s \in Secrets : \E f \in File : Used(s, f)
    BY <1>2, <1>3, <1>4, <1>5, <1>6 DEF UseSecret
<1> QED BY <1>1, <1>7, <1>8

LEMMA ShapeUse ==
    ASSUME Shape, UseSecret
    PROVE  Shape'
<1>1. /\ at' = "idle" /\ call' = call /\ owned' \subseteq Secrets /\ at = "idle"
      /\ UNCHANGED <<journal, tags, v2, target, legacy, upsets>>
    BY UseFacts
<1>2. PICK s \in Secrets, f \in File : Used(s, f)
    BY UseFacts
<1>3. /\ TypeOK /\ "upgrade" \notin tags /\ (~legacy => ~v2.meta)
      /\ mem = data.print \/ (data.print = None /\ ~data.meta /\ mem # None)
    BY <1>1, LiveFacts DEF Live
<1>4. call' = "none"
    BY <1>1 DEF Shape, CallShape
<1>5. /\ data' \in Tree /\ mem' \in MaybePassword /\ data' # None
      /\ mem' = data'.print \/ (data'.print = None /\ ~data'.meta /\ mem' # None)
    BY <1>2, <1>3, TreeAssumption DEF Used, MaybePassword, TypeOK
<1>6. TypeOK'
    BY <1>1, <1>3, <1>5 DEF TypeOK
<1> QED BY <1>1, <1>3, <1>4, <1>5, <1>6, IdleShape

\* The end of a process, called for or not.
LEMMA ShapeDie ==
    ASSUME Shape, Close \/ Crash
    PROVE  Shape'
<1>1. /\ TypeOK /\ Die /\ UNCHANGED <<data, journal, tags, v2, legacy, owned>>
      /\ Upset \/ UNCHANGED upsets
    BY DEF Shape, Close, Crash, disk
<1>2. TypeOK'
    BY <1>1, UpsetType DEF TypeOK, Die, NoTarget, MaybePassword
<1> QED BY <1>1, <1>2, ClosedShape DEF Die, Shape, JournalShape, JournalWhole, NewShape

\* Next, one disjunct at a time.
LEMMA NextCases ==
    ASSUME [Next]_vars
    PROVE  \/ Open \/ CreateStore
           \/ PostUpgrade \/ MoveV2
           \/ PostPassword
           \/ Swap \/ Untag
           \/ Check
           \/ Upgrade \/ TagUpgrade
           \/ \E old, new \in Passwords : ChangePassword(old, new)
           \/ Copy
           \/ TagPassword
           \/ StorePrint
           \/ UseSecret
           \/ Close \/ Crash
           \/ UNCHANGED vars
BY DEF Next, Step, Use, UseSecret

\* Every step keeps the shape.
LEMMA ShapeNext == Shape /\ [Next]_vars => Shape'
<1> SUFFICES ASSUME Shape, [Next]_vars PROVE Shape'
    OBVIOUS
<1>1. CASE Open \/ CreateStore
    BY <1>1, ShapeOpen, ShapeCreateStore
<1>2. CASE PostUpgrade \/ MoveV2 \/ PostPassword \/ Swap \/ Untag \/ Check
    BY <1>2, ShapePostUpgrade, ShapeMoveV2, ShapePostPassword, ShapeSwap, ShapeCheck
<1>3. CASE Upgrade \/ TagUpgrade
    BY <1>3, ShapeUpgrade, ShapeTagUpgrade
<1>4. CASE (\E old, new \in Passwords : ChangePassword(old, new)) \/ Copy \/ TagPassword \/ StorePrint
    BY <1>4, ShapeChangePassword, ShapeCopy, ShapeTagPassword, ShapeStorePrint
<1>5. CASE UseSecret \/ Close \/ Crash
    BY <1>5, ShapeUse, ShapeDie
<1>6. CASE UNCHANGED vars
    BY <1>6 DEF vars, disk, Shape, TypeOK, CallShape, JournalShape, MemoryShape, NewShape,
                Live, Changing, JournalWhole, EmptyRoot
<1> QED BY <1>1, <1>2, <1>3, <1>4, <1>5, <1>6, NextCases

\* The shape holds in every reachable state, wherever the process dies and
\* whichever writes fail.
THEOREM Invariant == Spec => []Shape
<1> QED BY ShapeInit, ShapeNext, PTL DEF Spec

\* The variables have their types (DIDStore_Open, DIDStore_ChangePassword).
THEOREM TypeCorrect == Spec => []TypeOK
<1>1. Shape => TypeOK
    BY DEF Shape
<1> QED BY <1>1, Invariant, PTL

--------------------------------------------------------------------------------
\* What the steps do to data and to the journal, as far as the promises need it.

\* The facts of the shape each group of steps rests on.
LEMMA StepShape ==
    ASSUME Shape
    PROVE  /\ JournalWhole => journal # None
           /\ "upgrade" \in tags => at \in {"closed", "post_upgrade", "move_v2"}
           /\ at \in {"move_v2", "copy", "tag_password", "print", "idle"} => data # None
           /\ at = "post_password" /\ Changing => data # None
           /\ at = "untag" /\ Changing => data # None
           /\ at \in {"upgrade", "tag_upgrade"} => data = None /\ tags = {}
           /\ at \in {"copy", "tag_password", "swap", "print"} => Changing
           /\ at \in {"create", "post_upgrade", "move_v2", "check", "upgrade", "tag_upgrade",
                      "idle", "closed"} => ~Changing
           /\ at = "post_password" /\ ~Changing => journal = None
           /\ at = "create" => EmptyRoot
           /\ at = "post_password" /\ Changing => "password" \in tags
BY DEF Shape, CallShape, JournalShape, JournalWhole, Live, Changing

\* The new tree of the steps that write data while the store is open.
LEMMA DataWritten ==
    ASSUME Shape,
           \/ \E old, new \in Passwords : ChangePassword(old, new)
           \/ StorePrint
    PROVE  /\ data # None /\ data' # None /\ data'.file = data.file
           /\ data.meta /\ (StorePrint => "print" \notin FailAt) => data'.meta
<1>1. ASSUME NEW old \in Passwords, NEW new \in Passwords, ChangePassword(old, new)
      PROVE  /\ data # None /\ data' # None /\ data'.file = data.file
             /\ data.meta => data'.meta
    <2>1. data # None /\ data \in Tree /\ data' = Stamped(data, old)
        BY <1>1, LiveFacts DEF ChangePassword, Live
    <2> QED BY <2>1, StampedFacts, TreeAssumption
<1>2. CASE StorePrint
    <2>1. data # None /\ data \in Tree
        BY <1>2 DEF Shape, TypeOK, CallShape, StorePrint
    <2>2. PICK p, m : data' = [data EXCEPT !.print = p, !.meta = m]
                      /\ (m = data.meta \/ "print" \in FailAt)
                      /\ p \in MaybePassword /\ m \in BOOLEAN
        <3>1. CASE data' = [data EXCEPT !.print = target.new]
            <4>1. data' = [data EXCEPT !.print = target.new, !.meta = data.meta]
                BY <2>1, <3>1 DEF Tree
            <4>2. target.new \in MaybePassword /\ data.meta \in BOOLEAN
                BY <2>1, TreeFacts DEF Shape, TypeOK
            <4> QED BY <4>1, <4>2
        <3>2. CASE WriteFails("print") /\ data' = [data EXCEPT !.print = None, !.meta = FALSE]
            BY <3>2 DEF WriteFails, MaybePassword
        <3> QED BY <1>2, <3>1, <3>2 DEF StorePrint
    <2>3. data' \in Tree /\ data'.file = data.file /\ data'.meta = m
        BY <2>1, <2>2 DEF Tree
    <2> QED BY <1>2, <2>1, <2>2, <2>3, TreeAssumption
<1>3. CASE \E old, new \in Passwords : ChangePassword(old, new)
    <2>1. ~StorePrint
        BY <1>3 DEF StorePrint, ChangePassword
    <2> QED BY <1>1, <1>3, <2>1
<1> QED BY <1>2, <1>3

--------------------------------------------------------------------------------
\* No secret is lost.

LEMMA KeptSame ==
    ASSUME Kept, UNCHANGED <<data, v2, owned>>, at # "swap",
           JournalWhole' => JournalWhole /\ journal' = journal
    PROVE  Kept'
BY DEF Kept

LEMMA KeptInit == Init => Kept
BY JournalAssumption DEF Init, Kept, JournalWhole, Changing

\* DIDStore_Open and its recovery.
LEMMA KeptOpen ==
    ASSUME Shape, Kept,
           \/ Open \/ CreateStore \/ PostUpgrade \/ MoveV2 \/ PostPassword
           \/ Swap \/ Untag \/ Check
    PROVE  Kept'
<1>1. CASE Open
    BY <1>1, KeptSame DEF Open, disk, JournalWhole, Changing
<1>2. CASE CreateStore
    <2>1. v2 = NoV2 /\ data = None /\ tags = {} /\ at = "create" /\ owned \subseteq Secrets
        BY <1>2, StepShape DEF CreateStore, EmptyRoot, disk, Shape, TypeOK
    <2>2. owned = {}
        BY <2>1 DEF Kept, NoV2, NoFiles
    <2>3. owned' = {} /\ v2' = v2 /\ tags' = {} /\ at' \in {"idle", "closed"}
        BY <1>2, <2>1, <2>2 DEF CreateStore, Return, Die
    <2> QED BY <2>3 DEF Kept
<1>3. CASE PostUpgrade
    <2>1. CASE "upgrade" \in tags
        <3>1. data' # None /\ \A s \in owned : data'.file[s] # None
            BY <1>3, <2>1 DEF PostUpgrade, Kept, JournalWhole, Shape, JournalShape
        <3>2. at' = "move_v2" /\ owned' = owned
            BY <1>3, <2>1 DEF PostUpgrade, Goto
        <3> QED BY <3>1, <3>2 DEF Kept, JournalWhole
    <2>2. CASE "upgrade" \notin tags
        BY <1>3, <2>2, StepShape, KeptSame
           DEF PostUpgrade, DropJournal, Goto, JournalWhole, Changing
    <2> QED BY <2>1, <2>2
<1>4. CASE MoveV2
    BY <1>4, StepShape DEF MoveV2, Goto, Kept, JournalWhole, Changing
<1>5. CASE PostPassword
    <2>1. CASE Goto("swap") /\ UNCHANGED <<journal, tags, v2, owned>> /\ data' = None /\ journal # None
        <3>1. JournalWhole
            BY <1>5, <2>1, StepShape DEF PostPassword, JournalWhole
        <3> QED BY <2>1, <3>1 DEF Kept, Goto
    <2>2. CASE ~Goto("swap") /\ data' = data
        BY <1>5, <2>2, StepShape, KeptSame
           DEF PostPassword, DropJournal, Goto, Return, JournalWhole, Changing
    <2> QED BY <1>5, <2>1, <2>2 DEF PostPassword, DropJournal, Goto, Return
<1>6. CASE Swap
    BY <1>6, StepShape DEF Swap, Goto, Kept, JournalWhole, Changing
<1>7. CASE Untag
    BY <1>7, StepShape, KeptSame DEF Untag, Goto, JournalWhole, Changing
<1>8. CASE Check
    BY <1>8, StepShape, KeptSame DEF Check, disk, Return, Die, JournalWhole, Changing
<1> QED BY <1>1, <1>2, <1>3, <1>4, <1>5, <1>6, <1>7, <1>8

\* The upgrade, if none of its writes fails.
LEMMA KeptUpgrade ==
    ASSUME Shape, Kept, SecretsSafe, Upgrade \/ TagUpgrade
    PROVE  Kept'
<1>1. CASE Upgrade
    <2>1. data = None /\ tags = {} /\ UNCHANGED <<data, v2, tags, owned>> /\ owned \subseteq Secrets
        BY <1>1, StepShape DEF Upgrade, WriteFails, SecretsSafe, Shape, TypeOK
    <2>2. CASE journal' = Upgraded(Secrets, TRUE) /\ Goto("tag_upgrade")
        <3>1. \A s \in owned : journal'.file[s] = v2.file[s]
            BY <2>1, <2>2 DEF Upgraded, Without
        <3>2. \A s \in owned : v2.file[s] # None
            BY <1>1, <2>1 DEF Kept, Upgrade
        <3> QED BY <2>1, <2>2, <3>1, <3>2 DEF Kept, Goto
    <2>3. CASE Die
        BY <1>1, <2>1, <2>3, KeptSame DEF Upgrade, Die, JournalWhole, Changing
    <2> QED BY <1>1, <2>2, <2>3 DEF Upgrade
<1>2. CASE TagUpgrade
    <2>1. JournalWhole /\ UNCHANGED <<journal, data, v2, owned>> /\ at # "swap"
        BY <1>2 DEF TagUpgrade, JournalWhole
    <2> QED BY <2>1, KeptSame
<1> QED BY <1>1, <1>2

\* The password change and the calls that use the store.
LEMMA KeptUse ==
    ASSUME Shape, Kept,
           \/ \E old, new \in Passwords : ChangePassword(old, new)
           \/ Copy \/ TagPassword \/ StorePrint \/ UseSecret
    PROVE  Kept'
<1>1. CASE \/ \E old, new \in Passwords : ChangePassword(old, new)
           \/ StorePrint
    <2>1. data # None /\ data' # None /\ data'.file = data.file
        BY <1>1, DataWritten
    <2>2. ~JournalWhole' /\ owned' = owned
        BY <1>1, StepShape DEF ChangePassword, StorePrint, Return, JournalWhole, Changing
    <2> QED BY <2>1, <2>2 DEF Kept
<1>2. CASE Copy
    <2>1. /\ data # None /\ UNCHANGED <<data, tags, owned, v2>> /\ "upgrade" \notin tags
          /\ target.new # None /\ owned \subseteq Secrets /\ at = "copy"
        BY <1>2, LiveFacts, JournalAssumption DEF Copy, Live, Shape, TypeOK
    <2>2. CASE journal'.file = Copied(Secrets) /\ Goto("tag_password")
        <3>1. \A s \in owned : data.file[s] # None
            BY <2>1 DEF Kept
        <3>2. \A s \in owned : journal'.file[s] # None
            BY <2>1, <2>2, <3>1 DEF Copied
        <3> QED BY <2>1, <2>2, <3>2 DEF Kept, Goto
    <2>3. CASE Die \/ Return
        BY <2>1, <2>3, KeptSame DEF Die, Return, JournalWhole, Changing
    <2> QED BY <1>2, <2>2, <2>3 DEF Copy
<1>3. CASE TagPassword
    <2>1. JournalWhole /\ UNCHANGED <<journal, data, v2, owned>> /\ at # "swap"
        BY <1>3 DEF TagPassword, JournalWhole
    <2> QED BY <2>1, KeptSame
<1>4. CASE UseSecret
    <2>1. PICK s \in Secrets, f \in File : Used(s, f)
        BY <1>4, UseFacts
    <2>2. /\ at' = "idle" /\ call' = call /\ at = "idle" /\ tags' = tags /\ owned' \subseteq Secrets
        BY <1>4, UseFacts
    <2>3. data # None /\ data' # None /\ "upgrade" \notin tags /\ ~Changing'
        BY <2>1, <2>2, StepShape, TreeAssumption DEF Used, Changing
    <2>4. data.file \in [Secrets -> File]
        BY <2>3, TreeFacts DEF Shape, TypeOK
    <2>5. \A t \in owned' : data'.file[t] # None
        <3> SUFFICES ASSUME NEW t \in owned' PROVE data'.file[t] # None
            OBVIOUS
        <3>1. t \in Secrets /\ data'.file[t] = IF t = s THEN f ELSE data.file[t]
            BY <2>1, <2>2, <2>4 DEF Used
        <3>2. CASE t = s
            BY <2>1, <3>1, <3>2 DEF Used
        <3>3. CASE t # s
            BY <2>1, <2>3, <3>1, <3>3 DEF Used, Kept
        <3> QED BY <3>2, <3>3
    <2> QED BY <2>2, <2>3, <2>5 DEF Kept, JournalWhole
<1> QED BY <1>1, <1>2, <1>3, <1>4

\* Every step keeps the secrets.
LEMMA KeptNext == SecretsSafe /\ Shape /\ Kept /\ [Next]_vars => Kept'
<1> SUFFICES ASSUME SecretsSafe, Shape, Kept, [Next]_vars PROVE Kept'
    OBVIOUS
<1>1. CASE Close \/ Crash
    <2>1. /\ at # "swap" /\ Die /\ UNCHANGED <<data, journal, tags, v2, owned>>
        BY <1>1 DEF Close, Crash, SecretsSafe, disk
    <2> QED BY <2>1, KeptSame DEF Die, JournalWhole, Changing
<1>2. CASE UNCHANGED vars
    BY <1>2 DEF vars, disk, Kept, JournalWhole, Changing
<1> QED BY <1>1, <1>2, NextCases, KeptOpen, KeptUpgrade, KeptUse

\* Whenever the store is open, every secret that was stored and not deleted is
\* there, unless the process died between the two renames of a password change,
\* or a write of the upgrade failed.
THEOREM SecretsAreKept == SecretsSafe => (Spec => []NoSecretLost)
<1> SUFFICES ASSUME SecretsSafe PROVE Spec => []NoSecretLost
    OBVIOUS
<1>1. Init => Kept
    BY KeptInit
<1>2. Shape /\ Kept /\ [Next]_vars => Kept'
    BY KeptNext
<1>3. Shape /\ Kept => NoSecretLost
    BY StepShape DEF Kept, NoSecretLost
<1> QED BY <1>1, <1>2, <1>3, Invariant, PTL DEF Spec

--------------------------------------------------------------------------------
\* DIDStore_Open finds a store.

LEMMA FindableSame ==
    ASSUME Findable, UNCHANGED data, v2'.meta = v2.meta, at \notin {"swap", "closed", "create"},
           JournalWhole' => JournalWhole /\ journal' = journal
    PROVE  Findable'
BY DEF Findable

LEMMA FindableInit == Init => Findable
<1> SUFFICES ASSUME Init PROVE Findable
    OBVIOUS
<1>1. ~legacy => v2 = NoV2
    BY DEF Init, NoV2, NoFiles
<1> QED BY <1>1 DEF Init, Findable, JournalWhole, Changing, EmptyRoot, disk

\* DIDStore_Open and its recovery.
LEMMA FindableOpen ==
    ASSUME Shape, Findable, StoreFindable,
           \/ Open \/ CreateStore \/ PostUpgrade \/ MoveV2 \/ PostPassword
           \/ Swap \/ Untag \/ Check
    PROVE  Findable'
<1>1. CASE Open
    <2>1. /\ UNCHANGED <<data, journal, tags, v2>> /\ at' = (IF EmptyRoot THEN "create" ELSE "post_upgrade")
          /\ at = "closed" /\ call' = "open"
        BY <1>1 DEF Open, disk
    <2>2. EmptyRoot' = EmptyRoot
        BY <2>1 DEF EmptyRoot, disk
    <2>3. JournalWhole' => JournalWhole
        BY <2>1 DEF JournalWhole, Changing
    <2> QED BY <2>1, <2>2, <2>3 DEF Findable
<1>2. CASE CreateStore
    <2>1. /\ data' = [file |-> NoFiles, print |-> None, meta |-> TRUE] /\ at' = "idle"
          /\ tags' = {}
        BY <1>2, StepShape DEF CreateStore, NewData, StoreFindable, Return, EmptyRoot, disk
    <2> QED BY <1>2, <2>1, ShapeCreateStore, StepShape DEF Findable, JournalWhole, Shape, CallShape, Live
<1>3. CASE PostUpgrade
    <2>1. CASE "upgrade" \in tags
        <3>1. data' # None /\ data'.meta
            BY <1>3, <2>1 DEF PostUpgrade, Findable, JournalWhole, Shape, JournalShape
        <3>2. at' = "move_v2"
            BY <1>3, <2>1 DEF PostUpgrade, Goto
        <3> QED BY <3>1, <3>2 DEF Findable, JournalWhole
    <2>2. CASE "upgrade" \notin tags
        BY <1>3, <2>2, StepShape, FindableSame
           DEF PostUpgrade, DropJournal, Goto, JournalWhole, Changing
    <2> QED BY <2>1, <2>2
<1>4. CASE MoveV2
    BY <1>4, StepShape DEF MoveV2, Goto, Findable, JournalWhole, Changing
<1>5. CASE PostPassword
    <2>1. CASE Goto("swap") /\ UNCHANGED <<journal, tags, v2, owned>> /\ data' = None /\ journal # None
        <3>1. JournalWhole
            BY <1>5, <2>1, StepShape DEF PostPassword, JournalWhole
        <3> QED BY <2>1, <3>1 DEF Findable, Goto
    <2>2. CASE ~Goto("swap") /\ data' = data
        BY <1>5, <2>2, StepShape, FindableSame
           DEF PostPassword, DropJournal, Goto, Return, JournalWhole, Changing
    <2> QED BY <1>5, <2>1, <2>2 DEF PostPassword, DropJournal, Goto, Return
<1>6. CASE Swap
    BY <1>6, StepShape DEF Swap, Goto, Findable, JournalWhole, Changing
<1>7. CASE Untag
    BY <1>7, StepShape, FindableSame DEF Untag, Goto, JournalWhole, Changing
<1>8. CASE Check
    BY <1>8, StepShape, FindableSame DEF Check, disk, Return, Die, JournalWhole, Changing
<1> QED BY <1>1, <1>2, <1>3, <1>4, <1>5, <1>6, <1>7, <1>8

\* The upgrade: the metadata of the old store are there until data are.
LEMMA FindableUpgrade ==
    ASSUME Shape, Findable, Upgrade \/ TagUpgrade
    PROVE  Findable'
<1>1. CASE Upgrade
    <2>1. data = None /\ tags = {} /\ UNCHANGED <<data, tags>> /\ at = "upgrade"
        BY <1>1, StepShape DEF Upgrade
    <2>2. v2'.meta = v2.meta
        <3>1. v2 \in OldTree
            BY DEF Shape, TypeOK
        <3> QED BY <1>1, <3>1 DEF Upgrade, OldTree
    <2>3. CASE journal' = Upgraded(Secrets, TRUE) /\ Goto("tag_upgrade")
        BY <2>1, <2>2, <2>3 DEF Findable, Goto, Upgraded
    <2>4. CASE Die
        BY <2>1, <2>2, <2>4, FindableSame DEF Die, JournalWhole, Changing
    <2> QED BY <1>1, <2>3, <2>4 DEF Upgrade
<1>2. CASE TagUpgrade
    <2>1. JournalWhole /\ UNCHANGED <<journal, data, v2>> /\ at = "tag_upgrade"
        BY <1>2 DEF TagUpgrade, JournalWhole
    <2> QED BY <2>1, FindableSame
<1> QED BY <1>1, <1>2

\* The password change and the calls that use the store.
LEMMA FindableUse ==
    ASSUME Shape, Findable, StoreFindable,
           \/ \E old, new \in Passwords : ChangePassword(old, new)
           \/ Copy \/ TagPassword \/ StorePrint \/ UseSecret
    PROVE  Findable'
<1>1. CASE \/ \E old, new \in Passwords : ChangePassword(old, new)
           \/ StorePrint
    <2>1. data # None /\ data' # None
        BY <1>1, DataWritten
    <2>2. data'.meta
        BY <1>1, <2>1, DataWritten DEF Findable, StoreFindable
    <2>3. ~JournalWhole'
        BY <1>1, StepShape DEF ChangePassword, StorePrint, Return, JournalWhole, Changing
    <2> QED BY <2>1, <2>2, <2>3 DEF Findable
<1>2. CASE Copy
    <2>1. /\ data # None /\ UNCHANGED <<data, tags, v2>> /\ "upgrade" \notin tags /\ at = "copy"
        BY <1>2, LiveFacts DEF Copy, Live
    <2>2. CASE journal'.meta = data.meta
        BY <2>1, <2>2 DEF Findable
    <2>3. CASE Die \/ Return
        BY <2>1, <2>3, FindableSame DEF Die, Return, JournalWhole, Changing
    <2> QED BY <1>2, <2>2, <2>3 DEF Copy
<1>3. CASE TagPassword
    <2>1. JournalWhole /\ UNCHANGED <<journal, data, v2>> /\ at = "tag_password"
        BY <1>3 DEF TagPassword, JournalWhole
    <2> QED BY <2>1, FindableSame
<1>4. CASE UseSecret
    <2>1. PICK s \in Secrets, f \in File : Used(s, f)
        BY <1>4, UseFacts
    <2>2. at' = "idle" /\ call' = call /\ at = "idle" /\ tags' = tags
        BY <1>4, UseFacts
    <2>3. data # None /\ data' # None /\ "upgrade" \notin tags
        BY <2>1, <2>2, StepShape, TreeAssumption DEF Used
    <2>4. data'.meta
        BY <2>1, <2>3 DEF Used, Findable
    <2> QED BY <2>2, <2>3, <2>4, StepShape DEF Findable, JournalWhole, Changing
<1> QED BY <1>1, <1>2, <1>3, <1>4

\* Every step keeps a store that can be found.
LEMMA FindableNext == StoreFindable /\ Shape /\ Findable /\ [Next]_vars => Findable'
<1> SUFFICES ASSUME StoreFindable, Shape, Findable, [Next]_vars PROVE Findable'
    OBVIOUS
<1>1. CASE Close \/ Crash
    <2>1. /\ at \notin {"swap", "create"} /\ Die /\ UNCHANGED <<data, journal, tags, v2>>
          /\ at' = "closed"
        BY <1>1 DEF Close, Crash, StoreFindable, disk, Die
    <2>2. EmptyRoot' = EmptyRoot
        BY <2>1 DEF EmptyRoot, disk
    <2>3. JournalWhole' => JournalWhole
        BY <2>1 DEF Die, JournalWhole, Changing
    <2> QED BY <2>1, <2>2, <2>3 DEF Findable
<1>2. CASE UNCHANGED vars
    BY <1>2 DEF vars, disk, Findable, JournalWhole, Changing, EmptyRoot
<1> QED BY <1>1, <1>2, NextCases, FindableOpen, FindableUpgrade, FindableUse

\* After its recovery DIDStore_Open finds a store with its metadata, unless the
\* process died in create_store or between the two renames, or the metadata file
\* could not be written at the end of a password change.
THEOREM OpenFindsTheStore == StoreFindable => (Spec => []OpenFindsData)
<1> SUFFICES ASSUME StoreFindable PROVE Spec => []OpenFindsData
    OBVIOUS
<1>1. Init => Findable
    BY FindableInit
<1>2. Shape /\ Findable /\ [Next]_vars => Findable'
    BY FindableNext
<1>3. Findable => OpenFindsData
    BY DEF Findable, OpenFindsData
<1> QED BY <1>1, <1>2, <1>3, Invariant, PTL DEF Spec

--------------------------------------------------------------------------------
\* The journal of a password change is exact.

\* A step that changes no password and leaves the store closed, or at a step that
\* Exact says nothing of.
LEMMA ExactElsewhere ==
    ASSUME at' \notin {"idle", "copy", "tag_password", "swap"},
           at' \in {"post_password", "untag", "print"} => ~Changing'
    PROVE  Exact'
BY DEF Exact

LEMMA ExactInit == Init => Exact
BY DEF Init, Exact, Changing

\* DIDStore_Open and its recovery, and the renames of a password change.
LEMMA ExactOpen ==
    ASSUME Shape, Exact, JournalExact,
           \/ Open \/ CreateStore \/ PostUpgrade \/ MoveV2 \/ PostPassword
           \/ Swap \/ Untag \/ Check \/ Upgrade \/ TagUpgrade
    PROVE  Exact'
<1>1. CASE Open \/ PostUpgrade \/ MoveV2 \/ Upgrade \/ TagUpgrade
    BY <1>1, StepShape, ExactElsewhere
       DEF Open, PostUpgrade, MoveV2, Upgrade, TagUpgrade, Goto, Die, Changing
<1>2. CASE CreateStore
    BY <1>2, StepShape DEF CreateStore, Return, Die, Exact, Changing, EmptyRoot, disk
<1>3. CASE PostPassword
    <2>1. CASE Goto("swap")
        <3>1. journal' = journal /\ Changing
            BY <1>3, <2>1, StepShape DEF PostPassword, Goto
        <3> QED BY <1>3, <2>1, <3>1 DEF Exact, Goto, PostPassword
    <2>2. CASE ~Goto("swap")
        BY <1>3, <2>2, StepShape, ExactElsewhere
           DEF PostPassword, Goto, WriteFails, JournalExact, Changing, JournalWhole
    <2> QED BY <2>1, <2>2
<1>4. CASE Swap
    BY <1>4 DEF Swap, Goto, Exact
<1>5. CASE Untag
    BY <1>5 DEF Untag, Goto, Exact, Changing
<1>6. CASE Check
    BY <1>6 DEF Check, Return, Die, Exact, Changing, disk, Shape, JournalShape
<1> QED BY <1>1, <1>2, <1>3, <1>4, <1>5, <1>6

\* The password change and the calls that use the store.
LEMMA ExactUse ==
    ASSUME Shape, Exact, JournalExact,
           \/ \E old, new \in Passwords : ChangePassword(old, new)
           \/ Copy \/ TagPassword \/ StorePrint \/ UseSecret \/ Close \/ Crash
    PROVE  Exact'
<1>1. CASE \E old, new \in Passwords : ChangePassword(old, new)
    BY <1>1 DEF ChangePassword, Exact
<1>2. CASE Copy
    <2>1. CASE Copyable /\ journal'.file = Copied(Secrets) /\ Goto("tag_password")
        <3>1. /\ \A s \in Secrets : data.file[s] \in {target.old, None}
              /\ journal = None
            BY <1>2, <2>1 DEF Copyable, NeedReencrypt, JournalExact, Exact, Copy
        <3>2. \A s \in Secrets :
                  journal'.file[s] = IF data.file[s] = None THEN None ELSE target.new
            BY <2>1, <3>1 DEF Copied, NeedReencrypt, JournalExact
        <3> QED BY <1>2, <2>1, <3>1, <3>2 DEF Exact, Goto, Copy
    <2>2. CASE Die
        BY <2>2, ExactElsewhere DEF Die
    <2>3. CASE journal' = None /\ Return
        BY <2>3 DEF Exact, Return
    <2> QED BY <1>2, <2>1, <2>2, <2>3 DEF Copy
<1>3. CASE TagPassword
    BY <1>3 DEF TagPassword, WriteFails, JournalExact, Goto, Exact
<1>4. CASE StorePrint
    BY <1>4 DEF StorePrint, Return, Exact, Shape, JournalShape
<1>5. CASE UseSecret
    BY <1>5, UseFacts DEF Exact
<1>6. CASE Close \/ Crash
    BY <1>6, ExactElsewhere DEF Close, Crash, Die
<1> QED BY <1>1, <1>2, <1>3, <1>4, <1>5, <1>6

LEMMA ExactNext == JournalExact /\ Shape /\ Exact /\ [Next]_vars => Exact'
<1> SUFFICES ASSUME JournalExact, Shape, Exact, [Next]_vars PROVE Exact'
    OBVIOUS
<1>1. CASE UNCHANGED vars
    BY <1>1 DEF vars, disk, Exact, Changing
<1> QED BY <1>1, NextCases, ExactOpen, ExactUse

\* While a password is changed, the journal holds the files of data under the new
\* password, no fewer and no others.
LEMMA ExactInvariant == JournalExact => (Spec => []Exact)
<1> SUFFICES ASSUME JournalExact PROVE Spec => []Exact
    OBVIOUS
<1>1. Shape /\ Exact /\ [Next]_vars => Exact'
    BY ExactNext
<1> QED BY <1>1, ExactInit, Invariant, PTL DEF Spec

--------------------------------------------------------------------------------
\* The fingerprint goes with the files.

\* A step that leaves data alone, and the memory if the store stays open.
LEMMA SealedSame ==
    ASSUME Sealed, Shape, UNCHANGED <<data, legacy>>,
           ~(Changing /\ at \in {"untag", "print"}),
           Live' => Live /\ mem' = mem
    PROVE  Sealed'
<1>1. Live /\ data.meta => mem = data.print
    BY LiveFacts
<1> QED BY <1>1 DEF Sealed

LEMMA SealedInit == Init => Sealed
BY DEF Init, Sealed

\* DIDStore_Open and its recovery, and the renames of a password change.
LEMMA SealedOpen ==
    ASSUME Shape, Sealed, PasswordSafe,
           \/ Open \/ CreateStore \/ PostUpgrade \/ MoveV2 \/ PostPassword
           \/ Swap \/ Untag \/ Check \/ Upgrade \/ TagUpgrade
    PROVE  Sealed'
<1>1. CASE Open
    BY <1>1, StepShape, SealedSame DEF Open, disk, Live, Changing
<1>2. CASE CreateStore
    <2>1. PICK m \in BOOLEAN : data' = [file |-> NoFiles, print |-> None, meta |-> m]
        BY <1>2 DEF CreateStore, NewData
    <2> QED BY <2>1 DEF Sealed, NoFiles
<1>3. CASE PostUpgrade
    <2>1. CASE legacy
        BY <1>3, <2>1 DEF PostUpgrade, Sealed
    <2>2. CASE ~legacy
        <3>1. "upgrade" \notin tags
            BY <2>2 DEF Shape, NewShape
        <3> QED BY <1>3, <3>1, StepShape, SealedSame DEF PostUpgrade, DropJournal, Goto, Live, Changing
    <2> QED BY <2>1, <2>2
<1>4. CASE MoveV2
    BY <1>4, StepShape, SealedSame DEF MoveV2, Goto, Live, Changing
<1>5. CASE PostPassword
    <2>1. CASE data' = None
        BY <2>1 DEF Sealed
    <2>2. CASE data' # None
        <3>1. data' = data /\ at' \in {"untag", "check"} /\ ~Changing /\ call' = call
            BY <1>5, <2>2, StepShape
               DEF PostPassword, WriteFails, PasswordSafe, JournalExact, DropJournal, Goto,
                   JournalWhole
        <3>2. UNCHANGED <<data, legacy>> /\ ~Live'
            BY <1>5, <3>1 DEF PostPassword, Live
        <3> QED BY <3>1, <3>2, SealedSame
    <2> QED BY <2>1, <2>2
<1>6. CASE Swap
    BY <1>6, StepShape DEF Swap, Goto, Sealed, Changing
<1>7. CASE Untag
    <2>1. CASE Changing
        BY <1>7, <2>1 DEF Untag, Goto, Sealed, Changing
    <2>2. CASE ~Changing
        BY <1>7, <2>2, SealedSame DEF Untag, Goto, Live, Changing
    <2> QED BY <2>1, <2>2
<1>8. CASE Check
    <2>1. CASE data # None /\ data.meta /\ mem' = data.print /\ Return
        <3>1. ~Live /\ ~Changing /\ Live' /\ UNCHANGED <<data, legacy>>
            BY <1>8, <2>1, StepShape DEF Check, Live, Changing, Return, disk
        <3> QED BY <2>1, <3>1 DEF Sealed
    <2>2. CASE at' \in {"closed", "upgrade"}
        BY <1>8, <2>2, StepShape, SealedSame DEF Check, disk, Live, Changing
    <2> QED BY <1>8, <2>1, <2>2 DEF Check, Die
<1>9. CASE Upgrade \/ TagUpgrade
    BY <1>9, StepShape DEF Upgrade, TagUpgrade, Sealed
<1> QED BY <1>1, <1>2, <1>3, <1>4, <1>5, <1>6, <1>7, <1>8, <1>9

\* The password change and the calls that use the store.
LEMMA SealedUse ==
    ASSUME Shape, Exact, Sealed, PasswordSafe,
           \/ \E old, new \in Passwords : ChangePassword(old, new)
           \/ Copy \/ TagPassword \/ StorePrint \/ UseSecret \/ Close \/ Crash
    PROVE  Sealed'
<1>1. ASSUME NEW old \in Passwords, NEW new \in Passwords, ChangePassword(old, new)
      PROVE  Sealed'
    <2>1. /\ data # None /\ data'.file = data.file /\ Live /\ ~Changing /\ Live'
          /\ mem \in {None, old} /\ mem' = old /\ legacy' = legacy
        BY <1>1, DataWritten, StepShape DEF ChangePassword, Admits, Live
    <2> QED BY <2>1 DEF Sealed
<1>2. CASE Copy
    <2>1. /\ UNCHANGED <<data, legacy>> /\ Live /\ at = "copy"
        BY <1>2 DEF Copy, Live
    <2>2. Live' => mem' = mem
        BY <1>2 DEF Copy, Goto, Return, Die, Live
    <2> QED BY <2>1, <2>2, SealedSame
<1>3. CASE TagPassword
    <2>1. /\ UNCHANGED <<data, legacy>> /\ Live /\ at = "tag_password" /\ mem' = mem
        BY <1>3 DEF TagPassword, Live, Goto, Return
    <2> QED BY <2>1, SealedSame
<1>4. CASE StorePrint
    <2>1. data'.file = data.file /\ mem' = target.new /\ Changing /\ at = "print" /\ Live'
        BY <1>4, DataWritten, StepShape DEF StorePrint, Return, Live
    <2> QED BY <2>1 DEF Sealed, Exact
<1>5. CASE UseSecret
    <2>1. PICK s \in Secrets, f \in File : Used(s, f)
        BY <1>5, UseFacts
    <2>2. /\ at' = "idle" /\ at = "idle" /\ legacy' = legacy
        BY <1>5, UseFacts
    <2>3. data # None /\ ~Changing /\ Live /\ Live' /\ data.file \in [Secrets -> File]
        BY <2>2, StepShape, LiveFacts, TreeFacts DEF Live
    <2>4. ASSUME ~legacy, NEW t \in Secrets
          PROVE  data'.file[t] \in {mem', Lazy, None}
        <3>1. data'.file[t] = IF t = s THEN f ELSE data.file[t]
            BY <2>1, <2>3 DEF Used
        <3>2. data.file[t] \in {mem, Lazy, None}
            BY <2>2, <2>3, <2>4 DEF Sealed
        <3>3. f \in {mem', Lazy, None} /\ mem \in {None, mem'}
            BY <2>1 DEF Used
        <3> QED BY <3>1, <3>2, <3>3
    <2> QED BY <2>2, <2>3, <2>4 DEF Sealed
<1>6. CASE Close \/ Crash
    <2>1. UNCHANGED <<data, legacy>> /\ at \notin {"untag", "print"} /\ ~Live'
        BY <1>6 DEF Close, Crash, Die, disk, PasswordSafe, Live
    <2> QED BY <2>1, SealedSame
<1> QED BY <1>1, <1>2, <1>3, <1>4, <1>5, <1>6

LEMMA SealedNext == PasswordSafe /\ Shape /\ Exact /\ Sealed /\ [Next]_vars => Sealed'
<1> SUFFICES ASSUME PasswordSafe, Shape, Exact, Sealed, [Next]_vars PROVE Sealed'
    OBVIOUS
<1>1. CASE UNCHANGED vars
    BY <1>1 DEF vars, disk, Sealed, Live, Changing
<1> QED BY <1>1, NextCases, SealedOpen, SealedUse

\* Whenever the store is open, its password opens every secret, if no path has
\* "data" in it, the tag and the first rename of a password change succeed, and
\* the process does not die after the renames before the fingerprint is written.
THEOREM SecretsAreReadable == PasswordSafe => (Spec => []Readable)
<1> SUFFICES ASSUME PasswordSafe PROVE Spec => []Readable
    OBVIOUS
<1>1. Shape /\ Exact /\ Sealed /\ [Next]_vars => Sealed'
    BY SealedNext
<1>2. Shape /\ Sealed => Readable
    BY StepShape DEF Sealed, Readable, Live, Changing
<1>3. Spec => []Exact
    BY ExactInvariant DEF PasswordSafe
<1> QED BY <1>1, <1>2, <1>3, SealedInit, Invariant, PTL DEF Spec

--------------------------------------------------------------------------------
\* The directories, the tags and the recovery implement the vault.

LEMMA VaultedInit == Init => Vaulted
BY DEF Init, Vaulted, Live, Changing

\* A step that leaves data and the journal alone.
LEMMA VaultedSame ==
    ASSUME Vaulted, Shape, UNCHANGED data, at # "swap", at' \notin {"swap", "tag_upgrade"},
           tags' \subseteq tags, data = None /\ "upgrade" \in tags' => journal' = journal,
           Live' => Live /\ mem' = mem
    PROVE  Vaulted'
BY DEF Vaulted

\* DIDStore_Open and its recovery, and the renames of a password change.
LEMMA VaultedOpen ==
    ASSUME Shape, Vaulted, VaultSafe,
           \/ Open \/ CreateStore \/ PostUpgrade \/ MoveV2 \/ PostPassword
           \/ Swap \/ Untag \/ Check
    PROVE  Vaulted'
<1>1. CASE Open
    BY <1>1, VaultedSame DEF Open, disk, Live, Changing
<1>2. CASE CreateStore
    <2>1. PICK m \in BOOLEAN : data' = [file |-> NoFiles, print |-> None, meta |-> m]
        BY <1>2 DEF CreateStore, NewData
    <2>2. /\ tags' = {} /\ at' \in {"idle", "closed"} /\ mem' = None /\ call' = "none"
        BY <1>2, StepShape
           DEF CreateStore, Return, Die, EmptyRoot, disk, Shape, MemoryShape
    <2> QED BY <2>1, <2>2 DEF Vaulted, Live, Changing
<1>3. CASE PostUpgrade
    <2>1. CASE "upgrade" \in tags
        <3>1. /\ data' # None /\ at' = "move_v2" /\ tags' = tags
            BY <1>3, <2>1 DEF PostUpgrade, Goto, Shape, JournalShape, JournalWhole
        <3> QED BY <3>1 DEF Vaulted, Live
    <2>2. CASE "upgrade" \notin tags
        BY <1>3, <2>2, StepShape, VaultedSame
           DEF PostUpgrade, DropJournal, Goto, Live, Changing
    <2> QED BY <2>1, <2>2
<1>4. CASE MoveV2
    BY <1>4, StepShape DEF MoveV2, Goto, Vaulted, Live, Changing
<1>5. CASE PostPassword
    <2>1. CASE Goto("swap")
        <3>1. /\ at' = "swap" /\ data' = None /\ "password" \in tags /\ tags' = tags
              /\ "upgrade" \notin tags
            BY <1>5, <2>1, StepShape DEF PostPassword, Goto, Return
        <3> QED BY <3>1 DEF Vaulted, Live
    <2>2. CASE ~Goto("swap")
        <3>1. data' = data /\ at' \in {"untag", "check"} /\ tags' = tags
              /\ "upgrade" \notin tags
            BY <1>5, <2>2, StepShape
               DEF PostPassword, WriteFails, VaultSafe, JournalExact, DropJournal, Goto
        <3> QED BY <1>5, <3>1, VaultedSame DEF PostPassword, Live
    <2> QED BY <2>1, <2>2
<1>6. CASE Swap
    <2>1. data' # None /\ at' = "untag" /\ "upgrade" \notin tags'
        BY <1>6, StepShape DEF Swap, Goto, JournalWhole
    <2> QED BY <2>1 DEF Vaulted, Live
<1>7. CASE Untag
    BY <1>7, VaultedSame DEF Untag, Goto, Live
<1>8. CASE Check
    <2>1. CASE data # None /\ mem' = data.print /\ Return
        <3>1. UNCHANGED <<data, tags>> /\ "upgrade" \notin tags /\ at' = "idle"
            BY <1>8, <2>1, StepShape DEF Check, disk, Return
        <3> QED BY <2>1, <3>1 DEF Vaulted
    <2>2. CASE at' \in {"closed", "upgrade"}
        BY <1>8, <2>2, StepShape, VaultedSame DEF Check, disk, Live, Changing
    <2> QED BY <1>8, <2>1, <2>2 DEF Check, Die
<1> QED BY <1>1, <1>2, <1>3, <1>4, <1>5, <1>6, <1>7, <1>8

\* The upgrade, the password change and the calls that use the store.
LEMMA VaultedUse ==
    ASSUME Shape, Vaulted, VaultSafe,
           \/ Upgrade \/ TagUpgrade
           \/ \E old, new \in Passwords : ChangePassword(old, new)
           \/ Copy \/ TagPassword \/ StorePrint \/ UseSecret \/ Close \/ Crash
    PROVE  Vaulted'
<1>1. CASE Upgrade
    <2>1. data' = None /\ tags' = {} /\ UNCHANGED <<data, tags, v2>>
        BY <1>1, StepShape DEF Upgrade, WriteFails, VaultSafe
    <2>2. CASE journal' = Upgraded(Secrets, TRUE)
        <3>1. v2.file \in [Secrets -> MaybePassword]
            BY DEF Shape, TypeOK, OldTree
        <3>2. Without(v2.file, Secrets \ Secrets) = v2.file
            BY <3>1 DEF Without
        <3>3. journal'.file = v2'.file /\ journal'.print = None
            BY <2>1, <2>2, <3>2 DEF Upgraded
        <3>4. at' \in {"tag_upgrade", "closed"}
            BY <1>1 DEF Upgrade, Goto, Die
        <3> QED BY <2>1, <3>3, <3>4 DEF Vaulted, Live
    <2>3. CASE Die
        BY <2>1, <2>3 DEF Vaulted, Live, Die
    <2> QED BY <1>1, <2>2, <2>3 DEF Upgrade
<1>2. CASE TagUpgrade
    <2>1. /\ data = None /\ UNCHANGED <<data, journal>> /\ tags' \in {{}, {"upgrade"}}
          /\ at' \in {"post_upgrade", "closed"} /\ at = "tag_upgrade"
        BY <1>2, StepShape DEF TagUpgrade, WriteTag, Goto, Die
    <2> QED BY <2>1 DEF Vaulted, Live
<1>3. ASSUME NEW old \in Passwords, NEW new \in Passwords, ChangePassword(old, new)
      PROVE  Vaulted'
    <2>1. /\ data # None /\ data \in Tree /\ data' = Stamped(data, old) /\ mem \in {None, old}
          /\ mem' = old /\ mem = data.print /\ at' = "copy" /\ tags' = tags
          /\ "upgrade" \notin tags
        BY <1>3, LiveFacts DEF ChangePassword, Admits, Live, Vaulted
    <2>2. mem' = data'.print
        BY <2>1, StampedFacts
    <2>3. data' # None
        BY <1>3, DataWritten
    <2> QED BY <2>1, <2>2, <2>3 DEF Vaulted
<1>4. CASE Copy
    <2>1. /\ data # None /\ UNCHANGED <<data, tags>> /\ "upgrade" \notin tags /\ at = "copy"
          /\ at' \in {"tag_password", "idle", "closed"}
          /\ at' # "closed" => mem' = mem
        BY <1>4, StepShape DEF Copy, Goto, Return, Die
    <2> QED BY <2>1, VaultedSame DEF Live
<1>5. CASE TagPassword
    <2>1. /\ data # None /\ data' = data /\ "upgrade" \notin tags'
          /\ at = "tag_password" /\ mem' = mem /\ at' \in {"post_password", "idle"}
        BY <1>5, StepShape DEF TagPassword, WriteTag, Goto, Return
    <2> QED BY <2>1 DEF Vaulted, Live
<1>6. CASE StorePrint
    <2>1. /\ data # None /\ data \in Tree /\ data' = [data EXCEPT !.print = target.new]
          /\ mem' = target.new /\ at' = "idle" /\ tags' = tags /\ "upgrade" \notin tags
        BY <1>6, StepShape
           DEF StorePrint, Return, WriteFails, VaultSafe, Shape, TypeOK
    <2>2. mem' = data'.print
        BY <2>1 DEF Tree
    <2>3. data' # None
        BY <1>6, DataWritten
    <2> QED BY <2>1, <2>2, <2>3 DEF Vaulted
<1>7. CASE UseSecret
    <2>1. PICK s \in Secrets, f \in File : Used(s, f)
        BY <1>7, UseFacts
    <2>2. at' = "idle" /\ at = "idle" /\ tags' = tags /\ "upgrade" \notin tags
        BY <1>7, UseFacts, StepShape
    <2>3. data' # None /\ mem = data.print
        BY <2>1, <2>2, TreeAssumption DEF Used, Vaulted, Live
    <2>4. mem' = data'.print
        BY <2>1, <2>3 DEF Used
    <2> QED BY <2>2, <2>3, <2>4 DEF Vaulted
<1>8. CASE Close \/ Crash
    BY <1>8, VaultedSame DEF Close, Crash, Die, disk, VaultSafe, Live
<1> QED BY <1>1, <1>2, <1>3, <1>4, <1>5, <1>6, <1>7, <1>8

LEMMA VaultedNext == VaultSafe /\ Shape /\ Vaulted /\ [Next]_vars => Vaulted'
<1> SUFFICES ASSUME VaultSafe, Shape, Vaulted, [Next]_vars PROVE Vaulted'
    OBVIOUS
<1>1. CASE UNCHANGED vars
    BY <1>1 DEF vars, disk, Vaulted, Live, Changing
<1> QED BY <1>1, NextCases, VaultedOpen, VaultedUse

\* The vault does not move if its contents and its password stay.
LEMMA VaultStutters ==
    ASSUME Contents' = Contents, Password' = Password
    PROVE  UNCHANGED Vault!vars
BY DEF Vault!vars

\* A step that leaves data, and the files of the old store that stand for them.
LEMMA VaultSame ==
    ASSUME UNCHANGED data, data = None => v2' = v2 /\ tags = {} /\ tags' = {},
           at \notin {"swap", "untag", "print"} \/ ~Changing,
           at' \notin {"swap", "untag", "print"} \/ ~Changing'
    PROVE  UNCHANGED Vault!vars
<1>1. Contents' = Contents
    BY DEF Contents
<1>2. Password' = Password
    BY DEF Password, Changing
<1> QED BY <1>1, <1>2, VaultStutters

\* Without data, the tags are those of an upgrade, or there are none.
LEMMA TagsWithoutData ==
    ASSUME Shape, Vaulted, data = None, at # "swap"
    PROVE  /\ tags \subseteq {"upgrade"}
           /\ at \notin {"closed", "post_upgrade", "move_v2"} => tags = {}
BY StepShape DEF Vaulted, Shape, TypeOK

LEMMA VaultInit == Init => Vault!Init
<1> SUFFICES ASSUME Init PROVE Vault!Init
    OBVIOUS
<1>1. Contents = v2.file /\ Password = None
    BY DEF Init, Contents, Password
<1>2. v2.file \in [Secrets -> Passwords \cup {None}]
    BY DEF Init
<1> QED BY <1>1, <1>2 DEF Vault!Init

\* The recovery changes nothing, whatever it finds.
LEMMA VaultOpen ==
    ASSUME Shape, Vaulted, VaultSafe,
           \/ Open \/ CreateStore \/ PostUpgrade \/ MoveV2
           \/ Untag \/ Swap \/ Check \/ Upgrade \/ TagUpgrade
    PROVE  UNCHANGED Vault!vars
<1>1. CASE Open
    <2>1. /\ UNCHANGED <<data, journal, tags, v2>> /\ ~Changing /\ ~Changing'
        BY <1>1, StepShape DEF Open, disk, Changing
    <2>2. Contents' = Contents /\ Password' = Password
        BY <2>1 DEF Contents, Password, Changing
    <2> QED BY <2>2, VaultStutters
<1>2. CASE CreateStore
    <2>1. PICK m \in BOOLEAN : data' = [file |-> NoFiles, print |-> None, meta |-> m]
        BY <1>2 DEF CreateStore, NewData
    <2>2. /\ data = None /\ tags = {} /\ v2 = NoV2 /\ at' \in {"idle", "closed"} /\ at = "create"
        BY <1>2, StepShape DEF CreateStore, Return, Die, EmptyRoot, disk
    <2>3. data' # None
        BY <2>1, NewTree
    <2>4. Contents' = Contents
        BY <2>1, <2>2, <2>3 DEF Contents, NoV2
    <2>5. Password' = Password
        BY <2>1, <2>2, <2>3 DEF Password
    <2> QED BY <2>4, <2>5, VaultStutters
<1>3. CASE PostUpgrade
    <2>0. ~Changing /\ ~Changing' /\ UNCHANGED <<tags, v2>>
        BY <1>3, StepShape DEF PostUpgrade, Goto, Changing
    <2>1. CASE "upgrade" \in tags /\ data = None
        <3>1. data' = journal /\ journal # None /\ journal.print = None
            BY <1>3, <2>1 DEF PostUpgrade, Shape, JournalShape, JournalWhole, Vaulted
        <3>2. Contents' = Contents
            BY <2>1, <3>1 DEF Contents
        <3>3. Password' = Password
            BY <2>0, <2>1, <3>1 DEF Password, Changing
        <3> QED BY <3>2, <3>3, VaultStutters
    <2>2. CASE ~("upgrade" \in tags /\ data = None)
        <3>1. data' = data
            BY <1>3, <2>2 DEF PostUpgrade, DropJournal
        <3>2. data = None => tags = {}
            BY <1>3, <2>2, TagsWithoutData DEF PostUpgrade
        <3> QED BY <2>0, <3>1, <3>2, VaultSame
    <2> QED BY <2>1, <2>2
<1>4. CASE MoveV2
    BY <1>4, StepShape, VaultSame DEF MoveV2, Goto, Changing
<1>5. CASE Swap
    <2>1. /\ data = None /\ "password" \in tags /\ Changing /\ Changing' /\ journal # None
          /\ data' = journal /\ at = "swap" /\ at' = "untag" /\ target' = target
        BY <1>5, StepShape DEF Swap, Goto, Vaulted, JournalWhole, Changing
    <2>2. Contents' = Contents
        BY <2>1 DEF Contents
    <2>3. Password' = Password
        BY <2>1 DEF Password, Changing
    <2> QED BY <2>2, <2>3, VaultStutters
<1>6. CASE Untag
    <2>1. /\ UNCHANGED <<data, v2, target, call>> /\ at = "untag"
          /\ at' = (IF Changing THEN "print" ELSE "check")
          /\ tags' = tags \ {"password"} /\ (data = None => tags = {})
          /\ (Changing => data # None)
        BY <1>6, StepShape, TagsWithoutData DEF Untag, Goto, Changing
    <2>2. Contents' = Contents
        BY <2>1 DEF Contents
    <2>3. Password' = Password
        BY <2>1 DEF Password, Changing
    <2> QED BY <2>2, <2>3, VaultStutters
<1>7. CASE Check
    BY <1>7, StepShape, TagsWithoutData, VaultSame DEF Check, disk, Return, Die, Changing
<1>8. CASE Upgrade
    BY <1>8, StepShape, VaultSame DEF Upgrade, WriteFails, VaultSafe, Goto, Die, Changing
<1>9. CASE TagUpgrade
    <2>1. /\ UNCHANGED <<data, journal, v2>> /\ data = None /\ tags = {} /\ journal.file = v2.file
          /\ ~Changing /\ at' \in {"post_upgrade", "closed"}
        BY <1>9, StepShape DEF TagUpgrade, Goto, Die, Vaulted, Changing
    <2>2. Contents' = Contents
        BY <2>1 DEF Contents
    <2>3. Password' = Password
        BY <2>1 DEF Password, Changing
    <2> QED BY <2>2, <2>3, VaultStutters
<1> QED BY <1>1, <1>2, <1>3, <1>4, <1>5, <1>6, <1>7, <1>8, <1>9

\* The password changes for all secrets at the first rename, and at no other step.
LEMMA VaultPostPassword ==
    ASSUME Shape, Exact, Vaulted, VaultSafe, PostPassword
    PROVE  Vault!Next \/ UNCHANGED Vault!vars
<1>1. CASE Goto("swap")
    <2>1. /\ data # None /\ journal # None /\ data' = None /\ UNCHANGED <<tags, journal, target, call>>
          /\ "password" \in tags /\ Changing /\ at = "post_password" /\ at' = "swap"
        BY <1>1, StepShape DEF PostPassword, Goto, Return
    <2>2. /\ data.print = target.old /\ target.new \in Passwords
          /\ journal.file \in [Secrets -> File]
        BY <2>1, TreeFacts DEF Vaulted, Live, Shape, TypeOK, MemoryShape
    <2>3. /\ \A s \in Secrets : data.file[s] \in {target.old, None}
          /\ \A s \in Secrets :
                journal.file[s] = IF data.file[s] = None THEN None ELSE target.new
        BY <2>1 DEF Exact
    <2>4. Contents = data.file /\ Contents' = journal.file
        BY <2>1 DEF Contents
    <2>5. Password = target.old /\ Password' = target.new
        BY <2>1, <2>2 DEF Password, Changing
    <2>6. Contents' = [s \in Secrets |-> IF Contents[s] = None THEN None ELSE target.new]
        BY <2>2, <2>3, <2>4
    <2>7. Vault!Rekey(target.new)
        BY <2>3, <2>4, <2>5, <2>6 DEF Vault!Rekey
    <2> QED BY <2>2, <2>7 DEF Vault!Next
<1>2. CASE ~Goto("swap")
    <2>1. /\ data' = data /\ UNCHANGED <<tags, v2, call>> /\ ~Changing
          /\ data = None => tags = {}
        BY <1>2, StepShape, TagsWithoutData
           DEF PostPassword, WriteFails, VaultSafe, JournalExact, DropJournal, Goto, JournalWhole
    <2> QED BY <2>1, VaultSame DEF Changing
<1> QED BY <1>1, <1>2

\* The other steps of a password change, and the end of a process.
LEMMA VaultChange ==
    ASSUME Shape, Vaulted, VaultSafe,
           \/ \E old, new \in Passwords : ChangePassword(old, new)
           \/ Copy \/ TagPassword \/ StorePrint \/ Close \/ Crash
    PROVE  Vault!Next \/ UNCHANGED Vault!vars
<1>1. ASSUME NEW old \in Passwords, NEW new \in Passwords, ChangePassword(old, new)
      PROVE  Vault!Next
    <2>1. /\ data # None /\ data \in Tree /\ data' = Stamped(data, old) /\ mem \in {None, old}
          /\ mem = data.print /\ at' = "copy" /\ at = "idle"
        BY <1>1, LiveFacts DEF ChangePassword, Admits, Live, Vaulted
    <2>2. data' # None /\ data'.file = data.file
        BY <1>1, DataWritten
    <2>3. data'.print = old
        BY <2>1, StampedFacts, JournalAssumption
    <2>4. Contents' = Contents
        BY <2>1, <2>2 DEF Contents
    <2>5. Password = mem /\ Password' = old
        BY <2>1, <2>2, <2>3 DEF Password
    <2>6. Vault!Get(old)
        BY <2>1, <2>4, <2>5 DEF Vault!Get, Vault!Use
    <2> QED BY <2>6 DEF Vault!Next
<1>2. CASE Copy \/ TagPassword
    <2>1. /\ data # None /\ data' = data /\ at \in {"copy", "tag_password"}
          /\ at' \in {"tag_password", "post_password", "idle", "closed"}
        BY <1>2, StepShape DEF Copy, TagPassword, Goto, Return, Die
    <2> QED BY <2>1, VaultSame
<1>3. CASE StorePrint
    <2>1. /\ data # None /\ data \in Tree /\ data' = [data EXCEPT !.print = target.new]
          /\ at = "print" /\ at' = "idle" /\ Changing
        BY <1>3, StepShape
           DEF StorePrint, Return, WriteFails, VaultSafe, Shape, TypeOK
    <2>2. data' # None /\ data'.file = data.file
        BY <1>3, DataWritten
    <2>3. data'.print = target.new
        BY <2>1 DEF Tree
    <2>4. Contents' = Contents
        BY <2>1, <2>2 DEF Contents
    <2>5. Password' = Password
        BY <2>1, <2>2, <2>3 DEF Password, Changing
    <2> QED BY <2>4, <2>5, VaultStutters
<1>4. CASE Close \/ Crash
    <2>1. /\ UNCHANGED <<data, journal, tags, v2>> /\ at' = "closed"
          /\ at \notin {"swap", "untag", "print"}
        BY <1>4 DEF Close, Crash, Die, disk, VaultSafe
    <2>2. Contents' = Contents /\ Password' = Password
        BY <2>1 DEF Contents, Password
    <2> QED BY <2>2, VaultStutters
<1> QED BY <1>1, <1>2, <1>3, <1>4

\* The calls on secrets are those of the vault.
LEMMA VaultUse ==
    ASSUME Shape, Vaulted, UseSecret
    PROVE  Vault!Next
<1>1. PICK s \in Secrets, f \in File : Used(s, f)
    BY UseFacts
<1>2. at' = "idle" /\ at = "idle"
    BY UseFacts
<1>3. /\ data # None /\ data' # None /\ mem = data.print
      /\ data'.file = [data.file EXCEPT ![s] = f]
    BY <1>1, <1>2, StepShape, TreeAssumption DEF Used, Vaulted, Live
<1>4. Contents' = [Contents EXCEPT ![s] = f]
    BY <1>3 DEF Contents
<1>5. Password = data.print /\ Password' = data'.print
    BY <1>2, <1>3 DEF Password
<1>6. CASE f \in Passwords /\ mem \in {None, f} /\ mem' = f
    <2>1. data'.print = f
        BY <1>1, <1>3, <1>6, JournalAssumption DEF Used
    <2>2. Vault!Put(s, f)
        BY <1>3, <1>4, <1>5, <1>6, <2>1 DEF Vault!Put, Vault!Use
    <2> QED BY <1>6, <2>2 DEF Vault!Next
<1>7. CASE f \in {Lazy, None} /\ data'.print = data.print
    <2>1. Vault!PutLazy(s) \/ Vault!Drop(s)
        BY <1>4, <1>5, <1>7 DEF Vault!PutLazy, Vault!Drop
    <2> QED BY <2>1 DEF Vault!Next
<1> QED BY <1>1, <1>6, <1>7 DEF Used

LEMMA VaultNext ==
    VaultSafe /\ Shape /\ Exact /\ Vaulted /\ [Next]_vars => [Vault!Next]_(Vault!vars)
<1> SUFFICES ASSUME VaultSafe, Shape, Exact, Vaulted, [Next]_vars
             PROVE  Vault!Next \/ UNCHANGED Vault!vars
    OBVIOUS
<1>1. CASE UNCHANGED vars
    <2>1. Contents' = Contents /\ Password' = Password
        BY <1>1 DEF vars, disk, Contents, Password
    <2> QED BY <2>1, VaultStutters
<1> QED BY <1>1, NextCases, VaultOpen, VaultPostPassword, VaultChange, VaultUse

\* The directories, tags and recovery implement the vault, which changes the
\* password of all secrets in one step, if what the promises above rest on holds.
THEOREM Refinement == VaultSafe => (Spec => ImplementsVault)
<1> SUFFICES ASSUME VaultSafe PROVE Spec => ImplementsVault
    OBVIOUS
<1>1. Init => Vaulted
    BY VaultedInit
<1>2. Shape /\ Vaulted /\ [Next]_vars => Vaulted'
    BY VaultedNext
<1>3. Spec => []Exact
    BY ExactInvariant DEF VaultSafe
<1>4. Shape /\ Exact /\ Vaulted /\ [Next]_vars => [Vault!Next]_(Vault!vars)
    BY VaultNext
<1> QED BY <1>1, <1>2, <1>3, <1>4, VaultInit, Invariant, PTL
        DEF Spec, ImplementsVault, Vault!Spec

================================================================================
