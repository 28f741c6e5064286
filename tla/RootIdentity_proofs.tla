--------------------------- MODULE RootIdentity_proofs ---------------------------
(***************************************************************************)
(* Proofs about RootIdentity, for any number of indexes, any gap and any    *)
(* number of calls.                                                         *)
(***************************************************************************)
EXTENDS RootIdentity, TLAPS

\* A stored root identity has an index.
IndexKnown == root = "stored" => next \in 0..N

\* A call that creates a DID has stored its key before its document, and remembers
\* that it overwrites one.
NewSound ==
    task # None /\ task.op = "new" =>
        /\ task.at = "key" => docs[task.i] = "none" \/ task.i \in given
        /\ task.at \in {"doc", "meta"} => keys[task.i] = "stored"

\* The loop of Synchronize counts the blanks since the last index it knows.
Counted(t) ==
    \/ t.i <= t.last /\ t.blanks = 0
    \/ t.i = t.last + 1 + t.blanks

\* What a synchronization has found at index j is in the store.
Caught(t, j) == j <= t.last /\ docs[j] # "none" /\ keys[j] # "none" /\ j \in tagged

\* Whatever the chain had when it began, the loop has caught, missed, or has still
\* to come to.
LoopSound(t) ==
    /\ handle # None /\ handle <= t.last + 1
    /\ Counted(t)
    /\ \A j \in t.due : Live(j) /\ (j < t.i => j \in t.missed \/ Caught(t, j))
    /\ t.at # "look" => Live(t.i) /\ (t.i < t.last \/ t.blanks < Gap)
    /\ t.at = "doc" => t.take # "none"
    /\ t.at \in {"meta", "key"} => docs[t.i] # "none"
    /\ t.at = "key" => t.i \in tagged

SyncSound == task # None /\ task.op = "sync" => LoopSound(task)

\* The inductive invariant.
IInv ==
    /\ TypeOK
    /\ KeysRecoverable
    /\ IndexKnown
    /\ NewSound
    /\ SyncSound

--------------------------------------------------------------------------------
\* Tasks.

CreateTask == [op : {"create"}, at : {"keys", "index"}]

NewTask == [op : {"new"}, at : {"key", "doc", "meta", "index"}, i : Index, advance : BOOLEAN]

SyncTask ==
    [op : {"sync"}, at : {"look", "doc", "meta", "key"}, i : 0..N + Gap, last : -1..N - 1,
     blanks : 0..Gap, take : {"none", "draft", "copy", "gone"},
     due : SUBSET Index, missed : SUBSET Index]

\* What a call is doing says what is known of it.
LEMMA TaskKinds ==
    ASSUME TypeOK, task # None
    PROVE  /\ task.op = "create" => task \in CreateTask
           /\ task.op = "new" => task \in NewTask
           /\ task.op = "sync" => task \in SyncTask
           /\ task.op \in {"create", "new", "sync"}
<1>1. task \in CreateTask \cup NewTask \cup SyncTask
    BY DEF TypeOK, Task, CreateTask, NewTask, SyncTask
<1> QED BY <1>1 DEF CreateTask, NewTask, SyncTask

LEMMA TaskIntro == CreateTask \cup NewTask \cup SyncTask \subseteq Task
BY DEF Task, CreateTask, NewTask, SyncTask

\* The next index of the loop, after a find or a blank.
LEMMA CountedOn ==
    ASSUME NEW t \in SyncTask, Counted(t), t.i < t.last \/ t.blanks < Gap
    PROVE  /\ Blank(t) \in SyncTask /\ Missed(t) \in SyncTask
           /\ Blank(t).i = t.i + 1 /\ Missed(t).i = t.i + 1
           /\ Blank(t).at = "look" /\ Missed(t).at = "look"
           /\ Blank(t).last = t.last /\ Missed(t).last = t.last
           /\ Blank(t).due = t.due /\ Missed(t).due = t.due
           /\ Blank(t).missed = t.missed /\ Missed(t).missed = t.missed \cup ({t.i} \cap Index)
           /\ Counted(Blank(t)) /\ Counted(Missed(t))
<1> DEFINE b == IF t.i > t.last THEN t.blanks + 1 ELSE t.blanks
<1>1. t.i \in Nat /\ t.last \in Int /\ t.blanks \in Nat /\ Gap \in Nat /\ N \in Nat
      /\ t.last <= N - 1 /\ t.blanks <= Gap
    BY RootAssumption DEF SyncTask
<1>2. b \in 0..Gap /\ t.i + 1 \in 0..N + Gap
      /\ ((t.i + 1 <= t.last /\ b = 0) \/ t.i + 1 = t.last + 1 + b)
    BY <1>1 DEF Counted
<1> HIDE DEF b
<1>3. /\ Blank(t) \in SyncTask /\ Blank(t).i = t.i + 1 /\ Blank(t).at = "look"
      /\ Blank(t).last = t.last /\ Blank(t).due = t.due /\ Blank(t).missed = t.missed
      /\ Blank(t).blanks = b
    BY <1>2 DEF Blank, SyncTask, b
<1> DEFINE u == Blank(t)
<1>4. u \in SyncTask
    BY <1>3
<1>5. Missed(t) = [u EXCEPT !.missed = @ \cup ({t.i} \cap Index)]
    BY DEF Missed
<1> HIDE DEF u
<1>6. /\ Missed(t) \in SyncTask /\ Missed(t).i = u.i /\ Missed(t).at = u.at
      /\ Missed(t).last = u.last /\ Missed(t).due = u.due /\ Missed(t).blanks = u.blanks
      /\ Missed(t).missed = u.missed \cup ({t.i} \cap Index)
    BY <1>4, <1>5 DEF SyncTask
<1>7. Counted(Blank(t)) /\ Counted(Missed(t))
    BY <1>2, <1>3, <1>6 DEF Counted, u
<1> QED BY <1>3, <1>6, <1>7 DEF u

LEMMA CountedFound ==
    ASSUME NEW t \in SyncTask, Counted(t), t.i \in Index
    PROVE  /\ Found(t) \in SyncTask /\ Found(t).i = t.i + 1 /\ Found(t).at = "look"
           /\ t.last <= Found(t).last /\ t.i <= Found(t).last
           /\ Found(t).due = t.due /\ Found(t).missed = t.missed
           /\ Counted(Found(t))
<1> DEFINE l == IF t.i > t.last THEN t.i ELSE t.last
<1>1. t.i \in Nat /\ t.last \in Int /\ t.blanks \in Nat /\ Gap \in Nat /\ N \in Nat
      /\ t.last <= N - 1 /\ -1 <= t.last /\ t.blanks <= Gap /\ t.i <= N - 1
    BY RootAssumption DEF SyncTask, Index
<1>2. l \in -1..N - 1 /\ t.i + 1 \in 0..N + Gap /\ 0 \in 0..Gap /\ t.last <= l /\ t.i <= l
      /\ (t.i + 1 <= l \/ t.i + 1 = l + 1 + 0)
    BY <1>1
<1> HIDE DEF l
<1>3. /\ Found(t) \in SyncTask /\ Found(t).i = t.i + 1 /\ Found(t).at = "look"
      /\ Found(t).last = l /\ Found(t).due = t.due /\ Found(t).missed = t.missed
      /\ Found(t).blanks = 0
    BY <1>2 DEF Found, SyncTask, l
<1> QED BY <1>2, <1>3 DEF Counted

--------------------------------------------------------------------------------
\* The invariant, action by action.

LEMMA InvInit == Init => IInv
BY RootAssumption DEF Init, IInv, TypeOK, KeysRecoverable, IndexKnown, NewSound, SyncSound,
                      Index, Docs

\* The invariant asks little of a state without a task.
LEMMA IdleKeeps ==
    ASSUME TypeOK', KeysRecoverable', IndexKnown', task' = None
    PROVE  IInv'
BY DEF IInv, NewSound, SyncSound

LEMMA InvCreate ==
    ASSUME IInv, NEW overwrite \in BOOLEAN, Create(overwrite), calls' \in 0..MaxCalls
    PROVE  IInv'
<1>1. task' \in CreateTask /\ task'.op = "create"
      /\ UNCHANGED <<root, next, docs, tagged, keys, given, handle, chain>>
    BY DEF Create, CreateTask, store
<1>2. TypeOK'
    BY <1>1, TaskIntro DEF IInv, TypeOK
<1> QED BY <1>1, <1>2 DEF IInv, KeysRecoverable, IndexKnown, NewSound, SyncSound, Live

LEMMA InvCreateKeys ==
    ASSUME IInv, CreateKeys, calls' = calls
    PROVE  IInv'
<1>1. task \in CreateTask
    BY TaskKinds DEF IInv, CreateKeys, Doing
<1>2. task' \in CreateTask /\ task'.op = "create" /\ root' \in {root, "partial"}
      /\ UNCHANGED <<next, docs, tagged, keys, given, handle, chain>>
    BY <1>1 DEF CreateKeys, CreateTask, store
<1>3. TypeOK'
    BY <1>2, TaskIntro DEF IInv, TypeOK
<1> QED BY <1>2, <1>3 DEF IInv, KeysRecoverable, IndexKnown, NewSound, SyncSound, Live

LEMMA InvCreateIndex ==
    ASSUME IInv, CreateIndex, calls' = calls
    PROVE  IInv'
<1>1. task' = None /\ root' = "stored" /\ next' = 0 /\ handle' = 0
      /\ UNCHANGED <<docs, tagged, keys, given, chain>>
    BY DEF CreateIndex, store
<1>2. TypeOK' /\ IndexKnown'
    BY <1>1, RootAssumption DEF IInv, TypeOK, IndexKnown
<1>3. KeysRecoverable'
    BY <1>1 DEF IInv, KeysRecoverable, Live
<1> QED BY <1>1, <1>2, <1>3, IdleKeeps

LEMMA InvLoad ==
    ASSUME IInv, task = None, Load, calls' \in 0..MaxCalls
    PROVE  IInv'
<1>1. TypeOK' /\ IndexKnown'
    BY DEF IInv, TypeOK, IndexKnown, Load, store
<1>2. KeysRecoverable'
    BY DEF IInv, KeysRecoverable, Live, Load, store
<1> QED BY <1>1, <1>2, IdleKeeps DEF Load

LEMMA InvDeleteRootIdentity ==
    ASSUME IInv, task = None, DeleteRootIdentity, calls' \in 0..MaxCalls
    PROVE  IInv'
<1>1. TypeOK' /\ IndexKnown'
    BY RootAssumption DEF IInv, TypeOK, IndexKnown, DeleteRootIdentity, store
<1>2. KeysRecoverable'
    BY DEF IInv, KeysRecoverable, Live, DeleteRootIdentity, store
<1> QED BY <1>1, <1>2, IdleKeeps DEF DeleteRootIdentity

LEMMA InvStartNew ==
    ASSUME IInv, NEW i \in Index, NEW advance \in BOOLEAN, NEW overwrite \in BOOLEAN,
           StartNew(i, advance, overwrite), calls' \in 0..MaxCalls
    PROVE  IInv'
<1>1. /\ task' = [op |-> "new", at |-> "key", i |-> i, advance |-> advance]
      /\ given \subseteq given' /\ given' \subseteq Index
      /\ docs[i] # "none" => i \in given'
      /\ UNCHANGED <<root, next, docs, tagged, keys, handle, chain>>
    BY DEF StartNew, store, IInv, TypeOK
<1>2. task' \in NewTask
    BY <1>1 DEF NewTask
<1>3. TypeOK'
    BY <1>1, <1>2, TaskIntro DEF IInv, TypeOK
<1>4. KeysRecoverable'
    BY <1>1 DEF IInv, KeysRecoverable, Live
<1> QED BY <1>1, <1>3, <1>4 DEF IInv, IndexKnown, NewSound, SyncSound

\* What is known of a call that creates a DID.
LEMMA NewFacts ==
    ASSUME IInv, NEW at, Doing("new", at)
    PROVE  /\ task \in NewTask /\ task.i \in Index /\ task.op = "new" /\ task.at = at
           /\ at = "key" => docs[task.i] = "none" \/ task.i \in given
           /\ at \in {"doc", "meta"} => keys[task.i] = "stored"
<1>1. task \in NewTask
    BY TaskKinds DEF IInv, Doing
<1> QED BY <1>1 DEF IInv, Doing, NewSound, NewTask

LEMMA InvNewKey ==
    ASSUME IInv, NewKey, calls' = calls
    PROVE  IInv'
<1>1. task \in NewTask /\ task.i \in Index
    BY NewFacts DEF NewKey
<1>2. /\ keys' = [keys EXCEPT ![task.i] = "stored"]
      /\ task' \in NewTask /\ task'.op = "new" /\ task'.at = "doc" /\ task'.i = task.i
      /\ UNCHANGED <<root, next, docs, tagged, given, handle, chain>>
    BY <1>1 DEF NewKey, NewTask
<1>3. TypeOK'
    BY <1>1, <1>2, TaskIntro DEF IInv, TypeOK
<1>4. KeysRecoverable'
    BY <1>1, <1>2 DEF IInv, TypeOK, KeysRecoverable, Live
<1> QED BY <1>1, <1>2, <1>3, <1>4 DEF IInv, TypeOK, IndexKnown, NewSound, SyncSound

LEMMA InvNewDoc ==
    ASSUME IInv, NewDoc, calls' = calls
    PROVE  IInv'
<1>1. task \in NewTask /\ task.i \in Index /\ keys[task.i] = "stored"
    BY NewFacts DEF NewDoc
<1>2. /\ docs' = [docs EXCEPT ![task.i] = "draft"]
      /\ task' \in NewTask /\ task'.op = "new" /\ task'.at = "meta" /\ task'.i = task.i
      /\ UNCHANGED <<root, next, keys, tagged, given, handle, chain>>
    BY <1>1 DEF NewDoc, WriteDoc, NewTask
<1>3. TypeOK'
    BY <1>1, <1>2, TaskIntro DEF IInv, TypeOK, Docs
<1>4. KeysRecoverable'
    BY <1>1, <1>2 DEF IInv, TypeOK, KeysRecoverable, Live
<1> QED BY <1>1, <1>2, <1>3, <1>4 DEF IInv, IndexKnown, NewSound, SyncSound

LEMMA InvNewMeta ==
    ASSUME IInv, NewMeta, calls' = calls
    PROVE  IInv'
<1>1. task \in NewTask /\ task.i \in Index /\ keys[task.i] = "stored"
    BY NewFacts DEF NewMeta
<1>2. /\ tagged' = tagged \cup {task.i} /\ given' = given \ {task.i}
      /\ \/ task' \in NewTask /\ task'.op = "new" /\ task'.at = "index"
         \/ task' = None
      /\ UNCHANGED <<root, next, keys, docs, handle, chain>>
    BY <1>1 DEF NewMeta, NewTask
<1>3. TypeOK'
    BY <1>1, <1>2, TaskIntro DEF IInv, TypeOK
<1>4. KeysRecoverable'
    BY <1>1, <1>2 DEF IInv, KeysRecoverable, Live
<1> QED BY <1>2, <1>3, <1>4 DEF IInv, IndexKnown, NewSound, SyncSound

LEMMA InvNewIndex ==
    ASSUME IInv, NewIndex, calls' = calls
    PROVE  IInv'
<1>1. task.i \in Index
    BY NewFacts DEF NewIndex
<1>2. task.i + 1 \in 0..N
    BY <1>1, RootAssumption DEF Index
<1>3. TypeOK' /\ IndexKnown'
    BY <1>2 DEF IInv, TypeOK, IndexKnown, NewIndex, store
<1>4. KeysRecoverable'
    BY DEF IInv, KeysRecoverable, Live, NewIndex, store
<1> QED BY <1>3, <1>4, IdleKeeps DEF NewIndex

\* A DID that is deleted leaves nothing behind.
LEMMA ForgottenKeeps ==
    ASSUME IInv, NEW i \in Index, Forgotten(i), UNCHANGED <<root, next, handle, chain>>,
           task' = None, calls' \in 0..MaxCalls
    PROVE  IInv'
<1>1. TypeOK' /\ IndexKnown'
    BY DEF IInv, TypeOK, IndexKnown, Forgotten, Docs
<1>2. KeysRecoverable'
    BY DEF IInv, TypeOK, KeysRecoverable, Live, Forgotten
<1> QED BY <1>1, <1>2, IdleKeeps

\* So does a default key that is lost, if its document is about to be replaced.
LEMMA LostKeyKeeps ==
    ASSUME IInv, NEW i \in Index, docs[i] = "none" \/ i \in given \/ Live(i),
           keys' = [keys EXCEPT ![i] = "none"], task' = None,
           UNCHANGED <<root, next, docs, tagged, given, chain>>,
           handle' \in {handle, None}, calls' \in 0..MaxCalls
    PROVE  IInv'
<1>1. TypeOK' /\ IndexKnown'
    BY DEF IInv, TypeOK, IndexKnown
<1>2. KeysRecoverable'
    BY DEF IInv, TypeOK, KeysRecoverable, Live
<1> QED BY <1>1, <1>2, IdleKeeps

LEMMA InvNewFails ==
    ASSUME IInv, NewFails, calls' = calls
    PROVE  IInv'
<1>1. task # None /\ task.op = "new" /\ task \in NewTask /\ task.i \in Index
      /\ calls' \in 0..MaxCalls
    BY TaskKinds DEF NewFails, IInv, NewTask, TypeOK
<1>2. CASE task.at = "key" /\ keys' = [keys EXCEPT ![task.i] = "none"]
           /\ UNCHANGED <<docs, tagged, given>>
    <2>1. docs[task.i] = "none" \/ task.i \in given
        BY <1>1, <1>2, NewFacts DEF Doing
    <2> QED BY <1>1, <1>2, <2>1, LostKeyKeeps DEF NewFails
<1>3. CASE Forgotten(task.i)
    BY <1>1, <1>3, ForgottenKeeps DEF NewFails
<1>4. CASE UNCHANGED <<store, given>>
    <2>1. UNCHANGED <<root, next, docs, tagged, keys, given, handle, chain>> /\ task' = None
        BY <1>4 DEF NewFails, store
    <2>2. TypeOK' /\ IndexKnown' /\ KeysRecoverable'
        BY <1>1, <2>1 DEF IInv, TypeOK, IndexKnown, KeysRecoverable, Live
    <2> QED BY <2>1, <2>2, IdleKeeps
<1> QED BY <1>2, <1>3, <1>4 DEF NewFails

--------------------------------------------------------------------------------
\* Synchronize.

LEMMA InvSynchronize ==
    ASSUME IInv, Synchronize, calls' \in 0..MaxCalls
    PROVE  IInv'
<1> DEFINE due == {i \in Index : Live(i)}
           t == [op |-> "sync", at |-> "look", i |-> 0, last |-> handle - 1, blanks |-> 0,
                 take |-> "none", due |-> due, missed |-> {}]
<1>1. /\ handle # None /\ task' = t
      /\ UNCHANGED <<root, next, docs, tagged, keys, given, handle, chain>>
    BY DEF Synchronize, store
<1>2. handle \in 0..N /\ N \in Nat /\ Gap \in Nat
    BY <1>1, RootAssumption DEF IInv, TypeOK
<1>3. handle - 1 \in -1..N - 1 /\ 0 \in 0..N + Gap /\ 0 \in 0..Gap /\ handle <= handle - 1 + 1
      /\ (0 <= handle - 1 \/ 0 = handle - 1 + 1 + 0)
    BY <1>2
<1>4. \A j \in due : j >= 0 /\ ~(j < 0) /\ Live(j)
    BY RootAssumption DEF Index
<1>5. due \in SUBSET Index
    OBVIOUS
<1> HIDE DEF due
<1>6. task' \in SyncTask
    BY <1>1, <1>3, <1>5 DEF SyncTask
<1>7. TypeOK'
    BY <1>1, <1>6, TaskIntro DEF IInv, TypeOK
<1>8. \A j \in due : Live(j)'
    BY <1>1, <1>4 DEF Live
<1>9. LoopSound(task)'
    BY <1>1, <1>3, <1>4, <1>8 DEF LoopSound, Counted
<1>10. KeysRecoverable' /\ IndexKnown'
    BY <1>1 DEF IInv, KeysRecoverable, IndexKnown, Live
<1> QED BY <1>1, <1>7, <1>9, <1>10 DEF IInv, NewSound, SyncSound

\* What is known of a synchronization in progress.
LEMMA SyncFacts ==
    ASSUME IInv, task # None, task.op = "sync"
    PROVE  /\ task \in SyncTask /\ LoopSound(task) /\ task.i \in Nat /\ task.last \in Int
           /\ handle \in 0..N /\ handle # None
           /\ task.due \in SUBSET Index
           /\ task.at # "look" => task.i \in Index /\ (task.i < task.last \/ task.blanks < Gap)
<1>1. task \in SyncTask /\ LoopSound(task)
    BY TaskKinds DEF IInv, SyncSound
<1> QED BY <1>1, RootAssumption DEF SyncTask, LoopSound, Live, IInv, TypeOK

\* The loop goes on to the next index: this one was caught or missed, or the chain
\* had nothing there.
LEMMA LoopOn ==
    ASSUME IInv, task # None, task.op = "sync", NEW u \in SyncTask, task' = u,
           u.at = "look", u.i = task.i + 1, task.last <= u.last,
           u.due = task.due, task.missed \subseteq u.missed, Counted(u),
           task.i \in task.due =>
                \/ task.i \in u.missed
                \/ /\ task.i <= u.last /\ task.i \in tagged'
                   /\ docs'[task.i] # "none" /\ keys'[task.i] # "none",
           \A j \in Index : j # task.i =>
                docs'[j] = docs[j] /\ keys'[j] = keys[j] /\ (j \in tagged => j \in tagged'),
           UNCHANGED <<handle, chain>>
    PROVE  SyncSound'
<1>1. /\ LoopSound(task) /\ task.i \in Nat /\ task.last \in Int /\ u.last \in Int
      /\ handle \in Nat /\ task.due \in SUBSET Index
    BY SyncFacts DEF SyncTask
<1>2. ASSUME NEW j \in u.due
      PROVE  Live(j)' /\ (j < u.i => j \in u.missed \/ Caught(u, j)')
    <2>1. j \in Index /\ j \in Nat /\ Live(j) /\ (j < task.i => j \in task.missed \/ Caught(task, j))
        BY <1>1, RootAssumption DEF LoopSound, Index
    <2>2. Live(j)'
        BY <2>1 DEF Live
    <2>3. CASE j = task.i
        BY <2>1, <2>2, <2>3 DEF Caught
    <2>4. CASE j # task.i
        <3>1. j < u.i => j < task.i
            BY <1>1, <2>1, <2>4
        <3>2. Caught(task, j) => Caught(u, j)'
            BY <1>1, <2>1, <2>4 DEF Caught
        <3> QED BY <2>1, <2>2, <3>1, <3>2
    <2> QED BY <2>3, <2>4
<1>3. handle # None /\ handle <= u.last + 1
    BY <1>1 DEF LoopSound
<1>4. LoopSound(u)'
    BY <1>2, <1>3 DEF LoopSound, Counted, Caught
<1> QED BY <1>4 DEF SyncSound

\* The loop goes on to the next write for the same index.
LEMMA LoopStays ==
    ASSUME IInv, task # None, task.op = "sync", NEW u \in SyncTask, task' = u,
           u.at # "look", u.i = task.i, u.last = task.last, u.blanks = task.blanks,
           u.due = task.due, u.missed = task.missed,
           Live(task.i), task.i < task.last \/ task.blanks < Gap,
           u.at = "doc" => u.take # "none",
           u.at \in {"meta", "key"} => docs'[task.i] # "none",
           u.at = "key" => task.i \in tagged',
           \A j \in Index : j # task.i => docs'[j] = docs[j],
           UNCHANGED <<handle, chain, keys>>, tagged \subseteq tagged'
    PROVE  SyncSound'
<1>1. /\ LoopSound(task) /\ task.i \in Nat /\ task.last \in Int /\ task.due \in SUBSET Index
    BY SyncFacts
<1>2. ASSUME NEW j \in u.due
      PROVE  Live(j)' /\ (j < u.i => j \in u.missed \/ Caught(u, j)')
    <2>1. j \in Index /\ j \in Nat /\ Live(j) /\ (j < task.i => j \in task.missed \/ Caught(task, j))
        BY <1>1, RootAssumption DEF LoopSound, Index
    <2>2. Live(j)'
        BY <2>1 DEF Live
    <2>3. j < task.i => j # task.i
        BY <1>1, <2>1
    <2>4. j < task.i => (Caught(task, j) => Caught(u, j)')
        BY <2>1, <2>3 DEF Caught
    <2> QED BY <2>1, <2>2, <2>4
<1>3. Counted(u)
    BY <1>1 DEF LoopSound, Counted
<1>4. Live(u.i)'
    BY DEF Live
<1>5. LoopSound(u)'
    BY <1>1, <1>2, <1>3, <1>4 DEF LoopSound, Counted, Caught
<1> QED BY <1>5 DEF SyncSound

LEMMA InvSyncLook ==
    ASSUME IInv, SyncLook, calls' = calls
    PROVE  IInv'
<1>1. /\ task # None /\ task.op = "sync" /\ task.at = "look" /\ More
      /\ UNCHANGED <<root, next, docs, tagged, keys, given, handle, chain>>
    BY DEF SyncLook, Doing, store
<1>2. task \in SyncTask /\ LoopSound(task) /\ task.i \in Nat /\ task.last \in Int
    BY <1>1, SyncFacts
<1>3. KeysRecoverable' /\ IndexKnown'
    BY <1>1 DEF IInv, KeysRecoverable, IndexKnown, Live
<1>4. CASE Live(task.i)
    <2>1. PICK d \in Merged(task.i) : task' = [task EXCEPT !.at = "doc", !.take = d]
        BY <1>4 DEF SyncLook
    <2>2. d \in {"draft", "copy", "gone"}
        BY <2>1 DEF Merged
    <2>3. /\ task' \in SyncTask /\ task'.op = "sync" /\ task'.at = "doc" /\ task'.i = task.i
          /\ task'.last = task.last /\ task'.blanks = task.blanks /\ task'.due = task.due
          /\ task'.missed = task.missed /\ task'.take # "none"
        BY <1>2, <2>1, <2>2 DEF SyncTask
    <2>4. SyncSound'
        BY <1>1, <1>4, <2>3, LoopStays DEF More
    <2>5. TypeOK'
        BY <1>1, <2>3, TaskIntro DEF IInv, TypeOK
    <2> QED BY <1>3, <2>3, <2>4, <2>5 DEF IInv, NewSound
<1>5. CASE ~Live(task.i)
    <2>1. task' = Blank(task)
        BY <1>5 DEF SyncLook
    <2>2. /\ task' \in SyncTask /\ task'.at = "look" /\ task'.i = task.i + 1
          /\ task'.last = task.last /\ task'.due = task.due /\ task'.missed = task.missed
          /\ Counted(task')
        BY <1>1, <1>2, <2>1, CountedOn DEF LoopSound, More
    <2>3. task.i \notin task.due
        BY <1>2, <1>5 DEF LoopSound
    <2>4. SyncSound'
        BY <1>1, <1>2, <2>2, <2>3, LoopOn
    <2>5. TypeOK' /\ task'.op = "sync"
        BY <1>1, <2>2, TaskIntro DEF IInv, TypeOK, SyncTask
    <2> QED BY <1>3, <2>4, <2>5 DEF IInv, NewSound
<1> QED BY <1>4, <1>5

LEMMA InvSyncUnresolved ==
    ASSUME IInv, SyncUnresolved, calls' = calls
    PROVE  IInv'
<1>1. /\ task # None /\ task.op = "sync" /\ task.at = "look" /\ More /\ task' = Missed(task)
      /\ UNCHANGED <<root, next, docs, tagged, keys, given, handle, chain>>
    BY DEF SyncUnresolved, Doing, store
<1>2. task \in SyncTask /\ LoopSound(task) /\ task.i \in Nat /\ task.last \in Int
      /\ task.due \in SUBSET Index
    BY <1>1, SyncFacts
<1>3. KeysRecoverable' /\ IndexKnown'
    BY <1>1 DEF IInv, KeysRecoverable, IndexKnown, Live
<1>4. /\ task' \in SyncTask /\ task'.at = "look" /\ task'.i = task.i + 1
      /\ task'.last = task.last /\ task'.due = task.due
      /\ task'.missed = task.missed \cup ({task.i} \cap Index)
      /\ Counted(task')
    BY <1>1, <1>2, CountedOn DEF LoopSound, More
<1>5. task.i \in task.due => task.i \in task'.missed
    BY <1>2, <1>4
<1>6. SyncSound'
    BY <1>1, <1>2, <1>4, <1>5, LoopOn
<1>7. TypeOK' /\ task'.op = "sync"
    BY <1>1, <1>4, TaskIntro DEF IInv, TypeOK, SyncTask
<1> QED BY <1>3, <1>6, <1>7 DEF IInv, NewSound

LEMMA InvSyncDoc ==
    ASSUME IInv, SyncDoc, calls' = calls
    PROVE  IInv'
<1>1. /\ task # None /\ task.op = "sync" /\ task.at = "doc"
      /\ docs' = [docs EXCEPT ![task.i] = task.take]
      /\ task' = [task EXCEPT !.at = "meta"]
      /\ UNCHANGED <<root, next, tagged, keys, given, handle, chain>>
    BY DEF SyncDoc, WriteDoc, Doing
<1>2. /\ task \in SyncTask /\ LoopSound(task) /\ task.i \in Index
      /\ (task.i < task.last \/ task.blanks < Gap)
    BY <1>1, SyncFacts
<1>3. Live(task.i) /\ task.take # "none" /\ task.take \in Docs
    BY <1>1, <1>2 DEF LoopSound, SyncTask, Docs
<1>4. KeysRecoverable' /\ IndexKnown'
    BY <1>1, <1>2, <1>3 DEF IInv, TypeOK, KeysRecoverable, IndexKnown, Live
<1>5. /\ task' \in SyncTask /\ task'.op = "sync" /\ task'.at = "meta" /\ task'.i = task.i
      /\ task'.last = task.last /\ task'.blanks = task.blanks /\ task'.due = task.due
      /\ task'.missed = task.missed
    BY <1>1, <1>2 DEF SyncTask
<1>6. docs \in [Index -> Docs]
    BY DEF IInv, TypeOK
<1>7. SyncSound'
    BY <1>1, <1>2, <1>3, <1>5, <1>6, LoopStays
<1>8. TypeOK'
    BY <1>1, <1>2, <1>3, <1>5, TaskIntro DEF IInv, TypeOK
<1> QED BY <1>4, <1>5, <1>7, <1>8 DEF IInv, NewSound

LEMMA InvSyncMeta ==
    ASSUME IInv, SyncMeta, calls' = calls
    PROVE  IInv'
<1>1. /\ task # None /\ task.op = "sync" /\ task.at = "meta"
      /\ tagged' = tagged \cup {task.i}
      /\ task' = [task EXCEPT !.at = "key"]
      /\ UNCHANGED <<root, next, docs, keys, given, handle, chain>>
    BY DEF SyncMeta, Doing
<1>2. /\ task \in SyncTask /\ LoopSound(task) /\ task.i \in Index
      /\ (task.i < task.last \/ task.blanks < Gap)
    BY <1>1, SyncFacts
<1>3. Live(task.i) /\ docs[task.i] # "none"
    BY <1>1, <1>2 DEF LoopSound
<1>4. KeysRecoverable' /\ IndexKnown'
    BY <1>1 DEF IInv, KeysRecoverable, IndexKnown, Live
<1>5. /\ task' \in SyncTask /\ task'.op = "sync" /\ task'.at = "key" /\ task'.i = task.i
      /\ task'.last = task.last /\ task'.blanks = task.blanks /\ task'.due = task.due
      /\ task'.missed = task.missed
    BY <1>1, <1>2 DEF SyncTask
<1>6. SyncSound'
    BY <1>1, <1>2, <1>3, <1>5, LoopStays
<1>7. TypeOK'
    BY <1>1, <1>2, <1>5, TaskIntro DEF IInv, TypeOK
<1> QED BY <1>4, <1>5, <1>6, <1>7 DEF IInv, NewSound

LEMMA InvSyncKey ==
    ASSUME IInv, SyncKey, calls' = calls
    PROVE  IInv'
<1> DEFINE t == [task EXCEPT !.take = "none"]
<1>1. /\ task # None /\ task.op = "sync" /\ task.at = "key"
      /\ keys' = [keys EXCEPT ![task.i] = "lazy"]
      /\ task' = Found(t)
      /\ UNCHANGED <<root, next, docs, tagged, given, handle, chain>>
    BY DEF SyncKey, Doing
<1>2. /\ task \in SyncTask /\ LoopSound(task) /\ task.i \in Index
    BY <1>1, SyncFacts
<1>3. Live(task.i) /\ docs[task.i] # "none" /\ task.i \in tagged /\ Counted(task)
    BY <1>1, <1>2 DEF LoopSound
<1>4. KeysRecoverable' /\ IndexKnown'
    BY <1>1, <1>2, <1>3 DEF IInv, TypeOK, KeysRecoverable, IndexKnown, Live
<1>5. /\ t \in SyncTask /\ t.i = task.i /\ t.last = task.last /\ t.blanks = task.blanks
      /\ t.due = task.due /\ t.missed = task.missed
    BY <1>2 DEF SyncTask
<1> HIDE DEF t
<1>6. Counted(t)
    BY <1>3, <1>5 DEF Counted
<1>7. /\ task' \in SyncTask /\ task'.at = "look" /\ task'.i = task.i + 1
      /\ task.last <= task'.last /\ task.i <= task'.last
      /\ task'.due = task.due /\ task'.missed = task.missed
      /\ Counted(task')
    BY <1>1, <1>2, <1>5, <1>6, CountedFound
<1>8. keys \in [Index -> {"none", "stored", "lazy"}]
    BY DEF IInv, TypeOK
<1>9. SyncSound'
    <2>1. keys'[task.i] = "lazy" /\ \A j \in Index : j # task.i => keys'[j] = keys[j]
        BY <1>1, <1>2, <1>8
    <2>2. docs'[task.i] # "none" /\ keys'[task.i] # "none" /\ task.i \in tagged'
        BY <1>1, <1>3, <2>1
    <2> QED BY <1>1, <1>7, <2>1, <2>2, LoopOn
<1>10. TypeOK' /\ task'.op = "sync"
    BY <1>1, <1>2, <1>7, TaskIntro DEF IInv, TypeOK, SyncTask
<1> QED BY <1>4, <1>9, <1>10 DEF IInv, NewSound

LEMMA InvSyncFails ==
    ASSUME IInv, SyncFails, calls' = calls
    PROVE  IInv'
<1> DEFINE t == [task EXCEPT !.take = "none"]
<1>1. /\ task # None /\ task.op = "sync" /\ task.at # "look"
      /\ task' = Missed(t)
      /\ \/ keys' = [keys EXCEPT ![task.i] = "none"] /\ UNCHANGED docs
         \/ docs' = [docs EXCEPT ![task.i] = "none"] /\ UNCHANGED keys
      /\ UNCHANGED <<root, next, tagged, given, handle, chain>>
    BY DEF SyncFails
<1>2. /\ task \in SyncTask /\ LoopSound(task) /\ task.i \in Index
      /\ (task.i < task.last \/ task.blanks < Gap)
    BY <1>1, SyncFacts
<1>3. Live(task.i) /\ Counted(task)
    BY <1>1, <1>2 DEF LoopSound
<1>4. KeysRecoverable' /\ IndexKnown'
    BY <1>1, <1>2, <1>3 DEF IInv, TypeOK, KeysRecoverable, IndexKnown, Live
<1>5. /\ t \in SyncTask /\ t.i = task.i /\ t.last = task.last /\ t.blanks = task.blanks
      /\ t.due = task.due /\ t.missed = task.missed
    BY <1>2 DEF SyncTask
<1> HIDE DEF t
<1>6. Counted(t)
    BY <1>3, <1>5 DEF Counted
<1>7. /\ task' \in SyncTask /\ task'.at = "look" /\ task'.i = task.i + 1
      /\ task.last = task'.last
      /\ task'.due = task.due /\ task'.missed = task.missed \cup ({task.i} \cap Index)
      /\ Counted(task')
    BY <1>1, <1>2, <1>5, <1>6, CountedOn
<1>8. keys \in [Index -> {"none", "stored", "lazy"}] /\ docs \in [Index -> Docs]
      /\ task.last \in Int
    BY <1>2 DEF IInv, TypeOK, SyncTask
<1>9. \A j \in Index : j # task.i => docs'[j] = docs[j] /\ keys'[j] = keys[j]
    BY <1>1, <1>8
<1>10. SyncSound'
    BY <1>1, <1>2, <1>7, <1>8, <1>9, LoopOn
<1>11. TypeOK' /\ task'.op = "sync"
    BY <1>1, <1>2, <1>7, TaskIntro DEF IInv, TypeOK, SyncTask, Docs
<1> QED BY <1>4, <1>10, <1>11 DEF IInv, NewSound

LEMMA InvSyncEnd ==
    ASSUME IInv, SyncEnd, calls' = calls
    PROVE  IInv'
<1>1. /\ task # None /\ task.op = "sync" /\ task' = None
      /\ handle' = IF task.last >= handle THEN task.last + 1 ELSE handle
      /\ UNCHANGED <<root, next, docs, tagged, keys, given, chain>>
    BY DEF SyncEnd, Doing, store
<1>2. task \in SyncTask /\ handle \in 0..N
    BY <1>1, SyncFacts
<1>3. handle' \in 0..N
    BY <1>1, <1>2, RootAssumption DEF SyncTask
<1>4. TypeOK' /\ IndexKnown' /\ KeysRecoverable'
    BY <1>1, <1>3 DEF IInv, TypeOK, IndexKnown, KeysRecoverable, Live
<1> QED BY <1>1, <1>4, IdleKeeps

--------------------------------------------------------------------------------
\* The other calls, the other devices, and the end of the application.

LEMMA InvLazyCreatePrivateKey ==
    ASSUME IInv, task = None, NEW i \in Index, LazyCreatePrivateKey(i), calls' \in 0..MaxCalls
    PROVE  IInv'
<1>1. TypeOK' /\ IndexKnown'
    BY DEF IInv, TypeOK, IndexKnown, LazyCreatePrivateKey
<1>2. KeysRecoverable'
    BY DEF IInv, TypeOK, KeysRecoverable, Live, LazyCreatePrivateKey
<1> QED BY <1>1, <1>2, IdleKeeps DEF LazyCreatePrivateKey

LEMMA InvEditDID ==
    ASSUME IInv, task = None, NEW i \in Index, EditDID(i), calls' \in 0..MaxCalls
    PROVE  IInv'
<1>1. TypeOK' /\ IndexKnown'
    BY DEF IInv, TypeOK, IndexKnown, EditDID, Docs
<1>2. KeysRecoverable'
    BY DEF IInv, TypeOK, KeysRecoverable, Live, EditDID
<1> QED BY <1>1, <1>2, IdleKeeps DEF EditDID

LEMMA InvPublishDID ==
    ASSUME IInv, task = None, NEW i \in Index, PublishDID(i), calls' \in 0..MaxCalls
    PROVE  IInv'
<1>1. TypeOK' /\ IndexKnown'
    BY DEF IInv, TypeOK, IndexKnown, PublishDID, Docs
<1>2. KeysRecoverable'
    BY DEF IInv, TypeOK, KeysRecoverable, Live, PublishDID
<1> QED BY <1>1, <1>2, IdleKeeps DEF PublishDID

LEMMA InvElsewhere ==
    ASSUME IInv, Elsewhere, calls' = calls
    PROVE  IInv'
<1>1. /\ UNCHANGED <<root, next, docs, tagged, keys, given, handle, task>>
      /\ chain' \in [Index -> {"none", "live", "dead"}]
      /\ \A j \in Index : chain[j] # "none" => chain'[j] # "none"
    BY DEF Elsewhere, store, IInv, TypeOK
<1>2. \A j : Live(j) => Live(j)'
    BY <1>1 DEF Live
<1>3. TypeOK' /\ IndexKnown' /\ NewSound'
    BY <1>1 DEF IInv, TypeOK, IndexKnown, NewSound
<1>4. KeysRecoverable'
    BY <1>1, <1>2 DEF IInv, KeysRecoverable
<1>5. SyncSound'
    <2> SUFFICES ASSUME task # None, task.op = "sync" PROVE LoopSound(task)'
        BY <1>1 DEF SyncSound
    <2>1. LoopSound(task)
        BY DEF IInv, SyncSound
    <2>2. Counted(task)'
        BY <1>1, <2>1 DEF LoopSound, Counted
    <2>3. \A j \in task'.due : Live(j)' /\ (j < task'.i => j \in task'.missed \/ Caught(task, j)')
        BY <1>1, <1>2, <2>1 DEF LoopSound, Caught
    <2>4. task'.at # "look" => Live(task.i)'
        BY <1>1, <1>2, <2>1 DEF LoopSound, Live
    <2> QED BY <1>1, <2>1, <2>2, <2>3, <2>4 DEF LoopSound
<1> QED BY <1>3, <1>4, <1>5 DEF IInv

\* What a crash tears was not yet relied on.
LEMMA InvTorn ==
    ASSUME IInv, task # None, Torn, handle' = None, task' = None,
           UNCHANGED <<given, chain, calls>>
    PROVE  IInv'
<1>1. /\ task.op = "create" => task \in CreateTask
      /\ task.op = "new" => task \in NewTask
      /\ task.op = "sync" => task \in SyncTask
      /\ task.op \in {"create", "new", "sync"}
    BY TaskKinds DEF IInv
<1>2. calls' \in 0..MaxCalls
    BY DEF IInv, TypeOK
<1>3. CASE Doing("create", "keys")
    <2>1. root' = "partial" /\ UNCHANGED <<next, docs, tagged, keys>>
        BY <1>3 DEF Torn, store, Doing
    <2>2. TypeOK' /\ IndexKnown' /\ KeysRecoverable'
        BY <2>1 DEF IInv, TypeOK, IndexKnown, KeysRecoverable, Live
    <2> QED BY <2>2, IdleKeeps
<1>4. CASE Doing("create", "index")
    <2>1. root' = "stored" /\ next' = 0 /\ UNCHANGED <<docs, tagged, keys>>
        BY <1>4 DEF Torn, store, Doing
    <2>2. TypeOK' /\ IndexKnown' /\ KeysRecoverable'
        BY <2>1, RootAssumption DEF IInv, TypeOK, IndexKnown, KeysRecoverable, Live
    <2> QED BY <2>2, IdleKeeps
<1>5. CASE Doing("new", "index")
    <2>1. next' = 0 /\ UNCHANGED <<root, docs, tagged, keys>>
        BY <1>5 DEF Torn, store, Doing
    <2>2. TypeOK' /\ IndexKnown' /\ KeysRecoverable'
        BY <2>1, RootAssumption DEF IInv, TypeOK, IndexKnown, KeysRecoverable, Live
    <2> QED BY <2>2, IdleKeeps
<1>6. CASE task.op \in {"new", "sync"} /\ task.at = "key"
    <2>1. keys' = [keys EXCEPT ![task.i] = "none"] /\ UNCHANGED <<root, next, docs, tagged>>
        BY <1>6 DEF Torn, Doing
    <2>2. task.i \in Index /\ (docs[task.i] = "none" \/ task.i \in given \/ Live(task.i))
        <3>1. task.op = "new" => task.i \in Index /\ (docs[task.i] = "none" \/ task.i \in given)
            BY <1>6, NewFacts DEF Doing
        <3>2. task.op = "sync" => task.i \in Index /\ Live(task.i)
            BY <1>6, SyncFacts DEF LoopSound
        <3> QED BY <1>6, <3>1, <3>2
    <2> QED BY <1>2, <2>1, <2>2, LostKeyKeeps
<1>7. CASE task.op \in {"new", "sync"} /\ task.at = "doc"
    <2>1. docs' = [docs EXCEPT ![task.i] = "none"] /\ UNCHANGED <<root, next, tagged, keys>>
        BY <1>7 DEF Torn, Doing
    <2>2. TypeOK' /\ IndexKnown' /\ KeysRecoverable'
        BY <2>1 DEF IInv, TypeOK, IndexKnown, KeysRecoverable, Live, Docs
    <2> QED BY <2>2, IdleKeeps
<1>8. CASE task.op \in {"new", "sync"} /\ task.at = "meta"
    <2>1. tagged' = tagged \ {task.i} /\ UNCHANGED <<root, next, docs, keys>>
        BY <1>8 DEF Torn, Doing
    <2>2. keys[task.i] = "stored" \/ Live(task.i)
        <3>1. task.op = "new" => keys[task.i] = "stored"
            BY <1>8, NewFacts DEF Doing
        <3>2. task.op = "sync" => Live(task.i)
            BY <1>8, SyncFacts DEF LoopSound
        <3> QED BY <1>8, <3>1, <3>2
    <2>3. TypeOK' /\ IndexKnown' /\ KeysRecoverable'
        BY <2>1, <2>2 DEF IInv, TypeOK, IndexKnown, KeysRecoverable, Live
    <2> QED BY <2>3, IdleKeeps
<1>9. CASE task.op = "sync" /\ task.at = "look"
    <2>1. UNCHANGED <<root, next, docs, tagged, keys>>
        BY <1>9 DEF Torn, Doing, store
    <2>2. TypeOK' /\ IndexKnown' /\ KeysRecoverable'
        BY <2>1 DEF IInv, TypeOK, IndexKnown, KeysRecoverable, Live
    <2> QED BY <2>2, IdleKeeps
<1> QED BY <1>1, <1>3, <1>4, <1>5, <1>6, <1>7, <1>8, <1>9
        DEF CreateTask, NewTask, SyncTask, Doing

LEMMA InvCrash ==
    ASSUME IInv, Crash, calls' = calls
    PROVE  IInv'
<1>1. CASE UNCHANGED <<root, next, store>>
    <2>1. TypeOK' /\ IndexKnown' /\ KeysRecoverable'
        BY <1>1 DEF Crash, IInv, TypeOK, IndexKnown, KeysRecoverable, Live, store
    <2> QED BY <2>1, IdleKeeps DEF Crash
<1>2. CASE task # None /\ Torn
    BY <1>2, InvTorn DEF Crash
<1> QED BY <1>1, <1>2 DEF Crash

LEMMA InvCall ==
    ASSUME IInv, Call
    PROVE  IInv'
<1>1. calls' \in 0..MaxCalls /\ task = None
    BY RootAssumption DEF Call, IInv, TypeOK
<1>2. ASSUME NEW answered \in BOOLEAN, NEW overwrite \in BOOLEAN,
             RootIdentity_NewDID(answered, overwrite)
      PROVE  IInv'
    BY <1>1, <1>2, InvStartNew DEF RootIdentity_NewDID
<1>3. ASSUME NEW answered \in BOOLEAN, NEW overwrite \in BOOLEAN, NEW i \in Index,
             RootIdentity_NewDIDByIndex(i, answered, overwrite)
      PROVE  IInv'
    BY <1>1, <1>3, InvStartNew DEF RootIdentity_NewDIDByIndex
<1>4. ASSUME NEW i \in Index, DeleteDID(i)
      PROVE  IInv'
    BY <1>1, <1>4, ForgottenKeeps DEF DeleteDID
<1> QED BY <1>1, <1>2, <1>3, <1>4, InvCreate, InvLoad, InvDeleteRootIdentity,
           InvSynchronize, InvLazyCreatePrivateKey, InvEditDID, InvPublishDID DEF Call

LEMMA InvNext == IInv /\ [Next]_vars => IInv'
<1> SUFFICES ASSUME IInv, [Next]_vars PROVE IInv'
    OBVIOUS
<1>1. CASE Call
    BY <1>1, InvCall
<1>2. CASE Step /\ UNCHANGED calls
    BY <1>2, InvCreateKeys, InvCreateIndex, InvNewKey, InvNewDoc, InvNewMeta, InvNewIndex,
       InvNewFails, InvSyncLook, InvSyncUnresolved, InvSyncDoc, InvSyncMeta, InvSyncKey,
       InvSyncFails, InvSyncEnd
    DEF Step
<1>3. CASE (Elsewhere \/ Crash) /\ UNCHANGED calls
    BY <1>3, InvElsewhere, InvCrash
<1>4. CASE UNCHANGED vars
    <2>1. UNCHANGED <<root, next, docs, tagged, keys, given, handle, task, calls, chain>>
        BY <1>4 DEF vars
    <2>2. TypeOK' /\ IndexKnown' /\ KeysRecoverable' /\ NewSound'
        BY <2>1 DEF IInv, TypeOK, IndexKnown, KeysRecoverable, NewSound, Live
    <2>3. SyncSound'
        BY <2>1 DEF IInv, SyncSound, LoopSound, Counted, Caught, Live
    <2> QED BY <2>2, <2>3 DEF IInv
<1> QED BY <1>1, <1>2, <1>3, <1>4 DEF Next

THEOREM Invariant == Spec => []IInv
BY InvInit, InvNext, PTL DEF Spec

\* The files of the root identity and of its DIDs, and what a call keeps in memory,
\* are what RootIdentity says they are, wherever calls fail or are cut short: the
\* loop of RootIdentity_Synchronize never goes more than Gap past the last index.
THEOREM TypeCorrect == Spec => []TypeOK
<1>1. IInv => TypeOK
    BY DEF IInv
<1> QED BY <1>1, Invariant, PTL

\* Whatever call is cut short and wherever, no stored document loses the way to its
\* private key but one that was being overwritten (rootidentity_createdid,
\* RootIdentity_SynchronizeByIndex, RootIdentity_LazyCreatePrivateKey).
THEOREM KeysAreRecoverable == Spec => []KeysRecoverable
<1>1. IInv => KeysRecoverable
    BY DEF IInv
<1> QED BY <1>1, Invariant, PTL

--------------------------------------------------------------------------------
\* What a synchronization finds.

SyncFindsStep ==
    task # None /\ task.op = "sync" /\ task' = None /\ handle' # None =>
        \A i \in Reach(task.due \ task.missed, handle - 1) :
            docs'[i] # "none" /\ keys'[i] # "none" /\ i \in tagged' /\ handle' > i

\* Every DID within the gap was come to: otherwise the Gap blanks before the end
\* would have one of those DIDs among them, and it was caught.
LEMMA ReachPassed ==
    ASSUME IInv, Doing("sync", "look"), ~More,
           NEW d \in Reach(task.due \ task.missed, handle - 1)
    PROVE  Caught(task, d)
<1>1. /\ task # None /\ task.op = "sync" /\ task.at = "look"
    BY DEF Doing
<1>2. /\ task \in SyncTask /\ LoopSound(task) /\ task.i \in Nat /\ task.last \in Int
      /\ handle \in 0..N /\ task.due \in SUBSET Index
    BY <1>1, SyncFacts
<1>3. task.blanks \in Nat /\ task.blanks <= Gap /\ Gap \in Nat /\ Gap > 0
    BY <1>2, RootAssumption DEF SyncTask
<1>4. task.blanks = Gap /\ task.i = task.last + 1 + Gap
    BY <1>2, <1>3 DEF More, LoopSound, Counted
<1>5. handle <= task.last + 1 /\ handle \in Nat
    BY <1>2 DEF LoopSound
<1>6. /\ d \in task.due \ task.missed
      /\ \A j \in (handle - 1 + 1)..(d - Gap) :
            \E k \in j..(j + Gap - 1) : k \in task.due \ task.missed
    BY DEF Reach
<1>7. \A k \in task.due \ task.missed : k \in Nat /\ (k < task.i => Caught(task, k))
    BY <1>2, RootAssumption DEF LoopSound, Index
<1>8. d < task.i
    <2> SUFFICES ASSUME ~(d < task.i) PROVE FALSE
        OBVIOUS
    <2>1. d \in Nat
        BY <1>6, <1>7
    <2>2. task.last + 1 \in (handle - 1 + 1)..(d - Gap)
        BY <1>2, <1>3, <1>4, <1>5, <2>1
    <2>3. PICK k \in (task.last + 1)..(task.last + 1 + Gap - 1) : k \in task.due \ task.missed
        BY <1>6, <2>2
    <2>4. k < task.i /\ k > task.last
        BY <1>2, <1>3, <1>4, <2>3
    <2>5. k <= task.last
        BY <1>7, <2>3, <2>4 DEF Caught
    <2> QED BY <1>2, <1>7, <2>3, <2>4, <2>5
<1> QED BY <1>6, <1>7, <1>8

LEMMA StepFinds == IInv /\ [Next]_vars => SyncFindsStep
<1> SUFFICES ASSUME IInv, [Next]_vars, task # None, task.op = "sync", task' = None,
                    handle' # None
             PROVE  \A i \in Reach(task.due \ task.missed, handle - 1) :
                        docs'[i] # "none" /\ keys'[i] # "none" /\ i \in tagged' /\ handle' > i
    BY DEF SyncFindsStep
<1>1. SyncEnd
    <2>1. /\ task \in SyncTask /\ LoopSound(task) /\ task.i \in Nat /\ task.last \in Int
          /\ task.at # "look" => task.i \in Index /\ (task.i < task.last \/ task.blanks < Gap)
        BY SyncFacts
    <2>2. \A u \in SyncTask : task' # u
        BY TaskIntro, NoneAssumption
    <2>3. ASSUME SyncLook \/ SyncUnresolved PROVE FALSE
        <3>1. More /\ Doing("sync", "look")
            BY <2>3 DEF SyncLook, SyncUnresolved
        <3>2. Blank(task) \in SyncTask /\ Missed(task) \in SyncTask
            BY <2>1, <3>1, CountedOn DEF More, LoopSound
        <3>3. \A d \in Merged(task.i) : [task EXCEPT !.at = "doc", !.take = d] \in SyncTask
            BY <2>1 DEF Merged, SyncTask
        <3> QED BY <2>2, <2>3, <3>2, <3>3 DEF SyncLook, SyncUnresolved
    <2>4. ASSUME SyncDoc \/ SyncMeta PROVE FALSE
        <3>1. [task EXCEPT !.at = "meta"] \in SyncTask /\ [task EXCEPT !.at = "key"] \in SyncTask
            BY <2>1 DEF SyncTask
        <3> QED BY <2>2, <2>4, <3>1 DEF SyncDoc, SyncMeta, WriteDoc
    <2>5. ASSUME SyncKey \/ SyncFails PROVE FALSE
        <3> DEFINE t == [task EXCEPT !.take = "none"]
        <3>1. task.at # "look" /\ task' \in {Found(t), Missed(t)}
            BY <2>5 DEF SyncKey, SyncFails, Doing
        <3>2. t \in SyncTask /\ t.i = task.i /\ t.last = task.last /\ t.blanks = task.blanks
            BY <2>1 DEF SyncTask
        <3> HIDE DEF t
        <3>3. Counted(t)
            BY <2>1, <3>2 DEF LoopSound, Counted
        <3>4. Found(t) \in SyncTask /\ Missed(t) \in SyncTask
            BY <2>1, <3>1, <3>2, <3>3, CountedOn, CountedFound
        <3> QED BY <2>2, <3>1, <3>4
    <2>6. ~Call /\ ~Crash /\ ~Elsewhere /\ ~UNCHANGED vars
        BY DEF Call, Crash, Elsewhere, vars
    <2>7. ~(CreateKeys \/ CreateIndex \/ NewKey \/ NewDoc \/ NewMeta \/ NewIndex \/ NewFails)
        BY DEF CreateKeys, CreateIndex, NewKey, NewDoc, NewMeta, NewIndex, NewFails, Doing
    <2> QED BY <2>3, <2>4, <2>5, <2>6, <2>7 DEF Next, Step
<1>2. /\ Doing("sync", "look") /\ ~More
      /\ handle' = IF task.last >= handle THEN task.last + 1 ELSE handle
      /\ UNCHANGED <<docs, tagged, keys>>
    BY <1>1 DEF SyncEnd, store
<1>3. /\ task \in SyncTask /\ LoopSound(task) /\ task.last \in Int /\ handle \in 0..N
      /\ task.due \in SUBSET Index
    BY SyncFacts
<1>4. handle <= task.last + 1
    BY <1>3 DEF LoopSound
<1> SUFFICES ASSUME NEW i \in Reach(task.due \ task.missed, handle - 1)
             PROVE  docs'[i] # "none" /\ keys'[i] # "none" /\ i \in tagged' /\ handle' > i
    OBVIOUS
<1>5. Caught(task, i)
    BY <1>2, ReachPassed
<1>6. i \in Nat /\ i <= task.last /\ handle \in Nat
    BY <1>3, <1>5, RootAssumption DEF Reach, Index, Caught
<1>7. handle' > i
    BY <1>2, <1>3, <1>4, <1>6
<1> QED BY <1>2, <1>5, <1>7 DEF Caught

\* When RootIdentity_Synchronize ends, every DID that was on the chain when it
\* began, within the gap, and for which nothing failed, is in the store with a
\* derivable key, and the index has moved past it.
THEOREM SynchronizeFinds == Spec => SyncFinds
<1>1. IInv /\ [Next]_vars => [SyncFindsStep]_vars
    BY StepFinds
<1> QED BY <1>1, Invariant, PTL DEF Spec, SyncFinds, SyncFindsStep

================================================================================
