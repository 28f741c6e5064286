------------------------------ MODULE StoreExport ------------------------------
(***************************************************************************)
(* Moving identities between DID stores: DIDStore_ExportDID,               *)
(* DIDStore_ExportRootIdentity and DIDStore_ExportStore write a backup in   *)
(* which every secret is encrypted again with the password of the export;   *)
(* DIDStore_ImportDID, DIDStore_ImportRootIdentity and DIDStore_ImportStore *)
(* bring it into a store.                                                   *)
(*                                                                          *)
(* Each store is open in a process of its own.  All processes unpack zip    *)
(* files through one file, /tmp/storeexport.json.  A secret is the password *)
(* it is encrypted with; a document is its edition, the credentials of a    *)
(* DID are one flag.  The default identity is left out.                     *)
(***************************************************************************)
EXTENDS Naturals, Sequences, SequencesExt

CONSTANTS
    Stores,
    Roots,        \* root identities
    KeyOnly,      \* the ones made from an extended key, without mnemonic
    Dids,
    RootOf,       \* the identity a DID's key is derived from
    IndexOf,      \* and its index there
    Passwords,
    StorePass,    \* the password the user of a store has for it
    Misuse,       \* imports are called with other passwords, too
    MaxEdition,   \* bound: editions of a document
    MaxJobs,      \* bound: ImportStore calls at a time
    MaxCalls,     \* bound: calls of the library
    MaxUpsets,    \* bound: failed writes, crashes, damage to a backup
    Lazy,         \* a private key that is derived when first used
    Bad,          \* a secret that decrypts to something else
    None          \* no file, no password, no call

ASSUME ExportAssumption ==
    /\ KeyOnly \subseteq Roots
    /\ RootOf \in [Dids -> Roots]
    /\ IndexOf \in [Dids -> Nat]
    /\ StorePass \in [Stores -> Passwords]
    /\ {Lazy, Bad, None} \cap Passwords = {}
    /\ Lazy # Bad /\ None \notin {Lazy, Bad} \cup Nat
    /\ IsFiniteSet(Stores) /\ IsFiniteSet(Roots) /\ IsFiniteSet(Dids)
    /\ MaxEdition \in Nat \ {0} /\ {MaxJobs, MaxCalls, MaxUpsets} \subseteq Nat

VARIABLES
    print,        \* per store: the password its fingerprint is of
    rooted,       \* the stores with a directory data/roots
    roots,        \* data/roots/<id>
    dids,         \* data/ids/<did>
    backup,       \* the file exported to and imported from
    tmp,          \* /tmp/storeexport.json
    job,          \* the ImportStore call in progress
    answer,       \* what the last ImportStore call returned
    torn,         \* history: identities some import of which a crash interrupted
    removed,      \* history: identities deleted, by the user or by an import
    calls,
    upsets

files == <<print, rooted, roots, dids>>
history == <<torn, removed>>
vars == <<files, backup, tmp, job, answer, history, calls, upsets>>

Secret == Passwords \cup {Bad, None}

Identity == [pub : BOOLEAN, mnemonic : Secret, prv : Secret,
             index : Nat \cup {None}]

Blank == [pub |-> FALSE, mnemonic |-> None, prv |-> None, index |-> None]

DidFiles == [doc : 0..MaxEdition, vc : BOOLEAN, key : Secret \cup {Lazy}]

NoDid == [doc |-> 0, vc |-> FALSE, key |-> None]

RootEntry == [kind : {"root"}, of : Roots, pass : Passwords, good : BOOLEAN,
              real : BOOLEAN, mnemonic : BOOLEAN, index : Nat]

DidEntry == [kind : {"did"}, of : Dids, pass : Passwords, good : BOOLEAN,
             doc : 1..MaxEdition, vc : BOOLEAN, key : BOOLEAN]

Entry == RootEntry \cup DidEntry

ASSUME EntryAssumption == None \notin Entry

NoFile == [zip |-> FALSE, entries |-> <<>>]

Init ==
    /\ print = [s \in Stores |-> None]
    /\ rooted = [s \in Stores |-> FALSE]
    /\ roots = [s \in Stores |-> [r \in Roots |-> Blank]]
    /\ dids = [s \in Stores |-> [d \in Dids |-> NoDid]]
    /\ backup = NoFile
    /\ tmp = None
    /\ job = [s \in Stores |-> None]
    /\ answer = [s \in Stores |-> "none"]
    /\ torn = {}
    /\ removed = {}
    /\ calls = 0
    /\ upsets = 0

Idle(s) == job[s] = None

\* A process that is in no call begins one.
Call(s) == Idle(s) /\ calls < MaxCalls /\ calls' = calls + 1

Upset == upsets < MaxUpsets /\ upsets' = upsets + 1

\* check_password: the first password used becomes the password of the store.
Admits(s, p) == print[s] \in {None, p}

\* The identity can be loaded, and nothing of it is missing.
Loads(x) == x.pub /\ x.index # None

Whole(r, x) ==
    /\ Loads(x)
    /\ x.prv \in Passwords
    /\ x.mnemonic = IF r \in KeyOnly THEN None ELSE x.prv

-------------------------------------------------------------------------------
(* The stores in daily use.                                                *)

\* RootIdentity_Create or RootIdentity_CreateFromRootKey.
NewRootIdentity(s, r) ==
    LET p == StorePass[s] IN
    /\ Call(s) /\ Admits(s, p) /\ ~roots[s][r].pub
    /\ roots' = [roots EXCEPT ![s][r] =
           [pub |-> TRUE, mnemonic |-> IF r \in KeyOnly THEN None ELSE p,
            prv |-> p, index |-> 0]]
    /\ print' = [print EXCEPT ![s] = p]
    /\ rooted' = [rooted EXCEPT ![s] = TRUE]
    /\ UNCHANGED <<dids, backup, tmp, job, answer, history, upsets>>

\* RootIdentity_NewDID.
NewDID(s, d) ==
    LET r == RootOf[d] IN
    /\ Call(s)
    /\ Loads(roots[s][r]) /\ roots[s][r].index = IndexOf[d]
    /\ roots[s][r].prv = StorePass[s] /\ Admits(s, StorePass[s])
    /\ dids[s][d].doc = 0
    /\ dids' = [dids EXCEPT ![s][d] = [@ EXCEPT !.doc = 1, !.key = Lazy]]
    /\ roots' = [roots EXCEPT ![s][r].index = @ + 1]
    /\ UNCHANGED <<print, rooted, backup, tmp, job, answer, history, upsets>>

\* DIDStore_StoreDID of a new edition, DIDStore_StoreCredential.
Update(s, d) ==
    /\ Call(s) /\ dids[s][d].doc \in 1..(MaxEdition - 1)
    /\ dids' = [dids EXCEPT ![s][d].doc = @ + 1, ![s][d].vc = TRUE]
    /\ UNCHANGED <<print, rooted, roots, backup, tmp, job, answer, history, upsets>>

DeleteRootIdentity(s, r) ==
    /\ Call(s) /\ roots[s][r] # Blank
    /\ roots' = [roots EXCEPT ![s][r] = Blank]
    /\ removed' = removed \cup {<<s, r>>}
    /\ UNCHANGED <<print, rooted, dids, backup, tmp, job, answer, torn, upsets>>

DeleteDID(s, d) ==
    /\ Call(s) /\ dids[s][d] # NoDid
    /\ dids' = [dids EXCEPT ![s][d] = NoDid]
    /\ UNCHANGED <<print, rooted, roots, backup, tmp, job, answer, history, upsets>>

-------------------------------------------------------------------------------
(* Export.  check_file has deleted the old file before anything is read, so *)
(* that an export that fails leaves none.                                   *)

\* A secret is read: it decrypts, and the password is the store's.
Opens(s, file, p) == file = p /\ Admits(s, p)

CanExportRoot(s, r, p) ==
    LET x == roots[s][r] IN
    /\ x.prv \in {p, Bad} /\ Admits(s, p)
    /\ Loads(x)

CanExportDID(s, d, p) ==
    LET c == dids[s][d] IN
    /\ c.doc > 0
    /\ \/ c.key = None
       \/ Opens(s, c.key, p)
       \/ c.key = Lazy /\ Opens(s, roots[s][RootOf[d]].prv, p)

ExportedRoot(s, r, e) ==
    LET x == roots[s][r] IN
    [kind |-> "root", of |-> r, pass |-> e, good |-> TRUE, real |-> x.prv # Bad,
     mnemonic |-> x.mnemonic # None, index |-> x.index]

ExportedDID(s, d, e) ==
    LET c == dids[s][d] IN
    [kind |-> "did", of |-> d, pass |-> e, good |-> TRUE,
     doc |-> c.doc, vc |-> c.vc, key |-> c.key # None]

\* Loading a lazy key for the export derives it and stores it.
Derived(s, D, p) ==
    [dids EXCEPT ![s] =
        [d \in Dids |-> IF d \in D /\ @[d].key = Lazy
                        THEN [@[d] EXCEPT !.key = p] ELSE @[d]]]

\* Some secret was read with p.
Stamped(s, R, D, p) ==
    IF R # {} \/ \E d \in D : dids[s][d].key # None
    THEN [print EXCEPT ![s] = p]
    ELSE print

ExportDID(s, d, p, e) ==
    /\ Call(s)
    /\ IF CanExportDID(s, d, p)
       THEN /\ backup' = [zip |-> FALSE, entries |-> <<ExportedDID(s, d, e)>>]
            /\ dids' = Derived(s, {d}, p)
            /\ print' = Stamped(s, {}, {d}, p)
       ELSE backup' = NoFile /\ UNCHANGED <<dids, print>>
    /\ UNCHANGED <<rooted, roots, tmp, job, answer, history, upsets>>

ExportRootIdentity(s, r, p, e) ==
    /\ Call(s)
    /\ IF CanExportRoot(s, r, p)
       THEN /\ backup' = [zip |-> FALSE, entries |-> <<ExportedRoot(s, r, e)>>]
            /\ print' = Stamped(s, {r}, {}, p)
       ELSE backup' = NoFile /\ UNCHANGED print
    /\ UNCHANGED <<rooted, roots, dids, tmp, job, answer, history, upsets>>

\* The identities are exported in the order of the directory, then the DIDs, until
\* one fails.  An identity that does not load is passed over or ends the listing:
\* the result of the callback is then read uninitialized.  The zip is closed, and so
\* written, also when an entry could not be exported.  Without data/roots the
\* identities cannot be listed and nothing is exported.
ExportStore(s, p, e) ==
    LET listed == {r \in Roots : roots[s][r] # Blank}
        loaded == {r \in listed : Loads(roots[s][r])}
        docs == {d \in Dids : dids[s][d] # NoDid}
    IN
    /\ Call(s)
    /\ \E R \in SUBSET loaded, D \in SUBSET docs :
          /\ \A r \in R : CanExportRoot(s, r, p)
          /\ \A d \in D : CanExportDID(s, d, p)
          /\ IF rooted[s]
             THEN \/ R = loaded /\ D = docs
                  \/ D = {} /\ \E r \in listed : ~CanExportRoot(s, r, p)
                  \/ R = loaded /\ \E d \in docs : ~CanExportDID(s, d, p)
             ELSE R = {} /\ D = {}
          /\ \E rs \in SetToSeqs(R), ds \in SetToSeqs(D) :
                backup' = IF R = {} /\ D = {} THEN NoFile
                          ELSE [zip |-> TRUE,
                                entries |-> [k \in DOMAIN rs |-> ExportedRoot(s, rs[k], e)]
                                            \o [k \in DOMAIN ds |-> ExportedDID(s, ds[k], e)]]
          /\ dids' = Derived(s, D, p)
          /\ print' = Stamped(s, R, D, p)
    /\ UNCHANGED <<rooted, roots, tmp, job, answer, history, upsets>>

\* A backup is damaged where it is kept: its fingerprint does not fit any more,
\* and a secret in it may decrypt to something else.
Damaged(en, real) ==
    IF en.kind = "root" THEN [en EXCEPT !.good = FALSE, !.real = @ /\ real]
    ELSE [en EXCEPT !.good = FALSE]

Damage ==
    /\ Upset
    /\ \E i \in DOMAIN backup.entries, real \in BOOLEAN :
          backup' = [backup EXCEPT !.entries[i] = Damaged(@, real)]
    /\ UNCHANGED <<files, tmp, job, answer, history, calls>>

-------------------------------------------------------------------------------
(* Import of one entry: the files it leaves, whether the password was used  *)
(* (and so stamped), and whether the call returned "ok" or "failed" or the  *)
(* process died in it.                                                      *)

Outcome(x, used, result) == [files |-> x, used |-> used, result |-> result]

\* The files after each write of an import of the identity.
RootWrites(s, x, p, e, en) ==
    LET v == IF en.real THEN p ELSE Bad
        w1 == [x EXCEPT !.pub = TRUE]
        w2 == [w1 EXCEPT !.mnemonic = v]
        w3 == [w2 EXCEPT !.prv = v]
        w4 == [w3 EXCEPT !.index = en.index]
    IN IF en.mnemonic /\ e = en.pass /\ Admits(s, p)
       THEN <<w1, w2, w3, w4>> ELSE <<w1>>

\* Bugs for the mutants: the error exit leaves what was written; the key keeps
\* the password of the export; the marker of a lazy key is moved, not the key.
AbsorbRootKept(s, x, p, e, en) ==
    LET w == RootWrites(s, x, p, e, en) IN
    {Outcome(w[Len(w)], Len(w) > 1, IF Len(w) = 4 /\ en.good THEN "ok" ELSE "failed")}
AbsorbDIDUnconverted(c, p, e, en) ==
    {Outcome([doc |-> en.doc, vc |-> c.vc \/ en.vc,
              key |-> IF en.key THEN e ELSE c.key], FALSE, "ok")}
AbsorbDIDMarker(c, p, e, en) ==
    {Outcome([doc |-> en.doc, vc |-> c.vc \/ en.vc,
              key |-> IF en.key THEN Lazy ELSE c.key], FALSE, "ok")}

\* The files are written while the export is read, its fingerprint is compared
\* at the end.  On an error the identity's directory is deleted, unless the
\* damage is before the public key, which names the directory.
AbsorbRoot(s, x, p, e, en) ==
    LET w == RootWrites(s, x, p, e, en)
        used == Len(w) > 1
    IN IF used /\ en.good THEN {Outcome(w[4], TRUE, "ok")}
       ELSE {Outcome(Blank, used, "failed")}
            \cup {Outcome(x, FALSE, "failed") : g \in {FALSE} \cap {en.good}}

BreakRoot(s, x, p, e, en) ==
    LET w == RootWrites(s, x, p, e, en) IN
    {Outcome(Blank, Len(w) > 1, "failed")}
    \cup {Outcome(w[i], i > 1, "dead") : i \in DOMAIN w}

\* A DID's export is checked as a whole before the first write.  The keys are
\* encrypted with p, which is not compared with the store's password.
DIDWrites(c, p, e, en) ==
    LET c1 == [c EXCEPT !.doc = en.doc]
        c2 == [c1 EXCEPT !.vc = @ \/ en.vc]
        c3 == [c2 EXCEPT !.key = IF en.key THEN p ELSE @]
    IN IF en.good /\ e = en.pass THEN <<c1, c2, c3>> ELSE <<>>

AbsorbDID(c, p, e, en) ==
    LET w == DIDWrites(c, p, e, en) IN
    IF w # <<>> THEN {Outcome(w[3], FALSE, "ok")} ELSE {Outcome(c, FALSE, "failed")}

\* A file that cannot be written is deleted.
BreakDID(c, p, e, en) ==
    LET w == DIDWrites(c, p, e, en) IN
    {Outcome(w[i], FALSE, "dead") : i \in DOMAIN w}
    \cup (IF w = <<>> THEN {}
          ELSE {Outcome([c EXCEPT !.doc = 0], FALSE, "failed"),
                Outcome([w[1] EXCEPT !.vc = @ /\ ~en.vc], FALSE, "failed"),
                Outcome([w[2] EXCEPT !.key = IF en.key THEN None ELSE @], FALSE, "failed")})

\* An import of the entry by s ends in one of the outcomes.
Ends(s, p, en, outcomes, then(_)) ==
    \E o \in outcomes :
        /\ IF en.kind = "root"
           THEN /\ roots' = [roots EXCEPT ![s][en.of] = o.files]
                /\ rooted' = [rooted EXCEPT ![s] = @ \/ o.files # roots[s][en.of]]
                /\ torn' = IF o.result = "dead" THEN torn \cup {en.of} ELSE torn
                /\ removed' = IF o.files = Blank /\ roots[s][en.of] # Blank
                              THEN removed \cup {<<s, en.of>>} ELSE removed
                /\ UNCHANGED dids
           ELSE /\ dids' = [dids EXCEPT ![s][en.of] = o.files]
                /\ UNCHANGED <<roots, rooted, history>>
        /\ print' = [print EXCEPT ![s] = IF o.used THEN p ELSE @]
        /\ then(o.result)

Import(s, p, e, en, then(_)) ==
    \/ /\ Ends(s, p, en, IF en.kind = "root" THEN AbsorbRoot(s, roots[s][en.of], p, e, en)
                         ELSE AbsorbDID(dids[s][en.of], p, e, en), then)
       /\ UNCHANGED upsets
    \/ /\ Ends(s, p, en, IF en.kind = "root" THEN BreakRoot(s, roots[s][en.of], p, e, en)
                         ELSE BreakDID(dids[s][en.of], p, e, en), then)
       /\ Upset

Given(s) == IF Misuse THEN Passwords ELSE {StorePass[s]}

\* DIDStore_ImportDID and DIDStore_ImportRootIdentity of a single export.
ImportFile(s, p, e) ==
    /\ Call(s) /\ ~backup.zip /\ backup # NoFile
    /\ Import(s, p, e, backup.entries[1], LAMBDA result : TRUE)
    /\ UNCHANGED <<backup, tmp, job, answer>>

\* DIDStore_ImportStore opens the zip and takes its entries one by one.
ImportStore(s, p, e) ==
    /\ Call(s) /\ backup.zip
    /\ Cardinality({t \in Stores : ~Idle(t)}) < MaxJobs
    /\ job' = [job EXCEPT ![s] = [entries |-> backup.entries, next |-> 1,
                                  pass |-> p, exp |-> e, unpacked |-> FALSE]]
    /\ answer' = [answer EXCEPT ![s] = "none"]
    /\ UNCHANGED <<files, backup, tmp, history, upsets>>

Answer(s, a) ==
    /\ job' = [job EXCEPT ![s] = None]
    /\ answer' = [answer EXCEPT ![s] = a]

Unpack(s) ==
    /\ ~Idle(s) /\ ~job[s].unpacked
    /\ \/ /\ tmp' = job[s].entries[job[s].next]
          /\ job' = [job EXCEPT ![s].unpacked = TRUE]
          /\ UNCHANGED <<answer, upsets>>
       \/ Upset /\ tmp' = None /\ Answer(s, "failed")
    /\ UNCHANGED <<files, backup, history, calls>>

\* Bugs for the mutants: ImportStore goes on after an entry that was not imported,
\* or past the last one.
GoOnAnyway(s, result) ==
    IF result = "dead" THEN Answer(s, "dead") /\ UNCHANGED tmp
    ELSE /\ tmp' = None
         /\ IF job[s].next < Len(job[s].entries)
            THEN /\ job' = [job EXCEPT ![s].next = @ + 1, ![s].unpacked = FALSE]
                 /\ UNCHANGED answer
            ELSE Answer(s, "ok")
GoOnPast(s, result) ==
    /\ tmp' = None
    /\ job' = [job EXCEPT ![s].next = @ + 1, ![s].unpacked = FALSE]
    /\ UNCHANGED answer

\* After an entry: the next one, or the answer of the call.
GoOn(s, result) ==
    LET more == job[s].next < Len(job[s].entries) IN
    /\ tmp' = IF result = "dead" THEN tmp ELSE None
    /\ IF result = "ok" /\ more
       THEN /\ job' = [job EXCEPT ![s].next = @ + 1, ![s].unpacked = FALSE]
            /\ UNCHANGED answer
       ELSE Answer(s, result)

\* The file is read back and imported as what the name of the zip's entry says.
TakeEntry(s) ==
    /\ ~Idle(s) /\ job[s].unpacked
    /\ IF tmp # None /\ tmp.kind = job[s].entries[job[s].next].kind
       THEN Import(s, job[s].pass, job[s].exp, tmp, LAMBDA result : GoOn(s, result))
       ELSE GoOn(s, "failed") /\ UNCHANGED <<files, history, upsets>>
    /\ UNCHANGED <<backup, calls>>

-------------------------------------------------------------------------------

Next ==
    \/ \E s \in Stores :
          \/ \E r \in Roots : NewRootIdentity(s, r) \/ DeleteRootIdentity(s, r)
          \/ \E d \in Dids : NewDID(s, d) \/ Update(s, d) \/ DeleteDID(s, d)
          \/ \E p, e \in Passwords :
                \/ \E d \in Dids : ExportDID(s, d, p, e)
                \/ \E r \in Roots : ExportRootIdentity(s, r, p, e)
                \/ ExportStore(s, p, e)
          \/ \E p \in Given(s), e \in Passwords : ImportFile(s, p, e) \/ ImportStore(s, p, e)
          \/ Unpack(s) \/ TakeEntry(s)
    \/ Damage

Spec == Init /\ [][Next]_vars

-------------------------------------------------------------------------------

Job == [entries : Seq(Entry), next : Nat \ {0}, pass : Passwords,
        exp : Passwords, unpacked : BOOLEAN]

\* The variables are what the files and calls of the program can be; a list of
\* entries is never exhausted while its call is still going on.
TypeOK ==
    /\ print \in [Stores -> Passwords \cup {None}]
    /\ rooted \in [Stores -> BOOLEAN]
    /\ roots \in [Stores -> [Roots -> Identity]]
    /\ dids \in [Stores -> [Dids -> DidFiles]]
    /\ backup.zip \in BOOLEAN /\ \A i \in DOMAIN backup.entries : backup.entries[i] \in Entry
    /\ tmp \in Entry \cup {None}
    /\ \A s \in Stores : job[s] # None =>
          /\ job[s] \in Job
          /\ job[s].next \in DOMAIN job[s].entries
    /\ answer \in [Stores -> {"none", "ok", "failed", "dead"}]
    /\ torn \subseteq Roots /\ removed \subseteq Stores \X Roots

\* Every secret of a store is under one password, and it is the one the store
\* admits, whichever stores and backups it came through (store_mnemonic,
\* store_extendedprvkey, import_privatekey, RootIdentity_LazyCreatePrivateKey).
Readable ==
    \A s \in Stores :
        LET used == {roots[s][r].mnemonic : r \in Roots}
                    \cup {roots[s][r].prv : r \in Roots}
                    \cup {dids[s][d].key : d \in Dids}
        IN \E p \in Passwords :
              used \cap Passwords \subseteq {p} /\ Admits(s, p)

\* An identity is in a store as a whole and undamaged, or not at all, whatever
\* import of it failed halfway; only the death of the process leaves a part.
IdentityWhole ==
    \A s \in Stores, r \in Roots :
        \/ r \in torn
        \/ roots[s][r] = Blank
        \/ Whole(r, roots[s][r])

\* A private key that is still to be derived can be: its identity is in the same
\* store, unless it was deleted there or by a failed import of itself.
Derivable ==
    \A s \in Stores, d \in Dids :
        dids[s][d].key = Lazy =>
            \/ Whole(RootOf[d], roots[s][RootOf[d]])
            \/ RootOf[d] \in torn \/ <<s, RootOf[d]>> \in removed

Holds(identities, documents, p, en) ==
    IF en.kind = "root"
    THEN LET v == IF en.real THEN p ELSE Bad IN
         identities[en.of] = [pub |-> TRUE, mnemonic |-> v, prv |-> v, index |-> en.index]
    ELSE /\ documents[en.of].doc = en.doc
         /\ en.vc => documents[en.of].vc
         /\ en.key => documents[en.of].key = p

\* When ImportStore answers success, the store has each identity and each DID of
\* the zip, with their secrets under its own password.
ImportComplete ==
    [][\A s \in Stores :
          answer[s] # "ok" /\ answer'[s] = "ok" =>
              \A i \in DOMAIN job[s].entries :
                  Holds(roots'[s], dids'[s], job[s].pass, job[s].entries[i])]_vars

================================================================================
