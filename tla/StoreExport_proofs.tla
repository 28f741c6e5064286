-------------------------- MODULE StoreExport_proofs ---------------------------
(***************************************************************************)
(* Proofs about StoreExport, for any sets of stores, identities, DIDs and   *)
(* passwords, and any number of calls, failures, crashes and damages.  That *)
(* identities are whole and lazy keys derivable holds however imports are   *)
(* called; that secrets are readable, when they are given the store's own   *)
(* password; that a successful ImportStore brought everything, when one     *)
(* process imports at a time.                                               *)
(***************************************************************************)
EXTENDS StoreExport, FiniteSetTheorems, SequenceTheorems, TLAPS

\* The application gives an import the password of the store.
OwnPassword == ~Misuse

\* No two processes unpack to the temporary file.
OneImport == MaxJobs <= 1

--------------------------------------------------------------------------------
\* The inductive invariants.

Backup == [zip : BOOLEAN, entries : Seq(Entry)]

\* The types, with the backup and the list of an import as sequences, and no
\* backup without entries.
Shape ==
    /\ print \in [Stores -> Passwords \cup {None}]
    /\ rooted \in [Stores -> BOOLEAN]
    /\ roots \in [Stores -> [Roots -> Identity]]
    /\ dids \in [Stores -> [Dids -> DidFiles]]
    /\ backup \in Backup
    /\ backup = NoFile \/ backup.entries # <<>>
    /\ tmp \in Entry \cup {None}
    /\ job \in [Stores -> Job \cup {None}]
    /\ \A s \in Stores : ~Idle(s) => job[s].next \in 1..Len(job[s].entries)
    /\ answer \in [Stores -> {"none", "ok", "failed", "dead"}]
    /\ torn \subseteq Roots /\ removed \subseteq Stores \X Roots

\* What an export says of an identity: one with a mnemonic was made from one, and
\* its secrets are the real ones unless a crash left a part of it somewhere.
Faithful(en) ==
    en.kind = "root" =>
        /\ en.mnemonic => en.of \notin KeyOnly
        /\ en.good /\ en.of \notin torn => en.real

\* It is so wherever an export is on its way.
Exports ==
    /\ \A i \in DOMAIN backup.entries : Faithful(backup.entries[i])
    /\ tmp # None => Faithful(tmp)
    /\ \A s \in Stores : ~Idle(s) =>
          \A i \in DOMAIN job[s].entries : Faithful(job[s].entries[i])

NoMnemonic == \A s \in Stores : \A r \in KeyOnly : roots[s][r].mnemonic = None

\* A key that is to be derived has some identity there, or had one.
Rooted ==
    \A s \in Stores, d \in Dids :
        dids[s][d].key = Lazy =>
            roots[s][RootOf[d]] # Blank \/ <<s, RootOf[d]>> \in removed

IInv == Shape /\ Exports /\ NoMnemonic /\ IdentityWhole /\ Rooted

\* Everything is under the password of the store's user, and the fingerprint, too;
\* there is one as soon as there is a secret of an identity.
Sealed ==
    \A s \in Stores :
        /\ print[s] \in {None, StorePass[s]}
        /\ \A r \in Roots :
              /\ {roots[s][r].mnemonic, roots[s][r].prv} \subseteq {StorePass[s], Bad, None}
              /\ roots[s][r].mnemonic # None \/ roots[s][r].prv # None => print[s] = StorePass[s]
        /\ \A d \in Dids : dids[s][d].key \in {StorePass[s], Lazy, None}
        /\ ~Idle(s) => job[s].pass = StorePass[s]

\* No two entries of a zip are of one identity or one DID.
Distinct(entries) ==
    \A i, j \in DOMAIN entries :
        entries[i].kind = entries[j].kind /\ entries[i].of = entries[j].of => i = j

\* The import that is going on has its own entry in the temporary file, and
\* everything before that is in the store.
Progressing ==
    /\ \A s, t \in Stores : ~Idle(s) /\ ~Idle(t) => s = t
    /\ backup.zip => Distinct(backup.entries)
    /\ \A s \in Stores : ~Idle(s) =>
          /\ Distinct(job[s].entries)
          /\ job[s].unpacked => tmp = job[s].entries[job[s].next]
          /\ \A i \in 1..(job[s].next - 1) :
                Holds(roots[s], dids[s], job[s].pass, job[s].entries[i])

--------------------------------------------------------------------------------
\* How the import of one entry can end.

Value(p, en) == IF en.real THEN p ELSE Bad

\* The end of an import of the identity x: it is deleted, left alone, brought, or
\* whatever a crash made of it.
RootEnd(s, x, p, en, o) ==
    /\ o.files \in Identity /\ o.used \in BOOLEAN
    /\ o.used => Admits(s, p)
    /\ \/ o.files = Blank /\ o.result = "failed"
       \/ o.files = x /\ ~o.used /\ o.result = "failed"
       \/ o.files.pub /\ o.result = "dead"
       \/ /\ o.result = "ok" /\ en.good /\ en.mnemonic
          /\ o.files = [pub |-> TRUE, mnemonic |-> Value(p, en),
                        prv |-> Value(p, en), index |-> en.index]
    /\ \/ o.files = Blank
       \/ o.files.mnemonic = x.mnemonic /\ o.files.prv = x.prv
       \/ /\ o.used /\ en.mnemonic
          /\ o.files.mnemonic = Value(p, en) /\ o.files.prv \in {x.prv, Value(p, en)}

DIDEnd(c, p, en, o) ==
    /\ o.files \in DidFiles
    /\ ~o.used /\ o.result \in {"ok", "failed", "dead"}
    /\ o.files.key \in {c.key, p, None}
    /\ o.result = "ok" =>
          /\ o.files.doc = en.doc
          /\ en.vc => o.files.vc
          /\ en.key => o.files.key = p

\* The store s imports the entry, to the end o.
Took(s, p, en, o) ==
    /\ IF en.kind = "root"
       THEN /\ RootEnd(s, roots[s][en.of], p, en, o)
            /\ roots' = [roots EXCEPT ![s][en.of] = o.files]
            /\ rooted' = [rooted EXCEPT ![s] = @ \/ o.files # roots[s][en.of]]
            /\ torn' = IF o.result = "dead" THEN torn \cup {en.of} ELSE torn
            /\ removed' = IF o.files = Blank /\ roots[s][en.of] # Blank
                          THEN removed \cup {<<s, en.of>>} ELSE removed
            /\ UNCHANGED dids
       ELSE /\ DIDEnd(dids[s][en.of], p, en, o)
            /\ dids' = [dids EXCEPT ![s][en.of] = o.files]
            /\ UNCHANGED <<roots, rooted, history>>
    /\ print' = [print EXCEPT ![s] = IF o.used THEN p ELSE @]

\* An entry is of an identity or of a DID, and has what one of them has.
LEMMA EntryKinds ==
    ASSUME NEW en \in Entry
    PROVE  \/ en \in RootEntry /\ en.kind = "root"
           \/ en \in DidEntry /\ en.kind = "did"
BY DEF Entry, RootEntry, DidEntry

\* A file of an identity is written.
LEMMA IdentityWrites ==
    ASSUME NEW x \in Identity, NEW y
    PROVE  /\ [x EXCEPT !.pub = y] =
                 [pub |-> y, mnemonic |-> x.mnemonic, prv |-> x.prv, index |-> x.index]
           /\ [x EXCEPT !.mnemonic = y] =
                 [pub |-> x.pub, mnemonic |-> y, prv |-> x.prv, index |-> x.index]
           /\ [x EXCEPT !.prv = y] =
                 [pub |-> x.pub, mnemonic |-> x.mnemonic, prv |-> y, index |-> x.index]
           /\ [x EXCEPT !.index = y] =
                 [pub |-> x.pub, mnemonic |-> x.mnemonic, prv |-> x.prv, index |-> y]
BY DEF Identity

\* What an identity's four files are after each write of an import.
LEMMA WritesOfRoot ==
    ASSUME NEW s, NEW x \in Identity, NEW p \in Passwords, NEW e, NEW en \in RootEntry,
           NEW w, w = RootWrites(s, x, p, e, en), NEW v, v = Value(p, en)
    PROVE  /\ w[1] = [pub |-> TRUE, mnemonic |-> x.mnemonic, prv |-> x.prv, index |-> x.index]
           /\ \/ Len(w) = 1 /\ DOMAIN w = {1}
              \/ /\ Len(w) = 4 /\ DOMAIN w = 1..4
                 /\ en.mnemonic /\ Admits(s, p)
                 /\ w[2] = [pub |-> TRUE, mnemonic |-> v, prv |-> x.prv, index |-> x.index]
                 /\ w[3] = [pub |-> TRUE, mnemonic |-> v, prv |-> v, index |-> x.index]
                 /\ w[4] = [pub |-> TRUE, mnemonic |-> v, prv |-> v, index |-> en.index]
<1> DEFINE w1 == [x EXCEPT !.pub = TRUE]
           w2 == [w1 EXCEPT !.mnemonic = v]
           w3 == [w2 EXCEPT !.prv = v]
           w4 == [w3 EXCEPT !.index = en.index]
<1>0. v \in Secret /\ en.index \in Nat
    BY DEF Value, Secret, RootEntry
<1>1. w1 = [pub |-> TRUE, mnemonic |-> x.mnemonic, prv |-> x.prv, index |-> x.index]
    BY IdentityWrites
<1>2. w1 \in Identity
    BY <1>1 DEF Identity
<1>3. w2 = [pub |-> TRUE, mnemonic |-> v, prv |-> x.prv, index |-> x.index]
    <2> HIDE DEF w1
    <2>1. w2 = [pub |-> w1.pub, mnemonic |-> v, prv |-> w1.prv, index |-> w1.index]
        BY <1>2, IdentityWrites
    <2> QED BY <1>1, <2>1
<1>4. w2 \in Identity
    BY <1>0, <1>3 DEF Identity
<1>5. w3 = [pub |-> TRUE, mnemonic |-> v, prv |-> v, index |-> x.index]
    <2> HIDE DEF w2
    <2>1. w3 = [pub |-> w2.pub, mnemonic |-> w2.mnemonic, prv |-> v, index |-> w2.index]
        BY <1>4, IdentityWrites
    <2> QED BY <1>3, <2>1
<1>6. w3 \in Identity
    BY <1>0, <1>5 DEF Identity
<1>7. w4 = [pub |-> TRUE, mnemonic |-> v, prv |-> v, index |-> en.index]
    <2> HIDE DEF w3
    <2>1. w4 = [pub |-> w3.pub, mnemonic |-> w3.mnemonic, prv |-> w3.prv,
                index |-> en.index]
        BY <1>6, IdentityWrites
    <2> QED BY <1>5, <2>1
<1>8. w = IF en.mnemonic /\ e = en.pass /\ Admits(s, p)
          THEN <<w1, w2, w3, w4>> ELSE <<w1>>
    BY DEF RootWrites, Value
<1> HIDE DEF w1, w2, w3, w4
<1>9. CASE w = <<w1>>
    BY <1>1, <1>9
<1>10. CASE w = <<w1, w2, w3, w4>> /\ en.mnemonic /\ Admits(s, p)
    <2>1. Len(w) = 4 /\ DOMAIN w = 1..4 /\ w[1] = w1 /\ w[2] = w2 /\ w[3] = w3 /\ w[4] = w4
        BY <1>10
    <2> QED BY <1>1, <1>3, <1>5, <1>7, <1>10, <2>1
<1> QED BY <1>8, <1>9, <1>10

\* However an import of an identity ends, what it leaves is one of these.
LEMMA RootEnds ==
    ASSUME NEW s, NEW x \in Identity, NEW p \in Passwords, NEW e, NEW en \in RootEntry,
           NEW o \in AbsorbRoot(s, x, p, e, en) \cup BreakRoot(s, x, p, e, en)
    PROVE  RootEnd(s, x, p, en, o)
<1>v. PICK v : v = Value(p, en)
    OBVIOUS
<1>0. /\ v \in Secret /\ en.index \in Nat /\ Blank \in Identity
      /\ en.good \in BOOLEAN /\ en.mnemonic \in BOOLEAN
    BY <1>v DEF Value, Secret, RootEntry, Blank, Identity
<1>1. PICK w : w = RootWrites(s, x, p, e, en)
    OBVIOUS
<1>2. /\ \A i \in DOMAIN w : w[i] \in Identity /\ w[i].pub
      /\ 1 \in DOMAIN w /\ Len(w) \in {1, 4}
      /\ w[1].mnemonic = x.mnemonic /\ w[1].prv = x.prv
      /\ Len(w) > 1 =>
            /\ en.mnemonic /\ Admits(s, p)
            /\ \A i \in DOMAIN w \ {1} : w[i].mnemonic = v /\ w[i].prv \in {x.prv, v}
            /\ 4 \in DOMAIN w
            /\ w[4] = [pub |-> TRUE, mnemonic |-> v, prv |-> v, index |-> en.index]
      /\ Len(w) = 1 => DOMAIN w = {1}
      /\ \A i \in DOMAIN w : i \in Nat
    <2>1. /\ w[1] = [pub |-> TRUE, mnemonic |-> x.mnemonic, prv |-> x.prv, index |-> x.index]
          /\ \/ Len(w) = 1 /\ DOMAIN w = {1}
             \/ /\ Len(w) = 4 /\ DOMAIN w = 1..4
                /\ en.mnemonic /\ Admits(s, p)
                /\ w[2] = [pub |-> TRUE, mnemonic |-> v, prv |-> x.prv, index |-> x.index]
                /\ w[3] = [pub |-> TRUE, mnemonic |-> v, prv |-> v, index |-> x.index]
                /\ w[4] = [pub |-> TRUE, mnemonic |-> v, prv |-> v, index |-> en.index]
        BY <1>v, <1>1, WritesOfRoot
    <2>2. /\ w[1] \in Identity /\ w[1].pub
          /\ w[1].mnemonic = x.mnemonic /\ w[1].prv = x.prv
        BY <2>1 DEF Identity
    <2>3. CASE Len(w) = 4 /\ DOMAIN w = 1..4
        <3>0. /\ en.mnemonic /\ Admits(s, p)
              /\ w[2] = [pub |-> TRUE, mnemonic |-> v, prv |-> x.prv, index |-> x.index]
              /\ w[3] = [pub |-> TRUE, mnemonic |-> v, prv |-> v, index |-> x.index]
              /\ w[4] = [pub |-> TRUE, mnemonic |-> v, prv |-> v, index |-> en.index]
            BY <2>1, <2>3
        <3>1. w[2] \in Identity /\ w[2].pub /\ w[2].mnemonic = v /\ w[2].prv = x.prv
            BY <1>0, <3>0 DEF Identity
        <3>2. w[3] \in Identity /\ w[3].pub /\ w[3].mnemonic = v /\ w[3].prv = v
            BY <1>0, <3>0 DEF Identity
        <3>3. w[4] \in Identity /\ w[4].pub /\ w[4].mnemonic = v /\ w[4].prv = v
            BY <1>0, <3>0 DEF Identity
        <3>4. \A i \in DOMAIN w : i = 1 \/ i = 2 \/ i = 3 \/ i = 4
            BY <2>3
        <3>5. \A i \in DOMAIN w : w[i] \in Identity /\ w[i].pub
            BY <2>2, <3>1, <3>2, <3>3, <3>4
        <3>6. \A i \in DOMAIN w \ {1} : w[i].mnemonic = v /\ w[i].prv \in {x.prv, v}
            BY <3>1, <3>2, <3>3, <3>4
        <3>7. 1 \in DOMAIN w /\ 4 \in DOMAIN w /\ (\A i \in DOMAIN w : i \in Nat)
            BY <2>3
        <3> QED BY <2>2, <2>3, <3>0, <3>5, <3>6, <3>7
    <2>4. CASE Len(w) = 1 /\ DOMAIN w = {1}
        BY <2>2, <2>4
    <2> QED BY <2>1, <2>3, <2>4
<1>3. ASSUME o.files = Blank, o.used \in BOOLEAN, o.used => Len(w) > 1,
             o.result = "failed"
      PROVE  RootEnd(s, x, p, en, o)
    BY <1>v, <1>0, <1>2, <1>3 DEF RootEnd
<1>4. ASSUME o = Outcome(x, FALSE, "failed")
      PROVE  RootEnd(s, x, p, en, o)
    BY <1>v, <1>0, <1>2, <1>4 DEF RootEnd, Outcome
<1>5. ASSUME NEW i \in DOMAIN w, o.files = w[i], o.used \in BOOLEAN,
             o.used <=> i > 1, o.result = "dead"
      PROVE  RootEnd(s, x, p, en, o)
    <2>1. w[i] \in Identity /\ w[i].pub /\ i \in Nat
        BY <1>2
    <2>2. CASE i = 1
        <3>1. ~o.used
            BY <1>5, <2>1, <2>2
        <3> QED BY <1>2, <1>5, <2>1, <2>2, <3>1 DEF RootEnd
    <2>3. CASE i # 1
        <3>1. Len(w) > 1
            BY <1>2, <2>3
        <3>2. w[i].mnemonic = v /\ w[i].prv \in {x.prv, v} /\ en.mnemonic /\ Admits(s, p)
            BY <1>2, <2>3, <3>1
        <3>3. o.used
            BY <1>2, <1>5, <2>1, <2>3
        <3> QED BY <1>v, <1>5, <2>1, <3>2, <3>3 DEF RootEnd
    <2> QED BY <2>2, <2>3
<1>6. ASSUME Len(w) > 1, en.good, o = Outcome(w[4], TRUE, "ok")
      PROVE  RootEnd(s, x, p, en, o)
    BY <1>v, <1>0, <1>2, <1>6 DEF RootEnd, Outcome, Identity
<1>7. CASE o \in AbsorbRoot(s, x, p, e, en)
    <2>1. \/ Len(w) > 1 /\ en.good /\ o = Outcome(w[4], TRUE, "ok")
          \/ o = Outcome(Blank, Len(w) > 1, "failed")
          \/ o = Outcome(x, FALSE, "failed")
        BY <1>1, <1>7 DEF AbsorbRoot
    <2>2. CASE o = Outcome(Blank, Len(w) > 1, "failed")
        <3>1. o.files = Blank /\ o.result = "failed"
            BY <2>2 DEF Outcome
        <3>2. PICK n \in Nat : n = Len(w)
            BY <1>2
        <3>3. o.used \in BOOLEAN
            BY <2>2, <3>2 DEF Outcome
        <3>4. o.used => Len(w) > 1
            BY <2>2, <3>2 DEF Outcome
        <3> QED BY <1>3, <3>1, <3>3, <3>4
    <2> QED BY <1>4, <1>6, <2>1, <2>2
<1>8. CASE o \in BreakRoot(s, x, p, e, en)
    <2>1. \/ o = Outcome(Blank, Len(w) > 1, "failed")
          \/ \E i \in DOMAIN w : o = Outcome(w[i], i > 1, "dead")
        BY <1>1, <1>8 DEF BreakRoot
    <2>2. CASE o = Outcome(Blank, Len(w) > 1, "failed")
        <3>1. o.files = Blank /\ o.result = "failed"
            BY <2>2 DEF Outcome
        <3>2. PICK n \in Nat : n = Len(w)
            BY <1>2
        <3>3. o.used \in BOOLEAN
            BY <2>2, <3>2 DEF Outcome
        <3>4. o.used => Len(w) > 1
            BY <2>2, <3>2 DEF Outcome
        <3> QED BY <1>3, <3>1, <3>3, <3>4
    <2>3. ASSUME NEW i \in DOMAIN w, o = Outcome(w[i], i > 1, "dead")
          PROVE  RootEnd(s, x, p, en, o)
        <3>1. o.files = w[i] /\ o.result = "dead"
            BY <2>3 DEF Outcome
        <3>2. i \in Nat
            BY <1>2
        <3>3. o.used \in BOOLEAN
            BY <2>3, <3>2 DEF Outcome
        <3>4. o.used => i > 1
            BY <2>3, <3>2 DEF Outcome
        <3>5. i > 1 => o.used
            BY <2>3, <3>2 DEF Outcome
        <3> QED BY <1>5, <3>1, <3>3, <3>4, <3>5
    <2> QED BY <2>1, <2>2, <2>3
<1> QED BY <1>7, <1>8

\* A file of a DID is written.
LEMMA DIDFilesWrites ==
    ASSUME NEW c \in DidFiles, NEW y
    PROVE  /\ [c EXCEPT !.doc = y] = [doc |-> y, vc |-> c.vc, key |-> c.key]
           /\ [c EXCEPT !.vc = y] = [doc |-> c.doc, vc |-> y, key |-> c.key]
           /\ [c EXCEPT !.key = y] = [doc |-> c.doc, vc |-> c.vc, key |-> y]
BY DEF DidFiles

\* However an import of a DID ends, its key is the one before, the new one or none.
LEMMA DIDEnds ==
    ASSUME NEW c \in DidFiles, NEW p \in Passwords, NEW e, NEW en \in DidEntry,
           NEW o \in AbsorbDID(c, p, e, en) \cup BreakDID(c, p, e, en)
    PROVE  DIDEnd(c, p, en, o)
<1>1. PICK w : w = DIDWrites(c, p, e, en)
    OBVIOUS
<1> DEFINE c1 == [c EXCEPT !.doc = en.doc]
           c2 == [c1 EXCEPT !.vc = @ \/ en.vc]
           c3 == [c2 EXCEPT !.key = IF en.key THEN p ELSE @]
<1>0. /\ en.doc \in 0..MaxEdition /\ en.vc \in BOOLEAN /\ en.key \in BOOLEAN
      /\ c.doc \in 0..MaxEdition /\ c.vc \in BOOLEAN /\ c.key \in Secret \cup {Lazy}
      /\ p \in Secret /\ None \in Secret /\ 0 \in 0..MaxEdition
    BY ExportAssumption DEF DidFiles, DidEntry, Secret
<1>a. c1 = [doc |-> en.doc, vc |-> c.vc, key |-> c.key]
    BY DIDFilesWrites
<1>b. c1 \in DidFiles
    BY <1>0, <1>a DEF DidFiles
<1>c. c2 = [doc |-> en.doc, vc |-> c.vc \/ en.vc, key |-> c.key]
    <2>1. c2 = [doc |-> c1.doc, vc |-> c1.vc \/ en.vc, key |-> c1.key]
        BY <1>b, DIDFilesWrites
    <2> QED BY <1>a, <2>1
<1>d. c2 \in DidFiles
    BY <1>0, <1>c DEF DidFiles
<1>e. c3 = [doc |-> en.doc, vc |-> c.vc \/ en.vc, key |-> IF en.key THEN p ELSE c.key]
    <2>0. PICK k : k = IF en.key THEN p ELSE c2.key
        OBVIOUS
    <2>1. [c2 EXCEPT !.key = k] = [doc |-> c2.doc, vc |-> c2.vc, key |-> k]
        BY <1>d, DIDFilesWrites
    <2> QED BY <1>c, <2>0, <2>1
<1>f. c3 \in DidFiles
    BY <1>0, <1>e DEF DidFiles
<1>2. /\ c1 \in DidFiles /\ c2 \in DidFiles /\ c3 \in DidFiles
      /\ c1.key = c.key /\ c2.key = c.key /\ c3.key = IF en.key THEN p ELSE c.key
      /\ c3.doc = en.doc /\ (en.vc => c3.vc)
    BY <1>a, <1>b, <1>c, <1>d, <1>e, <1>f
<1>g. /\ [c EXCEPT !.doc = 0] = [doc |-> 0, vc |-> c.vc, key |-> c.key]
      /\ [c1 EXCEPT !.vc = @ /\ ~en.vc] =
            [doc |-> en.doc, vc |-> c.vc /\ ~en.vc, key |-> c.key]
      /\ [c2 EXCEPT !.key = IF en.key THEN None ELSE @] =
            [doc |-> en.doc, vc |-> c.vc \/ en.vc, key |-> IF en.key THEN None ELSE c.key]
    <2>1. [c EXCEPT !.doc = 0] = [doc |-> 0, vc |-> c.vc, key |-> c.key]
        BY DIDFilesWrites
    <2>2. [c1 EXCEPT !.vc = @ /\ ~en.vc] =
             [doc |-> c1.doc, vc |-> c1.vc /\ ~en.vc, key |-> c1.key]
        BY <1>b, DIDFilesWrites
    <2>3. PICK k : k = IF en.key THEN None ELSE c2.key
        OBVIOUS
    <2>4. [c2 EXCEPT !.key = k] = [doc |-> c2.doc, vc |-> c2.vc, key |-> k]
        BY <1>d, DIDFilesWrites
    <2> QED BY <1>a, <1>c, <2>1, <2>2, <2>3, <2>4
<1>3. w = <<>> \/ (w = <<c1, c2, c3>> /\ w # <<>>)
    BY <1>1 DEF DIDWrites
<1> HIDE DEF c1, c2, c3
<1>4. CASE w = <<>>
    <2>1. o = Outcome(c, FALSE, "failed")
        BY <1>1, <1>4 DEF AbsorbDID, BreakDID
    <2> QED BY <2>1 DEF Outcome, DIDEnd
<1>5. CASE w = <<c1, c2, c3>> /\ w # <<>>
    <2>1. /\ [c EXCEPT !.doc = 0] \in DidFiles /\ [c EXCEPT !.doc = 0].key = c.key
          /\ [c1 EXCEPT !.vc = @ /\ ~en.vc] \in DidFiles
          /\ [c1 EXCEPT !.vc = @ /\ ~en.vc].key = c.key
          /\ [c2 EXCEPT !.key = IF en.key THEN None ELSE @] \in DidFiles
          /\ [c2 EXCEPT !.key = IF en.key THEN None ELSE @].key \in {None, c.key}
        BY <1>0, <1>g DEF DidFiles
    <2>2. w[1] = c1 /\ w[2] = c2 /\ w[3] = c3 /\ DOMAIN w = 1..3
        BY <1>5
    <2>3. \/ o = Outcome(c3, FALSE, "ok")
          \/ \E i \in 1..3 : o = Outcome(w[i], FALSE, "dead")
          \/ o = Outcome([c EXCEPT !.doc = 0], FALSE, "failed")
          \/ o = Outcome([c1 EXCEPT !.vc = @ /\ ~en.vc], FALSE, "failed")
          \/ o = Outcome([c2 EXCEPT !.key = IF en.key THEN None ELSE @], FALSE, "failed")
        BY <1>1, <1>5, <2>2 DEF AbsorbDID, BreakDID
    <2>4. CASE o = Outcome(c3, FALSE, "ok")
        BY <1>2, <2>4 DEF Outcome, DIDEnd
    <2>5. CASE \E i \in 1..3 : o = Outcome(w[i], FALSE, "dead")
        BY <1>2, <2>2, <2>5 DEF Outcome, DIDEnd
    <2>6. CASE o = Outcome([c EXCEPT !.doc = 0], FALSE, "failed")
        BY <2>1, <2>6 DEF Outcome, DIDEnd
    <2>7. CASE o = Outcome([c1 EXCEPT !.vc = @ /\ ~en.vc], FALSE, "failed")
        BY <2>1, <2>7 DEF Outcome, DIDEnd
    <2>8. CASE o = Outcome([c2 EXCEPT !.key = IF en.key THEN None ELSE @], FALSE, "failed")
        BY <2>1, <2>8 DEF Outcome, DIDEnd
    <2> QED BY <2>3, <2>4, <2>5, <2>6, <2>7, <2>8
<1> QED BY <1>3, <1>4, <1>5

--------------------------------------------------------------------------------
\* The imports, as steps of Took.

LEMMA BackupEntries ==
    ASSUME Shape
    PROVE  /\ backup.entries \in Seq(Entry)
           /\ \A i \in DOMAIN backup.entries : backup.entries[i] \in Entry
           /\ backup # NoFile => 1 \in DOMAIN backup.entries
BY DEF Shape, Backup

\* The call of a busy process, and the list it goes through.
LEMMA BusyJob ==
    ASSUME Shape, NEW s \in Stores, ~Idle(s)
    PROVE  /\ job[s] \in Job
           /\ job[s].entries \in Seq(Entry) /\ job[s].next \in Nat \ {0}
           /\ job[s].next \in 1..Len(job[s].entries)
           /\ job[s].next \in DOMAIN job[s].entries
           /\ job[s].pass \in Passwords /\ job[s].exp \in Passwords
           /\ \A i \in DOMAIN job[s].entries : job[s].entries[i] \in Entry
<1>1. job[s] \in Job
    BY DEF Shape, Idle
<1>2. job[s].entries \in Seq(Entry) /\ job[s].next \in 1..Len(job[s].entries)
    BY <1>1 DEF Shape, Job
<1> QED BY <1>1, <1>2 DEF Job

LEMMA TookRoot ==
    ASSUME Shape, NEW s \in Stores, NEW p \in Passwords, NEW e, NEW en \in RootEntry,
           NEW o \in AbsorbRoot(s, roots[s][en.of], p, e, en)
                     \cup BreakRoot(s, roots[s][en.of], p, e, en)
    PROVE  RootEnd(s, roots[s][en.of], p, en, o)
<1>1. roots[s][en.of] \in Identity
    BY DEF Shape, RootEntry
<1> QED BY <1>1, RootEnds

LEMMA TookDID ==
    ASSUME Shape, NEW s \in Stores, NEW p \in Passwords, NEW e, NEW en \in DidEntry,
           NEW o \in AbsorbDID(dids[s][en.of], p, e, en)
                     \cup BreakDID(dids[s][en.of], p, e, en)
    PROVE  DIDEnd(dids[s][en.of], p, en, o)
<1>1. dids[s][en.of] \in DidFiles
    BY DEF Shape, DidEntry
<1> QED BY <1>1, DIDEnds

LEMMA ImportFileTook ==
    ASSUME Shape, NEW s \in Stores, NEW p \in Passwords, NEW e \in Passwords,
           ImportFile(s, p, e)
    PROVE  /\ 1 \in DOMAIN backup.entries /\ backup.entries[1] \in Entry
           /\ \E o : Took(s, p, backup.entries[1], o)
           /\ UNCHANGED <<backup, tmp, job, answer>>
<1>1. PICK en : en = backup.entries[1]
    OBVIOUS
<1>2. 1 \in DOMAIN backup.entries /\ en \in Entry /\ UNCHANGED <<backup, tmp, job, answer>>
    BY <1>1, BackupEntries DEF ImportFile
<1>3. CASE en \in RootEntry /\ en.kind = "root"
    <2>1. PICK o \in AbsorbRoot(s, roots[s][en.of], p, e, en)
                     \cup BreakRoot(s, roots[s][en.of], p, e, en) :
              /\ roots' = [roots EXCEPT ![s][en.of] = o.files]
              /\ rooted' = [rooted EXCEPT ![s] = @ \/ o.files # roots[s][en.of]]
              /\ torn' = IF o.result = "dead" THEN torn \cup {en.of} ELSE torn
              /\ removed' = IF o.files = Blank /\ roots[s][en.of] # Blank
                            THEN removed \cup {<<s, en.of>>} ELSE removed
              /\ UNCHANGED dids
              /\ print' = [print EXCEPT ![s] = IF o.used THEN p ELSE @]
        BY <1>1, <1>3 DEF ImportFile, Import, Ends
    <2>2. Took(s, p, en, o)
        BY <1>3, <2>1, TookRoot DEF Took
    <2> QED BY <1>1, <1>2, <2>2
<1>4. CASE en \in DidEntry /\ en.kind = "did"
    <2>1. PICK o \in AbsorbDID(dids[s][en.of], p, e, en)
                     \cup BreakDID(dids[s][en.of], p, e, en) :
              /\ dids' = [dids EXCEPT ![s][en.of] = o.files]
              /\ UNCHANGED <<roots, rooted, history>>
              /\ print' = [print EXCEPT ![s] = IF o.used THEN p ELSE @]
        BY <1>1, <1>4 DEF ImportFile, Import, Ends
    <2>2. Took(s, p, en, o)
        BY <1>4, <2>1, TookDID DEF Took
    <2> QED BY <1>1, <1>2, <2>2
<1> QED BY <1>2, <1>3, <1>4, EntryKinds

LEMMA TakeEntryTook ==
    ASSUME Shape, NEW s \in Stores, TakeEntry(s)
    PROVE  /\ ~Idle(s) /\ job[s].unpacked /\ UNCHANGED backup
           /\ \/ /\ tmp \in Entry /\ tmp.kind = job[s].entries[job[s].next].kind
                 /\ \E o : /\ Took(s, job[s].pass, tmp, o)
                           /\ o.result \in {"ok", "failed", "dead"}
                           /\ GoOn(s, o.result)
              \/ GoOn(s, "failed") /\ UNCHANGED <<files, history>>
<1>1. ~Idle(s) /\ job[s].unpacked /\ UNCHANGED backup
    BY DEF TakeEntry
<1>2. CASE ~(tmp # None /\ tmp.kind = job[s].entries[job[s].next].kind)
    BY <1>1, <1>2 DEF TakeEntry
<1>3. CASE tmp # None /\ tmp.kind = job[s].entries[job[s].next].kind
    <2>1. tmp \in Entry /\ job[s].pass \in Passwords
        BY <1>1, <1>3, BusyJob DEF Shape
    <2>2. PICK p \in Passwords : p = job[s].pass
        BY <2>1
    <2>3. PICK e : e = job[s].exp
        OBVIOUS
    <2>4. Import(s, p, e, tmp, LAMBDA result : GoOn(s, result))
        BY <1>3, <2>2, <2>3 DEF TakeEntry
    <2>5. PICK en \in Entry : en = tmp
        BY <2>1
    <2>6. CASE en \in RootEntry /\ en.kind = "root"
        <3>1. PICK o \in AbsorbRoot(s, roots[s][en.of], p, e, en)
                         \cup BreakRoot(s, roots[s][en.of], p, e, en) :
                  /\ roots' = [roots EXCEPT ![s][en.of] = o.files]
                  /\ rooted' = [rooted EXCEPT ![s] = @ \/ o.files # roots[s][en.of]]
                  /\ torn' = IF o.result = "dead" THEN torn \cup {en.of} ELSE torn
                  /\ removed' = IF o.files = Blank /\ roots[s][en.of] # Blank
                                THEN removed \cup {<<s, en.of>>} ELSE removed
                  /\ UNCHANGED dids
                  /\ print' = [print EXCEPT ![s] = IF o.used THEN p ELSE @]
                  /\ GoOn(s, o.result)
            BY <2>4, <2>5, <2>6 DEF Import, Ends
        <3>2. RootEnd(s, roots[s][en.of], p, en, o)
            BY <2>6, TookRoot
        <3>3. Took(s, p, en, o) /\ o.result \in {"ok", "failed", "dead"}
            BY <2>6, <3>1, <3>2 DEF Took, RootEnd
        <3> QED BY <1>1, <1>3, <2>1, <2>2, <2>5, <3>1, <3>3
    <2>7. CASE en \in DidEntry /\ en.kind = "did"
        <3>1. PICK o \in AbsorbDID(dids[s][en.of], p, e, en)
                         \cup BreakDID(dids[s][en.of], p, e, en) :
                  /\ dids' = [dids EXCEPT ![s][en.of] = o.files]
                  /\ UNCHANGED <<roots, rooted, history>>
                  /\ print' = [print EXCEPT ![s] = IF o.used THEN p ELSE @]
                  /\ GoOn(s, o.result)
            BY <2>4, <2>5, <2>7 DEF Import, Ends
        <3>2. DIDEnd(dids[s][en.of], p, en, o)
            BY <2>7, TookDID
        <3>3. Took(s, p, en, o) /\ o.result \in {"ok", "failed", "dead"}
            BY <2>7, <3>1, <3>2 DEF Took, DIDEnd
        <3> QED BY <1>1, <1>3, <2>1, <2>2, <2>5, <3>1, <3>3
    <2> QED BY <2>5, <2>6, <2>7, EntryKinds
<1> QED BY <1>2, <1>3

\* What a call remembers is changed.
LEMMA JobWrites ==
    ASSUME NEW j \in Job, NEW n, NEW u
    PROVE  /\ [j EXCEPT !.unpacked = u] =
                 [entries |-> j.entries, next |-> j.next, pass |-> j.pass,
                  exp |-> j.exp, unpacked |-> u]
           /\ [j EXCEPT !.next = n, !.unpacked = u] =
                 [entries |-> j.entries, next |-> n, pass |-> j.pass,
                  exp |-> j.exp, unpacked |-> u]
<1>1. [j EXCEPT !.unpacked = u] =
         [entries |-> j.entries, next |-> j.next, pass |-> j.pass,
          exp |-> j.exp, unpacked |-> u]
    BY DEF Job
<1>2. [j EXCEPT !.next = n] =
         [entries |-> j.entries, next |-> n, pass |-> j.pass,
          exp |-> j.exp, unpacked |-> j.unpacked]
    BY DEF Job
<1>3. PICK k : k = [entries |-> j.entries, next |-> n, pass |-> j.pass,
                    exp |-> j.exp, unpacked |-> j.unpacked]
    OBVIOUS
<1>4. [k EXCEPT !.unpacked = u] =
         [entries |-> j.entries, next |-> n, pass |-> j.pass, exp |-> j.exp, unpacked |-> u]
    BY <1>3
<1>5. [j EXCEPT !.next = n, !.unpacked = u] = [k EXCEPT !.unpacked = u]
    BY <1>2, <1>3
<1> QED BY <1>1, <1>4, <1>5

\* After an entry the call goes on with the next one, or is over.
LEMMA GoesOn ==
    ASSUME Shape, NEW s \in Stores, ~Idle(s), NEW r, GoOn(s, r)
    PROVE  /\ tmp' \in {tmp, None}
           /\ \/ /\ job' = [job EXCEPT ![s] = None]
                 /\ answer' = [answer EXCEPT ![s] = r]
                 /\ r = "ok" => job[s].next = Len(job[s].entries)
              \/ /\ r = "ok" /\ job[s].next + 1 \in 1..Len(job[s].entries)
                 /\ job' = [job EXCEPT ![s] =
                        [entries |-> job[s].entries, next |-> job[s].next + 1,
                         pass |-> job[s].pass, exp |-> job[s].exp, unpacked |-> FALSE]]
                 /\ UNCHANGED answer
<1>1. tmp' \in {tmp, None}
    BY DEF GoOn
<1>2. PICK n \in Nat : n = Len(job[s].entries)
    BY BusyJob
<1>3. job[s].next \in 1..n
    BY <1>2, BusyJob
<1>4. CASE r = "ok" /\ job[s].next < n
    <2>1. job' = [job EXCEPT ![s].next = @ + 1, ![s].unpacked = FALSE] /\ UNCHANGED answer
        BY <1>2, <1>4 DEF GoOn
    <2>2. [job[s] EXCEPT !.next = @ + 1, !.unpacked = FALSE] =
             [entries |-> job[s].entries, next |-> job[s].next + 1,
              pass |-> job[s].pass, exp |-> job[s].exp, unpacked |-> FALSE]
        BY BusyJob, JobWrites
    <2>3. job' = [job EXCEPT ![s] = [job[s] EXCEPT !.next = @ + 1, !.unpacked = FALSE]]
        BY <2>1 DEF Shape
    <2>4. job[s].next + 1 \in 1..Len(job[s].entries)
        BY <1>2, <1>3, <1>4
    <2> QED BY <1>1, <1>4, <2>1, <2>2, <2>3, <2>4
<1>5. CASE ~(r = "ok" /\ job[s].next < n)
    <2>1. Answer(s, r)
        BY <1>2, <1>5 DEF GoOn
    <2> QED BY <1>1, <1>2, <1>3, <1>5, <2>1 DEF Answer
<1> QED BY <1>4, <1>5

--------------------------------------------------------------------------------
\* The exports: some identities and DIDs that can be exported are, each once.

Exported(s, R, D, p, e) ==
    /\ R \subseteq Roots /\ D \subseteq Dids
    /\ \A r \in R : CanExportRoot(s, r, p)
    /\ \A d \in D : CanExportDID(s, d, p)
    /\ backup' \in Backup
    /\ backup' = NoFile \/ backup'.entries # <<>>
    /\ Distinct(backup'.entries)
    /\ \A i \in DOMAIN backup'.entries :
          \/ \E r \in R : backup'.entries[i] = ExportedRoot(s, r, e)
          \/ \E d \in D : backup'.entries[i] = ExportedDID(s, d, e)
    /\ dids' = Derived(s, D, p)
    /\ print' = Stamped(s, R, D, p)
    /\ UNCHANGED <<rooted, roots, tmp, job, answer, history>>

LEMMA ExportedRootEntry ==
    ASSUME Shape, NEW s \in Stores, NEW r \in Roots, NEW p, CanExportRoot(s, r, p),
           NEW e \in Passwords, NEW en, en = ExportedRoot(s, r, e)
    PROVE  en \in Entry /\ en.kind = "root" /\ en.of = r
<1>1. roots[s][r].index \in Nat
    BY DEF Shape, Identity, CanExportRoot, Loads
<1>2. /\ (roots[s][r].prv # Bad) \in BOOLEAN
      /\ (roots[s][r].mnemonic # None) \in BOOLEAN
    OBVIOUS
<1> QED BY <1>1, <1>2 DEF ExportedRoot, Entry, RootEntry

LEMMA ExportedDIDEntry ==
    ASSUME Shape, NEW s \in Stores, NEW d \in Dids, NEW p, CanExportDID(s, d, p),
           NEW e \in Passwords, NEW en, en = ExportedDID(s, d, e)
    PROVE  en \in Entry /\ en.kind = "did" /\ en.of = d
<1>1. dids[s][d] \in DidFiles /\ dids[s][d].doc > 0
    BY DEF Shape, CanExportDID
<1>2. dids[s][d].doc \in 1..MaxEdition /\ dids[s][d].vc \in BOOLEAN
    BY <1>1, ExportAssumption DEF DidFiles
<1>3. (dids[s][d].key # None) \in BOOLEAN
    OBVIOUS
<1> QED BY <1>2, <1>3 DEF ExportedDID, Entry, DidEntry

LEMMA Enumerates ==
    ASSUME NEW R, IsFiniteSet(R), NEW rs \in SetToSeqs(R)
    PROVE  \E n \in Nat : /\ rs \in [1..n -> R] /\ DOMAIN rs = 1..n
                          /\ R # {} => n > 0
                          /\ \A i, j \in 1..n : rs[i] = rs[j] => i = j
<1>1. Cardinality(R) \in Nat /\ (R # {} => Cardinality(R) > 0)
    BY FS_CardinalityType, FS_EmptySet
<1> QED BY <1>1 DEF SetToSeqs

\* Two lists without repetitions, one after the other.
LEMMA Listing ==
    ASSUME NEW m \in Nat, NEW n \in Nat, NEW a \in [1..m -> Entry], NEW b \in [1..n -> Entry]
    PROVE  /\ a \o b \in Seq(Entry) /\ DOMAIN (a \o b) = 1..(m + n)
           /\ \A i \in 1..m : (a \o b)[i] = a[i]
           /\ \A i \in (m + 1)..(m + n) : i - m \in 1..n /\ (a \o b)[i] = b[i - m]
<1>1. /\ a \in Seq(Entry) /\ b \in Seq(Entry) /\ Len(a) = m /\ Len(b) = n
    OBVIOUS
<1>2. /\ a \o b \in Seq(Entry) /\ Len(a \o b) = m + n
      /\ \A i \in 1..(m + n) : (a \o b)[i] = IF i <= m THEN a[i] ELSE b[i - m]
    BY <1>1, ConcatProperties
<1>3. DOMAIN (a \o b) = 1..(m + n)
    BY <1>2
<1> QED BY <1>2, <1>3

LEMMA ExportNothing ==
    ASSUME Shape, NEW s \in Stores, NEW p, NEW e, backup' = NoFile,
           UNCHANGED <<dids, print, rooted, roots, tmp, job, answer, history>>
    PROVE  Exported(s, {}, {}, p, e)
<1>1. NoFile \in Backup /\ NoFile.entries = <<>>
    BY DEF NoFile, Backup
<1>2. dids = Derived(s, {}, p)
    <2>1. \A d \in Dids : dids[s][d] = dids[s][d]
        OBVIOUS
    <2>2. [d \in Dids |-> IF d \in {} /\ dids[s][d].key = Lazy
                          THEN [dids[s][d] EXCEPT !.key = p] ELSE dids[s][d]] = dids[s]
        BY DEF Shape
    <2> QED BY <2>2 DEF Derived, Shape
<1>3. print = Stamped(s, {}, {}, p)
    BY DEF Stamped
<1> QED BY <1>1, <1>2, <1>3 DEF Exported, Distinct

LEMMA ExportRootExported ==
    ASSUME Shape, NEW s \in Stores, NEW r \in Roots, NEW p \in Passwords,
           NEW e \in Passwords, ExportRootIdentity(s, r, p, e)
    PROVE  \E R, D : Exported(s, R, D, p, e)
<1>1. CASE CanExportRoot(s, r, p)
    <2>1. PICK en : en = ExportedRoot(s, r, e)
        OBVIOUS
    <2>2. en \in Entry
        BY <1>1, <2>1, ExportedRootEntry
    <2>3. backup' = [zip |-> FALSE, entries |-> <<en>>] /\ print' = Stamped(s, {r}, {}, p)
        BY <1>1, <2>1 DEF ExportRootIdentity
    <2>4. backup' \in Backup /\ backup'.entries = <<en>> /\ <<en>> # <<>>
        BY <2>2, <2>3 DEF Backup
    <2>5. DOMAIN backup'.entries = {1} /\ backup'.entries[1] = en
        BY <2>4
    <2>6. dids' = Derived(s, {}, p)
        <3>1. [d \in Dids |-> IF d \in {} /\ dids[s][d].key = Lazy
                              THEN [dids[s][d] EXCEPT !.key = p] ELSE dids[s][d]] = dids[s]
            BY DEF Shape
        <3> QED BY <3>1 DEF Derived, Shape, ExportRootIdentity
    <2>7. UNCHANGED <<rooted, roots, tmp, job, answer, history>>
        BY DEF ExportRootIdentity
    <2>8. Exported(s, {r}, {}, p, e)
        BY <1>1, <2>1, <2>3, <2>4, <2>5, <2>6, <2>7 DEF Exported, Distinct
    <2> QED BY <2>8
<1>2. CASE ~CanExportRoot(s, r, p)
    <2>1. Exported(s, {}, {}, p, e)
        BY <1>2, ExportNothing DEF ExportRootIdentity
    <2> QED BY <2>1
<1> QED BY <1>1, <1>2

LEMMA ExportDIDExported ==
    ASSUME Shape, NEW s \in Stores, NEW d \in Dids, NEW p \in Passwords,
           NEW e \in Passwords, ExportDID(s, d, p, e)
    PROVE  \E R, D : Exported(s, R, D, p, e)
<1>1. CASE CanExportDID(s, d, p)
    <2>1. PICK en : en = ExportedDID(s, d, e)
        OBVIOUS
    <2>2. en \in Entry
        BY <1>1, <2>1, ExportedDIDEntry
    <2>3. /\ backup' = [zip |-> FALSE, entries |-> <<en>>]
          /\ dids' = Derived(s, {d}, p) /\ print' = Stamped(s, {}, {d}, p)
        BY <1>1, <2>1 DEF ExportDID
    <2>4. backup' \in Backup /\ backup'.entries = <<en>> /\ <<en>> # <<>>
        BY <2>2, <2>3 DEF Backup
    <2>5. DOMAIN backup'.entries = {1} /\ backup'.entries[1] = en
        BY <2>4
    <2>6. UNCHANGED <<rooted, roots, tmp, job, answer, history>>
        BY DEF ExportDID
    <2>7. Exported(s, {}, {d}, p, e)
        BY <1>1, <2>1, <2>3, <2>4, <2>5, <2>6 DEF Exported, Distinct
    <2> QED BY <2>7
<1>2. CASE ~CanExportDID(s, d, p)
    <2>1. Exported(s, {}, {}, p, e)
        BY <1>2, ExportNothing DEF ExportDID
    <2> QED BY <2>1
<1> QED BY <1>1, <1>2

LEMMA ExportStoreExported ==
    ASSUME Shape, NEW s \in Stores, NEW p \in Passwords, NEW e \in Passwords,
           ExportStore(s, p, e)
    PROVE  \E R, D : Exported(s, R, D, p, e)
<1>1. PICK R \in SUBSET Roots, D \in SUBSET Dids :
          /\ \A r \in R : CanExportRoot(s, r, p)
          /\ \A d \in D : CanExportDID(s, d, p)
          /\ \E rs \in SetToSeqs(R), ds \in SetToSeqs(D) :
                backup' = IF R = {} /\ D = {} THEN NoFile
                          ELSE [zip |-> TRUE,
                                entries |-> [k \in DOMAIN rs |-> ExportedRoot(s, rs[k], e)]
                                            \o [k \in DOMAIN ds |-> ExportedDID(s, ds[k], e)]]
          /\ dids' = Derived(s, D, p) /\ print' = Stamped(s, R, D, p)
    BY DEF ExportStore
<1>2. UNCHANGED <<rooted, roots, tmp, job, answer, history>>
    BY DEF ExportStore
<1>3. PICK rs \in SetToSeqs(R), ds \in SetToSeqs(D) :
          backup' = IF R = {} /\ D = {} THEN NoFile
                    ELSE [zip |-> TRUE,
                          entries |-> [k \in DOMAIN rs |-> ExportedRoot(s, rs[k], e)]
                                      \o [k \in DOMAIN ds |-> ExportedDID(s, ds[k], e)]]
    BY <1>1
<1>4. IsFiniteSet(R) /\ IsFiniteSet(D)
    BY FS_Subset, ExportAssumption
<1>5. PICK m \in Nat : /\ rs \in [1..m -> R] /\ DOMAIN rs = 1..m /\ (R # {} => m > 0)
                       /\ \A i, j \in 1..m : rs[i] = rs[j] => i = j
    BY <1>4, Enumerates
<1>6. PICK n \in Nat : /\ ds \in [1..n -> D] /\ DOMAIN ds = 1..n /\ (D # {} => n > 0)
                       /\ \A i, j \in 1..n : ds[i] = ds[j] => i = j
    BY <1>4, Enumerates
<1>7. PICK a : a = [k \in 1..m |-> ExportedRoot(s, rs[k], e)]
    OBVIOUS
<1>8. PICK b : b = [k \in 1..n |-> ExportedDID(s, ds[k], e)]
    OBVIOUS
<1>9. \A i \in 1..m : rs[i] \in R /\ a[i] \in Entry /\ a[i].kind = "root" /\ a[i].of = rs[i]
    <2> TAKE i \in 1..m
    <2>1. rs[i] \in R /\ a[i] = ExportedRoot(s, rs[i], e)
        BY <1>5, <1>7
    <2> QED BY <1>1, <2>1, ExportedRootEntry
<1>10. \A i \in 1..n : ds[i] \in D /\ b[i] \in Entry /\ b[i].kind = "did" /\ b[i].of = ds[i]
    <2> TAKE i \in 1..n
    <2>1. ds[i] \in D /\ b[i] = ExportedDID(s, ds[i], e)
        BY <1>6, <1>8
    <2> QED BY <1>1, <2>1, ExportedDIDEntry
<1>11. a \in [1..m -> Entry] /\ b \in [1..n -> Entry]
    BY <1>7, <1>8, <1>9, <1>10
<1>12. PICK c : c = a \o b
    OBVIOUS
<1>13. /\ c \in Seq(Entry) /\ DOMAIN c = 1..(m + n)
       /\ \A i \in 1..m : c[i] = a[i]
       /\ \A i \in (m + 1)..(m + n) : i - m \in 1..n /\ c[i] = b[i - m]
    <2>1. /\ a \o b \in Seq(Entry) /\ DOMAIN (a \o b) = 1..(m + n)
          /\ \A i \in 1..m : (a \o b)[i] = a[i]
          /\ \A i \in (m + 1)..(m + n) : i - m \in 1..n /\ (a \o b)[i] = b[i - m]
        BY <1>11, Listing
    <2> QED BY <1>12, <2>1
<1>14. \A i \in DOMAIN c :
           \/ i \in 1..m
           \/ i \in (m + 1)..(m + n)
    BY <1>13
<1>15. Distinct(c)
    <2> SUFFICES ASSUME NEW i \in DOMAIN c, NEW j \in DOMAIN c,
                        c[i].kind = c[j].kind, c[i].of = c[j].of
                 PROVE  i = j
        BY DEF Distinct
    <2>1. CASE i \in 1..m /\ j \in 1..m
        BY <1>5, <1>9, <1>13, <2>1
    <2>2. CASE i \in (m + 1)..(m + n) /\ j \in (m + 1)..(m + n)
        <3>1. ds[i - m] = ds[j - m] /\ i - m \in 1..n /\ j - m \in 1..n
            BY <1>10, <1>13, <2>2
        <3> QED BY <1>6, <2>2, <3>1
    <2>3. CASE i \in 1..m /\ j \in (m + 1)..(m + n)
        BY <1>9, <1>10, <1>13, <2>3
    <2>4. CASE i \in (m + 1)..(m + n) /\ j \in 1..m
        BY <1>9, <1>10, <1>13, <2>4
    <2> QED BY <1>14, <2>1, <2>2, <2>3, <2>4
<1>16. \A i \in DOMAIN c : \/ \E r \in R : c[i] = ExportedRoot(s, r, e)
                           \/ \E d \in D : c[i] = ExportedDID(s, d, e)
    BY <1>5, <1>6, <1>7, <1>8, <1>9, <1>10, <1>13, <1>14
<1>17. CASE R = {} /\ D = {}
    <2>1. NoFile \in Backup /\ NoFile.entries = <<>>
        BY DEF NoFile, Backup
    <2>2. backup' = NoFile
        BY <1>3, <1>17
    <2>3. /\ backup' \in Backup /\ DOMAIN backup'.entries = {}
          /\ Distinct(backup'.entries)
        BY <2>1, <2>2 DEF Distinct
    <2>4. Exported(s, R, D, p, e)
        BY <1>1, <1>2, <2>2, <2>3 DEF Exported
    <2> QED BY <2>4
<1>18. CASE ~(R = {} /\ D = {})
    <2>1. backup' = [zip |-> TRUE, entries |-> c]
        BY <1>3, <1>5, <1>6, <1>7, <1>8, <1>12, <1>18
    <2>2. c # <<>>
        BY <1>5, <1>6, <1>13, <1>18
    <2>3. backup' \in Backup /\ backup'.entries = c
        BY <1>13, <2>1 DEF Backup
    <2>4. Exported(s, R, D, p, e)
        BY <1>1, <1>2, <1>15, <1>16, <2>2, <2>3 DEF Exported
    <2> QED BY <2>4
<1> QED BY <1>17, <1>18

--------------------------------------------------------------------------------
\* What the other steps write.

\* A file of one store is written.
Put(f, s, d, x) == [f EXCEPT ![s][d] = x]

LEMMA RootsWritten ==
    ASSUME Shape, NEW s \in Stores, NEW r \in Roots, NEW x \in Identity,
           roots' = Put(roots, s, r, x)
    PROVE  /\ roots' \in [Stores -> [Roots -> Identity]] /\ roots'[s][r] = x
           /\ \A t \in Stores, q \in Roots : t # s \/ q # r => roots'[t][q] = roots[t][q]
BY DEF Shape, Put

LEMMA DidsWritten ==
    ASSUME Shape, NEW s \in Stores, NEW d \in Dids, NEW x \in DidFiles,
           dids' = Put(dids, s, d, x)
    PROVE  /\ dids' \in [Stores -> [Dids -> DidFiles]] /\ dids'[s][d] = x
           /\ \A t \in Stores, c \in Dids : t # s \/ c # d => dids'[t][c] = dids[t][c]
BY DEF Shape, Put

LEMMA NewDIDWrites ==
    ASSUME Shape, NEW s \in Stores, NEW d \in Dids, NewDID(s, d)
    PROVE  \E x \in DidFiles, y \in Identity :
               /\ dids' = [dids EXCEPT ![s][d] = x] /\ x.key = Lazy
               /\ roots' = [roots EXCEPT ![s][RootOf[d]] = y]
               /\ roots[s][RootOf[d]].pub /\ y.pub
               /\ y.mnemonic = roots[s][RootOf[d]].mnemonic
               /\ y.prv = roots[s][RootOf[d]].prv /\ y.index \in Nat
               /\ RootOf[d] \in Roots
<1>1. PICK c \in DidFiles : c = dids[s][d]
    BY DEF Shape
<1>2. RootOf[d] \in Roots
    BY ExportAssumption
<1>3. PICK x \in Identity : x = roots[s][RootOf[d]]
    BY <1>2 DEF Shape
<1>4. x.index \in Nat /\ x.pub
    BY <1>3 DEF NewDID, Loads, Identity
<1>5. PICK k : k = [doc |-> 1, vc |-> c.vc, key |-> c.key]
    OBVIOUS
<1>6. [c EXCEPT !.doc = 1] = k
    BY <1>5, DIDFilesWrites
<1>7. [k EXCEPT !.key = Lazy] = [doc |-> 1, vc |-> c.vc, key |-> Lazy]
    BY <1>5
<1>8. [c EXCEPT !.doc = 1, !.key = Lazy] = [doc |-> 1, vc |-> c.vc, key |-> Lazy]
    BY <1>6, <1>7
<1>9. dids' = [dids EXCEPT ![s][d] = [doc |-> 1, vc |-> c.vc, key |-> Lazy]]
    BY <1>1, <1>8 DEF NewDID
<1>10. [doc |-> 1, vc |-> c.vc, key |-> Lazy] \in DidFiles
    BY ExportAssumption DEF DidFiles
<1>11. [x EXCEPT !.index = x.index + 1] =
           [pub |-> x.pub, mnemonic |-> x.mnemonic, prv |-> x.prv, index |-> x.index + 1]
    BY IdentityWrites
<1>12. roots' = [roots EXCEPT ![s][RootOf[d]] =
           [pub |-> x.pub, mnemonic |-> x.mnemonic, prv |-> x.prv, index |-> x.index + 1]]
    BY <1>3, <1>11 DEF NewDID
<1>13. PICK y : y = [pub |-> x.pub, mnemonic |-> x.mnemonic, prv |-> x.prv,
                     index |-> x.index + 1]
    OBVIOUS
<1>14. y \in Identity /\ y.index \in Nat
    BY <1>4, <1>13 DEF Identity
<1>15. y.pub /\ y.mnemonic = x.mnemonic /\ y.prv = x.prv
    BY <1>4, <1>13
<1> QED BY <1>2, <1>3, <1>4, <1>9, <1>10, <1>12, <1>13, <1>14, <1>15

LEMMA UpdateWrites ==
    ASSUME Shape, NEW s \in Stores, NEW d \in Dids, Update(s, d)
    PROVE  \E x \in DidFiles :
               dids' = [dids EXCEPT ![s][d] = x] /\ x.key = dids[s][d].key
<1>1. PICK c \in DidFiles : c = dids[s][d]
    BY DEF Shape
<1>2. c.doc \in 1..(MaxEdition - 1)
    BY <1>1 DEF Update
<1>3. PICK k : k = [doc |-> c.doc + 1, vc |-> c.vc, key |-> c.key]
    OBVIOUS
<1>4. [c EXCEPT !.doc = c.doc + 1] = k
    BY <1>3, DIDFilesWrites
<1>5. [k EXCEPT !.vc = TRUE] = [doc |-> c.doc + 1, vc |-> TRUE, key |-> c.key]
    <2>1. PICK u : u = TRUE
        OBVIOUS
    <2>2. [k EXCEPT !.vc = u] = [doc |-> c.doc + 1, vc |-> u, key |-> c.key]
        BY <1>3
    <2> QED BY <2>1, <2>2
<1>6. PICK x : x = [doc |-> c.doc + 1, vc |-> TRUE, key |-> c.key]
    OBVIOUS
<1>7. dids' = [dids EXCEPT ![s][d] = x]
    <2>1. dids' = [dids EXCEPT ![s][d] = [c EXCEPT !.doc = c.doc + 1, !.vc = TRUE]]
        BY <1>1 DEF Update, Shape
    <2> QED BY <1>4, <1>5, <1>6, <2>1
<1>8. x \in DidFiles
    BY <1>2, <1>6, ExportAssumption DEF DidFiles
<1> QED BY <1>1, <1>6, <1>7, <1>8

\* A damaged entry is of the same identity or DID, and does not fit its fingerprint.
LEMMA DamageWrites ==
    ASSUME Shape, Damage
    PROVE  \E i \in DOMAIN backup.entries : \E en \in Entry :
               /\ backup' = [backup EXCEPT !.entries = [@ EXCEPT ![i] = en]]
               /\ en.kind = backup.entries[i].kind /\ en.of = backup.entries[i].of
               /\ ~en.good
               /\ en.kind = "root" => en.mnemonic = backup.entries[i].mnemonic
               /\ UNCHANGED <<files, tmp, job, answer, history>>
<1>1. PICK i \in DOMAIN backup.entries, real \in BOOLEAN :
          backup' = [backup EXCEPT !.entries[i] = Damaged(@, real)]
    BY DEF Damage
<1>2. PICK old \in Entry : old = backup.entries[i]
    BY BackupEntries
<1>3. PICK en : en = Damaged(old, real)
    OBVIOUS
<1>4. backup' = [backup EXCEPT !.entries = [@ EXCEPT ![i] = en]]
    BY <1>1, <1>2, <1>3 DEF Shape, Backup
<1>5. CASE old \in RootEntry /\ old.kind = "root"
    <2>1. PICK u : u = FALSE
        OBVIOUS
    <2>2. PICK v : v = (old.real /\ real)
        OBVIOUS
    <2>3. PICK k : k = [kind |-> old.kind, of |-> old.of, pass |-> old.pass, good |-> u,
                        real |-> old.real, mnemonic |-> old.mnemonic, index |-> old.index]
        OBVIOUS
    <2>4. [old EXCEPT !.good = u] = k
        BY <1>5, <2>3 DEF RootEntry
    <2>5. [k EXCEPT !.real = v] =
             [kind |-> old.kind, of |-> old.of, pass |-> old.pass, good |-> u,
              real |-> v, mnemonic |-> old.mnemonic, index |-> old.index]
        BY <2>3
    <2>6. en = [kind |-> old.kind, of |-> old.of, pass |-> old.pass, good |-> u,
                real |-> v, mnemonic |-> old.mnemonic, index |-> old.index]
        BY <1>3, <1>5, <2>1, <2>2, <2>4, <2>5 DEF Damaged
    <2>7. v \in BOOLEAN /\ u \in BOOLEAN /\ ~u
        BY <1>5, <2>1, <2>2 DEF RootEntry
    <2>8. en \in RootEntry
        BY <1>5, <2>6, <2>7 DEF RootEntry
    <2>9. en.kind = old.kind /\ en.of = old.of /\ ~en.good /\ en.mnemonic = old.mnemonic
        BY <2>6, <2>7
    <2> QED BY <1>2, <1>4, <2>8, <2>9 DEF Entry, Damage
<1>6. CASE old \in DidEntry /\ old.kind = "did"
    <2>1. PICK u : u = FALSE
        OBVIOUS
    <2>2. [old EXCEPT !.good = u] =
             [kind |-> old.kind, of |-> old.of, pass |-> old.pass, good |-> u,
              doc |-> old.doc, vc |-> old.vc, key |-> old.key]
        BY <1>6 DEF DidEntry
    <2>3. en = [kind |-> old.kind, of |-> old.of, pass |-> old.pass, good |-> u,
                doc |-> old.doc, vc |-> old.vc, key |-> old.key]
        BY <1>3, <1>6, <2>1, <2>2 DEF Damaged
    <2>4. u \in BOOLEAN /\ ~u
        BY <2>1
    <2>5. en \in DidEntry
        BY <1>6, <2>3, <2>4 DEF DidEntry
    <2>6. en.kind = old.kind /\ en.of = old.of /\ ~en.good
        BY <2>3, <2>4
    <2> QED BY <1>2, <1>4, <1>6, <2>5, <2>6 DEF Entry, Damage
<1> QED BY <1>5, <1>6, EntryKinds

--------------------------------------------------------------------------------
\* Types, the lists of entries, whole identities and derivable keys.

LEMMA BlankFacts ==
    /\ Blank \in Identity /\ ~Blank.pub /\ Blank.mnemonic = None /\ Blank.prv = None
    /\ NoDid \in DidFiles /\ NoDid.key = None
    /\ None # Lazy /\ Bad # None /\ Lazy # Bad
    /\ None \notin Passwords /\ Lazy \notin Passwords /\ Bad \notin Passwords
BY ExportAssumption DEF Blank, Identity, NoDid, DidFiles, Secret

LEMMA InvInit == Init => IInv
<1> SUFFICES ASSUME Init
             PROVE  IInv
    OBVIOUS
<1>1. NoFile \in Backup /\ DOMAIN NoFile.entries = {}
    BY DEF NoFile, Backup
<1>2. Shape
    BY <1>1, BlankFacts DEF Init, Shape, Idle
<1>3. Exports
    BY <1>1 DEF Init, Exports, Idle
<1>4. NoMnemonic
    BY BlankFacts, ExportAssumption DEF Init, NoMnemonic
<1>5. IdentityWhole
    BY DEF Init, IdentityWhole
<1>6. Rooted
    BY BlankFacts DEF Init, Rooted
<1> QED BY <1>2, <1>3, <1>4, <1>5, <1>6 DEF IInv

\* The entries on their way stay faithful when none is added, and more imports
\* have been cut short.
LEMMA FaithfulKeeps ==
    ASSUME NEW en, Faithful(en), torn \subseteq torn'
    PROVE  Faithful(en)'
BY DEF Faithful

LEMMA ExportsKeep ==
    ASSUME IInv, torn \subseteq torn', UNCHANGED backup, tmp' \in {tmp, None},
           \A s \in Stores : job'[s] # None =>
               job[s] # None /\ job'[s].entries = job[s].entries
    PROVE  Exports'
<1>1. (\A i \in DOMAIN backup.entries : Faithful(backup.entries[i]))'
    <2> SUFFICES ASSUME NEW i \in DOMAIN backup.entries
                 PROVE  Faithful(backup.entries[i])'
        OBVIOUS
    <2>1. PICK en : en = backup.entries[i]
        OBVIOUS
    <2>2. Faithful(en)'
        BY <2>1, FaithfulKeeps DEF IInv, Exports
    <2> QED BY <2>1, <2>2
<1>2. (tmp # None => Faithful(tmp))'
    <2>1. PICK en : en = tmp
        OBVIOUS
    <2>2. tmp' # None => en # None /\ tmp' = en
        BY <2>1
    <2>3. en # None => Faithful(en)'
        BY <2>1, FaithfulKeeps DEF IInv, Exports
    <2> QED BY <2>2, <2>3
<1>3. (\A s \in Stores : job[s] # None =>
           \A i \in DOMAIN job[s].entries : Faithful(job[s].entries[i]))'
    <2> SUFFICES ASSUME NEW s \in Stores, job'[s] # None, NEW i \in DOMAIN job'[s].entries
                 PROVE  Faithful(job[s].entries[i])'
        OBVIOUS
    <2>1. PICK en : en = job[s].entries[i]
        OBVIOUS
    <2>2. Faithful(en)'
        BY <2>1, FaithfulKeeps DEF IInv, Exports, Idle
    <2> QED BY <2>1, <2>2
<1> QED BY <1>1, <1>2, <1>3 DEF Exports, Idle

\* Steps that touch neither backups nor calls.
LEMMA LocalStep ==
    ASSUME IInv, UNCHANGED <<backup, tmp, job, answer>>,
           print' \in [Stores -> Passwords \cup {None}], rooted' \in [Stores -> BOOLEAN],
           roots' \in [Stores -> [Roots -> Identity]], dids' \in [Stores -> [Dids -> DidFiles]],
           torn' \subseteq Roots, torn \subseteq torn', removed' \subseteq Stores \X Roots
    PROVE  Shape' /\ Exports'
<1>1. Shape'
    BY DEF IInv, Shape, Idle
<1>2. Exports'
    BY ExportsKeep
<1> QED BY <1>1, <1>2

LEMMA InvNewRootIdentity ==
    ASSUME IInv, NEW s \in Stores, NEW r \in Roots, NewRootIdentity(s, r)
    PROVE  IInv'
<1>1. PICK p \in Passwords : p = StorePass[s]
    BY ExportAssumption
<1>2. PICK x : x = [pub |-> TRUE, mnemonic |-> IF r \in KeyOnly THEN None ELSE p,
                    prv |-> p, index |-> 0]
    OBVIOUS
<1>3. x \in Identity
    BY <1>2 DEF Identity, Secret
<1>4. /\ roots' = [roots EXCEPT ![s][r] = x]
      /\ print' = [print EXCEPT ![s] = p] /\ rooted' = [rooted EXCEPT ![s] = TRUE]
      /\ UNCHANGED <<dids, backup, tmp, job, answer, history>>
    BY <1>1, <1>2 DEF NewRootIdentity
<1>5. /\ roots' \in [Stores -> [Roots -> Identity]] /\ roots'[s][r] = x
      /\ \A t \in Stores, q \in Roots : t # s \/ q # r => roots'[t][q] = roots[t][q]
    <2>1. Shape /\ roots' = Put(roots, s, r, x)
        BY <1>4 DEF IInv, Put
    <2> QED BY <1>3, <2>1, RootsWritten
<1>6. Shape' /\ Exports'
    BY <1>4, <1>5, LocalStep DEF IInv, Shape, history
<1>7. NoMnemonic'
    BY <1>2, <1>5, ExportAssumption DEF IInv, NoMnemonic
<1>8. Whole(r, x) /\ x # Blank
    BY <1>2, BlankFacts, ExportAssumption DEF Whole, Loads
<1>9. IdentityWhole'
    BY <1>4, <1>5, <1>8 DEF IInv, IdentityWhole, history
<1>10. Rooted'
    BY <1>4, <1>5, <1>8, ExportAssumption DEF IInv, Rooted, history
<1> QED BY <1>6, <1>7, <1>9, <1>10 DEF IInv

LEMMA InvDeleteRootIdentity ==
    ASSUME IInv, NEW s \in Stores, NEW r \in Roots, DeleteRootIdentity(s, r)
    PROVE  IInv'
<1>1. /\ roots' = [roots EXCEPT ![s][r] = Blank] /\ removed' = removed \cup {<<s, r>>}
      /\ UNCHANGED <<print, rooted, dids, backup, tmp, job, answer, torn>>
    BY DEF DeleteRootIdentity
<1>2. /\ roots' \in [Stores -> [Roots -> Identity]] /\ roots'[s][r] = Blank
      /\ \A t \in Stores, q \in Roots : t # s \/ q # r => roots'[t][q] = roots[t][q]
    <2>1. Shape /\ roots' = Put(roots, s, r, Blank) /\ Blank \in Identity
        BY <1>1, BlankFacts DEF IInv, Put
    <2> QED BY <2>1, RootsWritten
<1>3. Shape' /\ Exports'
    BY <1>1, <1>2, LocalStep DEF IInv, Shape
<1>4. NoMnemonic'
    BY <1>2, BlankFacts, ExportAssumption DEF IInv, NoMnemonic
<1>5. IdentityWhole'
    BY <1>1, <1>2 DEF IInv, IdentityWhole
<1>6. Rooted'
    BY <1>1, <1>2, ExportAssumption DEF IInv, Rooted
<1> QED BY <1>3, <1>4, <1>5, <1>6 DEF IInv

LEMMA InvNewDID ==
    ASSUME IInv, NEW s \in Stores, NEW d \in Dids, NewDID(s, d)
    PROVE  IInv'
<1>1. PICK x \in DidFiles, y \in Identity :
          /\ dids' = [dids EXCEPT ![s][d] = x] /\ x.key = Lazy
          /\ roots' = [roots EXCEPT ![s][RootOf[d]] = y]
          /\ roots[s][RootOf[d]].pub /\ y.pub
          /\ y.mnemonic = roots[s][RootOf[d]].mnemonic
          /\ y.prv = roots[s][RootOf[d]].prv /\ y.index \in Nat
          /\ RootOf[d] \in Roots
    BY NewDIDWrites DEF IInv
<1>2. PICK r \in Roots : r = RootOf[d]
    BY <1>1
<1>3. UNCHANGED <<print, rooted, backup, tmp, job, answer, history>>
    BY DEF NewDID
<1>4. /\ roots' \in [Stores -> [Roots -> Identity]] /\ roots'[s][r] = y
      /\ \A t \in Stores, q \in Roots : t # s \/ q # r => roots'[t][q] = roots[t][q]
    <2>1. Shape /\ roots' = Put(roots, s, r, y)
        BY <1>1, <1>2 DEF IInv, Put
    <2> QED BY <2>1, RootsWritten
<1>5. /\ dids' \in [Stores -> [Dids -> DidFiles]] /\ dids'[s][d] = x
      /\ \A t \in Stores, c \in Dids : t # s \/ c # d => dids'[t][c] = dids[t][c]
    <2>1. Shape /\ dids' = Put(dids, s, d, x)
        BY <1>1 DEF IInv, Put
    <2> QED BY <2>1, DidsWritten
<1>6. Shape' /\ Exports'
    BY <1>3, <1>4, <1>5, LocalStep DEF IInv, Shape, history
<1>7. NoMnemonic'
    BY <1>1, <1>2, <1>4, ExportAssumption DEF IInv, NoMnemonic
<1>8. y # Blank
    BY <1>1, BlankFacts
<1>9. IdentityWhole'
    <2>1. r \notin torn => Whole(r, y)
        <3>1. r \notin torn => Whole(r, roots[s][r])
            BY <1>1, <1>2, BlankFacts DEF IInv, IdentityWhole
        <3>2. y.index # None
            BY <1>1, ExportAssumption
        <3> QED BY <1>1, <1>2, <3>1, <3>2 DEF Whole, Loads
    <2>2. IdentityWhole
        BY DEF IInv
    <2> QED BY <1>3, <1>4, <2>1, <2>2 DEF IdentityWhole, history
<1>10. Rooted'
    <2> SUFFICES ASSUME NEW t \in Stores, NEW c \in Dids, dids'[t][c].key = Lazy
                 PROVE  roots'[t][RootOf[c]] # Blank \/ <<t, RootOf[c]>> \in removed
        BY <1>3 DEF Rooted, history
    <2>1. PICK q \in Roots : q = RootOf[c]
        BY ExportAssumption
    <2>2. CASE t = s /\ q = r
        BY <1>4, <1>8, <2>1, <2>2
    <2>3. CASE ~(t = s /\ q = r)
        <3>1. roots'[t][q] = roots[t][q] /\ dids'[t][c] = dids[t][c]
            BY <1>2, <1>4, <1>5, <2>1, <2>3
        <3> QED BY <2>1, <3>1 DEF IInv, Rooted
    <2> QED BY <2>2, <2>3
<1> QED BY <1>6, <1>7, <1>9, <1>10 DEF IInv

LEMMA InvUpdate ==
    ASSUME IInv, NEW s \in Stores, NEW d \in Dids, Update(s, d)
    PROVE  IInv'
<1>1. PICK x \in DidFiles : dids' = [dids EXCEPT ![s][d] = x] /\ x.key = dids[s][d].key
    BY UpdateWrites DEF IInv
<1>2. UNCHANGED <<print, rooted, roots, backup, tmp, job, answer, history>>
    BY DEF Update
<1>3. /\ dids' \in [Stores -> [Dids -> DidFiles]] /\ dids'[s][d] = x
      /\ \A t \in Stores, c \in Dids : t # s \/ c # d => dids'[t][c] = dids[t][c]
    <2>1. Shape /\ dids' = Put(dids, s, d, x)
        BY <1>1 DEF IInv, Put
    <2> QED BY <2>1, DidsWritten
<1>4. Shape' /\ Exports'
    BY <1>2, <1>3, LocalStep DEF IInv, Shape, history
<1>5. NoMnemonic' /\ IdentityWhole'
    BY <1>2 DEF IInv, NoMnemonic, IdentityWhole, history
<1>6. Rooted'
    BY <1>1, <1>2, <1>3 DEF IInv, Rooted, history
<1> QED BY <1>4, <1>5, <1>6 DEF IInv

LEMMA InvDeleteDID ==
    ASSUME IInv, NEW s \in Stores, NEW d \in Dids, DeleteDID(s, d)
    PROVE  IInv'
<1>1. /\ dids' = [dids EXCEPT ![s][d] = NoDid]
      /\ UNCHANGED <<print, rooted, roots, backup, tmp, job, answer, history>>
    BY DEF DeleteDID
<1>2. /\ dids' \in [Stores -> [Dids -> DidFiles]] /\ dids'[s][d] = NoDid
      /\ \A t \in Stores, c \in Dids : t # s \/ c # d => dids'[t][c] = dids[t][c]
    <2>1. Shape /\ dids' = Put(dids, s, d, NoDid) /\ NoDid \in DidFiles
        BY <1>1, BlankFacts DEF IInv, Put
    <2> QED BY <2>1, DidsWritten
<1>3. Shape' /\ Exports'
    BY <1>1, <1>2, LocalStep DEF IInv, Shape, history
<1>4. NoMnemonic' /\ IdentityWhole'
    BY <1>1 DEF IInv, NoMnemonic, IdentityWhole, history
<1>5. Rooted'
    BY <1>1, <1>2, BlankFacts DEF IInv, Rooted, history
<1> QED BY <1>3, <1>4, <1>5 DEF IInv

\* An export changes keys only from lazy to derived.
LEMMA DerivedWrites ==
    ASSUME Shape, NEW s \in Stores, NEW D, NEW p \in Passwords, dids' = Derived(s, D, p)
    PROVE  /\ dids' \in [Stores -> [Dids -> DidFiles]]
           /\ \A t \in Stores, d \in Dids :
                 /\ t # s => dids'[t][d] = dids[t][d]
                 /\ dids'[t][d].key =
                       IF t = s /\ d \in D /\ dids[t][d].key = Lazy THEN p ELSE dids[t][d].key
<1>1. PICK f : f = [d \in Dids |-> IF d \in D /\ dids[s][d].key = Lazy
                                   THEN [dids[s][d] EXCEPT !.key = p] ELSE dids[s][d]]
    OBVIOUS
<1>2. dids' = [dids EXCEPT ![s] = f]
    BY <1>1 DEF Derived
<1>3. \A d \in Dids :
          /\ f[d] \in DidFiles
          /\ f[d].key = IF d \in D /\ dids[s][d].key = Lazy THEN p ELSE dids[s][d].key
    <2> TAKE d \in Dids
    <2>1. PICK c \in DidFiles : c = dids[s][d]
        BY DEF Shape
    <2>2. PICK k : k = [doc |-> c.doc, vc |-> c.vc, key |-> p]
        OBVIOUS
    <2>3. [c EXCEPT !.key = p] = k
        BY <2>2, DIDFilesWrites
    <2>4. f[d] = IF d \in D /\ c.key = Lazy THEN k ELSE c
        BY <1>1, <2>1, <2>3
    <2>5. k \in DidFiles /\ k.key = p
        BY <2>2 DEF DidFiles, Secret
    <2> QED BY <2>1, <2>4, <2>5
<1>4. f \in [Dids -> DidFiles]
    BY <1>1, <1>3
<1>5. dids'[s] = f /\ \A t \in Stores : t # s => dids'[t] = dids[t]
    BY <1>2 DEF Shape
<1>6. dids' \in [Stores -> [Dids -> DidFiles]]
    BY <1>2, <1>4 DEF Shape
<1> QED BY <1>3, <1>5, <1>6

LEMMA InvExported ==
    ASSUME IInv, NEW s \in Stores, NEW p \in Passwords, NEW e \in Passwords,
           NEW R, NEW D, Exported(s, R, D, p, e)
    PROVE  IInv'
<1>1. /\ R \subseteq Roots /\ D \subseteq Dids
      /\ backup' \in Backup /\ (backup' = NoFile \/ backup'.entries # <<>>)
      /\ UNCHANGED <<rooted, roots, tmp, job, answer, torn, removed>>
    BY DEF Exported, history
<1>2. /\ dids' \in [Stores -> [Dids -> DidFiles]]
      /\ \A t \in Stores, d \in Dids : dids'[t][d].key = Lazy => dids[t][d].key = Lazy
    BY DerivedWrites, BlankFacts DEF IInv, Exported
<1>3. print' \in [Stores -> Passwords \cup {None}]
    BY DEF IInv, Shape, Exported, Stamped
<1>4. Shape'
    BY <1>1, <1>2, <1>3 DEF IInv, Shape, Idle
<1>5. Exports'
    <2>1. (\A i \in DOMAIN backup.entries : Faithful(backup.entries[i]))'
        <3> SUFFICES ASSUME NEW i \in DOMAIN backup'.entries
                     PROVE  Faithful(backup.entries[i])'
            OBVIOUS
        <3>1. PICK en : en = backup'.entries[i]
            OBVIOUS
        <3>2. CASE \E d \in D : en = ExportedDID(s, d, e)
            BY <3>1, <3>2 DEF Faithful, ExportedDID
        <3>3. ASSUME NEW r \in R, en = ExportedRoot(s, r, e)
              PROVE  Faithful(en)'
            <4>1. PICK x \in Identity : x = roots[s][r]
                BY <1>1 DEF IInv, Shape
            <4>2. Loads(x) /\ x # Blank
                BY <4>1, BlankFacts DEF Exported, CanExportRoot, Loads
            <4>3. r \in KeyOnly => x.mnemonic = None
                BY <4>1 DEF IInv, NoMnemonic
            <4>4. r \notin torn => x.prv # Bad
                BY <1>1, <4>1, <4>2, BlankFacts DEF IInv, IdentityWhole, Whole
            <4>5. /\ en.of = r /\ (en.mnemonic => x.mnemonic # None)
                  /\ x.prv # Bad => en.real
                BY <3>3, <4>1 DEF ExportedRoot
            <4> QED BY <1>1, <4>3, <4>4, <4>5 DEF Faithful
        <3>4. \/ \E r \in R : en = ExportedRoot(s, r, e)
              \/ \E d \in D : en = ExportedDID(s, d, e)
            BY <3>1 DEF Exported
        <3>5. CASE \E r \in R : en = ExportedRoot(s, r, e)
            BY <3>1, <3>3, <3>5
        <3> QED BY <3>2, <3>4, <3>5
    <2>2. (tmp # None => Faithful(tmp))'
        BY <1>1 DEF IInv, Exports, Faithful
    <2>3. (\A t \in Stores : job[t] # None =>
               \A i \in DOMAIN job[t].entries : Faithful(job[t].entries[i]))'
        BY <1>1 DEF IInv, Exports, Faithful, Idle
    <2> QED BY <2>1, <2>2, <2>3 DEF Exports, Idle
<1>6. NoMnemonic' /\ IdentityWhole'
    BY <1>1 DEF IInv, NoMnemonic, IdentityWhole
<1>7. Rooted'
    BY <1>1, <1>2 DEF IInv, Rooted
<1> QED BY <1>4, <1>5, <1>6, <1>7 DEF IInv

\* What the import of an entry does to the store.
LEMMA TookKeeps ==
    ASSUME IInv, NEW s \in Stores, NEW p \in Passwords, NEW en \in Entry, Faithful(en),
           NEW o, Took(s, p, en, o)
    PROVE  /\ print' \in [Stores -> Passwords \cup {None}]
           /\ rooted' \in [Stores -> BOOLEAN]
           /\ roots' \in [Stores -> [Roots -> Identity]]
           /\ dids' \in [Stores -> [Dids -> DidFiles]]
           /\ torn' \subseteq Roots /\ torn \subseteq torn' /\ removed' \subseteq Stores \X Roots
           /\ NoMnemonic' /\ IdentityWhole' /\ Rooted'
<1>1. CASE en \in RootEntry /\ en.kind = "root"
    <2>1. PICK r \in Roots : r = en.of
        BY <1>1 DEF RootEntry
    <2>2. PICK x \in Identity : x = roots[s][r]
        BY DEF IInv, Shape
    <2>3. PICK y : y = o.files
        OBVIOUS
    <2>4. /\ RootEnd(s, x, p, en, o)
          /\ roots' = [roots EXCEPT ![s][r] = y]
          /\ rooted' = [rooted EXCEPT ![s] = @ \/ y # x]
          /\ torn' = IF o.result = "dead" THEN torn \cup {r} ELSE torn
          /\ removed' = IF y = Blank /\ x # Blank THEN removed \cup {<<s, r>>} ELSE removed
          /\ UNCHANGED dids
          /\ print' = [print EXCEPT ![s] = IF o.used THEN p ELSE @]
        BY <1>1, <2>1, <2>2, <2>3 DEF Took
    <2>5. /\ roots' \in [Stores -> [Roots -> Identity]] /\ roots'[s][r] = y
          /\ \A t \in Stores, q \in Roots : t # s \/ q # r => roots'[t][q] = roots[t][q]
        <3>1. y \in Identity
            BY <2>3, <2>4 DEF RootEnd
        <3>2. Shape /\ roots' = Put(roots, s, r, y)
            BY <2>4 DEF IInv, Put
        <3> QED BY <3>1, <3>2, RootsWritten
    <2>6. print' \in [Stores -> Passwords \cup {None}]
        BY <2>4 DEF IInv, Shape
    <2>7. rooted' \in [Stores -> BOOLEAN]
        BY <2>4 DEF IInv, Shape
    <2>8. torn' \subseteq Roots /\ torn \subseteq torn' /\ removed' \subseteq Stores \X Roots
        BY <2>4 DEF IInv, Shape
    <2>9. NoMnemonic'
        <3>1. r \in KeyOnly => y.mnemonic = None
            <4>1. \/ y = Blank
                  \/ y.mnemonic = x.mnemonic
                  \/ en.mnemonic
                BY <2>3, <2>4 DEF RootEnd
            <4>2. en.mnemonic => r \notin KeyOnly
                BY <1>1, <2>1 DEF Faithful
            <4>3. r \in KeyOnly => x.mnemonic = None
                BY <2>2 DEF IInv, NoMnemonic
            <4> QED BY <4>1, <4>2, <4>3, BlankFacts
        <3> QED BY <2>5, <3>1, ExportAssumption DEF IInv, NoMnemonic
    <2>10. IdentityWhole'
        <3>1. r \in torn' \/ y = Blank \/ Whole(r, y)
            <4>1. CASE o.result = "dead"
                BY <2>4, <4>1
            <4>2. CASE y = x
                BY <2>2, <2>8, <4>2 DEF IInv, IdentityWhole
            <4>3. CASE /\ en.good /\ en.mnemonic
                       /\ y = [pub |-> TRUE, mnemonic |-> Value(p, en),
                               prv |-> Value(p, en), index |-> en.index]
                <5>1. r \notin KeyOnly /\ (r \notin torn => en.real)
                    BY <1>1, <2>1, <4>3 DEF Faithful
                <5>2. en.real => Value(p, en) = p
                    BY DEF Value
                <5>3. en.index # None
                    BY <1>1, ExportAssumption DEF RootEntry
                <5> QED BY <2>8, <4>3, <5>1, <5>2, <5>3 DEF Whole, Loads
            <4> QED BY <2>3, <2>4, <4>1, <4>2, <4>3 DEF RootEnd
        <3> QED BY <2>5, <2>8, <3>1 DEF IInv, IdentityWhole
    <2>11. Rooted'
        <3>1. removed \subseteq removed' /\ (y = Blank /\ x # Blank => <<s, r>> \in removed')
            BY <2>4
        <3> QED BY <2>2, <2>4, <2>5, <3>1, ExportAssumption DEF IInv, Rooted
    <2> QED BY <2>4, <2>5, <2>6, <2>7, <2>8, <2>9, <2>10, <2>11 DEF IInv, Shape
<1>2. CASE en \in DidEntry /\ en.kind = "did"
    <2>1. PICK d \in Dids : d = en.of
        BY <1>2 DEF DidEntry
    <2>2. PICK y : y = o.files
        OBVIOUS
    <2>3. /\ DIDEnd(dids[s][d], p, en, o)
          /\ dids' = [dids EXCEPT ![s][d] = y]
          /\ UNCHANGED <<roots, rooted, torn, removed>>
          /\ print' = [print EXCEPT ![s] = IF o.used THEN p ELSE @]
        BY <1>2, <2>1, <2>2 DEF Took, history
    <2>4. /\ dids' \in [Stores -> [Dids -> DidFiles]] /\ dids'[s][d] = y
          /\ \A t \in Stores, c \in Dids : t # s \/ c # d => dids'[t][c] = dids[t][c]
        <3>1. y \in DidFiles
            BY <2>2, <2>3 DEF DIDEnd
        <3>2. Shape /\ dids' = Put(dids, s, d, y)
            BY <2>3 DEF IInv, Put
        <3> QED BY <3>1, <3>2, DidsWritten
    <2>5. print' \in [Stores -> Passwords \cup {None}]
        BY <2>3 DEF IInv, Shape
    <2>6. y.key = Lazy => dids[s][d].key = Lazy
        BY <2>2, <2>3, BlankFacts DEF DIDEnd
    <2>7. NoMnemonic' /\ IdentityWhole'
        BY <2>3 DEF IInv, NoMnemonic, IdentityWhole
    <2>8. Rooted'
        BY <2>3, <2>4, <2>6 DEF IInv, Rooted
    <2> QED BY <2>3, <2>4, <2>5, <2>7, <2>8 DEF IInv, Shape
<1> QED BY <1>1, <1>2, EntryKinds

LEMMA InvImportFile ==
    ASSUME IInv, NEW s \in Stores, NEW p \in Passwords, NEW e \in Passwords,
           ImportFile(s, p, e)
    PROVE  IInv'
<1>1. /\ 1 \in DOMAIN backup.entries /\ backup.entries[1] \in Entry
      /\ \E o : Took(s, p, backup.entries[1], o)
      /\ UNCHANGED <<backup, tmp, job, answer>>
    BY ImportFileTook DEF IInv
<1>2. PICK en \in Entry : en = backup.entries[1]
    BY <1>1
<1>3. Faithful(en)
    BY <1>1, <1>2 DEF IInv, Exports
<1>4. PICK o : Took(s, p, en, o)
    BY <1>1, <1>2
<1>5. /\ print' \in [Stores -> Passwords \cup {None}]
      /\ rooted' \in [Stores -> BOOLEAN]
      /\ roots' \in [Stores -> [Roots -> Identity]]
      /\ dids' \in [Stores -> [Dids -> DidFiles]]
      /\ torn' \subseteq Roots /\ torn \subseteq torn' /\ removed' \subseteq Stores \X Roots
      /\ NoMnemonic' /\ IdentityWhole' /\ Rooted'
    BY <1>3, <1>4, TookKeeps
<1>6. Shape' /\ Exports'
    BY <1>1, <1>5, LocalStep
<1> QED BY <1>5, <1>6 DEF IInv

LEMMA InvImportStore ==
    ASSUME IInv, NEW s \in Stores, NEW p \in Passwords, NEW e \in Passwords,
           ImportStore(s, p, e)
    PROVE  IInv'
<1>1. PICK j : j = [entries |-> backup.entries, next |-> 1, pass |-> p, exp |-> e,
                    unpacked |-> FALSE]
    OBVIOUS
<1>2. /\ job' = [job EXCEPT ![s] = j] /\ answer' = [answer EXCEPT ![s] = "none"]
      /\ UNCHANGED <<print, rooted, roots, dids, backup, tmp, torn, removed>>
    BY <1>1 DEF ImportStore, files, history
<1>3. backup.entries \in Seq(Entry) /\ backup.entries # <<>>
    BY BackupEntries DEF IInv, Shape, ImportStore, NoFile
<1>4. 1 \in 1..Len(backup.entries)
    BY <1>3
<1>5. j \in Job /\ j.entries = backup.entries /\ j.next = 1
    BY <1>1, <1>3 DEF Job
<1>6. Shape'
    <2>1. job' \in [Stores -> Job \cup {None}]
        BY <1>2, <1>5 DEF IInv, Shape
    <2>2. \A t \in Stores : job'[t] # None => job'[t].next \in 1..Len(job'[t].entries)
        BY <1>2, <1>4, <1>5 DEF IInv, Shape, Idle
    <2>3. answer' \in [Stores -> {"none", "ok", "failed", "dead"}]
        BY <1>2 DEF IInv, Shape
    <2> QED BY <1>2, <2>1, <2>2, <2>3 DEF IInv, Shape, Idle
<1>7. Exports'
    BY <1>2, <1>5 DEF IInv, Shape, Exports, Faithful, Idle
<1>8. NoMnemonic' /\ IdentityWhole' /\ Rooted'
    BY <1>2 DEF IInv, NoMnemonic, IdentityWhole, Rooted
<1> QED BY <1>6, <1>7, <1>8 DEF IInv

\* The call of s changes, and nothing of the others.
LEMMA JobStep ==
    ASSUME IInv, NEW s \in Stores, NEW j,
           job' = [job EXCEPT ![s] = j],
           j = None \/ /\ j \in Job /\ j.next \in 1..Len(j.entries)
                       /\ job[s] # None /\ j.entries = job[s].entries
    PROVE  /\ job' \in [Stores -> Job \cup {None}]
           /\ \A t \in Stores : job'[t] # None =>
                 /\ job[t] # None /\ job'[t].entries = job[t].entries
                 /\ job'[t].next \in 1..Len(job'[t].entries)
BY DEF IInv, Shape, Idle

LEMMA UnpackWrites ==
    ASSUME Shape, NEW s \in Stores, Unpack(s)
    PROVE  /\ ~Idle(s) /\ ~job[s].unpacked /\ UNCHANGED <<files, backup, history>>
           /\ \/ /\ tmp' = job[s].entries[job[s].next] /\ UNCHANGED answer
                 /\ job' = [job EXCEPT ![s] =
                       [entries |-> job[s].entries, next |-> job[s].next,
                        pass |-> job[s].pass, exp |-> job[s].exp, unpacked |-> TRUE]]
              \/ /\ tmp' = None /\ job' = [job EXCEPT ![s] = None]
                 /\ answer' = [answer EXCEPT ![s] = "failed"]
<1>1. ~Idle(s) /\ ~job[s].unpacked /\ UNCHANGED <<files, backup, history>>
    BY DEF Unpack
<1>2. [job[s] EXCEPT !.unpacked = TRUE] =
          [entries |-> job[s].entries, next |-> job[s].next,
           pass |-> job[s].pass, exp |-> job[s].exp, unpacked |-> TRUE]
    BY <1>1, BusyJob, JobWrites
<1>3. [job EXCEPT ![s].unpacked = TRUE] = [job EXCEPT ![s] = [job[s] EXCEPT !.unpacked = TRUE]]
    BY DEF Shape
<1> QED BY <1>1, <1>2, <1>3 DEF Unpack, Answer

LEMMA InvUnpack ==
    ASSUME IInv, NEW s \in Stores, Unpack(s)
    PROVE  IInv'
<1>1. Shape /\ ~Idle(s) /\ ~job[s].unpacked
    BY UnpackWrites DEF IInv
<1>2. UNCHANGED <<print, rooted, roots, dids, backup, torn, removed>>
    BY <1>1, UnpackWrites DEF files, history
<1>3. PICK j : /\ job' = [job EXCEPT ![s] = j]
               /\ \/ /\ j = [entries |-> job[s].entries, next |-> job[s].next,
                             pass |-> job[s].pass, exp |-> job[s].exp, unpacked |-> TRUE]
                     /\ tmp' = job[s].entries[job[s].next] /\ UNCHANGED answer
                  \/ j = None /\ tmp' = None /\ answer' = [answer EXCEPT ![s] = "failed"]
    BY <1>1, UnpackWrites
<1>4. PICK en \in Entry : en = job[s].entries[job[s].next] /\ Faithful(en)
    BY <1>1, BusyJob DEF IInv, Exports
<1>5. \/ j = None
      \/ /\ j \in Job /\ j.next \in 1..Len(j.entries)
         /\ job[s] # None /\ j.entries = job[s].entries
    <2>1. /\ job[s].entries \in Seq(Entry) /\ job[s].next \in Nat \ {0}
          /\ job[s].next \in 1..Len(job[s].entries)
          /\ job[s].pass \in Passwords /\ job[s].exp \in Passwords
        BY <1>1, BusyJob
    <2>2. CASE j = [entries |-> job[s].entries, next |-> job[s].next,
                    pass |-> job[s].pass, exp |-> job[s].exp, unpacked |-> TRUE]
        <3>1. j \in Job
            BY <2>1, <2>2 DEF Job
        <3>2. j.next = job[s].next /\ j.entries = job[s].entries
            BY <2>2
        <3> QED BY <1>1, <2>1, <3>1, <3>2 DEF Idle
    <2> QED BY <1>3, <2>2
<1>6. /\ job' \in [Stores -> Job \cup {None}]
      /\ \A t \in Stores : job'[t] # None =>
            /\ job[t] # None /\ job'[t].entries = job[t].entries
            /\ job'[t].next \in 1..Len(job'[t].entries)
    BY <1>3, <1>5, JobStep
<1>7. answer' \in [Stores -> {"none", "ok", "failed", "dead"}]
    BY <1>1, <1>3 DEF Shape
<1>8. tmp' \in Entry \cup {None}
    BY <1>3, <1>4
<1>9. Shape'
    BY <1>1, <1>2, <1>6, <1>7, <1>8 DEF Shape, Idle
<1>10. Exports'
    <2>1. tmp' = None \/ tmp' = en
        BY <1>3, <1>4
    <2>2. Faithful(en)'
        BY <1>2, <1>4, FaithfulKeeps
    <2>3. (tmp # None => Faithful(tmp))'
        BY <2>1, <2>2
    <2>4. (\A i \in DOMAIN backup.entries : Faithful(backup.entries[i]))'
        BY <1>2 DEF IInv, Exports, Faithful
    <2>5. (\A t \in Stores : job[t] # None =>
               \A i \in DOMAIN job[t].entries : Faithful(job[t].entries[i]))'
        BY <1>2, <1>6 DEF IInv, Exports, Faithful, Idle
    <2> QED BY <2>3, <2>4, <2>5 DEF Exports, Idle
<1>11. NoMnemonic' /\ IdentityWhole' /\ Rooted'
    BY <1>2 DEF IInv, NoMnemonic, IdentityWhole, Rooted
<1> QED BY <1>9, <1>10, <1>11 DEF IInv

LEMMA InvTakeEntry ==
    ASSUME IInv, NEW s \in Stores, TakeEntry(s)
    PROVE  IInv'
<1>1. Shape /\ ~Idle(s) /\ UNCHANGED backup
    BY TakeEntryTook DEF IInv
<1>2. PICK res : res \in {"ok", "failed", "dead"} /\ GoOn(s, res)
    BY <1>1, TakeEntryTook
<1>3. PICK j : /\ job' = [job EXCEPT ![s] = j]
               /\ \/ j = None /\ answer' = [answer EXCEPT ![s] = res]
                  \/ /\ j = [entries |-> job[s].entries, next |-> job[s].next + 1,
                             pass |-> job[s].pass, exp |-> job[s].exp, unpacked |-> FALSE]
                     /\ job[s].next + 1 \in 1..Len(job[s].entries)
                     /\ UNCHANGED answer
    BY <1>1, <1>2, GoesOn
<1>4. tmp' \in {tmp, None}
    BY <1>1, <1>2, GoesOn
<1>5. \/ j = None
      \/ /\ j \in Job /\ j.next \in 1..Len(j.entries)
         /\ job[s] # None /\ j.entries = job[s].entries
    <2>1. /\ job[s].entries \in Seq(Entry) /\ job[s].next \in Nat \ {0}
          /\ job[s].pass \in Passwords /\ job[s].exp \in Passwords
        BY <1>1, BusyJob
    <2>2. CASE /\ j = [entries |-> job[s].entries, next |-> job[s].next + 1,
                       pass |-> job[s].pass, exp |-> job[s].exp, unpacked |-> FALSE]
               /\ job[s].next + 1 \in 1..Len(job[s].entries)
        <3>1. job[s].next + 1 \in Nat \ {0}
            BY <2>1
        <3>2. j \in Job
            BY <2>1, <2>2, <3>1 DEF Job
        <3>3. j.next = job[s].next + 1 /\ j.entries = job[s].entries
            BY <2>2
        <3> QED BY <1>1, <2>2, <3>2, <3>3 DEF Idle
    <2> QED BY <1>3, <2>2
<1>6. /\ job' \in [Stores -> Job \cup {None}]
      /\ \A t \in Stores : job'[t] # None =>
            /\ job[t] # None /\ job'[t].entries = job[t].entries
            /\ job'[t].next \in 1..Len(job'[t].entries)
    BY <1>3, <1>5, JobStep
<1>7. answer' \in [Stores -> {"none", "ok", "failed", "dead"}]
    BY <1>1, <1>2, <1>3 DEF Shape
<1>8. /\ print' \in [Stores -> Passwords \cup {None}]
      /\ rooted' \in [Stores -> BOOLEAN]
      /\ roots' \in [Stores -> [Roots -> Identity]]
      /\ dids' \in [Stores -> [Dids -> DidFiles]]
      /\ torn' \subseteq Roots /\ torn \subseteq torn' /\ removed' \subseteq Stores \X Roots
      /\ NoMnemonic' /\ IdentityWhole' /\ Rooted'
    <2>1. CASE UNCHANGED <<files, history>>
        <3>1. UNCHANGED <<print, rooted, roots, dids, torn, removed>>
            BY <2>1 DEF files, history
        <3> QED BY <3>1 DEF IInv, Shape, NoMnemonic, IdentityWhole, Rooted
    <2>2. CASE tmp \in Entry /\ \E o : Took(s, job[s].pass, tmp, o)
        <3>1. PICK en \in Entry : en = tmp
            BY <2>2
        <3>2. PICK p \in Passwords : p = job[s].pass
            BY <1>1, BusyJob
        <3>3. PICK o : Took(s, p, en, o)
            BY <2>2, <3>1, <3>2
        <3>4. Faithful(en)
            BY <3>1, EntryAssumption DEF IInv, Exports
        <3> QED BY <3>3, <3>4, TookKeeps
    <2> QED BY <1>1, <2>1, <2>2, TakeEntryTook
<1>9. Shape'
    BY <1>1, <1>4, <1>6, <1>7, <1>8 DEF Shape, Idle
<1>10. Exports'
    BY <1>1, <1>4, <1>6, <1>8, ExportsKeep
<1> QED BY <1>8, <1>9, <1>10 DEF IInv

LEMMA InvDamage ==
    ASSUME IInv, Damage
    PROVE  IInv'
<1>1. PICK i \in DOMAIN backup.entries, en \in Entry :
          /\ backup' = [backup EXCEPT !.entries = [@ EXCEPT ![i] = en]]
          /\ en.kind = backup.entries[i].kind /\ en.of = backup.entries[i].of
          /\ ~en.good
          /\ en.kind = "root" => en.mnemonic = backup.entries[i].mnemonic
          /\ UNCHANGED <<files, tmp, job, answer, history>>
    BY DamageWrites DEF IInv
<1>2. UNCHANGED <<print, rooted, roots, dids, tmp, job, answer, torn, removed>>
    BY <1>1 DEF files, history
<1>3. PICK c : c = [backup.entries EXCEPT ![i] = en]
    OBVIOUS
<1>4. c \in Seq(Entry) /\ DOMAIN c = DOMAIN backup.entries /\ c # <<>>
    BY <1>1, <1>3, BackupEntries DEF IInv
<1>5. backup' = [backup EXCEPT !.entries = c]
    BY <1>1, <1>3
<1>6. backup' \in Backup /\ backup'.entries = c
    BY <1>4, <1>5 DEF IInv, Shape, Backup
<1>7. Shape'
    BY <1>2, <1>4, <1>6 DEF IInv, Shape, Idle
<1>8. Faithful(en)
    BY <1>1 DEF IInv, Exports, Faithful
<1>9. \A k \in DOMAIN c : Faithful(c[k])
    BY <1>3, <1>4, <1>8 DEF IInv, Exports
<1>10. Exports'
    BY <1>2, <1>6, <1>9 DEF IInv, Exports, Faithful, Idle
<1>11. NoMnemonic' /\ IdentityWhole' /\ Rooted'
    BY <1>2 DEF IInv, NoMnemonic, IdentityWhole, Rooted
<1> QED BY <1>7, <1>10, <1>11 DEF IInv

--------------------------------------------------------------------------------
\* The steps, with the exports and imports as what they do.
LEMMA NextCases ==
    ASSUME Shape, [Next]_vars
    PROVE  \/ \E s \in Stores, r \in Roots : NewRootIdentity(s, r)
           \/ \E s \in Stores, r \in Roots : DeleteRootIdentity(s, r)
           \/ \E s \in Stores, d \in Dids : NewDID(s, d)
           \/ \E s \in Stores, d \in Dids : Update(s, d)
           \/ \E s \in Stores, d \in Dids : DeleteDID(s, d)
           \/ \E s \in Stores, p, e \in Passwords : \E R, D :
                 Idle(s) /\ Exported(s, R, D, p, e)
           \/ \E s \in Stores, p, e \in Passwords : p \in Given(s) /\ ImportFile(s, p, e)
           \/ \E s \in Stores, p, e \in Passwords : p \in Given(s) /\ ImportStore(s, p, e)
           \/ \E s \in Stores : Unpack(s)
           \/ \E s \in Stores : TakeEntry(s)
           \/ Damage
           \/ UNCHANGED vars
<1>1. \A s \in Stores : Given(s) \subseteq Passwords
    BY ExportAssumption DEF Given
<1>2. ASSUME NEW s \in Stores, NEW p \in Passwords, NEW e \in Passwords,
             \/ \E d \in Dids : ExportDID(s, d, p, e)
             \/ \E r \in Roots : ExportRootIdentity(s, r, p, e)
             \/ ExportStore(s, p, e)
      PROVE  Idle(s) /\ \E R, D : Exported(s, R, D, p, e)
    <2>1. Idle(s)
        BY <1>2 DEF ExportDID, ExportRootIdentity, ExportStore, Call
    <2> QED BY <1>2, <2>1, ExportDIDExported, ExportRootExported, ExportStoreExported
<1>3. CASE UNCHANGED vars
    BY <1>3
<1>4. CASE Damage
    BY <1>4
<1>5. ASSUME NEW s \in Stores,
             \/ \E r \in Roots : NewRootIdentity(s, r) \/ DeleteRootIdentity(s, r)
             \/ \E d \in Dids : NewDID(s, d) \/ Update(s, d) \/ DeleteDID(s, d)
             \/ Unpack(s) \/ TakeEntry(s)
      PROVE  \/ \E r \in Roots : NewRootIdentity(s, r)
             \/ \E r \in Roots : DeleteRootIdentity(s, r)
             \/ \E d \in Dids : NewDID(s, d)
             \/ \E d \in Dids : Update(s, d)
             \/ \E d \in Dids : DeleteDID(s, d)
             \/ Unpack(s)
             \/ TakeEntry(s)
    BY <1>5
<1>6. ASSUME NEW s \in Stores,
             \E p \in Given(s), e \in Passwords : ImportFile(s, p, e) \/ ImportStore(s, p, e)
      PROVE  \E p, e \in Passwords :
                 p \in Given(s) /\ (ImportFile(s, p, e) \/ ImportStore(s, p, e))
    BY <1>1, <1>6
<1>7. \/ UNCHANGED vars
      \/ Damage
      \/ \E s \in Stores :
            \/ \E r \in Roots : NewRootIdentity(s, r) \/ DeleteRootIdentity(s, r)
            \/ \E d \in Dids : NewDID(s, d) \/ Update(s, d) \/ DeleteDID(s, d)
            \/ Unpack(s) \/ TakeEntry(s)
      \/ \E s \in Stores : \E p, e \in Passwords :
            \/ \E d \in Dids : ExportDID(s, d, p, e)
            \/ \E r \in Roots : ExportRootIdentity(s, r, p, e)
            \/ ExportStore(s, p, e)
      \/ \E s \in Stores :
            \E p \in Given(s), e \in Passwords : ImportFile(s, p, e) \/ ImportStore(s, p, e)
    BY Zenon DEF Next
<1> QED BY <1>2, <1>3, <1>4, <1>5, <1>6, <1>7

LEMMA InvNext == IInv /\ [Next]_vars => IInv'
<1> SUFFICES ASSUME IInv, [Next]_vars
             PROVE  IInv'
    OBVIOUS
<1>1. Shape
    BY DEF IInv
<1>2. CASE UNCHANGED vars
    <2>1. UNCHANGED <<print, rooted, roots, dids, backup, tmp, job, answer, torn, removed>>
        BY <1>2 DEF vars, files, history
    <2>2. Shape' /\ Exports'
        BY <2>1, LocalStep DEF IInv, Shape
    <2>3. NoMnemonic' /\ IdentityWhole' /\ Rooted'
        BY <2>1 DEF IInv, NoMnemonic, IdentityWhole, Rooted
    <2> QED BY <2>2, <2>3 DEF IInv
<1> QED BY <1>1, <1>2, NextCases, InvNewRootIdentity, InvDeleteRootIdentity, InvNewDID,
           InvUpdate, InvDeleteDID, InvExported, InvImportFile, InvImportStore, InvUnpack,
           InvTakeEntry, InvDamage

\* The files and calls keep their types, what is exported is what the identities
\* are, an identity that no crash has interrupted is whole, and where a key is to be
\* derived there is an identity: for any passwords, failures, crashes and damages.
THEOREM Invariant == Spec => []IInv
<1> QED BY InvInit, InvNext, PTL DEF Spec

\* The variables stay what the files and calls of the program can be, and ImportStore
\* never looks for an entry past the end of its zip.
THEOREM TypeCorrect == Spec => []TypeOK
<1>1. IInv => TypeOK
    <2> SUFFICES ASSUME IInv
                 PROVE  TypeOK
        OBVIOUS
    <2>1. Shape
        BY DEF IInv
    <2>2. backup.zip \in BOOLEAN
        BY <2>1 DEF Shape, Backup
    <2>3. \A i \in DOMAIN backup.entries : backup.entries[i] \in Entry
        BY <2>1, BackupEntries
    <2>4. \A s \in Stores : job[s] # None =>
              job[s] \in Job /\ job[s].next \in DOMAIN job[s].entries
        BY <2>1, BusyJob DEF Idle
    <2> QED BY <2>1, <2>2, <2>3, <2>4 DEF Shape, TypeOK
<1> QED BY <1>1, Invariant, PTL

\* Whatever import of an identity fails halfway, the store has the identity as a
\* whole or not at all (the error exit of import_rootidentity deletes its directory);
\* only a crash of the process leaves a part.
THEOREM IdentitiesAreWhole == Spec => []IdentityWhole
<1>1. IInv => IdentityWhole
    BY DEF IInv
<1> QED BY <1>1, Invariant, PTL

\* A lazy private key can be derived: its identity is in the store, whole, unless it
\* was deleted there or a crash interrupted one of its imports.
THEOREM KeysAreDerivable == Spec => []Derivable
<1>1. IInv => Derivable
    BY ExportAssumption DEF IInv, IdentityWhole, Rooted, Derivable
<1> QED BY <1>1, Invariant, PTL

--------------------------------------------------------------------------------
\* Secrets stay under the store's own password.

\* What Sealed says of the identities and the DIDs of one store.
SealedIn(s, mark, identities, documents) ==
    /\ mark \in {None, StorePass[s]}
    /\ \A r \in Roots :
          /\ {identities[r].mnemonic, identities[r].prv} \subseteq {StorePass[s], Bad, None}
          /\ identities[r].mnemonic # None \/ identities[r].prv # None => mark = StorePass[s]
    /\ \A d \in Dids : documents[d].key \in {StorePass[s], Lazy, None}

LEMMA SealedParts ==
    Sealed <=> /\ \A s \in Stores : SealedIn(s, print[s], roots[s], dids[s])
               /\ \A s \in Stores : ~Idle(s) => job[s].pass = StorePass[s]
BY DEF Sealed, SealedIn

\* A step of one store keeps the others sealed.
LEMMA SealedStep ==
    ASSUME Sealed, NEW s \in Stores, SealedIn(s, print'[s], roots'[s], dids'[s]),
           \A t \in Stores : t # s =>
               print'[t] = print[t] /\ roots'[t] = roots[t] /\ dids'[t] = dids[t],
           \A t \in Stores : job'[t] # None => job'[t].pass = StorePass[t]
    PROVE  Sealed'
<1>1. \A t \in Stores : SealedIn(t, print'[t], roots'[t], dids'[t])
    BY SealedParts
<1> QED BY <1>1 DEF Sealed, SealedIn, Idle

\* One identity or one DID of a store is written.
LEMMA SealedRoot ==
    ASSUME NEW s, NEW mark, NEW identities, NEW documents, NEW mark1, NEW identities1,
           SealedIn(s, mark, identities, documents),
           mark1 = mark \/ mark1 = StorePass[s],
           NEW r \in Roots, NEW y, identities1[r] = y,
           \A q \in Roots : q # r => identities1[q] = identities[q],
           {y.mnemonic, y.prv} \subseteq {StorePass[s], Bad, None},
           y.mnemonic # None \/ y.prv # None => mark1 = StorePass[s]
    PROVE  SealedIn(s, mark1, identities1, documents)
BY DEF SealedIn

LEMMA SealedDids ==
    ASSUME NEW s, NEW mark, NEW identities, NEW documents, NEW mark1, NEW documents1,
           SealedIn(s, mark, identities, documents),
           mark1 = mark \/ mark1 = StorePass[s],
           \A d \in Dids : documents1[d].key \in {StorePass[s], Lazy, None}
    PROVE  SealedIn(s, mark1, identities, documents1)
BY DEF SealedIn

\* Steps of a store that are in no call of ImportStore.
LEMMA JobsSealed ==
    ASSUME Sealed, UNCHANGED job
    PROVE  \A t \in Stores : job'[t] # None => job'[t].pass = StorePass[t]
BY DEF Sealed, Idle

LEMMA SealedNewRootIdentity ==
    ASSUME IInv, Sealed, NEW s \in Stores, NEW r \in Roots, NewRootIdentity(s, r)
    PROVE  Sealed'
<1>1. PICK p \in Passwords : p = StorePass[s]
    BY ExportAssumption
<1>2. PICK x : x = [pub |-> TRUE, mnemonic |-> IF r \in KeyOnly THEN None ELSE p,
                    prv |-> p, index |-> 0]
    OBVIOUS
<1>3. /\ roots' = [roots EXCEPT ![s][r] = x] /\ print' = [print EXCEPT ![s] = p]
      /\ UNCHANGED <<dids, job>>
    BY <1>1, <1>2 DEF NewRootIdentity
<1>4. /\ roots'[s][r] = x /\ (\A q \in Roots : q # r => roots'[s][q] = roots[s][q])
      /\ \A t \in Stores : t # s => roots'[t] = roots[t] /\ print'[t] = print[t]
      /\ print'[s] = p
    BY <1>3 DEF IInv, Shape
<1>5. {x.mnemonic, x.prv} \subseteq {p, Bad, None}
    BY <1>2
<1>6. SealedIn(s, print'[s], roots'[s], dids[s])
    BY <1>1, <1>4, <1>5, SealedParts, SealedRoot
<1> QED BY <1>3, <1>4, <1>6, JobsSealed, SealedStep

LEMMA SealedDeleteRootIdentity ==
    ASSUME IInv, Sealed, NEW s \in Stores, NEW r \in Roots, DeleteRootIdentity(s, r)
    PROVE  Sealed'
<1>1. roots' = [roots EXCEPT ![s][r] = Blank] /\ UNCHANGED <<print, dids, job>>
    BY DEF DeleteRootIdentity
<1>2. /\ roots'[s][r] = Blank /\ (\A q \in Roots : q # r => roots'[s][q] = roots[s][q])
      /\ \A t \in Stores : t # s => roots'[t] = roots[t]
    BY <1>1 DEF IInv, Shape
<1>3. SealedIn(s, print[s], roots'[s], dids[s])
    BY <1>2, BlankFacts, SealedParts, SealedRoot
<1> QED BY <1>1, <1>2, <1>3, JobsSealed, SealedStep

LEMMA SealedNewDID ==
    ASSUME IInv, Sealed, NEW s \in Stores, NEW d \in Dids, NewDID(s, d)
    PROVE  Sealed'
<1>1. PICK x \in DidFiles, y \in Identity :
          /\ dids' = [dids EXCEPT ![s][d] = x] /\ x.key = Lazy
          /\ roots' = [roots EXCEPT ![s][RootOf[d]] = y]
          /\ y.mnemonic = roots[s][RootOf[d]].mnemonic
          /\ y.prv = roots[s][RootOf[d]].prv
          /\ RootOf[d] \in Roots
    BY NewDIDWrites DEF IInv
<1>2. PICK r \in Roots : r = RootOf[d]
    BY <1>1
<1>3. UNCHANGED <<print, job>>
    BY DEF NewDID
<1>4. /\ roots'[s][r] = y /\ (\A q \in Roots : q # r => roots'[s][q] = roots[s][q])
      /\ dids'[s][d] = x /\ (\A c \in Dids : c # d => dids'[s][c] = dids[s][c])
      /\ \A t \in Stores : t # s => roots'[t] = roots[t] /\ dids'[t] = dids[t]
    BY <1>1, <1>2 DEF IInv, Shape
<1>5. SealedIn(s, print[s], roots[s], dids[s])
    BY SealedParts
<1>6. SealedIn(s, print[s], roots'[s], dids[s])
    BY <1>1, <1>2, <1>4, <1>5 DEF SealedIn
<1>7. SealedIn(s, print[s], roots'[s], dids'[s])
    BY <1>1, <1>4, <1>6 DEF SealedIn
<1> QED BY <1>3, <1>4, <1>7, JobsSealed, SealedStep

\* One DID of the store gets a key that is sealed, or keeps its own.
LEMMA SealedKey ==
    ASSUME IInv, Sealed, NEW s \in Stores, NEW d \in Dids, NEW x,
           dids' = [dids EXCEPT ![s][d] = x], UNCHANGED <<print, roots, job>>,
           x.key \in {dids[s][d].key, StorePass[s], Lazy, None}
    PROVE  Sealed'
<1>1. /\ dids'[s][d] = x /\ (\A c \in Dids : c # d => dids'[s][c] = dids[s][c])
      /\ \A t \in Stores : t # s => dids'[t] = dids[t]
    BY DEF IInv, Shape
<1>2. SealedIn(s, print[s], roots[s], dids[s])
    BY SealedParts
<1>3. SealedIn(s, print[s], roots[s], dids'[s])
    BY <1>1, <1>2 DEF SealedIn
<1> QED BY <1>1, <1>3, JobsSealed, SealedStep

LEMMA SealedExported ==
    ASSUME IInv, Sealed, NEW s \in Stores, NEW p \in Passwords, NEW e \in Passwords,
           NEW R, NEW D, Exported(s, R, D, p, e)
    PROVE  Sealed'
<1>0. SealedIn(s, print[s], roots[s], dids[s]) /\ Shape
    BY SealedParts DEF IInv
<1>1. PICK q \in Passwords : q = StorePass[s]
    BY ExportAssumption
<1>2. /\ R \subseteq Roots /\ D \subseteq Dids /\ UNCHANGED <<roots, job>>
      /\ dids' = Derived(s, D, p) /\ print' = Stamped(s, R, D, p)
    BY DEF Exported
<1>3. \A r \in R : p = q
    <2> TAKE r \in R
    <2>1. roots[s][r].prv \in {p, Bad} /\ Admits(s, p)
        BY DEF Exported, CanExportRoot
    <2>2. print[s] = q
        BY <1>0, <1>1, <1>2, <2>1, BlankFacts DEF SealedIn
    <2> QED BY <1>1, <2>1, <2>2, BlankFacts DEF Admits
<1>4. \A d \in D : dids[s][d].key # None => p = q
    <2> SUFFICES ASSUME NEW d \in D, dids[s][d].key # None
                 PROVE  p = q
        OBVIOUS
    <2>1. \/ dids[s][d].key = p
          \/ roots[s][RootOf[d]].prv = p
        BY DEF Exported, CanExportDID, Opens
    <2>2. RootOf[d] \in Roots
        BY <1>2, ExportAssumption
    <2>3. /\ dids[s][d].key \in {q, Lazy, None}
          /\ roots[s][RootOf[d]].prv \in {q, Bad, None}
        BY <1>0, <1>1, <1>2, <2>2 DEF SealedIn
    <2> QED BY <2>1, <2>3, BlankFacts
<1>5. /\ print'[s] = print[s] \/ print'[s] = q
      /\ \A t \in Stores : t # s => print'[t] = print[t]
    BY <1>0, <1>2, <1>3, <1>4 DEF Stamped, Shape
<1>6. /\ dids' \in [Stores -> [Dids -> DidFiles]]
      /\ \A t \in Stores, d \in Dids :
            /\ t # s => dids'[t][d] = dids[t][d]
            /\ dids'[t][d].key =
                  IF t = s /\ d \in D /\ dids[t][d].key = Lazy THEN p ELSE dids[t][d].key
    BY <1>0, <1>2, DerivedWrites
<1>7. \A d \in Dids : dids'[s][d].key \in {q, Lazy, None}
    BY <1>0, <1>1, <1>4, <1>6, BlankFacts DEF SealedIn
<1>8. \A t \in Stores : t # s => dids'[t] = dids[t]
    BY <1>0, <1>6 DEF Shape
<1>9. SealedIn(s, print'[s], roots[s], dids'[s])
    BY <1>0, <1>1, <1>5, <1>7, SealedDids
<1> QED BY <1>2, <1>5, <1>8, <1>9, JobsSealed, SealedStep

\* The import of an entry with the store's own password.
LEMMA SealedTook ==
    ASSUME IInv, Sealed, NEW s \in Stores, NEW p \in Passwords, p = StorePass[s],
           NEW en \in Entry, NEW o, Took(s, p, en, o)
    PROVE  /\ SealedIn(s, print'[s], roots'[s], dids'[s])
           /\ \A t \in Stores : t # s =>
                 print'[t] = print[t] /\ roots'[t] = roots[t] /\ dids'[t] = dids[t]
<1>0. SealedIn(s, print[s], roots[s], dids[s]) /\ Shape
    BY SealedParts DEF IInv
<1>1. print' = [print EXCEPT ![s] = IF o.used THEN p ELSE @]
    BY DEF Took
<1>2. /\ print'[s] = IF o.used THEN p ELSE print[s]
      /\ \A t \in Stores : t # s => print'[t] = print[t]
    BY <1>0, <1>1 DEF Shape
<1>3. CASE en \in RootEntry /\ en.kind = "root"
    <2>1. PICK r \in Roots : r = en.of
        BY <1>3 DEF RootEntry
    <2>2. PICK x \in Identity : x = roots[s][r]
        BY <1>0 DEF Shape
    <2>3. PICK y : y = o.files
        OBVIOUS
    <2>4. /\ RootEnd(s, x, p, en, o) /\ roots' = [roots EXCEPT ![s][r] = y]
          /\ UNCHANGED dids
        BY <1>3, <2>1, <2>2, <2>3 DEF Took
    <2>5. /\ roots'[s][r] = y /\ (\A q \in Roots : q # r => roots'[s][q] = roots[s][q])
          /\ \A t \in Stores : t # s => roots'[t] = roots[t]
        BY <1>0, <2>4 DEF Shape
    <2>6. /\ {x.mnemonic, x.prv} \subseteq {p, Bad, None}
          /\ x.mnemonic # None \/ x.prv # None => print[s] = p
        BY <1>0, <2>2 DEF SealedIn
    <2>7. Value(p, en) \in {p, Bad}
        BY DEF Value
    <2>8. \/ y = Blank
          \/ y.mnemonic = x.mnemonic /\ y.prv = x.prv
          \/ o.used /\ y.mnemonic = Value(p, en) /\ y.prv \in {x.prv, Value(p, en)}
        BY <2>3, <2>4 DEF RootEnd
    <2>9. /\ {y.mnemonic, y.prv} \subseteq {p, Bad, None}
          /\ y.mnemonic # None \/ y.prv # None => print'[s] = p
        BY <1>2, <2>6, <2>7, <2>8, BlankFacts
    <2>10. SealedIn(s, print'[s], roots'[s], dids[s])
        BY <1>0, <1>2, <2>5, <2>9, SealedRoot
    <2> QED BY <1>2, <2>4, <2>5, <2>10
<1>4. CASE en \in DidEntry /\ en.kind = "did"
    <2>1. PICK d \in Dids : d = en.of
        BY <1>4 DEF DidEntry
    <2>2. PICK y : y = o.files
        OBVIOUS
    <2>3. /\ DIDEnd(dids[s][d], p, en, o) /\ dids' = [dids EXCEPT ![s][d] = y]
          /\ UNCHANGED roots
        BY <1>4, <2>1, <2>2 DEF Took
    <2>4. /\ dids'[s][d] = y /\ (\A c \in Dids : c # d => dids'[s][c] = dids[s][c])
          /\ \A t \in Stores : t # s => dids'[t] = dids[t]
        BY <1>0, <2>3 DEF Shape
    <2>5. y.key \in {dids[s][d].key, p, None}
        BY <2>2, <2>3 DEF DIDEnd
    <2>6. \A c \in Dids : dids'[s][c].key \in {p, Lazy, None}
        BY <1>0, <2>4, <2>5 DEF SealedIn
    <2>7. SealedIn(s, print'[s], roots[s], dids'[s])
        BY <1>0, <1>2, <2>6, SealedDids
    <2> QED BY <1>2, <2>3, <2>4, <2>7
<1> QED BY <1>3, <1>4, EntryKinds

LEMMA SealedTakeEntry ==
    ASSUME IInv, Sealed, NEW s \in Stores, TakeEntry(s)
    PROVE  Sealed'
<1>1. Shape /\ ~Idle(s) /\ UNCHANGED backup
    BY TakeEntryTook DEF IInv
<1>2. PICK p \in Passwords : p = job[s].pass
    BY <1>1, BusyJob
<1>3. p = StorePass[s]
    BY <1>1, <1>2 DEF Sealed
<1>4. \A t \in Stores : job'[t] # None => job'[t].pass = StorePass[t]
    <2>1. PICK res : GoOn(s, res)
        BY <1>1, TakeEntryTook
    <2>2. PICK j : job' = [job EXCEPT ![s] = j] /\ (j = None \/ j.pass = p)
        BY <1>1, <1>2, <2>1, GoesOn
    <2> QED BY <1>1, <1>3, <2>2 DEF Shape, Sealed, Idle
<1>5. CASE UNCHANGED <<files, history>>
    BY <1>4, <1>5, SealedStep, SealedParts DEF files
<1>6. CASE tmp \in Entry /\ \E o : Took(s, job[s].pass, tmp, o)
    <2>1. PICK en \in Entry : en = tmp
        BY <1>6
    <2>2. PICK o : Took(s, p, en, o)
        BY <1>2, <1>6, <2>1
    <2> QED BY <1>3, <1>4, <2>2, SealedTook, SealedStep
<1> QED BY <1>1, <1>5, <1>6, TakeEntryTook

LEMMA SealedNext ==
    ASSUME OwnPassword, IInv, Sealed, [Next]_vars
    PROVE  Sealed'
<1>1. Shape
    BY DEF IInv
<1>2. CASE UNCHANGED <<files, job>>
    BY <1>2 DEF files, Sealed, Idle
<1>3. ASSUME NEW s \in Stores, NEW p \in Passwords, NEW e \in Passwords, p \in Given(s),
             ImportFile(s, p, e)
      PROVE  Sealed'
    <2>1. p = StorePass[s]
        BY <1>3 DEF OwnPassword, Given
    <2>2. UNCHANGED job /\ backup.entries[1] \in Entry
        BY <1>1, <1>3, ImportFileTook
    <2>3. PICK en \in Entry : en = backup.entries[1]
        BY <2>2
    <2>4. PICK o : Took(s, p, en, o)
        BY <1>1, <1>3, <2>3, ImportFileTook
    <2> QED BY <2>1, <2>2, <2>4, SealedTook, JobsSealed, SealedStep
<1>4. ASSUME NEW s \in Stores, NEW p \in Passwords, NEW e \in Passwords, p \in Given(s),
             ImportStore(s, p, e)
      PROVE  Sealed'
    <2>1. p = StorePass[s]
        BY <1>4 DEF OwnPassword, Given
    <2>2. PICK j : j = [entries |-> backup.entries, next |-> 1, pass |-> p, exp |-> e,
                        unpacked |-> FALSE]
        OBVIOUS
    <2>3. job' = [job EXCEPT ![s] = j] /\ UNCHANGED <<print, roots, dids>>
        BY <1>4, <2>2 DEF ImportStore, files
    <2>4. j.pass = p
        BY <2>2
    <2> QED BY <1>1, <2>1, <2>3, <2>4 DEF Shape, Sealed, Idle
<1>5. ASSUME NEW s \in Stores, Unpack(s)
      PROVE  Sealed'
    <2>1. ~Idle(s) /\ UNCHANGED <<print, roots, dids>>
        BY <1>1, <1>5, UnpackWrites DEF files
    <2>2. PICK j : job' = [job EXCEPT ![s] = j] /\ (j = None \/ j.pass = job[s].pass)
        BY <1>1, <1>5, UnpackWrites
    <2> QED BY <1>1, <2>1, <2>2 DEF Shape, Sealed, Idle
<1>6. ASSUME NEW s \in Stores, NEW d \in Dids, Update(s, d)
      PROVE  Sealed'
    <2>1. UNCHANGED <<print, roots, job>>
        BY <1>6 DEF Update
    <2> QED BY <1>1, <1>6, <2>1, UpdateWrites, SealedKey
<1>7. ASSUME NEW s \in Stores, NEW d \in Dids, DeleteDID(s, d)
      PROVE  Sealed'
    <2>1. dids' = [dids EXCEPT ![s][d] = NoDid] /\ UNCHANGED <<print, roots, job>>
        BY <1>7 DEF DeleteDID
    <2> QED BY <2>1, BlankFacts, SealedKey
<1>8. CASE Damage \/ UNCHANGED vars
    BY <1>2, <1>8 DEF Damage, vars
<1> QED BY <1>1, <1>3, <1>4, <1>5, <1>6, <1>7, <1>8, NextCases, SealedNewRootIdentity,
           SealedDeleteRootIdentity, SealedNewDID, SealedExported, SealedTakeEntry

\* When the application gives every import the store's own password, all secrets of
\* a store are under one password, the one its fingerprint admits: imports convert
\* what the password of the export encrypted, exports write no key under another.
\* (With other passwords the code does not keep this: import_privatekey compares the
\* password with nothing.)
THEOREM SecretsAreReadable == OwnPassword => (Spec => []Readable)
<1> SUFFICES ASSUME OwnPassword
             PROVE  Spec => []Readable
    OBVIOUS
<1>1. Init => Sealed
    BY BlankFacts DEF Init, Sealed, Idle
<1>2. IInv /\ Sealed /\ [Next]_vars => Sealed'
    BY SealedNext
<1>3. Sealed => Readable
    <2> SUFFICES ASSUME Sealed, NEW s \in Stores
                 PROVE  LET used == {roots[s][r].mnemonic : r \in Roots}
                                    \cup {roots[s][r].prv : r \in Roots}
                                    \cup {dids[s][d].key : d \in Dids}
                        IN \E p \in Passwords :
                              used \cap Passwords \subseteq {p} /\ Admits(s, p)
        BY DEF Readable
    <2>1. PICK p \in Passwords : p = StorePass[s]
        BY ExportAssumption
    <2>2. /\ \A r \in Roots : {roots[s][r].mnemonic, roots[s][r].prv} \subseteq {p, Bad, None}
          /\ \A d \in Dids : dids[s][d].key \in {p, Lazy, None}
          /\ Admits(s, p)
        BY <2>1 DEF Sealed, Admits
    <2> QED BY <2>2, BlankFacts
<1> QED BY <1>1, <1>2, <1>3, Invariant, PTL DEF Spec

--------------------------------------------------------------------------------
\* A successful ImportStore has brought everything.

\* Steps of a store that is in no call of ImportStore.
LEMMA IdleStep ==
    ASSUME Progressing, NEW s \in Stores, Idle(s), UNCHANGED <<tmp, job>>,
           backup'.zip => Distinct(backup'.entries),
           \A t \in Stores : t # s => roots'[t] = roots[t] /\ dids'[t] = dids[t]
    PROVE  Progressing'
<1>1. (\A t, u \in Stores : job[t] # None /\ job[u] # None => t = u)'
    BY DEF Progressing, Idle
<1>2. ASSUME NEW t \in Stores, job'[t] # None
      PROVE  /\ Distinct(job'[t].entries)
             /\ job'[t].unpacked => tmp' = job'[t].entries[job'[t].next]
             /\ \A i \in 1..(job'[t].next - 1) :
                   Holds(roots'[t], dids'[t], job'[t].pass, job'[t].entries[i])
    <2>1. job[t] # None /\ job'[t] = job[t]
        BY <1>2
    <2>2. t # s
        BY <2>1 DEF Idle
    <2> QED BY <2>1, <2>2 DEF Progressing, Idle
<1> QED BY <1>1, <1>2 DEF Progressing, Idle

LEMMA AloneInStore ==
    ASSUME OneImport, Cardinality({t \in Stores : ~Idle(t)}) < MaxJobs
    PROVE  \A t \in Stores : Idle(t)
<1>1. PICK B : B = {t \in Stores : ~Idle(t)}
    OBVIOUS
<1>2. IsFiniteSet(B)
    BY <1>1, ExportAssumption, FS_Subset
<1>3. Cardinality(B) \in Nat /\ MaxJobs \in Nat
    BY <1>2, ExportAssumption, FS_CardinalityType
<1>4. Cardinality(B) = 0
    BY <1>1, <1>3 DEF OneImport
<1>5. B = {}
    BY <1>2, <1>4, FS_EmptySet
<1> QED BY <1>1, <1>5

\* The end of TakeEntry: if it is a success, the store holds the entries up to the
\* one that was taken.
LEMMA TakeEntryEnds ==
    ASSUME IInv, Progressing, NEW s \in Stores, TakeEntry(s)
    PROVE  /\ ~Idle(s)
           /\ \A t \in Stores : t # s => roots'[t] = roots[t] /\ dids'[t] = dids[t]
           /\ \E res \in {"ok", "failed", "dead"} :
                 /\ GoOn(s, res)
                 /\ res = "ok" =>
                       \A i \in 1..job[s].next :
                           Holds(roots'[s], dids'[s], job[s].pass, job[s].entries[i])
<1>1. Shape /\ ~Idle(s) /\ job[s].unpacked
    BY TakeEntryTook DEF IInv
<1>2. CASE GoOn(s, "failed") /\ UNCHANGED <<files, history>>
    BY <1>1, <1>2 DEF files
<1>3. CASE /\ tmp \in Entry
           /\ \E o : /\ Took(s, job[s].pass, tmp, o) /\ o.result \in {"ok", "failed", "dead"}
                     /\ GoOn(s, o.result)
    <2>1. PICK p \in Passwords, es \in Seq(Entry), n \in Nat \ {0} :
              p = job[s].pass /\ es = job[s].entries /\ n = job[s].next
        BY <1>1, BusyJob
    <2>2. PICK en \in Entry : en = tmp
        BY <1>3
    <2>3. PICK o : /\ Took(s, p, en, o) /\ o.result \in {"ok", "failed", "dead"}
                   /\ GoOn(s, o.result)
        BY <1>3, <2>1, <2>2
    <2>4. /\ Distinct(es) /\ en = es[n]
          /\ \A i \in 1..(n - 1) : Holds(roots[s], dids[s], p, es[i])
        BY <1>1, <2>1, <2>2 DEF Progressing
    <2>5. /\ n \in DOMAIN es /\ DOMAIN es = 1..Len(es) /\ Len(es) \in Nat
          /\ n \in 1..Len(es) /\ \A i \in DOMAIN es : es[i] \in Entry
        BY <1>1, <2>1, BusyJob
    <2>6. \A i \in 1..(n - 1) :
              i \in DOMAIN es /\ (es[i].kind # en.kind \/ es[i].of # en.of)
        <3> TAKE i \in 1..(n - 1)
        <3>1. i \in DOMAIN es /\ i # n
            BY <2>1, <2>5
        <3>2. es[i].kind = es[n].kind /\ es[i].of = es[n].of => i = n
            BY <2>4, <2>5, <3>1 DEF Distinct
        <3> QED BY <2>4, <3>1, <3>2
    <2>7. PICK y : y = o.files
        OBVIOUS
    <2>8. CASE en \in RootEntry /\ en.kind = "root"
        <3>1. PICK r \in Roots : r = en.of
            BY <2>8 DEF RootEntry
        <3>2. /\ RootEnd(s, roots[s][r], p, en, o) /\ roots' = [roots EXCEPT ![s][r] = y]
              /\ UNCHANGED dids
            BY <2>3, <2>7, <2>8, <3>1 DEF Took
        <3>3. /\ roots'[s][r] = y /\ (\A q \in Roots : q # r => roots'[s][q] = roots[s][q])
              /\ \A t \in Stores : t # s => roots'[t] = roots[t]
            BY <1>1, <3>2 DEF Shape
        <3>4. o.result = "ok" => Holds(roots'[s], dids'[s], p, en)
            BY <2>7, <2>8, <3>1, <3>2, <3>3 DEF RootEnd, Value, Holds
        <3>5. ASSUME NEW i \in 1..(n - 1)
              PROVE  Holds(roots'[s], dids'[s], p, es[i])
            <4>1. PICK a \in Entry : a = es[i]
                BY <2>5, <2>6
            <4>2. Holds(roots[s], dids[s], p, a) /\ (a.kind # "root" \/ a.of # r)
                BY <2>4, <2>6, <2>8, <3>1, <4>1
            <4>3. a.kind = "root" => a.of \in Roots
                BY <4>1, EntryKinds DEF RootEntry
            <4>4. a.kind = "root" => roots'[s][a.of] = roots[s][a.of]
                BY <3>3, <4>2, <4>3
            <4> QED BY <3>2, <4>1, <4>2, <4>4 DEF Holds
        <3>6. \A i \in 1..n : i = n \/ i \in 1..(n - 1)
            BY <2>1
        <3>7. o.result = "ok" => \A i \in 1..n : Holds(roots'[s], dids'[s], p, es[i])
            BY <2>4, <3>4, <3>5, <3>6
        <3> QED BY <1>1, <2>1, <2>3, <3>2, <3>3, <3>7
    <2>9. CASE en \in DidEntry /\ en.kind = "did"
        <3>1. PICK d \in Dids : d = en.of
            BY <2>9 DEF DidEntry
        <3>2. /\ DIDEnd(dids[s][d], p, en, o) /\ dids' = [dids EXCEPT ![s][d] = y]
              /\ UNCHANGED roots
            BY <2>3, <2>7, <2>9, <3>1 DEF Took
        <3>3. /\ dids'[s][d] = y /\ (\A c \in Dids : c # d => dids'[s][c] = dids[s][c])
              /\ \A t \in Stores : t # s => dids'[t] = dids[t]
            BY <1>1, <3>2 DEF Shape
        <3>4. o.result = "ok" => Holds(roots'[s], dids'[s], p, en)
            BY <2>7, <2>9, <3>1, <3>2, <3>3 DEF DIDEnd, Holds
        <3>5. ASSUME NEW i \in 1..(n - 1)
              PROVE  Holds(roots'[s], dids'[s], p, es[i])
            <4>1. PICK a \in Entry : a = es[i]
                BY <2>5, <2>6
            <4>2. Holds(roots[s], dids[s], p, a) /\ (a.kind # "did" \/ a.of # d)
                BY <2>4, <2>6, <2>9, <3>1, <4>1
            <4>3. a.kind # "root" => a.kind = "did" /\ a.of \in Dids
                BY <4>1, EntryKinds DEF DidEntry
            <4>4. a.kind # "root" => dids'[s][a.of] = dids[s][a.of]
                BY <3>3, <4>2, <4>3
            <4> QED BY <3>2, <4>1, <4>2, <4>4 DEF Holds
        <3>6. \A i \in 1..n : i = n \/ i \in 1..(n - 1)
            BY <2>1
        <3>7. o.result = "ok" => \A i \in 1..n : Holds(roots'[s], dids'[s], p, es[i])
            BY <2>4, <3>4, <3>5, <3>6
        <3> QED BY <1>1, <2>1, <2>3, <3>2, <3>3, <3>7
    <2> QED BY <2>2, <2>8, <2>9, EntryKinds
<1> QED BY <1>2, <1>3, TakeEntryTook DEF IInv

\* The call of s is the only one, and it is changed.
LEMMA OnlyCall ==
    ASSUME IInv, Progressing, NEW s \in Stores, NEW j, job' = [job EXCEPT ![s] = j],
           \A t \in Stores : t # s => Idle(t),
           backup'.zip => Distinct(backup'.entries),
           j # None =>
               /\ Distinct(j.entries)
               /\ j.unpacked => tmp' = j.entries[j.next]
               /\ \A i \in 1..(j.next - 1) :
                     Holds(roots'[s], dids'[s], j.pass, j.entries[i])
    PROVE  Progressing'
<1>1. job'[s] = j /\ \A t \in Stores : t # s => job'[t] = None
    BY DEF IInv, Shape, Idle
<1>2. (\A t, u \in Stores : job[t] # None /\ job[u] # None => t = u)'
    BY <1>1
<1>3. ASSUME NEW t \in Stores, job'[t] # None
      PROVE  /\ Distinct(job'[t].entries)
             /\ job'[t].unpacked => tmp' = job'[t].entries[job'[t].next]
             /\ \A i \in 1..(job'[t].next - 1) :
                   Holds(roots'[t], dids'[t], job'[t].pass, job'[t].entries[i])
    <2>1. t = s
        BY <1>1, <1>3
    <2> QED BY <1>1, <1>3, <2>1
<1> QED BY <1>2, <1>3 DEF Progressing, Idle

LEMMA ProgressTakeEntry ==
    ASSUME IInv, Progressing, NEW s \in Stores, TakeEntry(s)
    PROVE  Progressing'
<1>1. Shape /\ ~Idle(s) /\ UNCHANGED backup
    BY TakeEntryTook DEF IInv
<1>2. PICK res \in {"ok", "failed", "dead"} :
          /\ GoOn(s, res)
          /\ res = "ok" => \A i \in 1..job[s].next :
                               Holds(roots'[s], dids'[s], job[s].pass, job[s].entries[i])
    BY TakeEntryEnds
<1>3. (\A t \in Stores : t # s => Idle(t)) /\ Distinct(job[s].entries)
    BY <1>1 DEF Progressing
<1>4. PICK n \in Nat : n = job[s].next
    BY <1>1, BusyJob
<1>5. PICK j : /\ job' = [job EXCEPT ![s] = j]
               /\ \/ j = None
                  \/ /\ j = [entries |-> job[s].entries, next |-> job[s].next + 1,
                             pass |-> job[s].pass, exp |-> job[s].exp, unpacked |-> FALSE]
                     /\ res = "ok"
    BY <1>1, <1>2, GoesOn
<1>6. CASE j # None
    <2>1. /\ j.entries = job[s].entries /\ j.next = n + 1 /\ j.pass = job[s].pass
          /\ ~j.unpacked /\ res = "ok"
        BY <1>4, <1>5, <1>6
    <2>2. 1..(j.next - 1) = 1..n
        BY <2>1
    <2>3. \A i \in 1..(j.next - 1) : Holds(roots'[s], dids'[s], j.pass, j.entries[i])
        BY <1>2, <1>4, <2>1, <2>2
    <2> QED BY <1>1, <1>3, <1>5, <2>1, <2>3, OnlyCall DEF Progressing
<1>7. CASE j = None
    BY <1>1, <1>3, <1>5, <1>7, OnlyCall DEF Progressing
<1> QED BY <1>6, <1>7

LEMMA ProgressUnpack ==
    ASSUME IInv, Progressing, NEW s \in Stores, Unpack(s)
    PROVE  Progressing'
<1>1. Shape /\ ~Idle(s) /\ UNCHANGED <<roots, dids, backup>>
    BY UnpackWrites DEF IInv, files
<1>2. (\A t \in Stores : t # s => Idle(t)) /\ Distinct(job[s].entries)
    BY <1>1 DEF Progressing
<1>3. PICK j : /\ job' = [job EXCEPT ![s] = j]
               /\ \/ j = None
                  \/ /\ j = [entries |-> job[s].entries, next |-> job[s].next,
                             pass |-> job[s].pass, exp |-> job[s].exp, unpacked |-> TRUE]
                     /\ tmp' = job[s].entries[job[s].next]
    BY <1>1, UnpackWrites
<1>4. CASE j # None
    <2>1. /\ j.entries = job[s].entries /\ j.next = job[s].next /\ j.pass = job[s].pass
          /\ tmp' = j.entries[j.next]
        BY <1>3, <1>4
    <2>2. \A i \in 1..(j.next - 1) : Holds(roots'[s], dids'[s], j.pass, j.entries[i])
        BY <1>1, <2>1 DEF Progressing
    <2> QED BY <1>1, <1>2, <1>3, <2>1, <2>2, OnlyCall DEF Progressing
<1>5. CASE j = None
    BY <1>1, <1>2, <1>3, <1>5, OnlyCall DEF Progressing
<1> QED BY <1>4, <1>5

LEMMA ProgressImportStore ==
    ASSUME OneImport, IInv, Progressing, NEW s \in Stores, NEW p, NEW e, ImportStore(s, p, e)
    PROVE  Progressing'
<1>1. PICK j : j = [entries |-> backup.entries, next |-> 1, pass |-> p, exp |-> e,
                    unpacked |-> FALSE]
    OBVIOUS
<1>2. job' = [job EXCEPT ![s] = j] /\ backup.zip /\ UNCHANGED backup
    BY <1>1 DEF ImportStore
<1>3. \A t \in Stores : Idle(t)
    BY AloneInStore DEF ImportStore
<1>4. j.entries = backup.entries /\ j.next = 1 /\ ~j.unpacked
    BY <1>1
<1>5. 1..(j.next - 1) = {}
    BY <1>4
<1> QED BY <1>2, <1>3, <1>4, <1>5, OnlyCall DEF Progressing

LEMMA ProgressSame ==
    ASSUME Progressing, UNCHANGED <<roots, dids, tmp, job>>,
           backup'.zip => Distinct(backup'.entries)
    PROVE  Progressing'
<1>1. \A s \in Stores : Idle(s)' = Idle(s)
    BY DEF Idle
<1>2. ASSUME NEW s \in Stores, ~Idle(s)
      PROVE  /\ Distinct(job'[s].entries)
             /\ job'[s].unpacked => tmp' = job'[s].entries[job'[s].next]
             /\ \A i \in 1..(job'[s].next - 1) :
                   Holds(roots'[s], dids'[s], job'[s].pass, job'[s].entries[i])
    BY <1>2 DEF Progressing
<1> QED BY <1>1, <1>2 DEF Progressing

LEMMA ProgressDamage ==
    ASSUME IInv, Progressing, Damage
    PROVE  Progressing'
<1>1. PICK k \in DOMAIN backup.entries, en \in Entry :
          /\ backup' = [backup EXCEPT !.entries = [@ EXCEPT ![k] = en]]
          /\ en.kind = backup.entries[k].kind /\ en.of = backup.entries[k].of
          /\ UNCHANGED <<files, tmp, job, answer, history>>
    BY DamageWrites DEF IInv
<1>2. PICK c : c = [backup.entries EXCEPT ![k] = en]
    OBVIOUS
<1>3. backup' = [backup EXCEPT !.entries = c]
    BY <1>1, <1>2
<1>4. backup'.entries = c /\ backup'.zip = backup.zip
    BY <1>3 DEF IInv, Shape, Backup
<1>5. /\ DOMAIN c = DOMAIN backup.entries
      /\ \A i \in DOMAIN c : c[i].kind = backup.entries[i].kind /\ c[i].of = backup.entries[i].of
    BY <1>1, <1>2
<1>6. backup.zip => Distinct(c)
    BY <1>5 DEF Progressing, Distinct
<1> QED BY <1>1, <1>4, <1>6, ProgressSame DEF files

LEMMA ProgressNext ==
    ASSUME OneImport, IInv, Progressing, [Next]_vars
    PROVE  Progressing'
<1>1. Shape
    BY DEF IInv
<1>2. CASE UNCHANGED vars
    <2>1. UNCHANGED <<roots, dids, tmp, job, backup>>
        BY <1>2 DEF vars, files
    <2> QED BY <2>1, ProgressSame DEF Progressing
<1>3. ASSUME NEW s \in Stores, NEW p \in Passwords, NEW e \in Passwords, ImportFile(s, p, e)
      PROVE  Progressing'
    <2>1. /\ backup.entries[1] \in Entry
          /\ \E o : Took(s, p, backup.entries[1], o)
          /\ UNCHANGED <<backup, tmp, job>> /\ Idle(s)
        BY <1>1, <1>3, ImportFileTook DEF ImportFile, Call
    <2>2. PICK en \in Entry : en = backup.entries[1]
        BY <2>1
    <2>3. PICK o : Took(s, p, en, o)
        BY <2>2, <2>1
    <2>4. PICK y : y = o.files
        OBVIOUS
    <2>5. \/ en.of \in Roots /\ roots' = [roots EXCEPT ![s][en.of] = y] /\ UNCHANGED dids
          \/ en.of \in Dids /\ dids' = [dids EXCEPT ![s][en.of] = y] /\ UNCHANGED roots
        BY <2>3, <2>4, EntryKinds DEF Took, RootEntry, DidEntry
    <2>6. \A t \in Stores : t # s => roots'[t] = roots[t] /\ dids'[t] = dids[t]
        BY <1>1, <2>5 DEF Shape
    <2> QED BY <2>1, <2>6, IdleStep DEF Progressing
<1>4. ASSUME NEW s \in Stores, NEW p \in Passwords, NEW e \in Passwords, NEW R, NEW D,
             Idle(s), Exported(s, R, D, p, e)
      PROVE  Progressing'
    <2>1. UNCHANGED <<roots, tmp, job>> /\ Distinct(backup'.entries)
        BY <1>4 DEF Exported
    <2>2. \A t \in Stores : t # s => dids'[t] = dids[t]
        BY <1>1, <1>4 DEF Exported, Derived, Shape
    <2> QED BY <1>4, <2>1, <2>2, IdleStep
<1>5. ASSUME NEW s \in Stores, NEW r \in Roots,
             NewRootIdentity(s, r) \/ DeleteRootIdentity(s, r)
      PROVE  Progressing'
    <2>1. PICK x : roots' = [roots EXCEPT ![s][r] = x]
        BY <1>5 DEF NewRootIdentity, DeleteRootIdentity
    <2>2. Idle(s) /\ UNCHANGED <<dids, backup, tmp, job>>
        BY <1>5 DEF NewRootIdentity, DeleteRootIdentity, Call
    <2>3. \A t \in Stores : t # s => roots'[t] = roots[t]
        BY <1>1, <2>1 DEF Shape
    <2> QED BY <2>2, <2>3, IdleStep DEF Progressing
<1>6. ASSUME NEW s \in Stores, NEW d \in Dids, NewDID(s, d)
      PROVE  Progressing'
    <2>1. PICK x, y : /\ dids' = [dids EXCEPT ![s][d] = x]
                      /\ roots' = [roots EXCEPT ![s][RootOf[d]] = y]
        BY <1>1, <1>6, NewDIDWrites
    <2>2. Idle(s) /\ UNCHANGED <<backup, tmp, job>>
        BY <1>6 DEF NewDID, Call
    <2>3. \A t \in Stores : t # s => roots'[t] = roots[t] /\ dids'[t] = dids[t]
        BY <1>1, <2>1 DEF Shape
    <2> QED BY <2>2, <2>3, IdleStep DEF Progressing
<1>7. ASSUME NEW s \in Stores, NEW d \in Dids, Update(s, d) \/ DeleteDID(s, d)
      PROVE  Progressing'
    <2>1. PICK x : dids' = [dids EXCEPT ![s][d] = x]
        BY <1>1, <1>7, UpdateWrites DEF DeleteDID
    <2>2. Idle(s) /\ UNCHANGED <<roots, backup, tmp, job>>
        BY <1>7 DEF Update, DeleteDID, Call
    <2>3. \A t \in Stores : t # s => dids'[t] = dids[t]
        BY <1>1, <2>1 DEF Shape
    <2> QED BY <2>2, <2>3, IdleStep DEF Progressing
<1> QED BY <1>1, <1>2, <1>3, <1>4, <1>5, <1>6, <1>7, NextCases, ProgressImportStore,
           ProgressUnpack, ProgressTakeEntry, ProgressDamage

\* Only TakeEntry, at the end of the list, answers success.
LEMMA SuccessIsComplete ==
    ASSUME IInv, Progressing, [Next]_vars, NEW s \in Stores,
           answer[s] # "ok", answer'[s] = "ok", NEW i \in DOMAIN job[s].entries
    PROVE  Holds(roots'[s], dids'[s], job[s].pass, job[s].entries[i])
<1>1. Shape
    BY DEF IInv
<1>2. TakeEntry(s)
    <2>1. \A t \in Stores : t # s /\ TakeEntry(t) => answer'[s] = answer[s]
        <3> SUFFICES ASSUME NEW t \in Stores, t # s, TakeEntry(t)
                     PROVE  answer'[s] = answer[s]
            OBVIOUS
        <3>1. PICK res : GoOn(t, res) /\ ~Idle(t)
            BY <1>1, TakeEntryTook
        <3>2. UNCHANGED answer \/ answer' = [answer EXCEPT ![t] = res]
            BY <1>1, <3>1, GoesOn
        <3> QED BY <1>1, <3>2 DEF Shape
    <2>2. \A t \in Stores : ~Unpack(t)
        <3> SUFFICES ASSUME NEW t \in Stores, Unpack(t)
                     PROVE  FALSE
            OBVIOUS
        <3>1. UNCHANGED answer \/ answer' = [answer EXCEPT ![t] = "failed"]
            BY <1>1, UnpackWrites
        <3> QED BY <1>1, <3>1 DEF Shape
    <2>3. \A t \in Stores, p, e \in Passwords : ~ImportStore(t, p, e)
        <3> SUFFICES ASSUME NEW t \in Stores, NEW p \in Passwords, NEW e \in Passwords,
                            ImportStore(t, p, e)
                     PROVE  FALSE
            OBVIOUS
        <3>1. answer' = [answer EXCEPT ![t] = "none"]
            BY DEF ImportStore
        <3> QED BY <1>1, <3>1 DEF Shape
    <2>4. answer' # answer
        OBVIOUS
    <2>5. /\ \A t \in Stores, r \in Roots : ~NewRootIdentity(t, r) /\ ~DeleteRootIdentity(t, r)
          /\ \A t \in Stores, d \in Dids : ~NewDID(t, d) /\ ~Update(t, d) /\ ~DeleteDID(t, d)
        BY <2>4 DEF NewRootIdentity, DeleteRootIdentity, NewDID, Update, DeleteDID
    <2>6. /\ \A t \in Stores, p, e \in Passwords :
                ~ImportFile(t, p, e) /\ \A R, D : ~Exported(t, R, D, p, e)
          /\ ~Damage /\ ~UNCHANGED vars
        BY <2>4 DEF ImportFile, Exported, Damage, vars
    <2> QED BY <1>1, <2>1, <2>2, <2>3, <2>5, <2>6, NextCases
<1>3. PICK res : /\ GoOn(s, res) /\ ~Idle(s)
                 /\ res = "ok" => \A k \in 1..job[s].next :
                        Holds(roots'[s], dids'[s], job[s].pass, job[s].entries[k])
    BY <1>2, TakeEntryEnds
<1>4. /\ answer' = [answer EXCEPT ![s] = res]
      /\ res = "ok" => job[s].next = Len(job[s].entries)
    BY <1>1, <1>3, GoesOn
<1>5. res = "ok"
    BY <1>1, <1>4 DEF Shape
<1>6. job[s].entries \in Seq(Entry)
    BY <1>1, <1>3, BusyJob
<1>7. i \in 1..Len(job[s].entries)
    BY <1>6
<1> QED BY <1>3, <1>4, <1>5, <1>7

\* When one process imports at a time, an ImportStore that answers success has
\* brought every identity and every DID of its zip, with their secrets under its own
\* password.  (Two processes unpack to the same /tmp/storeexport.json, and one may
\* then import what the other unpacked.)
THEOREM ImportsAreComplete == OneImport => (Spec => ImportComplete)
<1> SUFFICES ASSUME OneImport
             PROVE  Spec => ImportComplete
    OBVIOUS
<1>1. Init => Progressing
    BY DEF Init, NoFile, Progressing, Idle
<1>2. IInv /\ Progressing /\ [Next]_vars => Progressing'
    BY ProgressNext
<1>3. IInv /\ Progressing /\ [Next]_vars =>
          [\A s \in Stores :
              answer[s] # "ok" /\ answer'[s] = "ok" =>
                  \A i \in DOMAIN job[s].entries :
                      Holds(roots'[s], dids'[s], job[s].pass, job[s].entries[i])]_vars
    BY SuccessIsComplete
<1> QED BY <1>1, <1>2, <1>3, Invariant, PTL DEF Spec, ImportComplete

================================================================================
