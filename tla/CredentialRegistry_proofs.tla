----------------------- MODULE CredentialRegistry_proofs -----------------------
(***************************************************************************)
(* Proofs about CredentialRegistry, for any sets of devices and keys.      *)
(***************************************************************************)
EXTENDS CredentialRegistry, FiniteSetTheorems, SequenceTheorems, TLAPS

Tx == [op : {"declare", "revoke"}, by : Keys]

\* The histories the chain's rules leave: a declaration and at most one revocation;
\* or revocations by different keys of the issuer, and then perhaps one by a key of
\* the holder.  What comes after the first transaction is a revocation, and what
\* comes before a revocation and is one itself is by another key, of the issuer,
\* and of a credential that is not declared.
Histories ==
    {h \in Seq(Tx) :
        \A i, j \in DOMAIN h : i < j =>
            /\ h[j].op = "revoke"
            /\ h[i].op = "revoke" =>
                  /\ h[1].op = "revoke"
                  /\ h[i].by # h[j].by
                  /\ Signer(h[i].by) # Holder}

\* The answers that can be read have at most two transactions, newest first.
Answers ==
    {[i \in 1..n |-> h[n + 1 - i]] : n \in 0..2, h \in Histories}

\* A cache file as it is written: it has no field id.
Files == [did : {TRUE}, status : {"valid", "revoked"}, txs : Answers]

\* The flag of a stored credential is raised only once the chain has a revocation.
FlagsTrue ==
    \A a \in Devices : stored[a] # None /\ stored[a] = "true" => Revoked

\* Only the holder's devices declare.
DeclaredByHolder ==
    \A a \in Devices : job[a] # None /\ job[a].op = "declare" => a \in HolderDevices

\* The inductive invariant.
IInv ==
    /\ txs \in Histories
    /\ expired \subseteq Parties
    /\ deactivated \subseteq Parties
    /\ stored \in [Devices -> Flags \cup {None}]
    /\ cache \in [Devices -> Files \cup {None}]
    /\ job \in [Devices -> Jobs \cup {None}]
    /\ FlagsTrue
    /\ DeclaredByHolder
    /\ ChecksComplete

--------------------------------------------------------------------------------
\* What the chain says.

\* Every key is one of the holder or of the issuer.
LEMMA SignerType ==
    \A key : Signer(key) \in Parties
BY DEF Signer, Parties

\* A history entry is a declaration or a revocation by one of the keys.
LEMMA EntryFacts ==
    ASSUME txs \in Histories
    PROVE  /\ Len(txs) \in Nat /\ DOMAIN txs = 1..Len(txs)
           /\ \A i \in 1..Len(txs) :
                 /\ txs[i].op \in {"declare", "revoke"}
                 /\ txs[i].by \in Keys
                 /\ Signer(txs[i].by) \in {Holder, Issuer}
                 /\ Is(i, "revoke") <=> ~Is(i, "declare")
           /\ \A i, j \in 1..Len(txs) : i < j =>
                 /\ txs[j].op = "revoke"
                 /\ txs[i].op = "revoke" =>
                       /\ txs[1].op = "revoke"
                       /\ txs[i].by # txs[j].by
                       /\ Signer(txs[i].by) # Holder
<1>1. txs \in Seq(Tx) /\ Len(txs) \in Nat /\ DOMAIN txs = 1..Len(txs)
    BY DEF Histories
<1>2. \A i \in 1..Len(txs) : txs[i] \in Tx
    BY <1>1
<1>3. \A i \in 1..Len(txs) :
          /\ txs[i].op \in {"declare", "revoke"}
          /\ txs[i].by \in Keys
          /\ Signer(txs[i].by) \in {Holder, Issuer}
          /\ Is(i, "revoke") <=> ~Is(i, "declare")
    BY <1>2, SignerType DEF Tx, Is, Parties
<1> QED BY <1>1, <1>3 DEF Histories

\* A credential that is declared has one or two transactions, the first of which is
\* the declaration and the only one.
LEMMA DeclaredFirst ==
    ASSUME txs \in Histories, Declared
    PROVE  Len(txs) \in 1..2 /\ Is(1, "declare") /\ (Len(txs) = 2 => Is(2, "revoke"))
<1>1. PICK L \in Nat : L = Len(txs) /\ DOMAIN txs = 1..L
    BY EntryFacts
<1>2. PICK j \in 1..L : txs[j].op = "declare"
    BY <1>1 DEF Declared, Is
<1>3. j = 1
    <2>1. CASE j > 1
        <3>1. 1 \in 1..L /\ 1 < j
            BY <1>2, <2>1
        <3> QED BY <1>1, <1>2, <3>1, EntryFacts
    <2> QED BY <1>2, <2>1
<1>4. L <= 2
    <2>1. CASE L > 2
        <3>1. 2 \in 1..L /\ 3 \in 1..L /\ 1 \in 1..L
            BY <2>1
        <3>2. txs[2].op = "revoke" /\ txs[1].op = "revoke"
            BY <1>1, <3>1, EntryFacts
        <3> QED BY <1>2, <1>3, <3>2
    <2> QED BY <1>1, <2>1
<1>5. L = 2 => txs[2].op = "revoke"
    BY <1>1, EntryFacts
<1> QED BY <1>1, <1>2, <1>3, <1>4, <1>5 DEF Is

\* What is revoked and not declared was revoked by keys of the issuer only, but for
\* the last one.
LEMMA UndeclaredRevoked ==
    ASSUME txs \in Histories, ~Declared
    PROVE  \A i \in 1..Len(txs) :
              /\ Is(i, "revoke")
              /\ i < Len(txs) => Signer(txs[i].by) = Issuer /\ Issuer # Holder
<1>1. PICK L \in Nat : L = Len(txs) /\ DOMAIN txs = 1..L
    BY EntryFacts
<1> SUFFICES ASSUME NEW i \in 1..L
             PROVE  Is(i, "revoke") /\ (i < L => Signer(txs[i].by) = Issuer /\ Issuer # Holder)
    BY <1>1
<1>2. Is(i, "revoke")
    BY <1>1, EntryFacts DEF Declared
<1>3. ASSUME i < L PROVE Signer(txs[i].by) = Issuer /\ Issuer # Holder
    <2>1. L \in 1..L
        BY <1>3
    <2>2. Signer(txs[i].by) # Holder /\ Signer(txs[i].by) \in {Holder, Issuer}
        BY <1>1, <1>2, <1>3, <2>1, EntryFacts DEF Is
    <2> QED BY <2>2
<1> QED BY <1>2, <1>3

\* The prefix of the history that counts for a question about iss.
Counted(n, iss) ==
    /\ n \in 0..Len(txs)
    /\ \A i \in 1..n : Counts(i, iss)
    /\ n < Len(txs) => ~Counts(n + 1, iss)

\* There is exactly one such prefix.  Either the first or the second transaction
\* does not count, or all do.
LEMMA PrefixExists ==
    ASSUME txs \in Histories, NEW iss
    PROVE  \E n \in 0..Len(txs) : Counted(n, iss)
<1>1. PICK L \in Nat : L = Len(txs) /\ DOMAIN txs = 1..L
    BY EntryFacts
<1>2. CASE \A i \in 1..L : Counts(i, iss)
    <2>1. L \in 0..L /\ ~(L < L)
        OBVIOUS
    <2> QED BY <1>1, <1>2, <2>1 DEF Counted
<1>3. CASE L > 0 /\ ~Counts(1, iss)
    <2>1. 0 \in 0..L /\ 0 + 1 = 1 /\ 1..0 = {}
        OBVIOUS
    <2> QED BY <1>1, <1>3, <2>1 DEF Counted
<1>4. CASE L > 1 /\ Counts(1, iss) /\ ~Counts(2, iss)
    <2>1. 1 \in 0..L /\ 1 + 1 = 2 /\ \A i \in 1..1 : i = 1
        BY <1>4
    <2> QED BY <1>1, <1>4, <2>1 DEF Counted
<1>5. CASE L > 2 /\ Counts(1, iss)
    <2>1. ~Declared
        BY <1>1, <1>5, DeclaredFirst
    <2>2. \A i \in 1..L : Is(i, "revoke") /\ (i < L => Signer(txs[i].by) = Issuer)
        BY <1>1, <2>1, UndeclaredRevoked
    <2>3. 1 \in 1..L /\ 1 < L /\ Signer(txs[1].by) = Issuer /\ Is(1, "revoke") /\ Issuer # Holder
        BY <1>1, <1>5, <2>1, <2>2, UndeclaredRevoked
    <2>4. iss = None \/ iss = Issuer
        BY <1>5, <2>3 DEF Counts
    <2>5. \A i \in 1..L : Signer(txs[i].by) \in {Holder, Issuer}
        BY <1>1, EntryFacts
    <2>6. ASSUME NEW i \in 1..L PROVE Counts(i, iss)
        <3>1. CASE iss = None
            <4>1. \A j \in 1..i : ~Is(j, "declare")
                BY <1>1, <2>1 DEF Declared
            <4> QED BY <3>1, <4>1 DEF Counts
        <3>2. CASE iss # None
            BY <2>4, <2>5, <3>2 DEF Counts
        <3> QED BY <3>1, <3>2
    <2> QED BY <1>2, <2>6
<1>6. CASE L \in {0, 1, 2} /\ ~(L > 0 /\ ~Counts(1, iss)) /\ ~(L > 1 /\ ~Counts(2, iss))
    <2>1. \A i \in 1..L : i \in {1, 2}
        BY <1>6
    <2> QED BY <1>2, <1>6, <2>1
<1> QED BY <1>1, <1>2, <1>3, <1>4, <1>5, <1>6

\* The answer is made from that prefix.
LEMMA AnswerOf ==
    ASSUME txs \in Histories, NEW iss
    PROVE  \E n \in 0..Len(txs) :
              /\ Counted(n, iss)
              /\ ChainSays(iss) =
                    [status |-> IF n = 0 THEN "notfound"
                                ELSE IF Is(n, "declare") THEN "valid" ELSE "revoked",
                     txs |-> [i \in 1..n |-> txs[n + 1 - i]]]
<1> DEFINE P(n) == /\ \A i \in 1..n : Counts(i, iss)
                   /\ n < Len(txs) => ~Counts(n + 1, iss)
           m == CHOOSE n \in 0..Len(txs) : P(n)
<1>1. \E n \in 0..Len(txs) : P(n)
    BY PrefixExists DEF Counted
<1>2. m \in 0..Len(txs) /\ P(m)
    BY <1>1
<1>3. ChainSays(iss) = [status |-> IF m = 0 THEN "notfound"
                                   ELSE IF Is(m, "declare") THEN "valid" ELSE "revoked",
                        txs |-> [i \in 1..m |-> txs[m + 1 - i]]]
    BY DEF ChainSays
<1> HIDE DEF m
<1> QED BY <1>2, <1>3 DEF Counted

\* An answer is one of three, a revocation is never made up, and what can be read
\* can be kept.
LEMMA AnswerSound ==
    ASSUME txs \in Histories, NEW iss
    PROVE  /\ ChainSays(iss).status \in {"notfound", "valid", "revoked"}
           /\ ChainSays(iss).status = "revoked" => Revoked
           /\ ChainSays(iss).status # "notfound" /\ Readable(ChainSays(iss)) =>
                 [did |-> TRUE, status |-> ChainSays(iss).status,
                  txs |-> ChainSays(iss).txs] \in Files
<1>1. PICK n \in 0..Len(txs) :
          ChainSays(iss) = [status |-> IF n = 0 THEN "notfound"
                                       ELSE IF Is(n, "declare") THEN "valid" ELSE "revoked",
                            txs |-> [i \in 1..n |-> txs[n + 1 - i]]]
    BY AnswerOf
<1>2. PICK L \in Nat : L = Len(txs) /\ DOMAIN txs = 1..L
    BY EntryFacts
<1>3. n \in Nat /\ n \in 0..L
    BY <1>1, <1>2
<1>4. ChainSays(iss).status = "revoked" => Revoked
    <2> SUFFICES ASSUME ChainSays(iss).status = "revoked" PROVE Revoked
        OBVIOUS
    <2>1. n # 0 /\ ~Is(n, "declare")
        BY <1>1
    <2>2. n \in 1..L
        BY <1>3, <2>1
    <2> QED BY <1>2, <2>1, <2>2, EntryFacts DEF Revoked
<1>5. Readable(ChainSays(iss)) => ChainSays(iss).txs \in Answers
    <2> SUFFICES ASSUME Readable(ChainSays(iss)) PROVE ChainSays(iss).txs \in Answers
        OBVIOUS
    <2> DEFINE answer == [i \in 1..n |-> txs[n + 1 - i]]
    <2>1. ChainSays(iss).txs = answer
        BY <1>1
    <2>2. Len(answer) = n
        <3>1. n + 1 - 1 = n /\ \A i \in 1..n : n + 1 - i \in 1..L
            BY <1>3
        <3>2. txs \in Seq(Tx) /\ \A i \in 1..L : txs[i] \in Tx
            BY <1>2 DEF Histories
        <3>3. answer \in [1..n -> Tx]
            BY <3>1, <3>2
        <3> HIDE DEF answer
        <3>4. answer \in Seq(Tx) /\ DOMAIN answer = 1..n
            BY <1>3, <3>3, SeqDef
        <3> QED BY <1>3, <3>4
    <2>3. n \in 0..2
        BY <1>3, <2>1, <2>2 DEF Readable
    <2> QED BY <2>1, <2>3 DEF Answers
<1>6. ChainSays(iss).status \in {"notfound", "valid", "revoked"}
    BY <1>1
<1> QED BY <1>4, <1>5, <1>6 DEF Files

\* What comes of a question that was answered.
LEMMA AnsweredSound ==
    ASSUME txs \in Histories, NEW iss, NEW biography \in Answered(iss)
    PROVE  biography = None \/ (biography = ChainSays(iss) /\ Readable(biography))
BY DEF Answered

\* If every transaction of a history that has a revocation counts for a question,
\* the answer is that it is revoked.
LEMMA AllCounted ==
    ASSUME txs \in Histories, Revoked, NEW iss, \A i \in 1..Len(txs) : Counts(i, iss)
    PROVE  ChainSays(iss).status = "revoked"
<1>1. PICK L \in Nat : L = Len(txs) /\ DOMAIN txs = 1..L
    BY EntryFacts
<1>2. PICK i \in 1..L : txs[i].op = "revoke"
    BY <1>1 DEF Revoked, Is
<1>3. PICK n \in 0..L :
          /\ Counted(n, iss)
          /\ ChainSays(iss) = [status |-> IF n = 0 THEN "notfound"
                                          ELSE IF Is(n, "declare") THEN "valid" ELSE "revoked",
                               txs |-> [k \in 1..n |-> txs[n + 1 - k]]]
    BY <1>1, AnswerOf
<1>4. n = L
    <2>1. CASE n < L
        <3>1. n + 1 \in 1..L
            BY <2>1
        <3> QED BY <1>1, <1>3, <2>1, <3>1 DEF Counted
    <2> QED BY <2>1
<1>5. L # 0 /\ txs[L].op = "revoke"
    <2>1. L \in 1..L
        BY <1>2
    <2>2. i = L \/ i < L
        BY <1>2
    <2> QED BY <1>1, <1>2, <2>1, <2>2, EntryFacts
<1> QED BY <1>3, <1>4, <1>5 DEF Is

\* A revocation by holder or issuer is found by asking for the issuer's.
LEMMA RevocationFound ==
    ASSUME txs \in Histories, Revoked
    PROVE  ChainSays(Issuer).status = "revoked"
<1>1. PICK L \in Nat : L = Len(txs) /\ DOMAIN txs = 1..L
    BY EntryFacts
<1>2. Issuer # None /\ \A i \in 1..L : Signer(txs[i].by) \in {Holder, Issuer}
    BY <1>1, EntryFacts, RegistryAssumption DEF Parties
<1>3. \A i \in 1..Len(txs) : Counts(i, Issuer)
    BY <1>1, <1>2 DEF Counts
<1> QED BY <1>3, AllCounted

\* Without an issuer the whole of a declared credential's history counts.
LEMMA DeclaredAnswer ==
    ASSUME txs \in Histories, Declared
    PROVE  /\ \E i \in DOMAIN ChainSays(None).txs : ChainSays(None).txs[i].op = "declare"
           /\ ChainSays(None).status = IF Revoked THEN "revoked" ELSE "valid"
<1>1. PICK L \in Nat : L = Len(txs) /\ DOMAIN txs = 1..L
    BY EntryFacts
<1>2. L \in 1..2 /\ Is(1, "declare") /\ (L = 2 => Is(2, "revoke"))
    BY <1>1, DeclaredFirst
<1>3. \A k \in 1..L : Counts(k, None)
    BY <1>1, EntryFacts DEF Counts
<1>4. PICK n \in 0..L :
          /\ Counted(n, None)
          /\ ChainSays(None) = [status |-> IF n = 0 THEN "notfound"
                                           ELSE IF Is(n, "declare") THEN "valid" ELSE "revoked",
                                txs |-> [k \in 1..n |-> txs[n + 1 - k]]]
    BY <1>1, AnswerOf
<1>5. n = L
    <2>1. CASE n < L
        <3>1. n + 1 \in 1..L
            BY <2>1
        <3> QED BY <1>1, <1>3, <1>4, <2>1, <3>1 DEF Counted
    <2> QED BY <2>1
<1>6. n \in DOMAIN ChainSays(None).txs /\ ChainSays(None).txs[n] = txs[1]
    BY <1>2, <1>4, <1>5
<1>7. Revoked <=> L = 2
    <2>1. ~Is(1, "revoke") /\ \A i \in 1..L : i \in {1, 2}
        BY <1>2 DEF Is
    <2>2. 2 \in 1..L <=> L = 2
        BY <1>2
    <2> QED BY <1>1, <1>2, <2>1, <2>2 DEF Revoked
<1>8. ChainSays(None).status = IF Revoked THEN "revoked" ELSE "valid"
    BY <1>2, <1>4, <1>5, <1>7 DEF Is
<1> QED BY <1>2, <1>6, <1>8 DEF Is

--------------------------------------------------------------------------------
\* What the devices make of it.

\* No cached answer can be read, so that the chain is asked.
LEMMA CacheUnread ==
    ASSUME cache \in [Devices -> Files \cup {None}], NEW a \in Devices
    PROVE  Looked(a) = Answered(None)
<1>1. ASSUME cache[a] # None PROVE "id" \notin DOMAIN cache[a]
    <2>1. cache[a] \in Files
        BY <1>1
    <2>2. DOMAIN cache[a] = {"did", "status", "txs"}
        BY <2>1 DEF Files
    <2> QED BY <2>2
<1> QED BY <1>1 DEF Looked, Parsed

\* What is written to the cache is well typed.
LEMMA KeptType ==
    ASSUME txs \in Histories, cache \in [Devices -> Files \cup {None}],
           NEW a \in Devices, NEW iss, NEW biography \in Answered(iss)
    PROVE  Kept(a, biography) \in [Devices -> Files \cup {None}]
BY AnswerSound, AnsweredSound DEF Kept, Written

\* What the two questions and the flag may say when the credential is revoked, and
\* when it is not.  A question that is not answered is taken for a revocation.
LEMMA RevokedExactly ==
    ASSUME txs \in Histories, NEW flag, flag = "true" => Revoked,
           NEW byIssuer \in Answered(Issuer), NEW byHolder \in Answered(Holder)
    PROVE  /\ Revoked => IsRevoked(flag, byIssuer, byHolder)
           /\ IsRevoked(flag, byIssuer, byHolder) =>
                 Revoked \/ byIssuer = None \/ byHolder = None
           /\ ~IsRevoked(flag, byIssuer, byHolder) => byIssuer # None /\ byHolder # None
<1>1. /\ byIssuer = None \/ byIssuer = ChainSays(Issuer)
      /\ byHolder = None \/ byHolder = ChainSays(Holder)
    BY AnsweredSound
<1>2. ASSUME Revoked PROVE IsRevoked(flag, byIssuer, byHolder)
    BY <1>1, <1>2, RevocationFound DEF IsRevoked, RevocationOf
<1>3. ASSUME IsRevoked(flag, byIssuer, byHolder), byIssuer # None, byHolder # None
      PROVE  Revoked
    <2>1. \/ flag = "true" \/ ChainSays(Issuer).status = "revoked"
          \/ ChainSays(Holder).status = "revoked"
        BY <1>1, <1>3 DEF IsRevoked, RevocationOf
    <2> QED BY <2>1, AnswerSound
<1> QED BY <1>2, <1>3 DEF IsRevoked, RevocationOf

\* A device that finds its stored credential not to be revoked is right.
LEMMA NotRevokedSound ==
    ASSUME IInv, NEW a \in Devices, stored[a] # None, NotRevoked(a)
    PROVE  ~Revoked
BY RevokedExactly DEF NotRevoked, IInv, FlagsTrue

\* The answer to the last question of Credential_IsRevoked is kept.
LEMMA NotRevokedKept ==
    ASSUME txs \in Histories, cache \in [Devices -> Files \cup {None}],
           NEW a \in Devices, NotRevoked(a)
    PROVE  Kept(a, ChainSays(Holder)) \in [Devices -> Files \cup {None}]
<1>1. PICK byHolder \in Answered(Holder) : byHolder # None
    BY DEF NotRevoked, IsRevoked, RevocationOf
<1>2. ChainSays(Holder) \in Answered(Holder)
    BY <1>1, AnsweredSound
<1> QED BY <1>2, KeptType

\* The checks of Credential_Declare leave only an empty history, if the resolve was
\* answered.
LEMMA DeclareCheckSound ==
    ASSUME IInv, NEW a \in Devices, DeclareCheck(a),
           NEW biography \in Looked(a), ~ResolveFinds(biography), biography # None
    PROVE  Declarable
<1>1. ~Revoked
    BY NotRevokedSound DEF DeclareCheck
<1>2. biography = ChainSays(None)
    BY CacheUnread, AnsweredSound DEF IInv
<1>3. ~Declared
    <2> SUFFICES ASSUME Declared PROVE FALSE
        OBVIOUS
    <2>1. /\ \E i \in DOMAIN biography.txs : biography.txs[i].op = "declare"
          /\ biography.status = "valid"
        BY <1>1, <1>2, DeclaredAnswer DEF IInv
    <2>2. ResolveSays(biography) = "valid"
        BY <2>1 DEF ResolveSays, DeclareCheck
    <2> QED BY <2>1, <2>2 DEF ResolveFinds
<1> QED BY <1>1, <1>3 DEF DeclareCheck, Declarable

\* The checks of the revocations leave a history without a revocation.
LEMMA RevokeCheckSound ==
    ASSUME IInv, NEW a \in Devices, stored[a] # None, NotRevoked(a), NEW key
    PROVE  Revocable(key)
BY NotRevokedSound DEF Revocable, Revoked

\* A transaction the chain takes leaves one of the histories, and takes no
\* revocation back.
LEMMA AcceptedHistory ==
    ASSUME IInv, NEW op \in {"declare", "revoke"}, NEW key \in Keys, Fits(op, key),
           txs' = Append(txs, [op |-> op, by |-> key])
    PROVE  /\ txs' \in Histories
           /\ Revoked => Revoked'
<1> DEFINE t == [op |-> op, by |-> key]
<1>1. txs \in Seq(Tx) /\ txs' = Append(txs, t) /\ t \in Tx /\ t.op = op /\ t.by = key
    BY DEF IInv, Histories, Tx
<1>2. PICK L \in Nat : L = Len(txs) /\ DOMAIN txs = 1..L
    BY EntryFacts DEF IInv
<1> HIDE DEF t
<1>3. /\ txs' \in Seq(Tx) /\ Len(txs') = L + 1 /\ DOMAIN txs' = 1..L + 1
      /\ txs'[L + 1] = t
      /\ \A i \in 1..L : txs'[i] = txs[i]
    BY <1>1, <1>2
<1>4. Revoked => Revoked'
    <2> SUFFICES ASSUME Revoked PROVE Revoked'
        OBVIOUS
    <2>1. PICK i \in 1..L : txs[i].op = "revoke"
        BY <1>2 DEF Revoked, Is
    <2>2. i \in DOMAIN txs' /\ txs'[i].op = "revoke"
        BY <1>2, <1>3, <2>1
    <2> QED BY <2>2 DEF Revoked, Is
<1>5. CASE op = "declare"
    <2>1. ~Declared /\ ~Revoked
        BY <1>5 DEF Fits, Declarable
    <2>2. \A i \in 1..L : FALSE
        BY <1>2, <2>1, EntryFacts DEF IInv, Declared, Revoked
    <2>3. L = 0
        <3>1. CASE L > 0
            <4>1. 1 \in 1..L
                BY <3>1
            <4> QED BY <2>2, <4>1
        <3> QED BY <1>2, <3>1
    <2>4. \A i, j \in DOMAIN txs' : ~(i < j)
        BY <1>3, <2>3
    <2> QED BY <1>3, <1>4, <2>4 DEF Histories
<1>6. CASE op = "revoke"
    <2>1. \A i \in 1..L : txs[i].op = "revoke" =>
              /\ txs[i].by # key
              /\ Signer(txs[i].by) # Holder
              /\ Declared => Signer(txs[i].by) # Issuer
        BY <1>2, <1>6 DEF Fits, Revocable, Is
    <2>2. \A i \in 1..L : txs[i].op = "revoke" => ~Declared
        BY <1>2, <2>1, EntryFacts DEF IInv
    <2> SUFFICES ASSUME NEW i \in DOMAIN txs', NEW j \in DOMAIN txs', i < j
                 PROVE  /\ txs'[j].op = "revoke"
                        /\ txs'[i].op = "revoke" =>
                              /\ txs'[1].op = "revoke"
                              /\ txs'[i].by # txs'[j].by
                              /\ Signer(txs'[i].by) # Holder
        BY <1>3, <1>4 DEF Histories
    <2>3. i \in 1..L /\ j \in 1..L + 1 /\ 1 \in 1..L /\ (j = L + 1 \/ j \in 1..L)
        BY <1>2, <1>3
    <2>4. txs'[i] = txs[i] /\ txs'[1] = txs[1]
        BY <1>3, <2>3
    <2>5. CASE j = L + 1
        <3>1. txs'[j] = t
            BY <1>3, <2>5
        <3>2. txs[i].op = "revoke" => txs[1].op = "revoke"
            BY <1>2, <2>2, <2>3, EntryFacts DEF Declared, IInv, Is
        <3> QED BY <1>1, <1>6, <2>1, <2>3, <2>4, <3>1, <3>2
    <2>6. CASE j \in 1..L
        <3>1. txs'[j] = txs[j]
            BY <1>3, <2>6
        <3> QED BY <1>2, <2>3, <2>4, <2>6, <3>1, EntryFacts DEF IInv
    <2> QED BY <2>3, <2>5, <2>6
<1> QED BY <1>5, <1>6

--------------------------------------------------------------------------------
\* The invariant, for each way in which the actions change the state.

\* What a device needs to have checked before it sends.
Checked(a, r) ==
    r.given /\ r.fresh =>
        /\ \A key \in KeysOf(Owner(a)) : Fits(r.op, key)
        /\ \/ r.document = Owner(a)
           \/ r.op = "revoke" /\ Owner(a) = Holder /\ r.document # Holder

LEMMA ChecksCompleteIsChecked ==
    ChecksComplete <=> \A a \in Devices : job[a] # None => Checked(a, job[a])
BY DEF ChecksComplete, Checked, Idle, Signs, HolderRevokesIssued

\* What the chain takes depends on its transactions and the documents only.
LEMMA FitsKept ==
    ASSUME UNCHANGED <<txs, docs>>
    PROVE  \A a, r : Checked(a, r)' <=> Checked(a, r)
BY DEF Checked, Fits, Declarable, Revocable, Declared, Revoked, Is, CredentialIsValid,
       DocIsValid, docs

\* A publication that passed checks as strict as the chain's.
LEMMA ReadyKeeps ==
    ASSUME IInv, NEW a \in Devices, NEW op \in {"declare", "revoke"},
           NEW document \in Parties, NEW given \in BOOLEAN, NEW fresh \in BOOLEAN,
           op = "declare" => a \in HolderDevices,
           given /\ fresh =>
               /\ \A key \in KeysOf(Owner(a)) : Fits(op, key)
               /\ \/ document = Owner(a)
                  \/ op = "revoke" /\ Owner(a) = Holder /\ document # Holder,
           Ready(a, op, document, given, fresh),
           cache' \in [Devices -> Files \cup {None}],
           UNCHANGED <<txs, docs, stored>>
    PROVE  IInv'
<1> DEFINE r == [op |-> op, document |-> document, given |-> given, fresh |-> fresh]
<1>1. r \in Jobs
    BY DEF Jobs
<1>2. job' = [job EXCEPT ![a] = r]
    BY DEF Ready
<1>3. job' \in [Devices -> Jobs \cup {None}]
    BY <1>1, <1>2 DEF IInv
<1>4. (\A b \in Devices : b # a => job'[b] = job[b]) /\ job'[a] = r
    BY <1>2 DEF IInv
<1>5. DeclaredByHolder'
    BY <1>4 DEF DeclaredByHolder, IInv
<1>6. ChecksComplete'
    <2>1. \A b \in Devices : job'[b] # None => Checked(b, job'[b])
        BY <1>4, ChecksCompleteIsChecked DEF IInv, Checked
    <2>2. \A b \in Devices : job'[b] # None => (Checked(b, job[b]))'
        BY <2>1, FitsKept
    <2> QED BY <2>2 DEF ChecksComplete, Checked, Idle, Signs, HolderRevokesIssued
<1> QED BY <1>3, <1>5, <1>6 DEF IInv, FlagsTrue, Revoked, Is, docs

\* A change on the chain outdates every publication under way.
LEMMA OutdatedKeeps ==
    ASSUME IInv, NEW jobs \in [Devices -> Jobs \cup {None}],
           \A a \in Devices : jobs[a] \in {job[a], None},
           job' = Outdated(jobs), UNCHANGED <<stored, cache>>,
           txs' \in Histories, Revoked => Revoked',
           expired' \subseteq Parties, deactivated' \subseteq Parties
    PROVE  IInv'
<1>1. \A a \in Devices :
          job'[a] = IF jobs[a] = None THEN None ELSE [jobs[a] EXCEPT !.fresh = FALSE]
    BY DEF Outdated
<1>2. \A a \in Devices : job'[a] # None =>
          /\ jobs[a] = job[a] /\ job[a] # None /\ job[a] \in Jobs
          /\ job'[a] = [job[a] EXCEPT !.fresh = FALSE]
    BY <1>1
<1>3. \A a \in Devices : job'[a] # None =>
          /\ job[a] # None /\ job'[a] \in Jobs
          /\ job'[a].fresh = FALSE /\ job'[a].op = job[a].op
    BY <1>2 DEF Jobs
<1>4. job' \in [Devices -> Jobs \cup {None}]
    <2>1. job' = [a \in Devices |-> job'[a]]
        BY DEF Outdated
    <2> QED BY <1>3, <2>1
<1>5. DeclaredByHolder'
    BY <1>3 DEF DeclaredByHolder, IInv
<1>6. ChecksComplete'
    BY <1>3 DEF ChecksComplete, Idle
<1> QED BY <1>4, <1>5, <1>6 DEF IInv, FlagsTrue

\* A query changes the cache, a publication that ends leaves, a stored flag is the
\* chain's, or as it was.
LEMMA LocalKeeps ==
    ASSUME IInv, UNCHANGED <<txs, docs>>,
           \A a \in Devices : job'[a] \in {job[a], None},
           job' \in [Devices -> Jobs \cup {None}],
           cache' \in [Devices -> Files \cup {None}],
           stored' \in [Devices -> Flags \cup {None}],
           \A a \in Devices : stored'[a] \in {stored[a], None, "false"} \/ Revoked
    PROVE  IInv'
<1>1. Revoked' <=> Revoked
    BY DEF Revoked, Is
<1>2. FlagsTrue'
    BY <1>1 DEF FlagsTrue, IInv
<1>3. DeclaredByHolder'
    BY DEF DeclaredByHolder, IInv
<1>4. ChecksComplete'
    <2>1. \A a \in Devices : job'[a] # None => Checked(a, job'[a])
        BY ChecksCompleteIsChecked DEF IInv
    <2>2. \A a \in Devices : job'[a] # None => (Checked(a, job[a]))'
        BY <2>1, FitsKept
    <2> QED BY <2>2 DEF ChecksComplete, Checked, Idle, Signs, HolderRevokesIssued
<1> QED BY <1>2, <1>3, <1>4 DEF IInv, docs

--------------------------------------------------------------------------------
\* Init establishes the invariant.
LEMMA InvInit == Init => IInv
<1> SUFFICES ASSUME Init PROVE IInv
    OBVIOUS
<1>1. txs \in Histories
    <2>1. txs \in Seq(Tx) /\ DOMAIN txs = {}
        BY DEF Init
    <2> QED BY <2>1 DEF Histories
<1>2. stored \in [Devices -> Flags \cup {None}]
    BY DEF Init, Flags
<1>3. FlagsTrue
    <2>1. \A a \in Devices : stored[a] \in {None, "false"}
        BY DEF Init
    <2> QED BY <2>1 DEF FlagsTrue
<1> QED BY <1>1, <1>2, <1>3 DEF Init, IInv, DeclaredByHolder, ChecksComplete, Idle

\* Every step keeps the invariant.
LEMMA InvNext == IInv /\ [Next]_vars => IInv'
<1> SUFFICES ASSUME IInv, [Next]_vars PROVE IInv'
    OBVIOUS
<1>0. /\ txs \in Histories
      /\ stored \in [Devices -> Flags \cup {None}]
      /\ cache \in [Devices -> Files \cup {None}]
      /\ job \in [Devices -> Jobs \cup {None}]
    BY DEF IInv
<1>1. ASSUME NEW a \in Devices, DeclareCheck(a) PROVE IInv'
    <2>1. PICK biography \in Looked(a) :
              /\ ~ResolveFinds(biography)
              /\ Ready(a, "declare", Holder, TRUE, biography # None)
        BY <1>1 DEF DeclareCheck
    <2>2. a \in HolderDevices /\ Owner(a) = Holder /\ Holder \in Parties
        BY <1>1 DEF DeclareCheck, Owner, Parties
    <2>3. biography # None => \A key \in KeysOf(Owner(a)) : Fits("declare", key)
        BY <1>1, <2>1, DeclareCheckSound DEF Fits
    <2>4. cache' \in [Devices -> Files \cup {None}] /\ UNCHANGED <<txs, docs, stored>>
        BY <1>0, <1>1, NotRevokedKept DEF DeclareCheck
    <2>5. (biography # None) \in BOOLEAN
        OBVIOUS
    <2> QED BY <2>1, <2>2, <2>3, <2>4, <2>5, ReadyKeeps
<1>2. ASSUME NEW a \in Devices, RevokeCheck(a) PROVE IInv'
    <2>1. \A key \in KeysOf(Owner(a)) : Fits("revoke", key)
        BY <1>2, RevokeCheckSound DEF Fits, RevokeCheck
    <2>2. Issuer \in Parties /\ (Issuer = Owner(a) \/ Owner(a) = Holder)
        BY DEF Parties, Owner
    <2>3. cache' \in [Devices -> Files \cup {None}] /\ UNCHANGED <<txs, docs, stored>>
        BY <1>0, <1>2, NotRevokedKept DEF RevokeCheck
    <2>4. Ready(a, "revoke", Issuer, TRUE, TRUE)
        BY <1>2 DEF RevokeCheck
    <2> QED BY <2>1, <2>2, <2>3, <2>4, ReadyKeeps
<1>3. ASSUME NEW a \in Devices, RevokeByIdCheck(a) PROVE IInv'
    <2>1. stored[a] # None => \A key \in KeysOf(Owner(a)) : Fits("revoke", key)
        BY <1>3, RevokeCheckSound DEF Fits, RevokeByIdCheck
    <2>2. Owner(a) \in Parties
        BY DEF Owner, Parties
    <2>3. cache' \in [Devices -> Files \cup {None}] /\ UNCHANGED <<txs, docs, stored>>
        BY <1>0, <1>3, KeptType DEF RevokeByIdCheck
    <2>4. Ready(a, "revoke", Owner(a), stored[a] # None, TRUE)
        BY <1>3 DEF RevokeByIdCheck
    <2>5. (stored[a] # None) \in BOOLEAN
        OBVIOUS
    <2> QED BY <2>1, <2>2, <2>3, <2>4, <2>5, ReadyKeeps
<1>4. ASSUME NEW a \in Devices, Accepted(a) PROVE IInv'
    <2> DEFINE jobs == [job EXCEPT ![a] = None]
    <2>1. jobs \in [Devices -> Jobs \cup {None}] /\ \A b \in Devices : jobs[b] \in {job[b], None}
        BY <1>0
    <2>2. job' = Outdated(jobs) /\ UNCHANGED <<docs, stored, cache>>
        BY <1>4 DEF Accepted
    <2>3. PICK key \in KeysOf(Owner(a)) :
              /\ Fits(job[a].op, key)
              /\ txs' = Append(txs, [op |-> job[a].op, by |-> key])
        BY <1>4 DEF Accepted
    <2>4. job[a].op \in {"declare", "revoke"} /\ key \in Keys
        BY <1>0, <1>4 DEF Accepted, Idle, Jobs, KeysOf
    <2>5. txs' \in Histories /\ (Revoked => Revoked')
        BY <2>3, <2>4, AcceptedHistory
    <2> HIDE DEF jobs
    <2> QED BY <2>1, <2>2, <2>5, OutdatedKeeps DEF docs, IInv
<1>5. ASSUME NEW a \in Devices, NotAccepted(a) PROVE IInv'
    <2>1. /\ \A b \in Devices : job'[b] \in {job[b], None}
          /\ job' \in [Devices -> Jobs \cup {None}]
          /\ UNCHANGED <<txs, docs, stored, cache>>
        BY <1>0, <1>5 DEF NotAccepted
    <2> QED BY <1>0, <2>1, LocalKeeps
<1>6. ASSUME NEW a \in Devices, Resolve(a) PROVE IInv'
    <2>1. PICK biography \in Looked(a) :
              /\ cache' = Kept(a, biography)
              /\ \/ UNCHANGED stored
                 \/ /\ ResolveFinds(biography)
                    /\ stored' = [stored EXCEPT ![a] =
                                     IF biography.status = "revoked" THEN "true" ELSE "false"]
        BY <1>6 DEF Resolve
    <2> DEFINE flag == IF biography.status = "revoked" THEN "true" ELSE "false"
    <2>2. biography \in Answered(None)
        BY <1>0, <2>1, CacheUnread
    <2>3. cache' \in [Devices -> Files \cup {None}] /\ UNCHANGED <<txs, docs, job>>
        BY <1>0, <1>6, <2>1, <2>2, KeptType DEF Resolve
    <2>4. ResolveFinds(biography) => biography = ChainSays(None)
        BY <1>0, <2>2, AnsweredSound DEF ResolveFinds, ResolveSays
    <2>5. flag \in {"true", "false"} /\ (ResolveFinds(biography) /\ flag = "true" => Revoked)
        BY <1>0, <2>4, AnswerSound
    <2>6. UNCHANGED stored \/ (ResolveFinds(biography) /\ stored' = [stored EXCEPT ![a] = flag])
        BY <2>1
    <2> HIDE DEF flag
    <2>7. stored' \in [Devices -> Flags \cup {None}]
        BY <1>0, <2>5, <2>6 DEF Flags
    <2>8. \A b \in Devices : stored'[b] \in {stored[b], None, "false"} \/ Revoked
        BY <1>0, <2>5, <2>6
    <2> QED BY <1>0, <2>3, <2>7, <2>8, LocalKeeps
<1>7. ASSUME NEW a \in Devices, NEW iss, Query(a, iss) PROVE IInv'
    <2>1. cache' \in [Devices -> Files \cup {None}] /\ UNCHANGED <<txs, docs, stored, job>>
        BY <1>0, <1>7, KeptType DEF Query
    <2> QED BY <1>0, <2>1, LocalKeeps
<1>8. ASSUME NEW a \in Devices, StoreCredential(a) \/ DeleteCredential(a) PROVE IInv'
    <2>1. /\ stored' \in [Devices -> Flags \cup {None}]
          /\ \A b \in Devices : stored'[b] \in {stored[b], None, "false"}
          /\ UNCHANGED <<txs, docs, cache, job>>
        BY <1>0, <1>8 DEF StoreCredential, DeleteCredential, Flags
    <2> QED BY <1>0, <2>1, LocalKeeps
<1>9. ASSUME NEW p \in Parties, Expire(p) \/ Renew(p) \/ Deactivate(p) PROVE IInv'
    <2>1. /\ expired' \subseteq Parties /\ deactivated' \subseteq Parties
          /\ job' = Outdated(job) /\ UNCHANGED <<txs, stored, cache>>
        BY <1>9 DEF Expire, Renew, Deactivate, IInv
    <2>2. txs' \in Histories /\ (Revoked => Revoked')
        BY <1>0, <2>1 DEF Revoked, Is
    <2> QED BY <1>0, <2>1, <2>2, OutdatedKeeps
<1>10. CASE UNCHANGED vars
    BY <1>0, <1>10, LocalKeeps DEF vars
<1> QED BY <1>1, <1>2, <1>3, <1>4, <1>5, <1>6, <1>7, <1>8, <1>9, <1>10 DEF Next

\* The invariant holds in every reachable state, for any devices and keys of the two.
THEOREM Invariant == Spec => []IInv
<1>1. Init => IInv
    BY InvInit
<1>2. IInv /\ [Next]_vars => IInv'
    BY InvNext
<1> QED BY <1>1, <1>2, PTL DEF Spec

--------------------------------------------------------------------------------
\* What the devices can rely on.

\* Type correctness; in particular no key declares or revokes twice, and a history
\* outgrows what CredentialBiography_FromJson accepts only where the issuer's keys
\* revoke what is not declared.
THEOREM TypeCorrect == Spec => []TypeOK
<1>1. IInv => TypeOK
    <2> SUFFICES ASSUME IInv PROVE TypeOK
        OBVIOUS
    <2>1. txs \in Seq([op : {"declare", "revoke"}, by : Keys])
        BY DEF IInv, Histories, Tx
    <2>2. PICK L \in Nat : L = Len(txs) /\ DOMAIN txs = 1..L
        BY EntryFacts DEF IInv
    <2>3. \A i, j \in 1..L : i < j => txs[i] # txs[j]
        BY <2>2, EntryFacts DEF IInv
    <2>4. \A i, j \in DOMAIN txs : i # j => txs[i] # txs[j]
        <3> SUFFICES ASSUME NEW i \in 1..L, NEW j \in 1..L, i # j PROVE txs[i] # txs[j]
            BY <2>2
        <3>1. i < j \/ j < i
            OBVIOUS
        <3> QED BY <2>3, <3>1
    <2>5. Len(txs) > 2 => ~Declared /\ Signer(txs[1].by) = Issuer
        <3> SUFFICES ASSUME L > 2 PROVE ~Declared /\ Signer(txs[1].by) = Issuer
            BY <2>2
        <3>1. ~Declared
            <4>1. Declared => L \in 1..2
                BY <2>2, DeclaredFirst DEF IInv
            <4> QED BY <4>1
        <3>2. 1 \in 1..L /\ 1 < L
            OBVIOUS
        <3> QED BY <2>2, <3>1, <3>2, UndeclaredRevoked DEF IInv
    <2>6. \A a \in Devices : cache[a] # None => cache[a].status \in {"valid", "revoked"}
        <3> SUFFICES ASSUME NEW a \in Devices, cache[a] # None
                     PROVE  cache[a].status \in {"valid", "revoked"}
            OBVIOUS
        <3>1. cache[a] \in Files
            BY DEF IInv
        <3> QED BY <3>1 DEF Files
    <2> QED BY <2>1, <2>4, <2>5, <2>6 DEF IInv, TypeOK
<1> QED BY <1>1, Invariant, PTL

\* Credential_IsRevoked of a stored credential misses no revocation, whatever fails,
\* and makes none up unless a question fails.
THEOREM RevocationsKnown == Spec => []RevocationKnown
<1>1. IInv => RevocationKnown
    <2> SUFFICES ASSUME IInv, NEW a \in Devices, NEW byIssuer \in Answered(Issuer),
                        NEW byHolder \in Answered(Holder), stored[a] # None
                 PROVE  /\ Revoked => IsRevoked(stored[a], byIssuer, byHolder)
                        /\ IsRevoked(stored[a], byIssuer, byHolder) =>
                              Revoked \/ byIssuer = None \/ byHolder = None
        BY DEF RevocationKnown
    <2>1. stored[a] = "true" => Revoked
        BY DEF IInv, FlagsTrue
    <2>2. txs \in Histories
        BY DEF IInv
    <2> QED BY <2>1, <2>2, RevokedExactly
<1> QED BY <1>1, Invariant, PTL

\* Credential_Resolve never says valid of a revoked credential.
THEOREM RevocationsSeen == Spec => []RevocationSeen
<1>1. IInv => RevocationSeen
    <2> SUFFICES ASSUME IInv, NEW a \in Devices, NEW biography \in Looked(a),
                        ResolveSays(biography) = "valid", Revoked
                 PROVE  FALSE
        BY DEF RevocationSeen
    <2>1. /\ txs \in Histories /\ ChainSays(None).status = "valid"
        <3>1. txs \in Histories /\ biography \in Answered(None)
            BY CacheUnread DEF IInv
        <3> QED BY <3>1, AnsweredSound DEF ResolveSays
    <2>2. ~Declared
        BY <2>1, DeclaredAnswer
    <2>3. PICK L \in Nat : L = Len(txs) /\ DOMAIN txs = 1..L
        BY <2>1, EntryFacts
    <2>4. PICK n \in 0..L :
              ChainSays(None).status = IF n = 0 THEN "notfound"
                                       ELSE IF Is(n, "declare") THEN "valid" ELSE "revoked"
        BY <2>1, <2>3, AnswerOf
    <2>5. n \in 1..L /\ Is(n, "declare")
        BY <2>1, <2>4
    <2> QED BY <2>2, <2>3, <2>5 DEF Declared
<1> QED BY <1>1, Invariant, PTL

\* A publication of a stored credential that passed its checks, all of them
\* answered, can be signed and is taken by the chain unless something happened in
\* between, or it is the holder's Credential_Revoke of an issued credential.
THEOREM ChecksAreComplete == Spec => []ChecksComplete
<1>1. IInv => ChecksComplete
    BY DEF IInv
<1> QED BY <1>1, Invariant, PTL

--------------------------------------------------------------------------------
\* The registry implements the life of a credential.

Declarations(h) == Cardinality({i \in DOMAIN h : h[i].op = "declare"})

Revokers(h) == {h[i].by : i \in {j \in DOMAIN h : h[j].op = "revoke"}}

\* A history has at most one declaration, and counting it is finding it.
LEMMA DeclaredOnce ==
    ASSUME NEW h \in Histories
    PROVE  Declarations(h) = IF \E i \in DOMAIN h : h[i].op = "declare" THEN 1 ELSE 0
<1>1. PICK n \in Nat : Len(h) = n /\ DOMAIN h = 1..n
    BY DEF Histories
<1> DEFINE D == {i \in DOMAIN h : h[i].op = "declare"}
<1>2. \A i, j \in 1..n : i < j => h[j].op = "revoke"
    BY <1>1 DEF Histories
<1>3. D \subseteq {1}
    <2> SUFFICES ASSUME NEW i \in 1..n, h[i].op = "declare", i # 1 PROVE FALSE
        BY <1>1
    <2>1. 1 \in 1..n /\ 1 < i
        OBVIOUS
    <2> QED BY <1>2, <2>1
<1>4. D = {} \/ D = {1}
    BY <1>3
<1>5. CASE D = {}
    <2>1. Cardinality(D) = 0
        BY <1>5, FS_EmptySet
    <2> QED BY <1>5, <2>1 DEF Declarations
<1>6. CASE D = {1}
    <2>1. Cardinality(D) = 1
        BY <1>6, FS_Singleton
    <2> QED BY <1>6, <2>1 DEF Declarations
<1> QED BY <1>4, <1>5, <1>6

\* A transaction the chain takes declares the credential or revokes it.
LEMMA AcceptedLives ==
    ASSUME IInv, NEW a \in Devices, Accepted(a)
    PROVE  Life!Next
<1>0. PICK key \in KeysOf(Owner(a)) :
          /\ Fits(job[a].op, key)
          /\ txs' = Append(txs, [op |-> job[a].op, by |-> key])
    BY DEF Accepted
<1> DEFINE t == [op |-> job[a].op, by |-> key]
<1>1. /\ txs \in Histories /\ txs' \in Histories
      /\ txs' = Append(txs, t) /\ t \in Tx /\ t.by = key /\ t.op = job[a].op
    <2>1. job[a].op \in {"declare", "revoke"} /\ key \in Keys
        BY DEF Accepted, Idle, IInv, Jobs, KeysOf
    <2> QED BY <1>0, <2>1, AcceptedHistory DEF IInv, Tx
<1>2. PICK n \in Nat : Len(txs) = n /\ DOMAIN txs = 1..n
    BY <1>1, EntryFacts
<1> HIDE DEF t
<1>3. /\ DOMAIN txs' = 1..n + 1
      /\ txs'[n + 1] = t
      /\ \A i \in 1..n : txs'[i] = txs[i]
    BY <1>1, <1>2 DEF Histories
<1>4. CASE t.op = "declare"
    <2>1. ~Declared /\ ~Revoked
        BY <1>0, <1>1, <1>4 DEF Fits, Declarable
    <2>2. n = 0
        <3>1. CASE n > 0
            <4>1. 1 \in 1..n
                BY <3>1
            <4> QED BY <1>1, <1>2, <2>1, <4>1, EntryFacts DEF Declared, Revoked
        <3> QED BY <1>2, <3>1
    <2>3. Declarations(txs) = 0 /\ Declarations(txs') = 1
        BY <1>1, <1>2, <1>3, <1>4, <2>2, DeclaredOnce
    <2>4. Revokers(txs) = {} /\ Revokers(txs') = {}
        BY <1>2, <1>3, <1>4, <2>2 DEF Revokers
    <2>5. Life!Declare
        BY <2>3, <2>4 DEF Life!Declare, Declarations, Revokers, Is
    <2> QED BY <2>5 DEF Life!Next
<1>5. CASE t.op # "declare"
    <2>1. t.op = "revoke" /\ key \in HolderKeys \cup IssuerKeys
        BY <1>1, <1>5 DEF Tx, KeysOf, Keys
    <2>2. \A i \in 1..n : txs[i].op = "revoke" =>
              /\ txs[i].by # key
              /\ Signer(txs[i].by) # Holder
              /\ Declared => Signer(txs[i].by) # Issuer
        BY <1>0, <1>1, <1>2, <1>5 DEF Fits, Revocable, Is
    <2>3. \A i \in 1..n : Signer(txs[i].by) \in {Holder, Issuer} /\ txs[i].by \in Keys
        BY <1>1, <1>2, EntryFacts
    <2>4. \A k \in HolderKeys : Signer(k) = Holder
        BY DEF Signer
    <2>5. Revokers(txs') = Revokers(txs) \cup {key}
        <3>1. Revokers(txs') = {txs'[i].by : i \in {j \in 1..n : txs'[j].op = "revoke"} \cup {n + 1}}
            BY <1>2, <1>3, <2>1 DEF Revokers
        <3> QED BY <1>1, <1>2, <1>3, <2>1, <3>1 DEF Revokers
    <2>6. Declarations(txs') = Declarations(txs)
        <3>1. (\E i \in DOMAIN txs' : txs'[i].op = "declare")
                  <=> (\E i \in DOMAIN txs : txs[i].op = "declare")
            BY <1>2, <1>3, <1>5
        <3> QED BY <1>1, <3>1, DeclaredOnce
    <2>7. Declarations(txs) = 1 => Declared
        BY <1>1, DeclaredOnce DEF Declared, Is
    <2>8. /\ Revokers(txs) \cap HolderKeys = {} /\ key \notin Revokers(txs)
          /\ Declared => Revokers(txs) = {}
        BY <1>2, <2>2, <2>3, <2>4 DEF Revokers
    <2>9. Life!Revoke(key)
        BY <2>5, <2>6, <2>7, <2>8 DEF Life!Revoke, Declarations, Revokers, Is
    <2> QED BY <2>1, <2>9 DEF Life!Next
<1> QED BY <1>4, <1>5

\* Every step of the devices and the chain declares, revokes or stutters.
LEMMA StepImplements == IInv /\ [Next]_vars => [Life!Next]_(Life!vars)
<1> SUFFICES ASSUME IInv, [Next]_vars PROVE [Life!Next]_(Life!vars)
    OBVIOUS
<1>1. CASE UNCHANGED txs
    BY <1>1 DEF Life!vars, Is
<1>2. CASE \E a \in Devices : Accepted(a)
    BY <1>2, AcceptedLives
<1> QED BY <1>1, <1>2
        DEF Next, DeclareCheck, RevokeCheck, RevokeByIdCheck, NotAccepted, Resolve, Query,
            StoreCredential, DeleteCredential, Expire, Renew, Deactivate, vars

\* Whatever any number of devices check and send, in whatever order, the history is
\* that of a credential.
THEOREM Refinement == Spec => ImplementsLife
<1>1. Init => Life!Init
    <2> SUFFICES ASSUME Init PROVE Life!Init
        OBVIOUS
    <2>1. txs = <<>> /\ txs \in Histories
        BY InvInit DEF Init, IInv
    <2>2. Declarations(txs) = 0 /\ Revokers(txs) = {}
        BY <2>1, DeclaredOnce DEF Revokers
    <2> QED BY <2>2 DEF Life!Init, Declarations, Revokers, Is
<1>2. IInv /\ [Next]_vars => [Life!Next]_(Life!vars)
    BY StepImplements
<1> QED BY <1>1, <1>2, Invariant, PTL DEF Spec, ImplementsLife, Life!Spec

================================================================================
