--------------------------- MODULE DIDResolver_proofs ---------------------------
(***************************************************************************)
(* Proofs about DIDResolver, for any DIDs, any time to live, any delay and  *)
(* any number of transactions.                                              *)
(***************************************************************************)
EXTENDS DIDResolver, SequenceTheorems, TLAPS

Tx == [op : Ops, age : 0..Old]

File == [answer : Answers, age : 0..Old]

Result == [kind : Statuses \cup {"never", "unreachable", "malformed"},
           tx : 0..MaxTx, upto : 0..MaxTx]

Call == [kind : Kinds, did : Dids, by : Dids \cup Authorizors,
         pc : {"answered", "ready", "accepted"}, age : 0..Delay,
         answer : Answers, tx : 0..MaxTx]

\* TypeOK, with the state variables as functions.
Types ==
    /\ chain \in [Dids -> Seq(Tx)]
    /\ \A d \in Dids : Length(d) <= MaxTx
    /\ file \in [Dids -> File \cup {None}]
    /\ call # None => call \in Call
    /\ last \in [Dids -> Result]
    /\ own \in [Dids -> Nat]

\* A DID is created once, and nothing follows its deactivation.
ChainShape ==
    \A d \in Dids : \A i \in 1..Length(d) :
        /\ i = 1 => Op(d, i) = "create"
        /\ i < Length(d) => Op(d, i) \in DocOps

\* What an answer says was on the chain, and still is; one that says that the DID
\* is deactivated is of two transactions or of all of them.
Shown(d, a) ==
    /\ a.status = "notfound" <=> a.txs = <<>>
    /\ a.status = "valid" =>
          a.txs[1] \in 1..Length(d) /\ Op(d, a.txs[1]) \in DocOps
    /\ a.status = "deactivated" =>
          /\ Deactivated(d) /\ a.txs[1] = Length(d)
          /\ Len(a.txs) = 2 => a.txs[2] = Length(d) - 1
          /\ Len(a.txs) # 2 => Length(d) > 2

\* An answer that is neither behind the process's own publications nor behind what
\* it was told before.
Fresh(d, a) == own[d] <= Newest(a) /\ last[d].upto <= Newest(a)

\* What an answer does not tell of is no older than age.
Behind(d, a, age) == \A i \in 1..Length(d) : i > Newest(a) => chain[d][i].age <= age

FileSound(d) ==
    file[d] # None =>
        /\ file[d].answer.status # "notfound"
        /\ Shown(d, file[d].answer) /\ Fresh(d, file[d].answer)
        /\ Behind(d, file[d].answer, file[d].age + Delay)

CallSound ==
    call # None =>
        /\ call.by \in Dids => call.by = call.did
        /\ Shown(call.did, call.answer) /\ Fresh(call.did, call.answer)
        /\ Behind(call.did, call.answer, call.age)
        /\ call.pc = "accepted" => own[call.did] <= call.tx /\ call.tx <= Length(call.did)

\* What a resolve has returned is true of the chain.
Holds(d, r) ==
    /\ r.upto <= Length(d)
    /\ r.kind = "valid" => r.tx = r.upto /\ r.tx > 0 /\ Op(d, r.tx) \in DocOps
    /\ r.kind = "deactivated" => Deactivated(d) /\ r.upto = Length(d) /\ r.upto = r.tx + 1
    /\ r.kind = "malformed" => Deactivated(d) /\ Length(d) > 2

\* The inductive invariant.
IInv ==
    /\ Types
    /\ ChainShape
    /\ \A d \in Dids : FileSound(d) /\ Holds(d, last[d]) /\ own[d] <= Length(d)
    /\ CallSound

--------------------------------------------------------------------------------
\* The chain.

LEMMA Chains ==
    ASSUME Types, NEW d \in Dids
    PROVE  /\ chain[d] \in Seq(Tx) /\ DOMAIN chain[d] = 1..Length(d)
           /\ Length(d) \in Nat /\ Length(d) <= MaxTx /\ Length(d) \in 0..MaxTx
           /\ \A i \in 1..Length(d) :
                 /\ chain[d][i] \in Tx /\ Op(d, i) \in Ops
                 /\ chain[d][i].age \in 0..Old /\ chain[d][i].age \in Nat
<1>1. chain[d] \in Seq(Tx)
    BY DEF Types
<1>2. PICK n \in Nat : n = Len(chain[d])
    BY <1>1
<1>3. n = Length(d) /\ n <= MaxTx /\ MaxTx \in Nat
    BY <1>2, ResolverAssumption DEF Types, Length
<1>4. DOMAIN chain[d] = 1..n /\ \A i \in 1..n : chain[d][i] \in Tx
    BY <1>1, <1>2, LenProperties
<1>5. \A t \in Tx : t.op \in Ops /\ t.age \in 0..Old /\ t.age \in Nat
    BY DEF Tx
<1> QED BY <1>1, <1>3, <1>4, <1>5 DEF Op

\* A deactivated DID has a document before its deactivation.
LEMMA DeactivatedShape ==
    ASSUME Types, ChainShape, NEW d \in Dids, Deactivated(d)
    PROVE  /\ Length(d) \in Nat /\ Length(d) > 1 /\ Length(d) - 1 \in 1..Length(d)
           /\ Op(d, Length(d)) = "deactivate" /\ Op(d, Length(d) - 1) \in DocOps
<1>1. /\ Length(d) \in Nat /\ Length(d) > 0 /\ Op(d, Length(d)) = "deactivate"
    BY Chains DEF Deactivated
<1>2. Length(d) \in 1..Length(d)
    BY <1>1
<1>3. Length(d) # 1
    BY <1>1, <1>2 DEF ChainShape
<1>4. Length(d) - 1 \in 1..Length(d) /\ Length(d) - 1 < Length(d)
    BY <1>1, <1>3
<1> QED BY <1>1, <1>3, <1>4 DEF ChainShape

\* From one state to the next every chain only grows, and not after a deactivation.
Grows ==
    /\ Types /\ Types'
    /\ \A d \in Dids :
          /\ Length(d) <= Length(d)'
          /\ \A i \in 1..Length(d) : Op(d, i)' = Op(d, i)
          /\ Deactivated(d) => Length(d)' = Length(d)

\* ... and what was there is no older.
NoOlder ==
    \A d \in Dids : \A i \in 1..Length(d)' :
        \/ chain'[d][i].age = 0
        \/ i \in 1..Length(d) /\ chain'[d][i].age = chain[d][i].age

LEMMA SameGrows ==
    ASSUME Types, Types', chain' = chain
    PROVE  Grows /\ NoOlder
<1>1. \A d \in Dids : Length(d)' = Length(d) /\ \A i \in 1..Length(d) : Op(d, i)' = Op(d, i)
    BY DEF Length, Op
<1>2. \A d \in Dids : Length(d) \in Nat
    BY Chains
<1> QED BY <1>1, <1>2 DEF Grows, NoOlder

\* What is true of the chain stays true when it grows.
LEMMA GrowsKeeps ==
    ASSUME Grows, NEW d \in Dids
    PROVE  /\ Deactivated(d) => Deactivated(d)' /\ Length(d)' = Length(d)
           /\ \A a : Shown(d, a) => Shown(d, a)'
           /\ \A r \in Result : Holds(d, r) => Holds(d, r)'
<1>1. /\ Length(d) \in Nat /\ Length(d)' \in Nat /\ Length(d) <= Length(d)'
      /\ \A i \in 1..Length(d) : Op(d, i)' = Op(d, i) /\ i \in 1..Length(d)'
    <2>1. Length(d) \in Nat
        BY Chains DEF Grows
    <2>2. Types' => Length(d)' \in Nat
        <3>1. Types => Length(d) \in Nat
            BY Chains
        <3>2. (Types => Length(d) \in Nat)'
            BY DEF Types, Length
        <3> QED BY <3>2
    <2> QED BY <2>1, <2>2 DEF Grows
<1>2. Deactivated(d) => Deactivated(d)' /\ Length(d)' = Length(d)
    <2> SUFFICES ASSUME Deactivated(d) PROVE Deactivated(d)' /\ Length(d)' = Length(d)
        OBVIOUS
    <2>1. Length(d)' = Length(d) /\ Length(d) > 0 /\ Op(d, Length(d)) = "deactivate"
        BY DEF Grows, Deactivated
    <2>2. Length(d) \in 1..Length(d)
        BY <1>1, <2>1
    <2>3. Op(d, Length(d))' = "deactivate"
        BY <1>1, <2>1, <2>2 DEF Op
    <2> QED BY <2>1, <2>3 DEF Deactivated
<1>3. ASSUME NEW a, Shown(d, a)
      PROVE  Shown(d, a)'
    BY <1>1, <1>2, <1>3 DEF Shown
<1>4. ASSUME NEW r \in Result, Holds(d, r)
      PROVE  Holds(d, r)'
    <2>1. r.tx \in Nat /\ r.upto \in Nat
        BY DEF Result
    <2> QED BY <1>1, <1>2, <1>4, <2>1 DEF Holds
<1> QED BY <1>2, <1>3, <1>4

\* A transaction is settled.
LEMMA SettleGrows ==
    ASSUME Types, ChainShape, NEW d \in Dids, NEW op \in Ops, NEW base,
           Fits(d, op, base), Settle(d, op),
           file' \in [Dids -> File \cup {None}], call' # None => call' \in Call,
           last' \in [Dids -> Result], own' \in [Dids -> Nat]
    PROVE  /\ Grows /\ NoOlder /\ ChainShape'
           /\ \A e \in Dids : Length(e)' = IF e = d THEN Length(d) + 1 ELSE Length(e)
<1> DEFINE t == [op |-> op, age |-> 0]
           n == Length(d)
<1>1. /\ chain' = [chain EXCEPT ![d] = Append(@, t)] /\ chain \in [Dids -> Seq(Tx)]
      /\ n < MaxTx /\ (op = "create" <=> n = 0) /\ ~Deactivated(d)
    BY DEF Settle, Fits, Types
<1>2. t \in Tx /\ Old \in Nat
    BY ResolverAssumption DEF Tx, Old
<1>3. /\ chain[d] \in Seq(Tx) /\ n \in Nat /\ n = Len(chain[d]) /\ MaxTx \in Nat
    BY Chains, ResolverAssumption DEF Length
<1> HIDE DEF n, t
<1>4. /\ Append(chain[d], t) \in Seq(Tx) /\ Len(Append(chain[d], t)) = n + 1
      /\ Append(chain[d], t)[n + 1] = t
      /\ \A i \in 1..n : Append(chain[d], t)[i] = chain[d][i]
    BY <1>2, <1>3
<1>5. /\ chain' \in [Dids -> Seq(Tx)] /\ Length(d)' = n + 1
      /\ chain'[d][n + 1] = t /\ \A i \in 1..n : chain'[d][i] = chain[d][i]
      /\ \A e \in Dids : e # d => chain'[e] = chain[e]
    BY <1>1, <1>4 DEF Length
<1>6. \A e \in Dids : Length(e)' = IF e = d THEN n + 1 ELSE Length(e)
    BY <1>5 DEF Length
<1>7. n + 1 <= MaxTx
    BY <1>1, <1>3
<1>8. \A e \in Dids : Length(e)' <= MaxTx
    BY <1>6, <1>7 DEF Types
<1>9. Types'
    <2>1. \A e \in Dids : (Length(e) <= MaxTx)'
        BY <1>8
    <2> QED BY <1>5, <2>1 DEF Types
<1>10. ASSUME NEW e \in Dids
       PROVE  /\ Length(e) <= Length(e)'
              /\ \A i \in 1..Length(e) : chain'[e][i] = chain[e][i] /\ Op(e, i)' = Op(e, i)
              /\ Deactivated(e) => Length(e)' = Length(e)
    <2>1. Length(e) \in Nat
        BY Chains
    <2>2. CASE e = d
        BY <1>1, <1>3, <1>5, <1>6, <2>1, <2>2 DEF Op, n
    <2>3. CASE e # d
        BY <1>5, <1>6, <2>1, <2>3 DEF Op
    <2> QED BY <2>2, <2>3
<1>11. \A i \in 1..n + 1 : i \in 1..n \/ i = n + 1
    BY <1>3
<1>12. NoOlder
    <2> SUFFICES ASSUME NEW e \in Dids, NEW i \in 1..Length(e)'
                 PROVE  \/ chain'[e][i].age = 0
                        \/ i \in 1..Length(e) /\ chain'[e][i].age = chain[e][i].age
        BY DEF NoOlder
    <2>1. CASE e = d
        BY <1>5, <1>6, <1>11, <2>1 DEF n, t
    <2>2. CASE e # d
        BY <1>6, <1>10, <2>2
    <2> QED BY <2>1, <2>2
<1>13. ChainShape'
    <2> SUFFICES ASSUME NEW e \in Dids, NEW i \in 1..Length(e)'
                 PROVE  /\ i = 1 => Op(e, i)' = "create"
                        /\ i < Length(e)' => Op(e, i)' \in DocOps
        BY DEF ChainShape, Op
    <2>1. CASE e # d
        BY <1>6, <1>10, <2>1 DEF ChainShape
    <2>2. CASE e = d /\ i = n + 1
        BY <1>1, <1>3, <1>5, <1>6, <2>2 DEF Op, t
    <2>3. CASE e = d /\ i \in 1..n
        <3>1. Op(e, i)' = Op(d, i) /\ (i = 1 => Op(d, i) = "create")
            BY <1>10, <2>3 DEF ChainShape, n
        <3>2. i < n => Op(d, i) \in DocOps
            BY <2>3 DEF ChainShape, n
        <3>3. i = n => Op(d, i) \in DocOps
            BY <1>1, <1>3, <2>3, Chains DEF Deactivated, Ops, n
        <3> QED BY <1>3, <2>3, <3>1, <3>2, <3>3
    <2> QED BY <1>6, <1>11, <2>1, <2>2, <2>3
<1> QED BY <1>6, <1>9, <1>10, <1>12, <1>13 DEF Grows, n

\* Time passes.
LEMMA TickChain ==
    ASSUME Types, ChainShape, Tick, Types'
    PROVE  /\ Grows /\ ChainShape'
           /\ \A d \in Dids :
                 /\ Length(d)' = Length(d)
                 /\ \A i \in 1..Length(d) : chain'[d][i].age = Older(chain[d][i].age)
<1>1. ASSUME NEW d \in Dids
      PROVE  /\ Length(d)' = Length(d) /\ Length(d) \in Nat
             /\ \A i \in 1..Length(d) : /\ chain'[d][i].age = Older(chain[d][i].age)
                                        /\ Op(d, i)' = Op(d, i)
    <2> DEFINE n == Length(d)
               f == [i \in 1..n |-> [chain[d][i] EXCEPT !.age = Older(@)]]
    <2>1. n \in Nat /\ DOMAIN chain[d] = 1..n /\ \A i \in 1..n : chain[d][i] \in Tx
        BY Chains
    <2>2. chain'[d] = f
        BY <2>1 DEF Tick
    <2> HIDE DEF n
    <2>3. \A i \in 1..n : f[i].age = Older(chain[d][i].age) /\ f[i].op = chain[d][i].op
        BY <2>1 DEF Tx
    <2>4. Len(f) = n
        BY <2>1
    <2> QED BY <2>1, <2>2, <2>3, <2>4 DEF n, Length, Op
<1>2. Grows
    BY <1>1 DEF Grows
<1>3. ChainShape'
    <2> SUFFICES ASSUME NEW d \in Dids, NEW i \in 1..Length(d)'
                 PROVE  /\ i = 1 => Op(d, i)' = "create"
                        /\ i < Length(d)' => Op(d, i)' \in DocOps
        BY DEF ChainShape, Op
    <2> QED BY <1>1 DEF ChainShape
<1> QED BY <1>1, <1>2, <1>3

\* Ages stay in their range as time passes.
LEMMA TickTypes ==
    ASSUME Types, Tick
    PROVE  Types'
<1>1. \A a \in 0..Old : Older(a) \in 0..Old
    BY ResolverAssumption DEF Older, Old
<1>2. ASSUME NEW d \in Dids
      PROVE  chain'[d] \in Seq(Tx) /\ (Length(d) <= MaxTx)'
    <2> DEFINE n == Length(d)
               f == [i \in 1..n |-> [chain[d][i] EXCEPT !.age = Older(@)]]
    <2>1. n \in Nat /\ n <= MaxTx /\ DOMAIN chain[d] = 1..n /\ \A i \in 1..n : chain[d][i] \in Tx
        BY Chains
    <2>2. chain'[d] = f
        BY <2>1 DEF Tick
    <2> HIDE DEF n
    <2>3. \A i \in 1..n : [chain[d][i] EXCEPT !.age = Older(@)] \in Tx
        BY <1>1, <2>1 DEF Tx
    <2>4. f \in [1..n -> Tx]
        BY <2>3
    <2> HIDE DEF f
    <2>5. f \in Seq(Tx) /\ Len(f) = n
        BY <2>1, <2>4
    <2> QED BY <2>1, <2>2, <2>5 DEF Length
<1>3. chain' \in [Dids -> Seq(Tx)]
    <2>1. chain' = [d \in Dids |-> chain'[d]]
        BY DEF Tick
    <2> QED BY <1>2, <2>1
<1>4. file' \in [Dids -> File \cup {None}]
    <2>1. ASSUME NEW d \in Dids, file[d] # None
          PROVE  [file[d] EXCEPT !.age = Older(@)] \in File
        BY <1>1, <2>1 DEF Types, File
    <2>2. file' = [d \in Dids |-> IF file[d] = None THEN None
                                  ELSE [file[d] EXCEPT !.age = Older(@)]]
        BY DEF Tick
    <2> QED BY <2>1, <2>2
<1>5. call' # None => call' \in Call
    <2>1. ASSUME call # None
          PROVE  [call EXCEPT !.age = @ + 1] \in Call
        <3>1. call \in Call /\ call.age < Delay
            BY <2>1 DEF Types, Tick
        <3>2. call.age + 1 \in 0..Delay
            BY <3>1, ResolverAssumption DEF Call
        <3> QED BY <3>1, <3>2 DEF Call
    <2> QED BY <2>1 DEF Tick
<1> QED BY <1>2, <1>3, <1>4, <1>5 DEF Types, Tick

--------------------------------------------------------------------------------
\* Answers.

Txs == UNION {[1..n -> 1..MaxTx] : n \in 0..MaxTx}

LEMMA TxsFacts ==
    ASSUME NEW txs \in Txs
    PROVE  \E n \in 0..MaxTx :
              /\ n = Len(txs) /\ n \in Nat /\ txs \in [1..n -> 1..MaxTx] /\ txs \in Seq(1..MaxTx)
              /\ txs = <<>> <=> n = 0
              /\ txs # <<>> => 1 \in 1..n /\ txs[1] \in 1..MaxTx /\ txs[1] \in Nat
<1>1. PICK n \in 0..MaxTx : txs \in [1..n -> 1..MaxTx]
    BY DEF Txs
<1>2. n \in Nat /\ MaxTx \in Nat
    BY <1>1, ResolverAssumption
<1>3. txs \in Seq(1..MaxTx) /\ Len(txs) = n
    BY <1>1, <1>2
<1>4. txs = <<>> <=> n = 0
    BY <1>3, EmptySeq
<1>5. n # 0 => 1 \in 1..n
    BY <1>2
<1>6. txs # <<>> => txs[1] \in 1..MaxTx
    BY <1>1, <1>4, <1>5
<1> QED BY <1>1, <1>2, <1>3, <1>4, <1>5, <1>6

LEMMA AnswerFields ==
    ASSUME NEW a \in Answers
    PROVE  /\ a.txs \in Txs /\ a.status \in Statuses
           /\ Newest(a) \in Nat /\ Newest(a) \in 0..MaxTx
           /\ a = [status |-> a.status, txs |-> a.txs]
<1>1. a.txs \in Txs /\ a.status \in Statuses /\ a = [status |-> a.status, txs |-> a.txs]
    <2> HIDE DEF Statuses
    <2> QED BY DEF Answers, Txs
<1>2. Newest(a) \in 0..MaxTx
    BY <1>1, TxsFacts, ResolverAssumption DEF Newest
<1> QED BY <1>1, <1>2, ResolverAssumption

\* The last k transactions of n, newest first.
Back(n, k) == [i \in 1..k |-> n + 1 - i]

LEMMA BackFacts ==
    ASSUME NEW n \in 1..MaxTx, NEW k \in 1..n
    PROVE  /\ Back(n, k) \in Txs /\ Back(n, k) # <<>> /\ Back(n, k)[1] = n
           /\ Len(Back(n, k)) = k
           /\ k = 2 => Back(n, k)[2] = n - 1
<1>1. n \in Nat /\ k \in Nat /\ MaxTx \in Nat /\ k \in 0..MaxTx
    BY ResolverAssumption
<1>2. \A i \in 1..k : n + 1 - i \in 1..MaxTx
    BY <1>1
<1>3. Back(n, k) \in [1..k -> 1..MaxTx]
    BY <1>2 DEF Back
<1>4. Back(n, k)[1] = n /\ (k = 2 => Back(n, k)[2] = n - 1)
    BY <1>1 DEF Back
<1>5. Len(Back(n, k)) = k /\ Back(n, k) # <<>>
    BY <1>1, <1>3
<1> QED BY <1>1, <1>3, <1>4, <1>5 DEF Txs

\* The chain's answer is true, and tells of everything.
LEMMA ChainAnswerShown ==
    ASSUME Types, ChainShape, NEW d \in Dids, NEW all \in BOOLEAN
    PROVE  /\ ChainAnswer(d, all) \in Answers /\ Shown(d, ChainAnswer(d, all))
           /\ Newest(ChainAnswer(d, all)) = Length(d)
<1> DEFINE n == Length(d)
           a == ChainAnswer(d, all)
<1>1. n \in Nat /\ n <= MaxTx /\ MaxTx \in Nat /\ (n # 0 => n \in 1..n /\ n \in 1..MaxTx)
    BY Chains, ResolverAssumption
<1>2. CASE n = 0
    <2>1. a = [status |-> "notfound", txs |-> <<>>]
        BY <1>2 DEF ChainAnswer
    <2>2. <<>> \in Txs
        <3>1. <<>> \in [1..0 -> 1..MaxTx] /\ 0 \in 0..MaxTx
            BY <1>1
        <3> QED BY <3>1 DEF Txs
    <2>3. a \in Answers
        BY <2>1, <2>2 DEF Answers, Txs, Statuses
    <2> QED BY <1>2, <2>1, <2>3 DEF Shown, Newest
<1>3. CASE n # 0 /\ ~Deactivated(d)
    <2> DEFINE k == IF all THEN n ELSE 1
    <2>1. a = [status |-> "valid", txs |-> Back(n, k)]
        BY <1>3 DEF ChainAnswer, Back
    <2>2. k \in 1..n
        BY <1>1, <1>3
    <2> HIDE DEF k
    <2>3. /\ Back(n, k) \in Txs /\ Back(n, k) # <<>> /\ Back(n, k)[1] = n
        BY <1>1, <1>3, <2>2, BackFacts
    <2>4. a \in Answers
        BY <2>1, <2>3 DEF Answers, Txs, Statuses
    <2>5. Op(d, n) \in DocOps
        BY <1>1, <1>3, Chains DEF Deactivated, Ops
    <2> QED BY <1>1, <1>3, <2>1, <2>3, <2>4, <2>5 DEF Shown, Newest
<1>4. CASE n # 0 /\ Deactivated(d)
    <2> DEFINE k == IF all THEN n ELSE 2
    <2>1. a = [status |-> "deactivated", txs |-> Back(n, k)]
        BY <1>4 DEF ChainAnswer, Back
    <2>2. n > 1
        BY <1>4, DeactivatedShape
    <2>3. k \in 1..n /\ k > 1 /\ (k # 2 => n > 2)
        BY <1>1, <2>2
    <2> HIDE DEF k
    <2>4. /\ Back(n, k) \in Txs /\ Back(n, k) # <<>> /\ Back(n, k)[1] = n
          /\ Len(Back(n, k)) = k /\ (k = 2 => Back(n, k)[2] = n - 1)
        BY <1>1, <1>4, <2>3, BackFacts
    <2>5. a \in Answers
        BY <2>1, <2>4 DEF Answers, Txs, Statuses
    <2>6. Len(a.txs) = k /\ a.txs = Back(n, k) /\ a.status = "deactivated"
        BY <2>1, <2>4
    <2>7. /\ Len(a.txs) = 2 => a.txs[2] = n - 1
          /\ Len(a.txs) # 2 => n > 2
        BY <2>3, <2>4, <2>6
    <2> HIDE DEF a, n
    <2>8. Shown(d, a) /\ Newest(a) = n
        BY <1>4, <2>4, <2>6, <2>7 DEF Shown, Newest, n
    <2> QED BY <2>5, <2>8 DEF a, n
<1> QED BY <1>2, <1>3, <1>4

\* What is read of an answer is as true, and as new.
LEMMA FromJsonShown ==
    ASSUME NEW d, NEW a \in Answers, NEW all \in BOOLEAN, Shown(d, a)
    PROVE  /\ FromJson(a, all) \in Answers /\ Shown(d, FromJson(a, all))
           /\ Newest(FromJson(a, all)) = Newest(a)
           /\ FromJson(a, all).status = a.status
<1>1. a.txs \in Txs /\ a.status \in Statuses /\ a = [status |-> a.status, txs |-> a.txs]
    BY AnswerFields
<1>2. CASE ~all /\ a.status = "valid"
    <2> DEFINE one == SubSeq(a.txs, 1, 1)
    <2>1. a.txs # <<>>
        BY <1>2 DEF Shown
    <2>2. a.txs[1] \in 1..MaxTx
        BY <1>1, <2>1, TxsFacts
    <2>3. one \in Seq(1..MaxTx) /\ Len(one) = 1 /\ one[1] = a.txs[1]
        <3>1. \A i \in 1..1 : a.txs[i] \in 1..MaxTx
            BY <2>2
        <3> QED BY <3>1, SubSeqProperties
    <2>4. one # <<>> /\ one \in [1..1 -> 1..MaxTx]
        <3> HIDE DEF one
        <3>1. one \in [1..Len(one) -> 1..MaxTx]
            BY <2>3, LenProperties
        <3>2. Len(<<>>) = 0
            OBVIOUS
        <3> QED BY <2>3, <3>1, <3>2
    <2>5. 1 \in 0..MaxTx
        BY <2>2, ResolverAssumption
    <2>6. one \in Txs
        BY <2>4, <2>5 DEF Txs
    <2> HIDE DEF one
    <2>7. FromJson(a, all) = [status |-> "valid", txs |-> one]
        BY <1>1, <1>2 DEF FromJson, one
    <2>8. FromJson(a, all) \in Answers
        BY <2>6, <2>7 DEF Answers, Txs, Statuses
    <2> QED BY <1>2, <2>1, <2>3, <2>4, <2>7, <2>8 DEF Shown, Newest
<1>3. CASE ~(~all /\ a.status = "valid")
    BY <1>3 DEF FromJson
<1> QED BY <1>2, <1>3

\* What is made of a true answer is true, and it is not behind what was there.
LEMMA VerdictHolds ==
    ASSUME Types, ChainShape, NEW d \in Dids, NEW a \in Answers, Shown(d, a), Fresh(d, a),
           Newest(a) <= Length(d), last[d].upto <= Length(d)
    PROVE  /\ Verdict(d, a) \in Result /\ Holds(d, Verdict(d, a))
           /\ Verdict(d, a).upto <= Newest(a) /\ last[d].upto <= Verdict(d, a).upto
           /\ Verdict(d, a).upto = last[d].upto \/ own[d] <= Verdict(d, a).upto
<1>1. a.txs \in Txs /\ a.status \in Statuses
    BY AnswerFields
<1>2. /\ Length(d) \in Nat /\ Length(d) <= MaxTx /\ MaxTx \in Nat
      /\ last[d].upto \in 0..MaxTx /\ own[d] \in Nat
    BY Chains, ResolverAssumption DEF Types, Result
<1>3. CASE a.status = "notfound"
    <2>1. Verdict(d, a) = [kind |-> "notfound", tx |-> 0, upto |-> 0] /\ Newest(a) = 0
        BY <1>3 DEF Verdict, Found, Shown, Newest
    <2> QED BY <1>2, <2>1 DEF Result, Statuses, Holds, Fresh
<1>4. CASE a.status = "valid"
    <2> DEFINE n == a.txs[1]
    <2>1. /\ a.txs # <<>> /\ n \in 1..Length(d) /\ Op(d, n) \in DocOps
        BY <1>4 DEF Shown
    <2>2. Verdict(d, a) = [kind |-> "valid", tx |-> n, upto |-> n] /\ Newest(a) = n
        BY <1>4, <2>1 DEF Verdict, Found, Newest
    <2>3. n \in 0..MaxTx /\ n > 0 /\ n <= Length(d)
        BY <1>2, <2>1
    <2> HIDE DEF n
    <2> QED BY <1>2, <2>1, <2>2, <2>3 DEF Result, Statuses, Holds, Fresh
<1>5. CASE a.status = "deactivated"
    <2>1. /\ Deactivated(d) /\ a.txs # <<>> /\ a.txs[1] = Length(d)
          /\ Len(a.txs) = 2 => a.txs[2] = Length(d) - 1
          /\ Len(a.txs) # 2 => Length(d) > 2
        BY <1>5 DEF Shown
    <2>2. /\ Length(d) > 1 /\ Op(d, Length(d)) = "deactivate" /\ Op(d, Length(d) - 1) \in DocOps
        BY <2>1, DeactivatedShape
    <2>3. Newest(a) = Length(d)
        BY <2>1 DEF Newest
    <2>4. CASE Len(a.txs) = 2
        <3>1. Verdict(d, a) = [kind |-> "deactivated", tx |-> Length(d) - 1, upto |-> Length(d)]
            BY <1>5, <2>1, <2>2, <2>4 DEF Verdict, Found
        <3>2. Length(d) - 1 \in 0..MaxTx /\ Length(d) \in 0..MaxTx
              /\ Length(d) = Length(d) - 1 + 1
            BY <1>2, <2>2
        <3> QED BY <1>2, <2>1, <2>3, <3>1, <3>2 DEF Result, Statuses, Holds, Fresh
    <2>5. CASE Len(a.txs) # 2
        <3>1. Verdict(d, a) = [kind |-> "malformed", tx |-> 0, upto |-> last[d].upto]
            BY <1>5, <2>5 DEF Verdict, Failed, Found
        <3> QED BY <1>2, <2>1, <2>3, <2>5, <3>1 DEF Result, Statuses, Holds, Fresh
    <2> QED BY <2>4, <2>5
<1> QED BY <1>1, <1>3, <1>4, <1>5 DEF Statuses

--------------------------------------------------------------------------------
\* The invariant, for each way in which the actions change the state.

LEMMA BehindKeeps ==
    ASSUME Grows, NoOlder, NEW d \in Dids, NEW a, NEW age \in Nat, Behind(d, a, age)
    PROVE  Behind(d, a, age)'
<1> SUFFICES ASSUME NEW i \in 1..Length(d)', i > Newest(a)
             PROVE  chain'[d][i].age <= age
    BY DEF Behind, Newest
<1>1. CASE chain'[d][i].age = 0
    BY <1>1
<1>2. CASE i \in 1..Length(d) /\ chain'[d][i].age = chain[d][i].age
    BY <1>2 DEF Behind
<1> QED BY <1>1, <1>2 DEF NoOlder

\* The cache keeps a file or loses it.
LEMMA FileKeeps ==
    ASSUME IInv, Grows, NoOlder, NEW d \in Dids, file'[d] \in {file[d], None},
           file'[d] # None =>
                own'[d] <= Newest(file[d].answer) /\ last'[d].upto <= Newest(file[d].answer)
    PROVE  FileSound(d)'
<1> SUFFICES ASSUME file'[d] # None, file'[d] = file[d] PROVE FileSound(d)'
    BY DEF FileSound
<1> DEFINE a == file[d].answer
<1>1. file[d] \in File /\ a \in Answers /\ file[d].age + Delay \in Nat
    BY ResolverAssumption DEF IInv, Types, File, Old
<1>2. a.status # "notfound" /\ Shown(d, a) /\ Behind(d, a, file[d].age + Delay)
    BY DEF IInv, FileSound
<1>3. PICK b : b = a
    OBVIOUS
<1>4. PICK age : age = file[d].age
    OBVIOUS
<1>5. Shown(d, b)' /\ Behind(d, b, age + Delay)'
    BY <1>1, <1>2, <1>3, <1>4, GrowsKeeps, BehindKeeps
<1>6. Fresh(d, b)'
    BY <1>3 DEF Fresh, Newest
<1> QED BY <1>2, <1>3, <1>4, <1>5, <1>6 DEF FileSound

LEMMA ResultKeeps ==
    ASSUME IInv, Grows, NEW d \in Dids, last'[d] = last[d], own'[d] = own[d]
    PROVE  Holds(d, last[d])' /\ (own[d] <= Length(d))'
<1>1. last[d] \in Result /\ Holds(d, last[d]) /\ own[d] <= Length(d) /\ own[d] \in Nat
      /\ Length(d) \in Nat
    BY Chains DEF IInv, Types
<1>2. PICK r : r = last[d]
    OBVIOUS
<1>3. Holds(d, r)'
    BY <1>1, <1>2, GrowsKeeps
<1>4. Length(d)' \in Nat /\ Length(d) <= Length(d)'
    BY DEF Grows, Types, Length
<1> QED BY <1>1, <1>2, <1>3, <1>4 DEF Holds

\* A call ends, or there is none.
LEMMA IdleKeeps ==
    ASSUME IInv, Types', chain' = chain, call' = None,
           \A d \in Dids :
              /\ file'[d] \in {file[d], None}
              /\ own'[d] <= Length(d) /\ (file'[d] # None => own'[d] = own[d])
              /\ Holds(d, last'[d])
              /\ file[d] # None => last'[d].upto <= Newest(file[d].answer)
    PROVE  IInv'
<1>1. Grows /\ NoOlder
    BY SameGrows DEF IInv
<1>2. ChainShape'
    BY DEF IInv, ChainShape, Length, Op
<1>3. ASSUME NEW d \in Dids
      PROVE  FileSound(d)' /\ Holds(d, last[d])' /\ (own[d] <= Length(d))'
    <2>1. FileSound(d)'
        <3>1. file[d] # None => own[d] <= Newest(file[d].answer)
            BY DEF IInv, FileSound, Fresh
        <3> QED BY <1>1, <3>1, FileKeeps
    <2>2. Holds(d, last'[d]) /\ own'[d] <= Length(d)
        OBVIOUS
    <2>3. Length(d)' = Length(d) /\ Deactivated(d)' = Deactivated(d)
          /\ \A i : Op(d, i)' = Op(d, i)
        BY DEF Length, Deactivated, Op
    <2> QED BY <2>1, <2>2, <2>3 DEF Holds
<1>4. CallSound'
    BY DEF CallSound
<1> QED BY <1>2, <1>3, <1>4 DEF IInv

\* A call goes on, and the chain with it.
LEMMA CallKeeps ==
    ASSUME IInv, Grows, NoOlder, call # None,
           call'.did = call.did, call'.by = call.by, call'.answer = call.answer,
           call'.age = call.age, own' = own, last' = last,
           call'.pc = "accepted" => own[call.did] <= call'.tx /\ call'.tx <= Length(call.did)'
    PROVE  CallSound'
<1> DEFINE d == call.did
           a == call.answer
<1>1. call \in Call /\ d \in Dids /\ a \in Answers /\ call.age \in Nat
    BY ResolverAssumption DEF IInv, Types, Call
<1>2. /\ call.by \in Dids => call.by = d
      /\ Shown(d, a) /\ Fresh(d, a) /\ Behind(d, a, call.age)
    BY DEF IInv, CallSound
<1>3. PICK e, b, age : e = d /\ b = a /\ age = call.age
    OBVIOUS
<1>4. Shown(e, b)' /\ Behind(e, b, age)'
    BY <1>1, <1>2, <1>3, GrowsKeeps, BehindKeeps
<1>5. Fresh(e, b)'
    BY <1>2, <1>3 DEF Fresh, Newest
<1>6. Length(e)' = Length(call.did)'
    BY <1>3 DEF Length
<1> QED BY <1>2, <1>3, <1>4, <1>5, <1>6 DEF CallSound

\* What the invariant says of one DID.
LEMMA DidFacts ==
    ASSUME IInv, NEW d \in Dids
    PROVE  /\ file[d] \in File \cup {None} /\ last[d] \in Result /\ own[d] \in Nat
           /\ last[d].upto \in Nat /\ last[d].upto \in 0..MaxTx
           /\ Length(d) \in Nat /\ Length(d) <= MaxTx
           /\ Holds(d, last[d]) /\ own[d] <= Length(d) /\ last[d].upto <= Length(d)
           /\ file[d] # None =>
                 /\ file[d].answer \in Answers /\ Newest(file[d].answer) \in Nat
                 /\ Newest(file[d].answer) <= Length(d)
                 /\ file[d].answer.status # "notfound"
                 /\ Shown(d, file[d].answer) /\ Fresh(d, file[d].answer)
<1>1. /\ file[d] \in File \cup {None} /\ last[d] \in Result /\ own[d] \in Nat
      /\ last[d].upto \in Nat /\ last[d].upto \in 0..MaxTx
      /\ Length(d) \in Nat /\ Length(d) <= MaxTx
    BY Chains, ResolverAssumption DEF IInv, Types, Result
<1>2. Holds(d, last[d]) /\ own[d] <= Length(d) /\ last[d].upto <= Length(d)
    BY DEF IInv, Holds
<1>3. ASSUME file[d] # None
      PROVE  /\ file[d].answer \in Answers /\ Newest(file[d].answer) \in Nat
             /\ Newest(file[d].answer) <= Length(d)
             /\ file[d].answer.status # "notfound"
             /\ Shown(d, file[d].answer) /\ Fresh(d, file[d].answer)
    <2> DEFINE a == file[d].answer
    <2>1. a \in Answers /\ a.status # "notfound" /\ Shown(d, a) /\ Fresh(d, a)
        BY <1>1, <1>3 DEF IInv, FileSound, File
    <2>2. Newest(a) \in Nat /\ a.status \in Statuses
        BY <2>1, AnswerFields
    <2>3. Newest(a) <= Length(d)
        BY <1>1, <2>1, <2>2 DEF Shown, Newest, Statuses
    <2> QED BY <2>1, <2>2, <2>3
<1> QED BY <1>1, <1>2, <1>3

\* The same of the call in progress.
LEMMA CallFacts ==
    ASSUME IInv, call # None
    PROVE  /\ call \in Call /\ call.did \in Dids /\ call.answer \in Answers
           /\ call.age \in 0..Delay /\ call.tx \in 0..MaxTx
           /\ call.by \in Dids => call.by = call.did
           /\ Shown(call.did, call.answer) /\ Fresh(call.did, call.answer)
           /\ Behind(call.did, call.answer, call.age)
           /\ Newest(call.answer) \in Nat /\ Newest(call.answer) <= Length(call.did)
<1>1. /\ call \in Call /\ call.did \in Dids /\ call.answer \in Answers
      /\ call.age \in 0..Delay /\ call.tx \in 0..MaxTx
    BY DEF IInv, Types, Call
<1>2. /\ call.by \in Dids => call.by = call.did
      /\ Shown(call.did, call.answer) /\ Fresh(call.did, call.answer)
      /\ Behind(call.did, call.answer, call.age)
    BY DEF IInv, CallSound
<1>3. Newest(call.answer) \in Nat /\ call.answer.status \in Statuses
    BY <1>1, AnswerFields
<1>4. Newest(call.answer) <= Length(call.did)
    BY <1>1, <1>2, <1>3, DidFacts DEF Shown, Newest, Statuses
<1> QED BY <1>1, <1>2, <1>3, <1>4

LEMMA InvInit == Init => IInv
<1> SUFFICES ASSUME Init PROVE IInv
    OBVIOUS
<1>1. \A d \in Dids : chain[d] = <<>> /\ Length(d) = 0 /\ file[d] = None /\ own[d] = 0
                      /\ last[d] = [kind |-> "never", tx |-> 0, upto |-> 0]
    BY DEF Init, Length, Found
<1>2. Types
    <2>1. chain \in [Dids -> Seq(Tx)]
        BY DEF Init
    <2>2. [kind |-> "never", tx |-> 0, upto |-> 0] \in Result
        BY ResolverAssumption DEF Result
    <2>3. last \in [Dids -> Result]
        BY <2>2 DEF Init, Found
    <2> QED BY <1>1, <2>1, <2>3, ResolverAssumption DEF Init, Types
<1>3. ChainShape
    BY <1>1 DEF ChainShape
<1>4. \A d \in Dids : FileSound(d) /\ Holds(d, last[d]) /\ own[d] <= Length(d)
    <2> SUFFICES ASSUME NEW d \in Dids
                 PROVE  FileSound(d) /\ Holds(d, last[d]) /\ own[d] <= Length(d)
        OBVIOUS
    <2>1. last[d].kind = "never" /\ last[d].upto = 0
        BY <1>1
    <2> QED BY <1>1, <2>1 DEF FileSound, Holds
<1> QED BY <1>2, <1>3, <1>4 DEF IInv, CallSound, Init

LEMMA InvResolveCached ==
    ASSUME IInv, NEW d \in Dids, ResolveCached(d)
    PROVE  IInv'
<1> DEFINE a == FromJson(file[d].answer, FALSE)
           v == Verdict(d, a)
<1>1. /\ call = None /\ file[d] # None /\ last' = [last EXCEPT ![d] = v]
      /\ UNCHANGED <<chain, file, call, own>>
    BY DEF ResolveCached, Usable
<1>2. /\ a \in Answers /\ Shown(d, a) /\ Newest(a) = Newest(file[d].answer)
    BY <1>1, DidFacts, FromJsonShown
<1>3. Fresh(d, a) /\ Newest(a) <= Length(d) /\ last[d].upto <= Length(d)
    BY <1>1, <1>2, DidFacts DEF Fresh
<1> HIDE DEF a
<1>4. v \in Result /\ Holds(d, v) /\ v.upto <= Newest(a)
    BY <1>2, <1>3, VerdictHolds DEF IInv
<1> HIDE DEF v
<1>5. Types'
    BY <1>1, <1>4 DEF IInv, Types, Length
<1>6. \A e \in Dids : last'[e] = IF e = d THEN v ELSE last[e]
    BY <1>1 DEF IInv, Types
<1>7. \A e \in Dids :
         /\ Holds(e, last'[e])
         /\ file[e] # None => last'[e].upto <= Newest(file[e].answer)
    BY <1>2, <1>4, <1>6, DidFacts DEF Fresh
<1> QED BY <1>1, <1>5, <1>7, DidFacts, IdleKeeps

\* What a resolve that fails returns.
LEMMA FailedHolds ==
    ASSUME IInv, NEW d \in Dids
    PROVE  /\ Failed(d, "unreachable") \in Result /\ Holds(d, Failed(d, "unreachable"))
           /\ Failed(d, "unreachable").upto = last[d].upto
<1>1. Failed(d, "unreachable") = [kind |-> "unreachable", tx |-> 0, upto |-> last[d].upto]
    BY DEF Failed, Found
<1> QED BY <1>1, DidFacts, ResolverAssumption DEF Result, Holds

LEMMA InvAskFails ==
    ASSUME IInv, NEW d \in Dids, AskFails(d)
    PROVE  IInv'
<1> DEFINE v == Failed(d, "unreachable")
<1>1. call = None /\ last' = [last EXCEPT ![d] = v] /\ UNCHANGED <<chain, file, call, own>>
    BY DEF AskFails
<1>2. v \in Result /\ Holds(d, v) /\ v.upto = last[d].upto
    BY FailedHolds
<1> HIDE DEF v
<1>3. Types'
    BY <1>1, <1>2 DEF IInv, Types, Length
<1>4. \A e \in Dids : last'[e] = IF e = d THEN v ELSE last[e]
    BY <1>1 DEF IInv, Types
<1>5. \A e \in Dids :
         /\ Holds(e, last'[e])
         /\ file[e] # None => last'[e].upto <= Newest(file[e].answer)
    BY <1>2, <1>4, DidFacts DEF Fresh
<1> QED BY <1>1, <1>3, <1>5, DidFacts, IdleKeeps

LEMMA InvAsk ==
    ASSUME IInv, NEW kind \in Kinds, NEW d \in Dids, NEW by \in Dids \cup Authorizors,
           NEW force \in BOOLEAN, Ask(kind, d, by, force)
    PROVE  IInv'
<1> DEFINE all == kind = "biography"
           a == FromJson(ChainAnswer(d, all), all)
           c == [kind |-> kind, did |-> d, by |-> by, pc |-> "answered", age |-> 0,
                 answer |-> a, tx |-> 0]
<1>1. /\ call' = c /\ UNCHANGED <<chain, file, last, own>>
      /\ IF kind = "authorize" THEN by \in Authorizors ELSE by = d
    BY DEF Ask
<1>2. Types /\ ChainShape /\ all \in BOOLEAN
    BY DEF IInv
<1>3. ChainAnswer(d, all) \in Answers /\ Shown(d, ChainAnswer(d, all))
      /\ Newest(ChainAnswer(d, all)) = Length(d)
    BY <1>2, ChainAnswerShown
<1>4. a \in Answers /\ Shown(d, a) /\ Newest(a) = Length(d)
    BY <1>2, <1>3, FromJsonShown
<1> HIDE DEF a
<1>5. c \in Call
    BY <1>4, ResolverAssumption DEF Call
<1>6. Types'
    BY <1>1, <1>5 DEF IInv, Types, Length
<1>7. Grows /\ NoOlder
    BY <1>1, <1>2, <1>6, SameGrows
<1>8. ChainShape'
    BY <1>1 DEF IInv, ChainShape, Length, Op
<1>9. ASSUME NEW e \in Dids
      PROVE  FileSound(e)' /\ Holds(e, last[e])' /\ (own[e] <= Length(e))'
    BY <1>1, <1>7, DidFacts, FileKeeps, ResultKeeps DEF Fresh
<1>10. CallSound'
    <2>1. by \in Dids => by = d
        BY <1>1, ResolverAssumption
    <2>2. Shown(d, a) /\ Fresh(d, a) /\ Behind(d, a, 0)
        BY <1>4, DidFacts DEF Fresh, Behind
    <2>3. PICK b : b = a
        OBVIOUS
    <2>4. Shown(d, b)' /\ Behind(d, b, 0)'
        BY <1>7, <2>2, <2>3, GrowsKeeps, BehindKeeps
    <2>5. Fresh(d, b)'
        BY <1>1, <2>2, <2>3 DEF Fresh, Newest
    <2> QED BY <1>1, <2>1, <2>3, <2>4, <2>5 DEF CallSound
<1> QED BY <1>6, <1>8, <1>9, <1>10 DEF IInv

LEMMA InvKeep ==
    ASSUME IInv, Keep
    PROVE  IInv'
<1> DEFINE d == call.did
           a == call.answer
           v == Verdict(d, a)
           f == IF a.status = "notfound" THEN file[d] ELSE [answer |-> a, age |-> 0]
           r == IF call.kind = "resolve" THEN v ELSE last[d]
<1>1. /\ call # None /\ file' = [file EXCEPT ![d] = f]
      /\ last' = [last EXCEPT ![d] = r]
      /\ call' = (IF Proceeds(call.kind, v) THEN [call EXCEPT !.pc = "ready"] ELSE None)
      /\ UNCHANGED <<chain, own>>
    <2>1. last' = IF call.kind = "resolve" THEN [last EXCEPT ![d] = v] ELSE last
        BY DEF Keep
    <2>2. last' = [last EXCEPT ![d] = r]
        BY <2>1 DEF IInv, Types
    <2> QED BY <2>2 DEF Keep, Kept
<1>2. /\ call \in Call /\ d \in Dids /\ a \in Answers /\ call.age \in Nat /\ call.age <= Delay
      /\ Shown(d, a) /\ Fresh(d, a) /\ Behind(d, a, call.age)
      /\ Newest(a) \in Nat /\ Newest(a) <= Length(d) /\ Delay \in Nat
    BY <1>1, CallFacts, ResolverAssumption
<1>3. v \in Result /\ Holds(d, v) /\ v.upto <= Newest(a) /\ v.upto \in Nat
    <2>1. last[d].upto <= Length(d)
        BY <1>2, DidFacts
    <2>2. v \in Result /\ Holds(d, v) /\ v.upto <= Newest(a)
        BY <1>2, <2>1, VerdictHolds DEF IInv
    <2> QED BY <2>2, ResolverAssumption DEF Result
<1>4. r \in Result /\ Holds(d, r) /\ r.upto <= Newest(a) /\ r.upto \in Nat
    BY <1>2, <1>3, DidFacts DEF Fresh
<1>5. f \in File \cup {None}
    <2>1. 0 \in 0..Old
        BY ResolverAssumption DEF Old
    <2>2. [answer |-> a, age |-> 0] \in File
        BY <1>2, <2>1 DEF File
    <2> QED BY <1>2, <2>2, DidFacts
<1>6. Proceeds(call.kind, v) => call.kind # "resolve" /\ r = last[d]
                                /\ [call EXCEPT !.pc = "ready"] \in Call
    BY <1>2 DEF Proceeds, Call
<1> HIDE DEF v
<1>7. Types'
    BY <1>1, <1>2, <1>4, <1>5, <1>6 DEF IInv, Types, Length
<1>8. Grows /\ NoOlder
    BY <1>1, <1>7, SameGrows DEF IInv
<1>9. ChainShape'
    BY <1>1 DEF IInv, ChainShape, Length, Op
<1>10. \A e \in Dids : /\ last'[e] = IF e = d THEN r ELSE last[e]
                       /\ file'[e] = IF e = d THEN f ELSE file[e]
                       /\ own'[e] = own[e] /\ Length(e)' = Length(e)
    BY <1>1 DEF IInv, Types, Length
<1>11. ASSUME NEW e \in Dids, e # d
       PROVE  FileSound(e)' /\ Holds(e, last[e])' /\ (own[e] <= Length(e))'
    BY <1>8, <1>10, <1>11, DidFacts, FileKeeps, ResultKeeps DEF Fresh
<1>12. PICK e, b, q, age : e = d /\ b = a /\ q = r /\ age = call.age
    OBVIOUS
<1>13. Holds(e, q)' /\ Shown(e, b)' /\ Behind(e, b, age)' /\ (own[e] <= Length(e))'
    BY <1>2, <1>4, <1>8, <1>10, <1>12, GrowsKeeps, BehindKeeps, DidFacts
<1>14. Holds(e, last[e])'
    BY <1>2, <1>10, <1>12, <1>13
<1>15. FileSound(e)'
    <2>1. CASE b.status = "notfound"
        <3>1. file'[e] = file[e] /\ last'[e].upto <= Newest(b) /\ Newest(b) = 0
            BY <1>2, <1>4, <1>10, <1>12, <2>1 DEF Shown, Newest
        <3>2. file[e] # None => own[e] <= Newest(file[e].answer)
                                /\ last'[e].upto <= Newest(file[e].answer)
            BY <1>2, <1>4, <1>10, <1>12, <3>1, DidFacts DEF Fresh
        <3> QED BY <1>2, <1>8, <1>10, <1>12, <3>1, <3>2, FileKeeps
    <2>2. CASE b.status # "notfound"
        <3>1. file'[e] = [answer |-> b, age |-> 0]
            BY <1>2, <1>10, <1>12, <2>2
        <3>2. Fresh(e, b)'
            BY <1>2, <1>4, <1>10, <1>12 DEF Fresh, Newest
        <3>3. Behind(e, b, 0 + Delay)'
            <4>1. Behind(e, b, Delay)
                BY <1>2, <1>12, Chains DEF IInv, Behind
            <4> QED BY <1>2, <1>8, <1>12, <4>1, BehindKeeps
        <3> QED BY <1>13, <2>2, <3>1, <3>2, <3>3 DEF FileSound
    <2> QED BY <2>1, <2>2
<1>16. CallSound'
    <2> SUFFICES ASSUME call' # None PROVE CallSound'
        BY DEF CallSound
    <2>1. call' = [call EXCEPT !.pc = "ready"] /\ r = last[d]
        BY <1>1, <1>6
    <2>2. /\ call'.did = call.did /\ call'.by = call.by /\ call'.answer = call.answer
          /\ call'.age = call.age /\ call'.pc = "ready"
        BY <1>2, <2>1 DEF Call
    <2>3. last' = last
        BY <1>1, <2>1 DEF IInv, Types
    <2> QED BY <1>1, <1>8, <2>2, <2>3, CallKeeps
<1>17. ASSUME NEW x \in Dids
       PROVE  FileSound(x)' /\ Holds(x, last[x])' /\ (own[x] <= Length(x))'
    BY <1>11, <1>12, <1>13, <1>14, <1>15
<1> QED BY <1>7, <1>9, <1>16, <1>17 DEF IInv

LEMMA InvKeepFails ==
    ASSUME IInv, KeepFails
    PROVE  IInv'
<1> DEFINE d == call.did
           v == Failed(d, "unreachable")
           r == IF call.kind = "resolve" THEN v ELSE last[d]
<1>1. /\ call # None /\ call' = None /\ file' \in {file, [file EXCEPT ![d] = None]}
      /\ last' = (IF call.kind = "resolve" THEN [last EXCEPT ![d] = v] ELSE last)
      /\ UNCHANGED <<chain, own>>
    BY DEF KeepFails
<1>2. d \in Dids
    BY <1>1, CallFacts
<1>3. v \in Result /\ Holds(d, v) /\ v.upto = last[d].upto
    BY <1>2, FailedHolds
<1> HIDE DEF v
<1>4. \A e \in Dids : /\ last'[e] = IF e = d THEN r ELSE last[e]
                      /\ file'[e] \in {file[e], None}
    BY <1>1 DEF IInv, Types
<1>5. Types'
    BY <1>1, <1>2, <1>3 DEF IInv, Types, Length
<1>6. \A e \in Dids :
         /\ Holds(e, last'[e])
         /\ file[e] # None => last'[e].upto <= Newest(file[e].answer)
    BY <1>3, <1>4, DidFacts DEF Fresh
<1> QED BY <1>1, <1>4, <1>5, <1>6, DidFacts, IdleKeeps

LEMMA InvAccept ==
    ASSUME IInv, Accept
    PROVE  IInv'
<1> DEFINE d == call.did
           op == IF call.kind # "publish" THEN "deactivate"
                 ELSE IF call.answer.txs = <<>> THEN "create" ELSE "update"
<1>1. /\ call # None /\ Fits(d, op, Newest(call.answer)) /\ Settle(d, op)
      /\ call' = [call EXCEPT !.pc = "accepted", !.tx = Length(d) + 1]
      /\ UNCHANGED <<file, last, own>>
    BY DEF Accept
<1>2. call \in Call /\ d \in Dids /\ op \in Ops
    BY <1>1, CallFacts DEF Ops, DocOps
<1>3. Length(d) \in Nat /\ Length(d) + 1 \in 0..MaxTx /\ own[d] \in Nat /\ own[d] <= Length(d)
    BY <1>1, <1>2, DidFacts, ResolverAssumption DEF Fits
<1>4. /\ call' \in Call /\ call'.did = call.did /\ call'.by = call.by
      /\ call'.answer = call.answer /\ call'.age = call.age /\ call'.tx = Length(d) + 1
    BY <1>1, <1>2, <1>3 DEF Call
<1>5. /\ Grows /\ NoOlder /\ ChainShape'
      /\ \A e \in Dids : Length(e)' = IF e = d THEN Length(d) + 1 ELSE Length(e)
    BY <1>1, <1>2, <1>4, SettleGrows DEF IInv, Types
<1>6. ASSUME NEW e \in Dids
      PROVE  FileSound(e)' /\ Holds(e, last[e])' /\ (own[e] <= Length(e))'
    BY <1>1, <1>5, DidFacts, FileKeeps, ResultKeeps DEF Fresh
<1>7. PICK e : e = d
    OBVIOUS
<1>8. Length(e)' = Length(d) + 1 /\ Length(e)' = Length(call.did)'
    BY <1>2, <1>4, <1>5, <1>7 DEF Length
<1>9. own[call.did] <= call'.tx /\ call'.tx <= Length(call.did)'
    BY <1>3, <1>4, <1>8
<1>10. CallSound'
    BY <1>1, <1>4, <1>5, <1>9, CallKeeps
<1> QED BY <1>5, <1>6, <1>10 DEF IInv, Grows

LEMMA InvDone ==
    ASSUME IInv, Done
    PROVE  IInv'
<1> DEFINE d == call.did
<1>1. /\ call # None /\ call.pc = "accepted" /\ call' = None
      /\ file' = [e \in Dids |-> IF e = call.by THEN None ELSE file[e]]
      /\ own' = (IF call.by = d THEN [own EXCEPT ![d] = call.tx] ELSE own)
      /\ UNCHANGED <<chain, last>>
    BY DEF Done, Invalidate
<1>2. d \in Dids /\ call.tx \in Nat /\ call.tx <= Length(d)
    BY <1>1, CallFacts, ResolverAssumption DEF IInv, CallSound
<1>3. \A e \in Dids :
         /\ file'[e] \in {file[e], None}
         /\ own'[e] <= Length(e) /\ own'[e] \in Nat
         /\ file'[e] # None => own'[e] = own[e]
    BY <1>1, <1>2, DidFacts DEF IInv, Types
<1>4. Types'
    BY <1>1, <1>2, <1>3 DEF IInv, Types, Length
<1> QED BY <1>1, <1>3, <1>4, DidFacts, IdleKeeps DEF Fresh

LEMMA InvReset ==
    ASSUME IInv, Reset
    PROVE  IInv'
<1>1. Types' /\ \A d \in Dids : file'[d] = None
    BY DEF Reset, IInv, Types, Length
<1> QED BY <1>1, DidFacts, IdleKeeps DEF Reset, Fresh

\* A call ends without effect.
LEMMA InvEnds ==
    ASSUME IInv, Reject \/ Crash
    PROVE  IInv'
<1>1. call' = None /\ UNCHANGED <<chain, file, last, own>>
    BY DEF Reject, Crash
<1>2. Types'
    BY <1>1 DEF IInv, Types, Length
<1> QED BY <1>1, <1>2, DidFacts, IdleKeeps DEF Fresh

LEMMA InvElsewhere ==
    ASSUME IInv, NEW d \in Dids, NEW op \in Ops, Elsewhere(d, op)
    PROVE  IInv'
<1>1. Fits(d, op, Length(d)) /\ Settle(d, op) /\ UNCHANGED <<file, call, last, own>>
    BY DEF Elsewhere
<1>2. Grows /\ NoOlder /\ ChainShape'
    BY <1>1, SettleGrows DEF IInv, Types
<1>3. ASSUME NEW e \in Dids
      PROVE  FileSound(e)' /\ Holds(e, last[e])' /\ (own[e] <= Length(e))'
    BY <1>1, <1>2, DidFacts, FileKeeps, ResultKeeps DEF Fresh
<1>4. CallSound'
    <2> SUFFICES ASSUME call # None PROVE CallSound'
        BY <1>1 DEF CallSound
    <2>1. PICK e : e = call.did
        OBVIOUS
    <2>2. e \in Dids /\ call.tx \in Nat /\ Length(e) \in Nat /\ Length(e)' \in Nat
          /\ Length(e) <= Length(e)'
        BY <1>2, <2>1, CallFacts, DidFacts, ResolverAssumption DEF Grows, Types, Length
    <2>3. call'.pc = "accepted" => own[call.did] <= call'.tx /\ call'.tx <= Length(e)
        BY <1>1, <2>1 DEF IInv, CallSound
    <2>4. Length(e)' = Length(call.did)'
        BY <1>1, <2>1 DEF Length
    <2>5. call'.pc = "accepted" => own[call.did] <= call'.tx /\ call'.tx <= Length(call.did)'
        BY <1>1, <2>2, <2>3, <2>4
    <2> QED BY <1>1, <1>2, <2>5, CallKeeps
<1> QED BY <1>2, <1>3, <1>4 DEF IInv, Grows

LEMMA OlderFacts ==
    /\ Old \in Nat
    /\ \A x \in 0..Old : Older(x) \in 0..Old /\ Older(x) <= x + 1
    /\ \A x, y \in 0..Old : x <= y + Delay => Older(x) <= Older(y) + Delay
BY ResolverAssumption DEF Older, Old

LEMMA InvTick ==
    ASSUME IInv, Tick
    PROVE  IInv'
<1>1. Types'
    BY TickTypes DEF IInv
<1>2. /\ Grows /\ ChainShape'
      /\ \A d \in Dids :
            /\ Length(d)' = Length(d)
            /\ \A i \in 1..Length(d) : chain'[d][i].age = Older(chain[d][i].age)
    BY <1>1, TickChain DEF IInv
<1>3. /\ \A d \in Dids : file'[d] = IF file[d] = None THEN None
                                    ELSE [file[d] EXCEPT !.age = Older(@)]
      /\ call' = IF call = None THEN None ELSE [call EXCEPT !.age = @ + 1]
      /\ UNCHANGED <<last, own>>
    BY DEF Tick
<1>4. ASSUME NEW d \in Dids
      PROVE  FileSound(d)'
    <2> SUFFICES ASSUME file'[d] # None PROVE FileSound(d)'
        BY DEF FileSound
    <2>1. file[d] # None /\ file[d] \in File /\ Shown(d, file[d].answer)
          /\ Fresh(d, file[d].answer) /\ file[d].answer.status # "notfound"
        BY <1>3, DidFacts
    <2>2. file'[d].answer = file[d].answer /\ file'[d].age = Older(file[d].age)
        BY <1>3, <2>1 DEF File
    <2>3. PICK a, y : a = file[d].answer /\ y = file[d].age
        OBVIOUS
    <2>4. y \in 0..Old /\ Delay \in Nat /\ Behind(d, a, y + Delay)
        BY <2>1, <2>3, ResolverAssumption DEF File, IInv, FileSound
    <2>5. Shown(d, a)'
        BY <1>2, <2>1, <2>3, GrowsKeeps
    <2>6. Fresh(d, a)'
        BY <1>3, <2>1, <2>3 DEF Fresh, Newest
    <2>7. Behind(d, a, Older(y) + Delay)'
        <3> SUFFICES ASSUME NEW i \in 1..Length(d), i > Newest(a)
                     PROVE  chain'[d][i].age <= Older(y) + Delay
            BY <1>2 DEF Behind, Newest, Older, Old
        <3>1. chain[d][i].age \in 0..Old /\ chain[d][i].age <= y + Delay
            BY <2>4, Chains DEF IInv, Behind
        <3> QED BY <1>2, <2>4, <3>1, OlderFacts
    <2>8. Older(y)' = Older(y)
        BY DEF Older, Old
    <2> QED BY <2>1, <2>2, <2>3, <2>5, <2>6, <2>7, <2>8 DEF FileSound
<1>5. \A d \in Dids : Holds(d, last[d])' /\ (own[d] <= Length(d))'
    BY <1>2, <1>3, ResultKeeps
<1>6. CallSound'
    <2> SUFFICES ASSUME call' # None PROVE CallSound'
        BY DEF CallSound
    <2>1. call # None /\ call \in Call /\ call.did \in Dids /\ call.age \in Nat
        BY <1>3, CallFacts, ResolverAssumption
    <2>2. /\ call'.did = call.did /\ call'.by = call.by /\ call'.answer = call.answer
          /\ call'.age = call.age + 1 /\ call'.pc = call.pc /\ call'.tx = call.tx
        BY <1>3, <2>1 DEF Call
    <2>3. PICK d, a, y : d = call.did /\ a = call.answer /\ y = call.age
        OBVIOUS
    <2>4. d \in Dids /\ y \in Nat /\ Shown(d, a) /\ Fresh(d, a) /\ Behind(d, a, y)
        BY <2>1, <2>3, CallFacts
    <2>5. Shown(d, a)'
        BY <1>2, <2>4, GrowsKeeps
    <2>6. Fresh(d, a)'
        BY <1>3, <2>4 DEF Fresh, Newest
    <2>7. Behind(d, a, y + 1)'
        <3> SUFFICES ASSUME NEW i \in 1..Length(d), i > Newest(a)
                     PROVE  chain'[d][i].age <= y + 1
            BY <1>2, <2>4 DEF Behind, Newest
        <3>1. PICK x : x = chain[d][i].age
            OBVIOUS
        <3>2. x \in 0..Old /\ x \in Nat /\ x <= y /\ chain'[d][i].age = Older(x)
            BY <1>2, <2>4, <3>1, Chains DEF IInv, Behind
        <3>3. Older(x) \in 0..Old /\ Older(x) <= x + 1 /\ Old \in Nat
            BY <3>2, OlderFacts
        <3> HIDE DEF Older
        <3> QED BY <2>4, <3>2, <3>3
    <2>8. call'.pc = "accepted" => own[d] <= call'.tx /\ call'.tx <= Length(d)
        BY <2>1, <2>2, <2>3 DEF IInv, CallSound
    <2>9. Length(d)' = Length(call.did)' /\ Length(d)' = Length(d)
        BY <1>2, <2>2, <2>3, <2>4 DEF Length
    <2>10. call'.by \in Dids => call'.by = call'.did
        BY <2>1, <2>2, CallFacts
    <2>11. call'.pc = "accepted" => own'[d] <= call'.tx /\ call'.tx <= Length(call.did)'
        BY <1>3, <2>8, <2>9
    <2> QED BY <2>2, <2>3, <2>5, <2>6, <2>7, <2>10, <2>11 DEF CallSound
<1> QED BY <1>1, <1>2, <1>4, <1>5, <1>6 DEF IInv

LEMMA InvNext == IInv /\ [Next]_vars => IInv'
<1> SUFFICES ASSUME IInv, [Next]_vars PROVE IInv'
    OBVIOUS
<1>1. CASE UNCHANGED vars
    <2>1. UNCHANGED <<chain, file, call, last, own>>
        BY <1>1 DEF vars
    <2>2. Types' /\ ChainShape'
        BY <2>1 DEF IInv, Types, Length, ChainShape, Op
    <2>3. Grows /\ NoOlder
        BY <2>1, <2>2, SameGrows DEF IInv
    <2>4. \A d \in Dids : FileSound(d)' /\ Holds(d, last[d])' /\ (own[d] <= Length(d))'
        BY <2>1, <2>3, DidFacts, FileKeeps, ResultKeeps DEF Fresh
    <2>5. CallSound'
        <3> SUFFICES ASSUME call # None PROVE CallSound'
            BY <2>1 DEF CallSound
        <3>1. call.pc = "accepted" => own[call.did] <= call.tx /\ call.tx <= Length(call.did)
            BY DEF IInv, CallSound
        <3>2. Length(call.did)' = Length(call.did)
            BY <2>1 DEF Length
        <3>3. call'.pc = "accepted" => own[call.did] <= call'.tx /\ call'.tx <= Length(call.did)'
            BY <2>1, <3>1, <3>2
        <3> QED BY <2>1, <2>3, <3>3, CallKeeps
    <2> QED BY <2>2, <2>4, <2>5 DEF IInv
<1>2. CASE Next
    BY <1>2, InvResolveCached, InvAsk, InvAskFails, InvElsewhere, InvKeep, InvKeepFails,
       InvAccept, InvEnds, InvDone, InvReset, InvTick
    DEF Next
<1> QED BY <1>1, <1>2

THEOREM Invariant == Spec => []IInv
BY InvInit, InvNext, PTL DEF Spec

\* The cache directory holds answers that found the DID, and the chain, the calls
\* and the results are of their types.
THEOREM TypeCorrect == Spec => []TypeOK
<1>1. IInv => TypeOK
    <2> SUFFICES ASSUME IInv PROVE TypeOK
        OBVIOUS
    <2>1. ASSUME NEW d \in Dids
          PROVE  /\ Length(d) <= MaxTx
                 /\ \A i \in DOMAIN chain[d] : chain[d][i] \in [op : Ops, age : 0..Old]
                 /\ file[d] # None =>
                       /\ file[d] \in [answer : Answers, age : 0..Old]
                       /\ file[d].answer.status # "notfound"
                       /\ file[d].answer.txs # <<>>
                 /\ last[d] \in [kind : Statuses \cup {"never", "unreachable", "malformed"},
                                 tx : 0..MaxTx, upto : 0..MaxTx]
        <3>1. Length(d) <= MaxTx /\ \A i \in DOMAIN chain[d] : chain[d][i] \in Tx
            BY Chains DEF IInv
        <3>2. file[d] # None => /\ file[d] \in File
                                /\ file[d].answer.status # "notfound"
                                /\ file[d].answer.txs # <<>>
            BY DidFacts DEF Shown
        <3>3. last[d] \in Result
            BY DidFacts
        <3> QED BY <3>1, <3>2, <3>3 DEF Tx, File, Result
    <2>2. call # None => call \in Call
        BY DEF IInv, Types
    <2>3. own \in [Dids -> Nat]
        BY DEF IInv, Types
    <2> QED BY <2>1, <2>2, <2>3 DEF TypeOK, Call
<1> QED BY <1>1, Invariant, PTL

\* No answer in the cache is older than a publication of this process that has
\* returned, whatever queries, failures, crashes and other processes came between
\* (ResolveCache_InvalidateDID and the forced resolve of the publications).
THEOREM OwnWritesAreSeen == Spec => []OwnWritesSeen
<1>1. IInv => OwnWritesSeen
    BY DidFacts DEF OwnWritesSeen, Fresh
<1> QED BY <1>1, Invariant, PTL

\* A usable answer is behind the chain by no more than the time to live and the
\* time the answer was on its way.
THEOREM StalenessIsBounded == Spec => []BoundedStaleness
<1>1. IInv => BoundedStaleness
    <2> SUFFICES ASSUME IInv, NEW d \in Dids, Usable(d), NEW i \in DOMAIN chain[d],
                        i > Newest(file[d].answer)
                 PROVE  chain[d][i].age <= Ttl + Delay
        BY DEF BoundedStaleness
    <2>1. i \in 1..Length(d) /\ chain[d][i].age \in Nat
        BY Chains DEF IInv
    <2>2. /\ file[d] # None /\ file[d].age <= Ttl /\ file[d].age \in Nat
          /\ Ttl \in Nat /\ Delay \in Nat
        BY DidFacts, ResolverAssumption DEF Usable, File, Old
    <2>3. chain[d][i].age <= file[d].age + Delay
        BY <2>1, <2>2 DEF IInv, FileSound, Behind
    <2> QED BY <2>1, <2>2, <2>3
<1> QED BY <1>1, Invariant, PTL

\* What a resolve returned is a document of the chain, given as deactivated only
\* when it is; and only of a DID that was updated before it was deactivated an
\* answer makes no sense (DIDBackend_ResolveDID, ResolveResult_FromJson).
THEOREM AnswersAreTrue == Spec => []AnswersTrue
<1>1. IInv => AnswersTrue
    <2> SUFFICES ASSUME IInv, NEW d \in Dids
                 PROVE  /\ last[d].kind = "valid" =>
                              last[d].tx = last[d].upto /\ Op(d, last[d].tx) \in DocOps
                        /\ last[d].kind = "deactivated" =>
                              /\ last[d].upto = last[d].tx + 1
                              /\ Op(d, last[d].upto) = "deactivate"
                        /\ last[d].kind = "malformed" => Deactivated(d) /\ Length(d) > 2
        BY DEF AnswersTrue
    <2>1. Holds(d, last[d])
        BY DidFacts
    <2> QED BY <2>1 DEF Holds, Deactivated
<1> QED BY <1>1, Invariant, PTL

--------------------------------------------------------------------------------
\* The reader.

Lengths == [d \in Dids |-> Length(d)]

Views == [d \in Dids |-> last[d].upto]

\* Nothing that the reader sees changes.
LEMMA ReaderStutters ==
    ASSUME \A d \in Dids : Length(d)' = Length(d) /\ last'[d].upto = last[d].upto, own' = own
    PROVE  UNCHANGED Reader!vars
BY DEF Reader!vars

\* A resolve of d returns what is not behind what was there.
LEMMA ReaderReads ==
    ASSUME IInv, NEW d \in Dids, NEW v \in Result, last' = [last EXCEPT ![d] = v],
           chain' = chain, own' = own, last[d].upto <= v.upto, v.upto <= Length(d),
           v.upto = last[d].upto \/ own[d] <= v.upto
    PROVE  Reader!Next \/ UNCHANGED Reader!vars
<1>1. /\ \A e \in Dids : Length(e)' = Length(e)
      /\ \A e \in Dids : last'[e] = IF e = d THEN v ELSE last[e]
    BY DEF IInv, Types, Length
<1>2. CASE v.upto = last[d].upto
    BY <1>1, <1>2, ReaderStutters
<1>3. CASE own[d] <= v.upto
    <2>1. Views' = [Views EXCEPT ![d] = v.upto] /\ Lengths' = Lengths
        <3>1. \A e \in Dids : last'[e].upto = IF e = d THEN v.upto ELSE last[e].upto
            BY <1>1
        <3>2. Views' = [e \in Dids |-> IF e = d THEN v.upto ELSE last[e].upto]
            BY <3>1 DEF Views
        <3>3. Views' = [Views EXCEPT ![d] = v.upto]
            BY <3>2 DEF Views
        <3>4. Lengths' = Lengths
            BY <1>1 DEF Lengths
        <3> QED BY <3>3, <3>4
    <2>2. v.upto \in last[d].upto..Length(d)
        BY DidFacts, ResolverAssumption DEF Result
    <2>3. v.upto \in Views[d]..Lengths[d] /\ v.upto >= own[d]
        BY <1>3, <2>2 DEF Views, Lengths
    <2>4. Reader!Read(d)
        BY <2>1, <2>3 DEF Reader!Read, Views, Lengths
    <2> QED BY <2>4 DEF Reader!Next
<1> QED BY <1>2, <1>3

\* A transaction of d is settled.
LEMMA ReaderGrows ==
    ASSUME IInv, NEW d \in Dids, NEW op \in Ops, NEW base, Fits(d, op, base), Settle(d, op),
           UNCHANGED <<file, last, own>>, IInv'
    PROVE  Reader!Next
<1>1. \A e \in Dids : Length(e)' = IF e = d THEN Length(d) + 1 ELSE Length(e)
    BY SettleGrows DEF IInv, Types
<1>2. Lengths' = [Lengths EXCEPT ![d] = @ + 1] /\ Views' = Views
    BY <1>1 DEF Lengths, Views
<1>3. Reader!Grow(d)
    BY <1>2 DEF Reader!Grow, Lengths, Views
<1> QED BY <1>3 DEF Reader!Next

LEMMA RefinementInit == Init => Reader!Init
<1> SUFFICES ASSUME Init PROVE Reader!Init
    OBVIOUS
<1>1. \A d \in Dids : Length(d) = 0 /\ last[d].upto = 0
    BY DEF Init, Length, Found
<1> QED BY <1>1 DEF Init, Reader!Init

LEMMA RefinementNext == IInv /\ [Next]_vars => [Reader!Next]_(Reader!vars)
<1> SUFFICES ASSUME IInv, [Next]_vars PROVE Reader!Next \/ UNCHANGED Reader!vars
    OBVIOUS
<1>0. IInv'
    BY InvNext
<1>1. ASSUME NEW d \in Dids, ResolveCached(d)
      PROVE  Reader!Next \/ UNCHANGED Reader!vars
    <2> DEFINE a == FromJson(file[d].answer, FALSE)
               v == Verdict(d, a)
    <2>1. /\ file[d] # None /\ last' = [last EXCEPT ![d] = v] /\ UNCHANGED <<chain, own>>
        BY <1>1 DEF ResolveCached, Usable
    <2>2. /\ a \in Answers /\ Shown(d, a) /\ Newest(a) = Newest(file[d].answer)
        BY <2>1, DidFacts, FromJsonShown
    <2>3. Fresh(d, a) /\ Newest(a) <= Length(d) /\ last[d].upto <= Length(d)
        BY <2>1, <2>2, DidFacts DEF Fresh
    <2> HIDE DEF a
    <2>4. /\ v \in Result /\ Holds(d, v) /\ last[d].upto <= v.upto
          /\ v.upto = last[d].upto \/ own[d] <= v.upto
        BY <2>2, <2>3, VerdictHolds DEF IInv
    <2> HIDE DEF v
    <2> QED BY <2>1, <2>4, ReaderReads DEF Holds
<1>2. CASE Keep
    <2> DEFINE d == call.did
               v == Verdict(d, call.answer)
    <2>1. /\ call # None /\ UNCHANGED <<chain, own>>
          /\ last' = IF call.kind = "resolve" THEN [last EXCEPT ![d] = v] ELSE last
        BY <1>2 DEF Keep
    <2>2. d \in Dids
        BY <2>1, CallFacts
    <2>3. /\ v \in Result /\ Holds(d, v) /\ last[d].upto <= v.upto
          /\ v.upto = last[d].upto \/ own[d] <= v.upto
        BY <2>1, <2>2, CallFacts, DidFacts, VerdictHolds DEF IInv
    <2> HIDE DEF v, d
    <2>4. CASE call.kind = "resolve"
        BY <2>1, <2>2, <2>3, <2>4, ReaderReads DEF Holds
    <2>5. CASE call.kind # "resolve"
        BY <2>1, <2>5, ReaderStutters DEF Length
    <2> QED BY <2>4, <2>5
<1>3. ASSUME NEW d \in Dids, AskFails(d)
      PROVE  Reader!Next \/ UNCHANGED Reader!vars
    <2> DEFINE v == Failed(d, "unreachable")
    <2>1. last' = [last EXCEPT ![d] = v] /\ UNCHANGED <<chain, own>>
        BY <1>3 DEF AskFails
    <2>2. v \in Result /\ v.upto = last[d].upto /\ v.upto <= Length(d) /\ last[d].upto \in Nat
        BY FailedHolds, DidFacts
    <2> HIDE DEF v
    <2>3. last[d].upto <= v.upto
        BY <2>2
    <2> QED BY <2>1, <2>2, <2>3, ReaderReads
<1>4. CASE KeepFails
    <2> DEFINE d == call.did
               v == Failed(d, "unreachable")
    <2>1. /\ call # None /\ UNCHANGED <<chain, own>>
          /\ last' = IF call.kind = "resolve" THEN [last EXCEPT ![d] = v] ELSE last
        BY <1>4 DEF KeepFails
    <2>2. d \in Dids
        BY <2>1, CallFacts
    <2>3. v \in Result /\ v.upto = last[d].upto /\ v.upto <= Length(d) /\ last[d].upto \in Nat
        BY <2>2, FailedHolds, DidFacts
    <2> HIDE DEF v, d
    <2>4. CASE call.kind = "resolve"
        <3>1. last[d].upto <= v.upto
            BY <2>3
        <3> QED BY <2>1, <2>2, <2>3, <2>4, <3>1, ReaderReads
    <2>5. CASE call.kind # "resolve"
        BY <2>1, <2>5, ReaderStutters DEF Length
    <2> QED BY <2>4, <2>5
<1>5. CASE Accept
    <2> DEFINE d == call.did
               op == IF call.kind # "publish" THEN "deactivate"
                     ELSE IF call.answer.txs = <<>> THEN "create" ELSE "update"
    <2>1. /\ call # None /\ Fits(d, op, Newest(call.answer)) /\ Settle(d, op)
          /\ UNCHANGED <<file, last, own>>
        BY <1>5 DEF Accept
    <2>2. d \in Dids /\ op \in Ops
        BY <2>1, CallFacts DEF Ops, DocOps
    <2> HIDE DEF d, op
    <2> QED BY <1>0, <2>1, <2>2, ReaderGrows
<1>6. ASSUME NEW d \in Dids, NEW op \in Ops, Elsewhere(d, op)
      PROVE  Reader!Next
    <2>1. Fits(d, op, Length(d)) /\ Settle(d, op) /\ UNCHANGED <<file, last, own>>
        BY <1>6 DEF Elsewhere
    <2> QED BY <1>0, <2>1, ReaderGrows
<1>7. CASE Done
    <2> DEFINE d == call.did
    <2>1. /\ call # None /\ call.pc = "accepted" /\ UNCHANGED <<chain, last>>
          /\ own' = IF call.by = d THEN [own EXCEPT ![d] = call.tx] ELSE own
        BY <1>7 DEF Done
    <2>2. d \in Dids /\ call.tx \in Nat
        BY <2>1, CallFacts, ResolverAssumption
    <2>3. own[d] <= call.tx /\ call.tx <= Length(d) /\ own[d] \in Nat /\ Length(d) \in Nat
        BY <2>1, <2>2, DidFacts DEF IInv, CallSound
    <2>4. CASE call.by = d
        <3>1. call.tx \in own[d]..Lengths[d]
            BY <2>2, <2>3 DEF Lengths
        <3>2. Lengths' = Lengths /\ Views' = Views
            BY <2>1 DEF Lengths, Views, Length
        <3>3. Reader!Publish(d)
            BY <2>1, <2>4, <3>1, <3>2 DEF Reader!Publish, Lengths, Views
        <3> QED BY <2>2, <3>3 DEF Reader!Next
    <2>5. CASE call.by # d
        BY <2>1, <2>5, ReaderStutters DEF Length
    <2> QED BY <2>4, <2>5
<1>8. CASE Tick
    <2>1. \A d \in Dids : Length(d)' = Length(d)
        BY <1>0, <1>8, TickChain DEF IInv
    <2> QED BY <1>8, <2>1, ReaderStutters DEF Tick
<1>9. CASE UNCHANGED <<chain, last, own>>
    BY <1>9, ReaderStutters DEF Length
<1>10. \/ Next
       \/ UNCHANGED <<chain, last, own>>
    BY DEF vars
<1>11. ASSUME NEW kind, NEW d, NEW by, NEW force, Ask(kind, d, by, force)
       PROVE  UNCHANGED <<chain, last, own>>
    BY <1>11 DEF Ask
<1>12. ASSUME Reject \/ Crash \/ Reset
       PROVE  UNCHANGED <<chain, last, own>>
    BY <1>12 DEF Reject, Crash, Reset
<1> QED BY <1>1, <1>2, <1>3, <1>4, <1>5, <1>6, <1>7, <1>8, <1>9, <1>10, <1>11, <1>12 DEF Next

\* Answers never go back to an older version of a DID, nor behind this process's
\* own publications, with or without the cache (DID_Resolve, DIDBackend_ResolveDID).
THEOREM Refinement == Spec => ImplementsReader
BY Invariant, RefinementInit, RefinementNext, PTL DEF Spec, ImplementsReader, Reader!Spec

================================================================================
