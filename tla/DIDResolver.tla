------------------------------ MODULE DIDResolver ------------------------------
(***************************************************************************)
(* DID_Resolve and DID_ResolveBiography of one process, with the cache of  *)
(* answers it keeps on disk, and the publications that must drop them:     *)
(* PublishDID, DeactivateDID and DeactivateDIDByAuthorizor.  Other         *)
(* processes publish at any time.                                          *)
(*                                                                         *)
(* A transaction is a position on the DID's chain and a document is the    *)
(* position of the transaction that carries it.  Times are ages: how long  *)
(* ago a transaction was settled, a cache file written, an answer given.   *)
(* They stop counting at Old, when nothing depends on them any more.       *)
(***************************************************************************)
EXTENDS Naturals, Sequences

CONSTANTS
    Dids,
    Authorizors,  \* DIDs with authorization keys, and nothing else of interest
    Ttl,          \* DIDBackend_SetTTL
    Delay,        \* bound: how long an answer is on its way to the cache
    MaxTx,        \* bound: transactions of each DID
    None          \* no file; no call

ASSUME ResolverAssumption ==
    /\ Ttl \in Nat
    /\ Delay \in Nat
    /\ MaxTx \in Nat
    /\ Authorizors \cap Dids = {}

VARIABLES
    chain,        \* the transactions of each DID, oldest first
    file,         \* the cache directory: an answer and the file's age
    call,         \* the call that is waiting for the chain or the cache
    last,         \* what the last resolve of each DID returned
    own           \* history: the last transaction this process published as subject

vars == <<chain, file, call, last, own>>

Old == Ttl + Delay + 1

Older(age) == IF age < Old THEN age + 1 ELSE Old

DocOps == {"create", "update"}      \* a transfer is an update here

Ops == DocOps \cup {"deactivate"}

Statuses == {"valid", "deactivated", "notfound"}

Kinds == {"resolve", "biography", "publish", "deactivate", "authorize"}

Length(d) == Len(chain[d])

Op(d, i) == chain[d][i].op

Deactivated(d) == Length(d) > 0 /\ Op(d, Length(d)) = "deactivate"

Newest(answer) == IF answer.txs = <<>> THEN 0 ELSE answer.txs[1]

--------------------------------------------------------------------------------
\* What the chain says of a DID: all transactions, or the newest one and, of a
\* deactivated DID, the one before.  Newest first.
ChainAnswer(d, all) ==
    LET n == Length(d)
        Back(k) == [i \in 1..k |-> n + 1 - i]
    IN  IF n = 0 THEN [status |-> "notfound", txs |-> <<>>]
        ELSE IF Deactivated(d)
        THEN [status |-> "deactivated", txs |-> Back(IF all THEN n ELSE 2)]
        ELSE [status |-> "valid", txs |-> Back(IF all THEN n ELSE 1)]

\* Bug for the mutants: only one transaction is read, whatever the status.
FromJsonFirst(answer, all) ==
    IF ~all /\ Len(answer.txs) > 0
    THEN [answer EXCEPT !.txs = SubSeq(@, 1, 1)]
    ELSE answer

\* How much of an answer, or of a cache file, is read.
FromJson(answer, all) ==
    IF ~all /\ answer.status = "valid"
    THEN [answer EXCEPT !.txs = SubSeq(@, 1, 1)]
    ELSE answer

\* Bug for the mutants: a cache file is used whatever its age.
UsableForever(d) == file[d] # None

\* The cache has an answer and it is not too old.
Usable(d) == file[d] # None /\ file[d].age <= Ttl

Found(kind, tx, upto) == [kind |-> kind, tx |-> tx, upto |-> upto]

Failed(d, kind) == Found(kind, 0, last[d].upto)

\* What DIDBackend_ResolveDID makes of the transactions it got.
Verdict(d, answer) ==
    LET txs == answer.txs
    IN  CASE answer.status = "notfound" -> Found("notfound", 0, 0)
          [] /\ answer.status = "valid"
             /\ Op(d, txs[1]) \in DocOps -> Found("valid", txs[1], txs[1])
          [] /\ answer.status = "deactivated"
             /\ Len(txs) = 2
             /\ Op(d, txs[1]) = "deactivate"
             /\ Op(d, txs[2]) \in DocOps -> Found("deactivated", txs[2], txs[1])
          [] OTHER -> Failed(d, "malformed")

--------------------------------------------------------------------------------
Init ==
    /\ chain = [d \in Dids |-> <<>>]
    /\ file = [d \in Dids |-> None]
    /\ call = None
    /\ last = [d \in Dids |-> Found("never", 0, 0)]
    /\ own = [d \in Dids |-> 0]

\* DID_Resolve without force: the cache is asked first.
ResolveCached(d) ==
    /\ call = None
    /\ Usable(d)
    /\ last' = [last EXCEPT ![d] = Verdict(d, FromJson(file[d].answer, FALSE))]
    /\ UNCHANGED <<chain, file, call, own>>

\* The resolver is called: by DID_Resolve with force or without a usable file, by
\* DID_ResolveBiography, and, with force, by the publications.  The subject of a
\* publication is d, its signer is by.
Ask(kind, d, by, force) ==
    /\ call = None
    /\ force \/ ~Usable(d)
    /\ kind # "resolve" => force
    /\ IF kind = "authorize" THEN by \in Authorizors ELSE by = d
    /\ call' = [kind |-> kind, did |-> d, by |-> by, pc |-> "answered", age |-> 0,
                answer |-> FromJson(ChainAnswer(d, kind = "biography"),
                                    kind = "biography"),
                tx |-> 0]
    /\ UNCHANGED <<chain, file, last, own>>

\* The resolver gives no data.
AskFails(d) ==
    /\ call = None
    /\ last' = [last EXCEPT ![d] = Failed(d, "unreachable")]
    /\ UNCHANGED <<chain, file, call, own>>

\* Bug for the mutants: a file that is there is not written again.
KeptOnce(d, answer) ==
    IF answer.status = "notfound" \/ file[d] # None THEN file[d]
    ELSE [answer |-> answer, age |-> 0]

\* Bug for the mutants: that there is no DID is kept as well.
KeptAlways(d, answer) == [answer |-> answer, age |-> 0]

\* The cache file after an answer: nothing is kept of a DID that is not there.
Kept(d, answer) ==
    IF answer.status = "notfound" THEN file[d] ELSE [answer |-> answer, age |-> 0]

\* May the publication go on, once the chain was asked?  PublishDID refuses a
\* deactivated DID, deactivating does not look.
Proceeds(kind, verdict) ==
    \/ kind = "publish" /\ verdict.kind \in {"valid", "notfound"}
    \/ kind \in {"deactivate", "authorize"} /\ verdict.kind \in {"valid", "deactivated"}

\* The answer is stored in the cache, and the call goes on with it.
Keep ==
    /\ call # None /\ call.pc = "answered"
    /\ LET d == call.did
           verdict == Verdict(d, call.answer)
       IN  /\ file' = [file EXCEPT ![d] = Kept(d, call.answer)]
           /\ last' = IF call.kind = "resolve" THEN [last EXCEPT ![d] = verdict] ELSE last
           /\ call' = IF Proceeds(call.kind, verdict)
                      THEN [call EXCEPT !.pc = "ready"] ELSE None
    /\ UNCHANGED <<chain, own>>

\* The file cannot be written: what was there before is kept or lost.
KeepFails ==
    /\ call # None /\ call.pc = "answered" /\ call.answer.status # "notfound"
    /\ LET d == call.did
       IN  /\ file' \in {file, [file EXCEPT ![d] = None]}
           /\ last' = IF call.kind = "resolve"
                      THEN [last EXCEPT ![d] = Failed(d, "unreachable")] ELSE last
    /\ call' = None
    /\ UNCHANGED <<chain, own>>

Settle(d, op) == chain' = [chain EXCEPT ![d] = Append(@, [op |-> op, age |-> 0])]

\* May the transaction be settled?  An update names the transaction it follows.
Fits(d, op, base) ==
    /\ Length(d) < MaxTx
    /\ op = "create" <=> Length(d) = 0
    /\ ~Deactivated(d)
    /\ op = "update" => base = Length(d)

\* CreateIdTransaction: the chain takes the transaction or refuses it.
Accept ==
    /\ call # None /\ call.pc = "ready"
    /\ LET d == call.did
           op == IF call.kind # "publish" THEN "deactivate"
                 ELSE IF call.answer.txs = <<>> THEN "create" ELSE "update"
       IN  /\ Fits(d, op, Newest(call.answer))
           /\ Settle(d, op)
           /\ call' = [call EXCEPT !.pc = "accepted", !.tx = Length(d) + 1]
    /\ UNCHANGED <<file, last, own>>

Reject ==
    /\ call # None /\ call.pc = "ready"
    /\ call' = None
    /\ UNCHANGED <<chain, file, last, own>>

\* Bug for the mutants: the cache keeps the answer the publication asked for.
InvalidateNothing(id) == file

\* ResolveCache_InvalidateDID.
Invalidate(id) == [d \in Dids |-> IF d = id THEN None ELSE file[d]]

\* The publication returns.  Each of them drops the answer of the document's own
\* DID: for an authorizor's deactivation that is the authorizor, not the target.
Done ==
    /\ call # None /\ call.pc = "accepted"
    /\ file' = Invalidate(call.by)
    /\ own' = IF call.by = call.did THEN [own EXCEPT ![call.did] = call.tx] ELSE own
    /\ call' = None
    /\ UNCHANGED <<chain, last>>

\* The process dies in a call and starts again.  The cache directory stays.
Crash ==
    /\ call # None
    /\ call' = None
    /\ UNCHANGED <<chain, file, last, own>>

\* ResolverCache_Reset.
Reset ==
    /\ call = None
    /\ file' = [d \in Dids |-> None]
    /\ UNCHANGED <<chain, call, last, own>>

\* Another process publishes.
Elsewhere(d, op) ==
    /\ Fits(d, op, Length(d))
    /\ Settle(d, op)
    /\ UNCHANGED <<file, call, last, own>>

\* Time passes, also while an answer is on its way, but then no more than Delay.
Tick ==
    /\ call # None => call.age < Delay
    /\ chain' = [d \in Dids |-> [i \in DOMAIN chain[d] |->
                                  [chain[d][i] EXCEPT !.age = Older(@)]]]
    /\ file' = [d \in Dids |-> IF file[d] = None THEN None
                               ELSE [file[d] EXCEPT !.age = Older(@)]]
    /\ call' = IF call = None THEN None ELSE [call EXCEPT !.age = @ + 1]
    /\ UNCHANGED <<last, own>>

Next ==
    \/ \E d \in Dids :
          \/ ResolveCached(d)
          \/ \E kind \in Kinds, by \in Dids \cup Authorizors, force \in BOOLEAN : Ask(kind, d, by, force)
          \/ AskFails(d)
          \/ \E op \in Ops : Elsewhere(d, op)
    \/ Keep
    \/ KeepFails
    \/ Accept
    \/ Reject
    \/ Done
    \/ Crash
    \/ Reset
    \/ Tick

Spec == Init /\ [][Next]_vars

ResolveReturns(d) ==
    /\ call # None /\ call.kind = "resolve" /\ call.did = d
    /\ Keep \/ KeepFails

\* The code of a call runs on, time passes, and the application resolves every
\* DID without force now and then, whatever other calls it makes.  The process
\* does not die in each of these.
FairSpec ==
    /\ Spec
    /\ WF_vars(Keep) /\ WF_vars(Accept \/ Reject) /\ WF_vars(Done) /\ WF_vars(Tick)
    /\ \A d \in Dids :
          /\ SF_vars(ResolveCached(d))
          /\ SF_vars(Ask("resolve", d, d, FALSE))
          /\ SF_vars(ResolveReturns(d))

--------------------------------------------------------------------------------
Answers == [status : Statuses, txs : UNION {[1..n -> 1..MaxTx] : n \in 0..MaxTx}]

\* The types of the state; only answers that found the DID are in the cache.
TypeOK ==
    /\ \A d \in Dids :
          /\ Length(d) <= MaxTx
          /\ \A i \in DOMAIN chain[d] :
                chain[d][i] \in [op : Ops, age : 0..Old]
          /\ file[d] # None =>
                /\ file[d] \in [answer : Answers, age : 0..Old]
                /\ file[d].answer.status # "notfound"
                /\ file[d].answer.txs # <<>>
          /\ last[d] \in [kind : Statuses \cup {"never", "unreachable", "malformed"},
                          tx : 0..MaxTx, upto : 0..MaxTx]
    /\ call # None =>
          call \in [kind : Kinds, did : Dids, by : Dids \cup Authorizors,
                    pc : {"answered", "ready", "accepted"}, age : 0..Delay,
                    answer : Answers, tx : 0..MaxTx]
    /\ own \in [Dids -> Nat]

\* Once a publication has returned, no answer in the cache is older than it,
\* although the publication's own query put one there, and although other
\* queries, crashes and other processes come in between.
OwnWritesSeen ==
    \A d \in Dids : file[d] # None => Newest(file[d].answer) >= own[d]

\* What a usable answer does not tell of was settled no longer ago than the time
\* to live, and the time the answer took to get into the cache.
BoundedStaleness ==
    \A d \in Dids : Usable(d) =>
        \A i \in DOMAIN chain[d] :
            i > Newest(file[d].answer) => chain[d][i].age <= Ttl + Delay

\* A DID that was resolved is given with the newest document of its answer, and
\* as deactivated only if it is; and an answer that makes no sense is only ever
\* found for a DID that was updated before it was deactivated.
AnswersTrue ==
    \A d \in Dids :
        /\ last[d].kind = "valid" =>
              last[d].tx = last[d].upto /\ Op(d, last[d].tx) \in DocOps
        /\ last[d].kind = "deactivated" =>
              /\ last[d].upto = last[d].tx + 1
              /\ Op(d, last[d].upto) = "deactivate"
        /\ last[d].kind = "malformed" => Deactivated(d) /\ Length(d) > 2

\* Resolving is the reader of DIDReader: answers do not go back, and not behind
\* this process's own publications.
Reader == INSTANCE DIDReader WITH
    length <- [d \in Dids |-> Length(d)],
    view <- [d \in Dids |-> last[d].upto]

ImplementsReader == Reader!Spec

\* An application that keeps resolving a deactivated DID, from the cache or not,
\* stops being told that it is valid.
DeactivationNoticed ==
    \A d \in Dids : Deactivated(d) ~> (last[d].kind # "valid")

================================================================================
