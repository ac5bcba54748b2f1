------------------------------ MODULE TxnPool ------------------------------
(***************************************************************************)
(* The transaction pool of a validator: how a transaction that arrives     *)
(* over the client or the validator gRPC service is checked, pre-processed *)
(* against the running nonces and put where the block producer finds it.   *)
(*                                                                         *)
(* Every accepted request is handled by a job of a thread pool.  The jobs  *)
(* run concurrently and share nothing but the databases; a database read   *)
(* or write is atomic, the handler between them is not.  A job's stage     *)
(* names the next database access it makes.                                *)
(*                                                                         *)
(* The balance checks and the fees are not modelled here: a transaction    *)
(* that passes its nonce check may be refused for its fees or not.  The    *)
(* pool is drained by the block producer (module BlockProducer).           *)
(*                                                                         *)
(* A definition whose name ends in "Faulty" is not part of the model: it   *)
(* is a variant of the definition after it with a plausible mistake, which *)
(* shows that a property notices the mistake.                              *)
(***************************************************************************)
EXTENDS Integers, FiniteSetsExt

CONSTANTS
    Txn,        \* transactions, each named by its hash
    Wallet,     \* wallets that sign transactions
    NonceOf,    \* NonceOf[t][w]: the nonce t carries for w, 0 if w does not sign t
    Deferred,   \* expense ratio, contract execute and instantiate transactions
    Forged,     \* transactions whose hash or signature does not verify
    Job,        \* requests the node can be handling at the same time
    OncePerHash,\* TRUE: nobody sends a transaction that is being handled
    None        \* no transaction

ASSUME NonceAssumption == NonceOf \in [Txn -> [Wallet -> Nat]]
ASSUME SignedAssumption == \A t \in Txn : \E w \in Wallet : NonceOf[t][w] # 0
ASSUME KindAssumption == Deferred \subseteq Txn /\ Forged \subseteq Txn
ASSUME NoneAssumption == None \notin Txn
ASSUME OncePerHashAssumption == OncePerHash \in BOOLEAN

VARIABLES
    received,    \* recieved_txn_tracker: hashes of peer requests in progress
    pending,     \* db_transactions: waiting for their nonce, or deferred
    processed,   \* db_processed_txns: pre-processed, waiting for a block
    statusFee,   \* db_status_fee: txns whose status and fees are stored
    blockTxns,   \* db_block_txns: hashes that must not be taken again
    preNonce,    \* db_preprocessed_nonce: last nonce admitted, 0 for no entry
    walletNonce, \* db_wallet_nonce: last nonce in a stored block, 0 for no entry
    stage,       \* stage[j]: what the job does next
    doing        \* doing[j]: the transaction of the job

poolVars == <<received, pending, processed, statusFee, blockTxns,
              preNonce, walletNonce, stage, doing>>

Stages == {"idle", "track", "verify", "check", "hold", "holdRelease", "nonce",
           "execute", "fee", "store", "mark", "release"}

Signers(t) == {w \in Wallet : NonceOf[t][w] # 0}

(* The nonce in a transaction's key: the sum over its signers.             *)
KeyNonce(t) == MapThenSumSet(LAMBDA w : NonceOf[t][w], Wallet)

PoolTypeOK ==
    /\ received \subseteq Txn
    /\ pending \subseteq Txn
    /\ processed \subseteq Txn
    /\ statusFee \subseteq Txn
    /\ blockTxns \subseteq Txn
    /\ preNonce \in [Wallet -> Nat]
    /\ walletNonce \in [Wallet -> Nat]
    /\ stage \in [Job -> Stages]
    /\ doing \in [Job -> Txn \cup {None}]
    /\ \A j \in Job : stage[j] # "idle" => doing[j] \in Txn

PoolInit ==
    /\ received = {}
    /\ pending = {}
    /\ processed = {}
    /\ statusFee = {}
    /\ blockTxns = {}
    /\ preNonce = [w \in Wallet |-> 0]
    /\ walletNonce = [w \in Wallet |-> 0]
    /\ stage = [j \in Job |-> "idle"]
    /\ doing = [j \in Job |-> None]

-----------------------------------------------------------------------------
(* Nonces. *)

(* The nonce a wallet's next transaction is compared with: the running one *)
(* if there is one, else the one of the last block.                        *)
CurrentNonce(w) == IF preNonce[w] # 0 THEN preNonce[w] ELSE walletNonce[w]

NonceUsed(t) == \E w \in Signers(t) : NonceOf[t][w] <= CurrentNonce(w)
NonceNextFaulty(t) == \A w \in Signers(t) : NonceOf[t][w] > CurrentNonce(w)

NonceNext(t) == \A w \in Signers(t) : NonceOf[t][w] = CurrentNonce(w) + 1

(* The verdict goes to the first signer whose nonce does not fit.  With    *)
(* several signers both verdicts may be there; which one comes first       *)
(* depends on the order of the keys in the transaction.                    *)
NonceAhead(t) == \E w \in Signers(t) : NonceOf[t][w] > CurrentNonce(w) + 1

(* Nobody signs two transactions with one nonce.                           *)
Numbered ==
    \A t, u \in Txn, w \in Wallet :
        NonceOf[t][w] # 0 /\ NonceOf[t][w] = NonceOf[u][w] => t = u

AdmitNonce(t) ==
    preNonce' = [w \in Wallet |->
                    IF w \in Signers(t) THEN NonceOf[t][w] ELSE preNonce[w]]

-----------------------------------------------------------------------------
(* Requests. *)

Start(j, t, s) ==
    /\ stage[j] = "idle"
    /\ OncePerHash => \A i \in Job : doing[i] # t
    /\ stage' = [stage EXCEPT ![j] = s]
    /\ doing' = [doing EXCEPT ![j] = t]
    /\ UNCHANGED <<received, pending, processed, statusFee, blockTxns,
                   preNonce, walletNonce>>

ClientRequest(j, t) == Start(j, t, "verify")

(* A peer's request is refused when the tracker holds its hash; the check  *)
(* and the insertion below are two critical sections of the tracker.       *)
PeerRequest(j, t) == t \notin received /\ Start(j, t, "track")

Goto(j, s) == stage' = [stage EXCEPT ![j] = s] /\ UNCHANGED doing

FinishFaulty(j) == doing' = [doing EXCEPT ![j] = None] /\ UNCHANGED stage

Finish(j) ==
    /\ stage' = [stage EXCEPT ![j] = "idle"]
    /\ doing' = [doing EXCEPT ![j] = None]

Track(j) ==
    /\ stage[j] = "track"
    /\ received' = received \cup {doing[j]}
    /\ Goto(j, "verify")
    /\ UNCHANGED <<pending, processed, statusFee, blockTxns, preNonce, walletNonce>>

(* verify_txn: known or forged transactions are dropped, and the tracker   *)
(* keeps their hash.                                                       *)
Verify(j) ==
    LET t == doing[j] IN
    /\ stage[j] = "verify"
    /\ IF t \in pending \cup processed \cup blockTxns \cup Forged
       THEN Finish(j)
       ELSE Goto(j, "check")
    /\ UNCHANGED <<received, pending, processed, statusFee, blockTxns,
                   preNonce, walletNonce>>

-----------------------------------------------------------------------------
(* Pre-processing. *)

Check(j) ==
    LET t == doing[j] IN
    /\ stage[j] = "check"
    /\ IF t \in Deferred
       THEN IF t \in blockTxns THEN Finish(j) ELSE Goto(j, "hold")
       ELSE IF t \in blockTxns \cup pending
            THEN Goto(j, "release")
            ELSE Goto(j, "nonce")
    /\ UNCHANGED <<received, pending, processed, statusFee, blockTxns,
                   preNonce, walletNonce>>

(* A deferred transaction waits for the block producer; its job ends       *)
(* without releasing the tracker.                                          *)
Hold(j) ==
    /\ stage[j] = "hold"
    /\ pending' = pending \cup {doing[j]}
    /\ Finish(j)
    /\ UNCHANGED <<received, processed, statusFee, blockTxns, preNonce, walletNonce>>

CheckNonce(j) ==
    LET t == doing[j] IN
    /\ stage[j] = "nonce"
    /\ \/ NonceNext(t) /\ Goto(j, "execute")
       \/ NonceAhead(t) /\ Goto(j, "holdRelease")
       \/ NonceUsed(t) /\ Goto(j, "release")
    /\ UNCHANGED <<received, pending, processed, statusFee, blockTxns,
                   preNonce, walletNonce>>

HoldAhead(j) ==
    /\ stage[j] = "holdRelease"
    /\ pending' = pending \cup {doing[j]}
    /\ Goto(j, "release")
    /\ UNCHANGED <<received, processed, statusFee, blockTxns, preNonce, walletNonce>>

(* The base fees are taken or the transaction is refused.  One that pays   *)
(* is admitted, even with a failed status, and its nonces are recorded.    *)
Execute(j) ==
    /\ stage[j] = "execute"
    /\ AdmitNonce(doing[j])
    /\ Goto(j, "fee")
    /\ UNCHANGED <<received, pending, processed, statusFee, blockTxns, walletNonce>>

RefuseFaulty(j) ==
    /\ stage[j] = "execute"
    /\ AdmitNonce(doing[j])
    /\ Goto(j, "release")
    /\ UNCHANGED <<received, pending, processed, statusFee, blockTxns, walletNonce>>

Refuse(j) ==
    /\ stage[j] = "execute"
    /\ Goto(j, "release")
    /\ UNCHANGED <<received, pending, processed, statusFee, blockTxns,
                   preNonce, walletNonce>>

StoreFeeFaulty(j) ==
    /\ stage[j] = "fee"
    /\ Goto(j, "store")
    /\ UNCHANGED <<received, pending, processed, statusFee, blockTxns,
                   preNonce, walletNonce>>

StoreFeeMarkFaulty(j) ==
    /\ stage[j] = "fee"
    /\ statusFee' = statusFee \cup {doing[j]}
    /\ blockTxns' = blockTxns \cup {doing[j]}
    /\ Goto(j, "store")
    /\ UNCHANGED <<received, pending, processed, preNonce, walletNonce>>

StoreFee(j) ==
    /\ stage[j] = "fee"
    /\ statusFee' = statusFee \cup {doing[j]}
    /\ Goto(j, "store")
    /\ UNCHANGED <<received, pending, processed, blockTxns, preNonce, walletNonce>>

StoreProcessed(j) ==
    /\ stage[j] = "store"
    /\ processed' = processed \cup {doing[j]}
    /\ Goto(j, "mark")
    /\ UNCHANGED <<received, pending, statusFee, blockTxns, preNonce, walletNonce>>

MarkBlockTxn(j) ==
    /\ stage[j] = "mark"
    /\ blockTxns' = blockTxns \cup {doing[j]}
    /\ Goto(j, "release")
    /\ UNCHANGED <<received, pending, processed, statusFee, preNonce, walletNonce>>

Release(j) ==
    /\ stage[j] = "release"
    /\ received' = received \ {doing[j]}
    /\ Finish(j)
    /\ UNCHANGED <<pending, processed, statusFee, blockTxns, preNonce, walletNonce>>

-----------------------------------------------------------------------------
Request(j) == \E t \in Txn : ClientRequest(j, t) \/ PeerRequest(j, t)

JobStep(j) ==
    \/ Track(j) \/ Verify(j) \/ Check(j) \/ Hold(j)
    \/ CheckNonce(j) \/ HoldAhead(j) \/ Execute(j) \/ Refuse(j)
    \/ StoreFee(j) \/ StoreProcessed(j) \/ MarkBlockTxn(j) \/ Release(j)

PoolNext == \E j \in Job : Request(j) \/ JobStep(j)
=============================================================================
