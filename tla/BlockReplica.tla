---------------------------- MODULE BlockReplica ----------------------------
(***************************************************************************)
(* How a validator takes over a block of another one.  A block that comes  *)
(* from a peer, by broadcast or by synchronisation, is not copied: the     *)
(* node builds a block of its own from the transactions of the peer's      *)
(* block, with what its pool has pre-processed of them, compares the two   *)
(* and only then stores its own.  ValidateBlock's mutex lets one block     *)
(* through at a time, so there is one thread here, which runs concurrently *)
(* with the jobs of TxnPool on the same databases.                         *)
(*                                                                         *)
(* The blocks are valid: they were made by a proposer whose state is the   *)
(* chain they extend, so that their transactions fit in their order and    *)
(* pay.  What a transaction does to the balances is reduced to how often   *)
(* it has been applied; module Ledger has the balances themselves.  The    *)
(* node's own blocks (module BlockProducer) are left out, and so are       *)
(* timed, governance and smart contract transactions and the blocks that   *)
(* only register a validator.  A block keeps its transactions by type, in  *)
(* a list for each: here they are of one type.                             *)
(*                                                                         *)
(* A definition whose name ends in "Faulty" is a variant with a plausible  *)
(* mistake, not part of the model.                                         *)
(***************************************************************************)
EXTENDS TxnPool, SequencesExt

CONSTANTS
    Block,         \* blocks of peers, each named by its hash
    TxnsOf,        \* TxnsOf[b]: the transactions of b, in its order
    Parent,        \* Parent[b]: the block b follows, None for the genesis block
    Height,        \* Height[b]
    SlowRequests,  \* TRUE: a request may take longer than a block waits for it
    MaxRestarts    \* bound: how often the node restarts

ASSUME TxnsOfAssumption == TxnsOf \in [Block -> Seq(Txn)]
ASSUME ParentAssumption == Parent \in [Block -> Block \cup {None}] /\ None \notin Block
ASSUME HeightAssumption ==
    /\ Height \in [Block -> Nat]
    /\ \A b \in Block : Parent[b] # None => Height[b] = Height[Parent[b]] + 1
ASSUME SlowRequestsAssumption == SlowRequests \in BOOLEAN
ASSUME MaxRestartsAssumption == MaxRestarts \in Nat

VARIABLES
    records,    \* records[t]: how often t's records in db_processed_wallets say it ran
    fees,       \* fees[t]: how often txn_token_fees holds the fees of t
    temp,       \* temp[t]: how often the effects of t are in db_wallets_temp
    wallets,    \* wallets[t]: how often they are in db_wallets
    usedNonce,  \* nonce_tracker::used_nonce, 0 for none
    stored,     \* db_blocks, without the genesis block
    phase,      \* where the thread that holds the mutex is
    current,    \* the peer's block, or the last one
    todo,       \* transactions the phase has not reached
    known,      \* processed_keys: transactions taken as pre-processed
    fresh,      \* keys: the others
    retry,      \* fresh transactions whose nonce was ahead
    manual,     \* the transactions of the block the node builds
    listed,     \* those whose status is in that block
    feesMatch,  \* its token fees are those of the peer's block
    refused,    \* history: a block has been refused after it had been processed
    clean,      \* history: the current block came under ideal conditions
    restarts    \* how often the node has restarted

effectVars == <<records, fees, temp, wallets>>
buildVars == <<current, known, fresh, retry, manual, listed, feesMatch>>
replicaVars == <<effectVars, usedNonce, stored, phase, todo, buildVars, refused, clean>>
vars == <<poolVars, replicaVars, restarts>>

Phases == {"idle", "wrap", "known", "pass1", "apply1", "pass2", "apply2",
           "fees", "replay", "forget", "wallets", "nonces"}

NoCount == [t \in Txn |-> 0]
NoNonce == [w \in Wallet |-> 0]

TypeOK ==
    /\ PoolTypeOK
    /\ records \in [Txn -> Nat]
    /\ fees \in [Txn -> Nat]
    /\ temp \in [Txn -> Nat]
    /\ wallets \in [Txn -> Nat]
    /\ usedNonce \in [Wallet -> Nat]
    /\ stored \subseteq Block
    /\ phase \in Phases
    /\ current \in Block \cup {None}
    /\ todo \in Seq(Txn) /\ known \in Seq(Txn) /\ fresh \in Seq(Txn) /\ manual \in Seq(Txn)
    /\ retry \subseteq Txn
    /\ listed \subseteq Txn
    /\ feesMatch \in BOOLEAN
    /\ refused \in BOOLEAN
    /\ clean \in BOOLEAN
    /\ restarts \in Nat
    /\ phase # "idle" => current \in Block
    /\ phase \in {"apply1", "apply2", "forget"} => todo # <<>>

Init ==
    /\ PoolInit
    /\ records = NoCount /\ fees = NoCount /\ temp = NoCount /\ wallets = NoCount
    /\ usedNonce = NoNonce
    /\ stored = {}
    /\ phase = "idle"
    /\ current = None
    /\ todo = <<>> /\ known = <<>> /\ fresh = <<>> /\ manual = <<>>
    /\ retry = {}
    /\ listed = {}
    /\ feesMatch = FALSE
    /\ refused = FALSE
    /\ clean = FALSE
    /\ restarts = 0

-----------------------------------------------------------------------------
(* The jobs of the pool.  A job that executes a transaction leaves its     *)
(* records and its fees behind.                                            *)

Executes(j) == stage[j] = "execute" /\ stage'[j] = "fee"

PoolStep ==
    /\ \E j \in Job :
          /\ Request(j) \/ JobStep(j)
          /\ IF Executes(j)
             THEN /\ records' = [records EXCEPT ![doing[j]] = @ + 1]
                  /\ fees' = [fees EXCEPT ![doing[j]] = @ + 1]
             ELSE UNCHANGED <<records, fees>>
    /\ clean' = FALSE
    /\ UNCHANGED <<temp, wallets, usedNonce, stored, phase, todo, buildVars, refused, restarts>>

-----------------------------------------------------------------------------
(* A block arrives. *)

Tip ==
    IF stored = {} THEN None
    ELSE CHOOSE b \in stored : \A c \in stored : Height[c] <= Height[b]

(* The conditions under which nothing should go wrong: the block extends   *)
(* the chain, no request is being handled, what the pool has accepted of   *)
(* the block is a beginning of it, and no job that was late with a         *)
(* transaction of another block has set the running nonces back behind a   *)
(* marked one.                                                             *)
Undisturbed(b) ==
    /\ restarts = 0 /\ ~refused
    /\ Parent[b] = Tip
    /\ \A j \in Job : stage[j] = "idle"
    /\ ToSet(TxnsOf[b]) \cap received = {}
    /\ \E n \in 0 .. Len(TxnsOf[b]) :
          blockTxns \cap ToSet(TxnsOf[b]) = ToSet(SubSeq(TxnsOf[b], 1, n))
    /\ \A t \in blockTxns : \A w \in Signers(t) : NonceOf[t][w] <= CurrentNonce(w)

(* block_process drops a block it has, and one whose parent it has not.    *)
(* The parent need not be the last block.                                  *)
Receive(b) ==
    /\ phase = "idle"
    /\ b \notin stored
    /\ Parent[b] \in stored \cup {None}
    /\ current' = b
    /\ todo' = TxnsOf[b]
    /\ phase' = "wrap"
    /\ clean' = Undisturbed(b)
    /\ UNCHANGED <<poolVars, effectVars, usedNonce, stored, known, fresh, retry, manual, listed,
                   feesMatch, refused, restarts>>

(* wrap_block: is the transaction pre-processed?  One that the tracker     *)
(* holds is waited for, up to ten times; after that check_txn_processed    *)
(* returns without a value.                                                *)
Wrap ==
    LET t == Head(todo) IN
    /\ phase = "wrap" /\ todo # <<>>
    /\ t \in blockTxns \/ t \notin received \/ SlowRequests
    /\ \/ /\ t \in blockTxns \cup received
          /\ known' = Append(known, t)
          /\ UNCHANGED fresh
       \/ /\ t \notin blockTxns
          /\ fresh' = Append(fresh, t)
          /\ UNCHANGED known
    /\ todo' = Tail(todo)
    /\ UNCHANGED <<poolVars, effectVars, usedNonce, stored, phase, current, retry, manual,
                   listed, feesMatch, refused, clean, restarts>>

Wrapped ==
    /\ phase = "wrap" /\ todo = <<>>
    /\ phase' = "known"
    /\ todo' = known
    /\ UNCHANGED <<poolVars, effectVars, usedNonce, stored, buildVars, refused, clean, restarts>>

-----------------------------------------------------------------------------
(* The node's own block: first what its pool knows, then the rest. *)

UseNoncesFaulty(t) ==
    usedNonce' = [w \in Wallet |-> IF usedNonce[w] = 0 THEN NonceOf[t][w] ELSE usedNonce[w]]

UseNonces(t) ==
    usedNonce' = [w \in Wallet |->
                     IF NonceOf[t][w] > usedNonce[w] THEN NonceOf[t][w] ELSE usedNonce[w]]

(* add_transaction: the stored status moves into the block, if there is    *)
(* one.                                                                    *)
AddKnown ==
    LET t == Head(todo) IN
    /\ phase = "known" /\ todo # <<>>
    /\ manual' = Append(manual, t)
    /\ listed' = listed \cup ({t} \cap statusFee)
    /\ statusFee' = statusFee \ {t}
    /\ UseNonces(t)
    /\ todo' = Tail(todo)
    /\ UNCHANGED <<received, pending, processed, blockTxns, preNonce, walletNonce, stage, doing,
                   effectVars, stored, phase, current, known, fresh, retry, feesMatch, refused,
                   clean, restarts>>

(* add_processed_sync deletes the first of the keys only.                  *)
DropKey ==
    /\ phase = "known" /\ todo = <<>>
    /\ processed' = IF known = <<>> THEN processed ELSE processed \ {Head(known)}
    /\ known' = <<>>
    /\ phase' = "pass1"
    /\ todo' = fresh
    /\ UNCHANGED <<received, pending, statusFee, blockTxns, preNonce, walletNonce, stage, doing,
                   effectVars, usedNonce, stored, current, fresh, retry, manual, listed,
                   feesMatch, refused, clean, restarts>>

(* process_txns, as in BlockProducer, in the order of the peer's block.    *)
CheckFresh ==
    LET t == Head(todo) IN
    /\ phase \in {"pass1", "pass2"} /\ todo # <<>>
    /\ \/ /\ t \in blockTxns \/ NonceUsed(t)
          /\ todo' = Tail(todo)
          /\ UNCHANGED <<retry, phase>>
       \/ /\ t \notin blockTxns /\ NonceAhead(t)
          /\ retry' = IF phase = "pass1" THEN retry \cup {t} ELSE retry
          /\ todo' = Tail(todo)
          /\ UNCHANGED phase
       \/ /\ t \notin blockTxns /\ NonceNext(t)
          /\ phase' = IF phase = "pass1" THEN "apply1" ELSE "apply2"
          /\ UNCHANGED <<retry, todo>>
    /\ UNCHANGED <<poolVars, effectVars, usedNonce, stored, current, known, fresh, manual,
                   listed, feesMatch, refused, clean, restarts>>

ApplyFreshFaulty ==
    LET t == Head(todo) IN
    /\ phase \in {"apply1", "apply2"}
    /\ AdmitNonce(t)
    /\ records' = [records EXCEPT ![t] = @ + 1]
    /\ fees' = [fees EXCEPT ![t] = @ + 1]
    /\ manual' = Append(manual, t)
    /\ listed' = listed \cup {t}
    /\ UseNonces(t)
    /\ todo' = Tail(todo)
    /\ phase' = IF phase = "apply1" THEN "pass1" ELSE "pass2"
    /\ UNCHANGED <<received, pending, processed, statusFee, blockTxns, walletNonce, stage, doing,
                   temp, wallets, stored, current, known, fresh, retry, feesMatch, refused, clean,
                   restarts>>

ApplyFresh ==
    LET t == Head(todo) IN
    /\ phase \in {"apply1", "apply2"}
    /\ AdmitNonce(t)
    /\ blockTxns' = blockTxns \cup {t}
    /\ records' = [records EXCEPT ![t] = @ + 1]
    /\ fees' = [fees EXCEPT ![t] = @ + 1]
    /\ manual' = Append(manual, t)
    /\ listed' = listed \cup {t}
    /\ UseNonces(t)
    /\ todo' = Tail(todo)
    /\ phase' = IF phase = "apply1" THEN "pass1" ELSE "pass2"
    /\ UNCHANGED <<received, pending, processed, statusFee, walletNonce, stage, doing, temp,
                   wallets, stored, current, known, fresh, retry, feesMatch, refused, clean,
                   restarts>>

StartPass2 ==
    /\ phase = "pass1" /\ todo = <<>>
    /\ phase' = "pass2"
    /\ todo' \in {s \in SetToSeqs(retry) :
                     \A i, k \in DOMAIN s : i < k => KeyNonce(s[i]) <= KeyNonce(s[k])}
    /\ retry' = {}
    /\ UNCHANGED <<poolVars, effectVars, usedNonce, stored, current, known, fresh, manual,
                   listed, feesMatch, refused, clean, restarts>>

(* The fresh transactions leave the pending ones.  Without a transaction   *)
(* there is no block: the peer's is refused.                               *)
DropPending ==
    /\ phase = "pass2" /\ todo = <<>>
    /\ pending' = pending \ ToSet(fresh)
    /\ fresh' = <<>>
    /\ phase' = IF manual = <<>> THEN "idle" ELSE "fees"
    /\ refused' = (refused \/ manual = <<>>)
    /\ UNCHANGED <<received, processed, statusFee, blockTxns, preNonce, walletNonce, stage,
                   doing, effectVars, usedNonce, stored, todo, current, known, retry, manual,
                   listed, feesMatch, clean, restarts>>

-----------------------------------------------------------------------------
(* finish_process. *)

CountFeesFaulty ==
    /\ phase = "fees"
    /\ feesMatch' = (SumFunctionOnSet(fees, ToSet(manual)) = Len(TxnsOf[current]))
    /\ phase' = "replay"
    /\ todo' = manual
    /\ UNCHANGED <<poolVars, effectVars, usedNonce, stored, current, known, fresh, retry,
                   manual, listed, refused, clean, restarts>>

(* set_all_token_fees sums the fees of the block's transactions up, in one *)
(* critical section, and forgets them.                                     *)
CountFees ==
    /\ phase = "fees"
    /\ feesMatch' = (SumFunctionOnSet(fees, ToSet(manual)) = Len(TxnsOf[current]))
    /\ fees' = [t \in Txn |-> IF t \in ToSet(manual) THEN 0 ELSE fees[t]]
    /\ phase' = "replay"
    /\ todo' = manual
    /\ UNCHANGED <<poolVars, records, temp, wallets, usedNonce, stored, current, known, fresh,
                   retry, manual, listed, refused, clean, restarts>>

(* add_temp_wallet_balance: the records of a transaction are added to the  *)
(* temporary balances and then removed.                                    *)
ReplayFaulty ==
    LET t == Head(todo) IN
    /\ phase = "replay" /\ todo # <<>>
    /\ temp' = [NoCount EXCEPT ![t] = records[t]]
    /\ phase' = "forget"
    /\ UNCHANGED <<poolVars, records, fees, wallets, usedNonce, stored, todo, buildVars, refused,
                   clean, restarts>>

Replay ==
    LET t == Head(todo) IN
    /\ phase = "replay" /\ todo # <<>>
    /\ temp' = [temp EXCEPT ![t] = @ + records[t]]
    /\ phase' = "forget"
    /\ UNCHANGED <<poolVars, records, fees, wallets, usedNonce, stored, todo, buildVars, refused,
                   clean, restarts>>

Forget ==
    /\ phase = "forget"
    /\ records' = [records EXCEPT ![Head(todo)] = 0]
    /\ todo' = Tail(todo)
    /\ phase' = "replay"
    /\ UNCHANGED <<poolVars, fees, temp, wallets, usedNonce, stored, buildVars, refused, clean,
                   restarts>>

-----------------------------------------------------------------------------
(* The comparison.  The statuses and the token fees have to be those of    *)
(* the peer's block.  The hash covers the order of the transactions, and   *)
(* the hash and height of the last block, which the node's own follows.    *)
SameBlockFaulty ==
    /\ feesMatch
    /\ ToSet(TxnsOf[current]) \subseteq listed
    /\ manual = TxnsOf[current]

SameBlock ==
    /\ feesMatch
    /\ ToSet(TxnsOf[current]) \subseteq listed
    /\ manual = TxnsOf[current]
    /\ Tip = Parent[current]

(* The block the node has built is not looked at any more.                 *)
Leave(p) ==
    /\ phase' = p
    /\ manual' = <<>> /\ listed' = {} /\ feesMatch' = FALSE
    /\ UNCHANGED <<current, known, fresh, retry>>

Store ==
    /\ phase = "replay" /\ todo = <<>>
    /\ SameBlock
    /\ stored' = stored \cup {current}
    /\ Leave("wallets")
    /\ UNCHANGED <<poolVars, effectVars, usedNonce, todo, refused, clean, restarts>>

(* A refused block leaves everything as the attempt has made it.           *)
RefuseBlock ==
    /\ phase = "replay" /\ todo = <<>>
    /\ ~SameBlock
    /\ refused' = TRUE
    /\ Leave("idle")
    /\ UNCHANGED <<poolVars, effectVars, usedNonce, stored, todo, clean, restarts>>

StoreWallets ==
    /\ phase = "wallets"
    /\ wallets' = [t \in Txn |-> wallets[t] + temp[t]]
    /\ temp' = NoCount
    /\ phase' = "nonces"
    /\ UNCHANGED <<poolVars, records, fees, usedNonce, stored, todo, buildVars, refused, clean,
                   restarts>>

StoreNonces ==
    /\ phase = "nonces"
    /\ walletNonce' = [w \in Wallet |->
                          IF usedNonce[w] # 0 THEN usedNonce[w] ELSE walletNonce[w]]
    /\ usedNonce' = NoNonce
    /\ phase' = "idle"
    /\ UNCHANGED <<received, pending, processed, statusFee, blockTxns, preNonce, stage, doing,
                   effectVars, stored, todo, buildVars, refused, clean, restarts>>

-----------------------------------------------------------------------------
(* The process dies and starts again.  Hash marks, stored statuses,        *)
(* balances, nonces and blocks stay.                                       *)
Restart ==
    /\ restarts < MaxRestarts
    /\ restarts' = restarts + 1
    /\ received' = {} /\ pending' = {} /\ processed' = {}
    /\ preNonce' = walletNonce
    /\ stage' = [j \in Job |-> "idle"]
    /\ doing' = [j \in Job |-> None]
    /\ records' = NoCount /\ fees' = NoCount /\ temp' = NoCount
    /\ usedNonce' = NoNonce
    /\ phase' = "idle"
    /\ current' = None
    /\ todo' = <<>> /\ known' = <<>> /\ fresh' = <<>> /\ manual' = <<>>
    /\ retry' = {} /\ listed' = {} /\ feesMatch' = FALSE
    /\ clean' = FALSE
    /\ UNCHANGED <<statusFee, blockTxns, walletNonce, wallets, stored, refused>>

-----------------------------------------------------------------------------
Process ==
    \/ Wrap \/ Wrapped \/ AddKnown \/ DropKey
    \/ CheckFresh \/ ApplyFresh \/ StartPass2 \/ DropPending
    \/ CountFees \/ Replay \/ Forget
    \/ Store \/ RefuseBlock \/ StoreWallets \/ StoreNonces

Next ==
    \/ PoolStep
    \/ \E b \in Block : Receive(b)
    \/ Process
    \/ Restart

Spec == Init /\ [][Next]_vars

-----------------------------------------------------------------------------
(* Valid blocks: After[b] are the nonces when b has been made, and the     *)
(* ones in b are above those of the blocks before it.                      *)
Before(After, b, w) == IF Parent[b] = None THEN 0 ELSE After[Parent[b]][w]

ValidBlocks(After) ==
    /\ After \in [Block -> [Wallet -> Nat]]
    /\ \A b \in Block, w \in Wallet :
          /\ Before(After, b, w) <= After[b][w]
          /\ \A t \in ToSet(TxnsOf[b]) :
                w \in Signers(t) =>
                    Before(After, b, w) < NonceOf[t][w] /\ NonceOf[t][w] <= After[b][w]

(* Blocks in the order of their nonces: those of a wallet go up by one     *)
(* from transaction to transaction, beginning behind the blocks before.    *)
InNonceOrder(After) ==
    \A b \in Block :
        /\ TxnsOf[b] # <<>> /\ IsInjective(TxnsOf[b])
        /\ \A w \in Wallet :
              /\ \/ After[b][w] = Before(After, b, w)
                 \/ \E t \in ToSet(TxnsOf[b]) : NonceOf[t][w] = After[b][w]
              /\ \A i \in DOMAIN TxnsOf[b] :
                    w \in Signers(TxnsOf[b][i]) =>
                        \/ NonceOf[TxnsOf[b][i]][w] = Before(After, b, w) + 1
                        \/ \E k \in 1 .. i - 1 :
                              NonceOf[TxnsOf[b][k]][w] = NonceOf[TxnsOf[b][i]][w] - 1

ChainTxns == UNION {ToSet(TxnsOf[b]) : b \in stored}

(* Stored blocks form one chain, although a block is received on any       *)
(* stored parent: no two follow the same block.                            *)
OneChain ==
    \A b, c \in stored :
        /\ Parent[b] \in stored \cup {None}
        /\ Parent[b] = Parent[c] => b = c

(* As long as no block has been refused, every transaction of the chain    *)
(* has had its effects on the stored balances, whether the node's pool had *)
(* executed it, the block's processing did, or both tried at once.         *)
ChainCharged ==
    phase # "wallets" /\ restarts = 0 /\ ~refused =>
        \A t \in ChainTxns : wallets[t] >= 1

(* The stored nonces cover the chain, so that none of its transactions can *)
(* be admitted again.  A refused block leaves its nonces in used_nonce,    *)
(* and the next block that is stored puts them over the stored ones,       *)
(* lower or not.                                                           *)
ChainNonceStored ==
    phase \notin {"wallets", "nonces"} /\ restarts = 0 /\ ~refused =>
        \A t \in ChainTxns : \A w \in Signers(t) : NonceOf[t][w] <= walletNonce[w]

(* A transaction of the chain is marked in db_block_txns, or a job that is *)
(* at work on it is going to mark it.                                      *)
ChainMarked ==
    restarts = 0 =>
        \A t \in ChainTxns :
            t \in blockTxns
            \/ \E j \in Job : doing[j] = t /\ stage[j] \in {"store", "mark"}

(* A block that comes under ideal conditions is not refused, and when it   *)
(* is done each of its transactions has been applied exactly once, with    *)
(* nothing left over.                                                      *)
CleanBlockTakenOver ==
    clean =>
        /\ ~refused
        /\ phase = "idle" =>
              /\ current \in stored
              /\ \A t \in ToSet(TxnsOf[current]) :
                    /\ wallets[t] = 1
                    /\ records[t] = 0 /\ fees[t] = 0 /\ temp[t] = 0
                    /\ t \in blockTxns /\ t \notin statusFee

(* Every transaction of the chain has left its marks in all the tables the *)
(* node writes one after the other: balances, stored nonces and hashes.    *)
ChainEffects == TypeOK /\ ChainCharged /\ ChainNonceStored /\ ChainMarked
=============================================================================
