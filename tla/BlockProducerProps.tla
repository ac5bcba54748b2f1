------------------------- MODULE BlockProducerProps -------------------------
(***************************************************************************)
(* What the transaction pool and the block producer promise together.      *)
(***************************************************************************)
EXTENDS BlockProducer

(* A hash in db_block_txns is refused from then on, so its transaction     *)
(* must be on its way into a block: still pre-processed, in the block      *)
(* being built, or in a stored block.  This holds as long as the node does *)
(* not restart, whatever the interleaving of jobs and main thread.         *)
AcceptedNotLost ==
    restarts = 0 =>
        \A t \in blockTxns : t \in processed \/ block[t] > 0 \/ included[t] > 0

(* The other way round: what is in a block is marked in db_block_txns, or  *)
(* the job that pre-processed it is just about to mark it, so that a later *)
(* request with the same hash is refused as a duplicate.                   *)
IncludedIsMarked ==
    restarts = 0 =>
        \A t \in Txn :
            block[t] + included[t] > 0 =>
                t \in blockTxns \/ \E j \in Job : doing[j] = t /\ stage[j] = "mark"

(* No transaction is put into the chain twice, if its hash is not sent     *)
(* while it is being handled: with OncePerHash = FALSE two jobs can both   *)
(* pass the duplicate test, and the property fails.                        *)
NoTxnTwice == restarts = 0 => \A t \in Txn : block[t] + included[t] <= 1

-----------------------------------------------------------------------------
(* The following hold when every wallet numbers its transactions 1, 2, ... *)
(* and no transaction is sent again while the node is handling it.         *)

(* A transaction is admitted when its nonces are in the running table.     *)
Admitted(t) ==
    \/ t \in blockTxns
    \/ \E j \in Job : doing[j] = t /\ stage[j] \in {"fee", "store", "mark"}

(* The nonces of a wallet's admitted transactions are exactly the numbers  *)
(* up to its running nonce: none is skipped, lost or given out twice,      *)
(* whether a job or the main thread admits them.                           *)
NonceLedgerExact ==
    restarts = 0 =>
        \A w \in Wallet :
            {NonceOf[t][w] : t \in {u \in Txn : Admitted(u) /\ w \in Signers(u)}}
                = 1 .. preNonce[w]

(* A pre-processed transaction that is not in the block yet still has its  *)
(* status and fees stored: get_status will find them.                      *)
ProcessedHasFee ==
    \A t \in processed : block[t] = 0 /\ included[t] = 0 => t \in statusFee

(* The stored nonces never run ahead of the running ones.                  *)
StoredNonceAdmitted == \A w \in Wallet : walletNonce[w] <= preNonce[w]

(* The databases that jobs and main thread write one by one, without a     *)
(* common lock, agree whenever they are looked at: the nonces given out    *)
(* have no gap and no duplicate, what waits for a block can be put in it,  *)
(* and the stored nonces are behind.                                       *)
TablesAgree == NonceLedgerExact /\ ProcessedHasFee /\ StoredNonceAdmitted

(* A marked transaction that is no longer waiting is refused for good: it  *)
(* neither becomes ready again nor gets into another block, not even after *)
(* a restart has emptied the other databases.                              *)
MarkedRefusedForGood ==
    [][\A t \in blockTxns :
          t \notin processed \cup snapProcessed =>
              t \notin processed' /\ block'[t] <= block[t]]_vars

(* Every accepted transaction gets into a stored block.                    *)
AcceptedIncluded == \A t \in Txn : t \in blockTxns ~> included[t] > 0

(* A transaction does not wait for its nonce for ever.                     *)
PendingResolved == \A t \in Txn : t \in pending ~> t \notin pending

(* No transaction stays in the pool: what is accepted gets into a block,   *)
(* what waits for a nonce is taken up or dropped.                          *)
PoolProgress == AcceptedIncluded /\ PendingResolved
=============================================================================
