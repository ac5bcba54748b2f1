--------------------------- MODULE BlockProducer ---------------------------
(***************************************************************************)
(* The block producer: the node's main thread, which takes a snapshot of   *)
(* the pool, waits for the node's turn to propose, fills a block with the  *)
(* pre-processed transactions of the snapshot, processes the pending ones, *)
(* and stores the block and then the nonces it used.  It runs concurrently *)
(* with the jobs of TxnPool, on the same databases.                        *)
(*                                                                         *)
(* A restart may happen between any two steps.  open_dbs empties the       *)
(* temporary databases and copies the stored nonces into the running ones; *)
(* everything else on disk stays.                                          *)
(***************************************************************************)
EXTENDS TxnPool

CONSTANTS
    HashRank,      \* the order of the hashes, which breaks ties between keys
    MaxRestarts    \* bound: how often the node restarts

ASSUME HashRankAssumption == HashRank \in [Txn -> Nat]
ASSUME MaxRestartsAssumption == MaxRestarts \in Nat

VARIABLES
    phase,         \* where the main thread is
    snapProcessed, \* transactions.processed_keys of the snapshot
    snapPending,   \* transactions.keys of the snapshot
    todo,          \* pending transactions the current pass has not reached
    retry,         \* pending transactions whose nonce was ahead, for pass 2
    current,       \* pending transaction past its nonce check
    block,         \* block[t]: how often t is in the block being built
    usedNonce,     \* nonce_tracker::used_nonce: nonces of that block, 0 for none
    included,      \* included[t]: how often t is in the stored blocks
    restarts       \* how often the node has restarted

mainVars == <<phase, snapProcessed, snapPending, todo, retry, current, block,
              usedNonce, included>>
vars == <<poolVars, mainVars, restarts>>

Phases == {"wait", "turn", "fill", "pass1", "apply1", "pass2", "apply2",
           "drop", "store", "nonces"}

NoCount == [t \in Txn |-> 0]
NoNonce == [w \in Wallet |-> 0]

MainTypeOK ==
    /\ phase \in Phases
    /\ snapProcessed \subseteq Txn
    /\ snapPending \subseteq Txn
    /\ todo \subseteq Txn
    /\ retry \subseteq Txn
    /\ current \in Txn \cup {None}
    /\ phase \in {"apply1", "apply2"} => current \in Txn
    /\ block \in [Txn -> Nat]
    /\ usedNonce \in [Wallet -> Nat]
    /\ included \in [Txn -> Nat]
    /\ restarts \in Nat

TypeOK == PoolTypeOK /\ MainTypeOK

MainIdle ==
    /\ phase = "wait"
    /\ snapProcessed = {}
    /\ snapPending = {}
    /\ todo = {}
    /\ retry = {}
    /\ current = None
    /\ block = NoCount
    /\ usedNonce = NoNonce

Init ==
    /\ PoolInit
    /\ MainIdle
    /\ included = NoCount
    /\ restarts = 0

-----------------------------------------------------------------------------
(* Keys.  The pool is read in key order: the sum of the signers' nonces,   *)
(* zero padded, and then the hash.                                         *)

KeyBefore(t, u) ==
    \/ KeyNonce(t) < KeyNonce(u)
    \/ KeyNonce(t) = KeyNonce(u) /\ HashRank[t] < HashRank[u]

(* add_used_nonce keeps the largest nonce of each signer.                  *)
UseNonces(t) ==
    usedNonce' = [w \in Wallet |->
                     IF NonceOf[t][w] > usedNonce[w] THEN NonceOf[t][w] ELSE usedNonce[w]]

-----------------------------------------------------------------------------
(* Taking a turn. *)

TakeSnapshotFaulty ==
    /\ phase = "wait"
    /\ pending # {}
    /\ snapPending' = pending
    /\ snapProcessed' = processed
    /\ phase' = "turn"
    /\ UNCHANGED <<poolVars, todo, retry, current, block, usedNonce, included, restarts>>

(* get_transactions finds something to put into a block.                   *)
TakeSnapshot ==
    /\ phase = "wait"
    /\ pending \cup processed # {}
    /\ snapPending' = pending
    /\ snapProcessed' = processed
    /\ phase' = "turn"
    /\ UNCHANGED <<poolVars, todo, retry, current, block, usedNonce, included, restarts>>

(* It is this node's turn: the snapshot is used as it is.                  *)
MyTurn ==
    /\ phase = "turn"
    /\ phase' = "fill"
    /\ todo' = snapProcessed
    /\ UNCHANGED <<poolVars, snapProcessed, snapPending, retry, current, block,
                   usedNonce, included, restarts>>

(* Another validator proposes: the main loop starts over.                  *)
NotMyTurn ==
    /\ phase = "turn"
    /\ phase' = "wait"
    /\ snapProcessed' = {}
    /\ snapPending' = {}
    /\ UNCHANGED <<poolVars, todo, retry, current, block, usedNonce, included, restarts>>

-----------------------------------------------------------------------------
(* Making a block. *)

(* add_processed walks through the pre-processed transactions in key       *)
(* order; the stored status and fees of each move into the block.          *)
AddProcessed ==
    /\ phase = "fill"
    /\ \E t \in todo :
          /\ \A u \in todo : ~KeyBefore(u, t)
          /\ todo' = todo \ {t}
          /\ block' = [block EXCEPT ![t] = @ + 1]
          /\ statusFee' = statusFee \ {t}
          /\ UseNonces(t)
    /\ UNCHANGED <<received, pending, processed, blockTxns, preNonce, walletNonce, stage,
                   doing, phase, snapProcessed, snapPending, retry, current, included, restarts>>

DeleteProcessedAllFaulty ==
    /\ phase = "fill"
    /\ todo = {} \/ todo # snapProcessed
    /\ processed' = processed \ snapProcessed
    /\ todo' = snapPending
    /\ phase' = "pass1"
    /\ UNCHANGED <<received, pending, statusFee, blockTxns, preNonce, walletNonce, stage,
                   doing, snapProcessed, snapPending, retry, current, block, usedNonce,
                   included, restarts>>

DeleteProcessedFirstFaulty ==
    /\ phase = "fill"
    /\ todo = {} \/ todo # snapProcessed
    /\ processed' = {t \in processed : \E u \in snapProcessed : KeyBefore(u, t)}
    /\ todo' = snapPending
    /\ phase' = "pass1"
    /\ UNCHANGED <<received, pending, statusFee, blockTxns, preNonce, walletNonce, stage,
                   doing, snapProcessed, snapPending, retry, current, block, usedNonce,
                   included, restarts>>

(* The walk ends, or is cut off when its four seconds are over, but not    *)
(* before the first transaction.  The keys it has passed are deleted.      *)
DeleteProcessed ==
    /\ phase = "fill"
    /\ todo = {} \/ todo # snapProcessed
    /\ processed' = processed \ (snapProcessed \ todo)
    /\ todo' = snapPending
    /\ phase' = "pass1"
    /\ UNCHANGED <<received, pending, statusFee, blockTxns, preNonce, walletNonce, stage,
                   doing, snapProcessed, snapPending, retry, current, block, usedNonce,
                   included, restarts>>

(* Pass 1 goes through the pending transactions in key order, pass 2       *)
(* through the ones whose nonce was ahead, by nonce alone.                 *)
NextInPass(t) ==
    /\ t \in todo
    /\ \A u \in todo :
          IF phase = "pass1" THEN ~KeyBefore(u, t) ELSE KeyNonce(t) <= KeyNonce(u)

(* process_txns looks at one pending transaction: a known hash is dropped, *)
(* a nonce that is ahead is kept for pass 2, a used one is dropped.        *)
CheckPending ==
    /\ phase \in {"pass1", "pass2"}
    /\ \E t \in Txn :
          /\ NextInPass(t)
          /\ todo' = todo \ {t}
          /\ \/ /\ t \in blockTxns \/ NonceUsed(t)
                /\ UNCHANGED <<retry, phase, current>>
             \/ /\ t \notin blockTxns /\ NonceAhead(t)
                /\ retry' = IF phase = "pass1" THEN retry \cup {t} ELSE retry
                /\ UNCHANGED <<phase, current>>
             \/ /\ t \notin blockTxns /\ NonceNext(t)
                /\ phase' = IF phase = "pass1" THEN "apply1" ELSE "apply2"
                /\ current' = t
                /\ UNCHANGED retry
    /\ UNCHANGED <<poolVars, snapProcessed, snapPending, block, usedNonce, included, restarts>>

ApplyPendingMarkFaulty ==
    /\ phase \in {"apply1", "apply2"}
    /\ AdmitNonce(current)
    /\ block' = [block EXCEPT ![current] = @ + 1]
    /\ UseNonces(current)
    /\ phase' = IF phase = "apply1" THEN "pass1" ELSE "pass2"
    /\ current' = None
    /\ UNCHANGED <<received, pending, processed, statusFee, blockTxns, walletNonce, stage,
                   doing, snapProcessed, snapPending, todo, retry, included, restarts>>

(* The fees are paid: the nonces are admitted, the hash is marked and the  *)
(* transaction is in the block.                                            *)
ApplyPending ==
    /\ phase \in {"apply1", "apply2"}
    /\ AdmitNonce(current)
    /\ blockTxns' = blockTxns \cup {current}
    /\ block' = [block EXCEPT ![current] = @ + 1]
    /\ UseNonces(current)
    /\ phase' = IF phase = "apply1" THEN "pass1" ELSE "pass2"
    /\ current' = None
    /\ UNCHANGED <<received, pending, processed, statusFee, walletNonce, stage,
                   doing, snapProcessed, snapPending, todo, retry, included, restarts>>

(* The fees are not paid: the transaction is dropped.                      *)
RefusePending ==
    /\ phase \in {"apply1", "apply2"}
    /\ phase' = IF phase = "apply1" THEN "pass1" ELSE "pass2"
    /\ current' = None
    /\ UNCHANGED <<poolVars, snapProcessed, snapPending, todo, retry, block,
                   usedNonce, included, restarts>>

StartPass2 ==
    /\ phase = "pass1"
    /\ todo = {}
    /\ todo' = retry
    /\ retry' = {}
    /\ phase' = "pass2"
    /\ UNCHANGED <<poolVars, snapProcessed, snapPending, current, block,
                   usedNonce, included, restarts>>

DropPendingFaulty ==
    /\ phase = "pass2"
    /\ todo = {}
    /\ pending' = pending \ blockTxns
    /\ phase' = IF block = NoCount THEN "wait" ELSE "store"
    /\ snapProcessed' = {}
    /\ snapPending' = {}
    /\ UNCHANGED <<received, processed, statusFee, blockTxns, preNonce, walletNonce,
                   stage, doing, todo, retry, current, block, usedNonce, included, restarts>>

(* Every pending transaction of the snapshot is deleted, also the ones     *)
(* whose nonce is still ahead.  Without a transaction there is no block.   *)
DropPending ==
    /\ phase = "pass2"
    /\ todo = {}
    /\ pending' = pending \ snapPending
    /\ phase' = IF block = NoCount THEN "wait" ELSE "store"
    /\ snapProcessed' = {}
    /\ snapPending' = {}
    /\ UNCHANGED <<received, processed, statusFee, blockTxns, preNonce, walletNonce,
                   stage, doing, todo, retry, current, block, usedNonce, included, restarts>>

-----------------------------------------------------------------------------
(* Storing the block, and the nonces it used, are two writes. *)

StoreBlock ==
    /\ phase = "store"
    /\ included' = [t \in Txn |-> included[t] + block[t]]
    /\ block' = NoCount
    /\ phase' = "nonces"
    /\ UNCHANGED <<poolVars, snapProcessed, snapPending, todo, retry, current,
                   usedNonce, restarts>>

(* store_used_nonce puts the used nonces over the stored ones.             *)
StoreNonces ==
    /\ phase = "nonces"
    /\ walletNonce' = [w \in Wallet |->
                          IF usedNonce[w] # 0 THEN usedNonce[w] ELSE walletNonce[w]]
    /\ usedNonce' = NoNonce
    /\ phase' = "wait"
    /\ UNCHANGED <<received, pending, processed, statusFee, blockTxns, preNonce, stage,
                   doing, snapProcessed, snapPending, todo, retry, current, block,
                   included, restarts>>

-----------------------------------------------------------------------------
RestartFaulty ==
    /\ restarts < MaxRestarts
    /\ restarts' = restarts + 1
    /\ received' = {}
    /\ pending' = {}
    /\ processed' = {}
    /\ preNonce' = NoNonce
    /\ stage' = [j \in Job |-> "idle"]
    /\ doing' = [j \in Job |-> None]
    /\ phase' = "wait"
    /\ snapProcessed' = {} /\ snapPending' = {}
    /\ todo' = {} /\ retry' = {} /\ current' = None
    /\ block' = NoCount
    /\ usedNonce' = NoNonce
    /\ UNCHANGED <<statusFee, blockTxns, walletNonce, included>>

(* The process dies and starts again; open_dbs runs before anything else.  *)
Restart ==
    /\ restarts < MaxRestarts
    /\ restarts' = restarts + 1
    /\ received' = {}
    /\ pending' = {}
    /\ processed' = {}
    /\ preNonce' = walletNonce
    /\ stage' = [j \in Job |-> "idle"]
    /\ doing' = [j \in Job |-> None]
    /\ phase' = "wait"
    /\ snapProcessed' = {} /\ snapPending' = {}
    /\ todo' = {} /\ retry' = {} /\ current' = None
    /\ block' = NoCount
    /\ usedNonce' = NoNonce
    /\ UNCHANGED <<statusFee, blockTxns, walletNonce, included>>

-----------------------------------------------------------------------------
MakeBlock ==
    \/ TakeSnapshot \/ AddProcessed \/ DeleteProcessed
    \/ CheckPending \/ ApplyPending \/ RefusePending
    \/ StartPass2 \/ DropPending \/ StoreBlock \/ StoreNonces

MainStep == MakeBlock \/ MyTurn \/ NotMyTurn

PoolStep == PoolNext /\ UNCHANGED <<mainVars, restarts>>

Next == PoolStep \/ MainStep \/ Restart

Spec == Init /\ [][Next]_vars

(* The pool's threads and the main thread keep running.  Whose turn it is  *)
(* is the other validators' doing: that it is this node's again and again  *)
(* is an assumption on the selection of proposers.                         *)
Fairness ==
    /\ \A j \in Job : WF_vars(JobStep(j) /\ UNCHANGED <<mainVars, restarts>>)
    /\ WF_vars(MakeBlock)
    /\ SF_vars(MyTurn)

FairSpec == Spec /\ Fairness
=============================================================================
