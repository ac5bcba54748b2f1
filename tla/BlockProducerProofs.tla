------------------------ MODULE BlockProducerProofs ------------------------
(***************************************************************************)
(* Proofs about BlockProducer, for any transactions, wallets and number of *)
(* jobs, and any interleaving of the jobs with the main thread.            *)
(***************************************************************************)
EXTENDS BlockProducerProps, TLAPS

-----------------------------------------------------------------------------
(* Type correctness. *)

(* An admitted transaction leaves the running nonces natural numbers.      *)
LEMMA AdmitNonceType ==
    ASSUME NEW t \in Txn, preNonce \in [Wallet -> Nat], AdmitNonce(t)
    PROVE  preNonce' \in [Wallet -> Nat]
<1>1. NonceOf[t] \in [Wallet -> Nat]
  BY NonceAssumption
<1> QED
  BY <1>1 DEF AdmitNonce

(* The maximum that add_used_nonce keeps is a natural number.              *)
LEMMA UseNoncesType ==
    ASSUME NEW t \in Txn, usedNonce \in [Wallet -> Nat], UseNonces(t)
    PROVE  usedNonce' \in [Wallet -> Nat]
<1>1. NonceOf[t] \in [Wallet -> Nat]
  BY NonceAssumption
<1> QED
  BY <1>1 DEF UseNonces

(* Every step keeps the types of all variables.                            *)
LEMMA TypeStep == TypeOK /\ [Next]_vars => TypeOK'
<1> SUFFICES ASSUME TypeOK, [Next]_vars PROVE TypeOK'
  OBVIOUS
<1>1. ASSUME PoolStep PROVE TypeOK'
  <2>1. MainTypeOK'
    BY <1>1 DEF PoolStep, mainVars, TypeOK, MainTypeOK
  <2>2. PICK j \in Job : Request(j) \/ JobStep(j)
    BY <1>1 DEF PoolStep, PoolNext
  <2> USE DEF TypeOK, PoolTypeOK, Stages, Goto, Finish
  <2>3. CASE Request(j)
    BY <2>1, <2>3 DEF Request, ClientRequest, PeerRequest, Start
  <2>4. CASE Track(j)
    BY <2>1, <2>4 DEF Track
  <2>5. CASE Verify(j) \/ Check(j) \/ CheckNonce(j)
    BY <2>1, <2>5 DEF Verify, Check, CheckNonce
  <2>6. CASE Hold(j) \/ HoldAhead(j)
    BY <2>1, <2>6 DEF Hold, HoldAhead
  <2>7. CASE Execute(j)
    <3>1. preNonce' \in [Wallet -> Nat]
      BY <2>7, AdmitNonceType DEF Execute
    <3> QED
      BY <2>1, <2>7, <3>1 DEF Execute
  <2>8. CASE Refuse(j)
    BY <2>1, <2>8 DEF Refuse
  <2>9. CASE StoreFee(j) \/ StoreProcessed(j)
    BY <2>1, <2>9 DEF StoreFee, StoreProcessed
  <2>10. CASE MarkBlockTxn(j) \/ Release(j)
    BY <2>1, <2>10 DEF MarkBlockTxn, Release
  <2> QED
    BY <2>1, <2>2, <2>3, <2>4, <2>5, <2>6, <2>7, <2>8, <2>9, <2>10 DEF JobStep
<1>2. ASSUME MainStep PROVE TypeOK'
  <2> USE DEF TypeOK, PoolTypeOK, MainTypeOK, Phases, Stages, poolVars
  <2>1. CASE TakeSnapshot
    BY <2>1 DEF TakeSnapshot
  <2>2. CASE MyTurn \/ NotMyTurn
    BY <2>2 DEF MyTurn, NotMyTurn
  <2>3. CASE AddProcessed
    <3>1. PICK t \in todo :
            /\ todo' = todo \ {t}
            /\ block' = [block EXCEPT ![t] = @ + 1]
            /\ statusFee' = statusFee \ {t}
            /\ UseNonces(t)
      BY <2>3 DEF AddProcessed
    <3>2. usedNonce' \in [Wallet -> Nat]
      BY <3>1, UseNoncesType
    <3>3. block' \in [Txn -> Nat] /\ todo' \subseteq Txn /\ statusFee' \subseteq Txn
      BY <3>1
    <3> QED
      BY <2>3, <3>2, <3>3 DEF AddProcessed
  <2>4. CASE DeleteProcessed
    BY <2>4 DEF DeleteProcessed
  <2>5. CASE CheckPending
    BY <2>5 DEF CheckPending
  <2>6. CASE ApplyPending
    <3>1. current \in Txn /\ block' \in [Txn -> Nat] /\ blockTxns' \subseteq Txn
      BY <2>6 DEF ApplyPending
    <3>2. usedNonce' \in [Wallet -> Nat] /\ preNonce' \in [Wallet -> Nat]
      BY <2>6, <3>1, UseNoncesType, AdmitNonceType DEF ApplyPending
    <3> QED
      BY <2>6, <3>1, <3>2 DEF ApplyPending
  <2>7. CASE RefusePending \/ StartPass2
    BY <2>7 DEF RefusePending, StartPass2
  <2>8. CASE DropPending
    BY <2>8 DEF DropPending
  <2>9. CASE StoreBlock
    BY <2>9 DEF StoreBlock, NoCount
  <2>10. CASE StoreNonces
    BY <2>10 DEF StoreNonces, NoNonce
  <2> QED
    BY <1>2, <2>1, <2>2, <2>3, <2>4, <2>5, <2>6, <2>7, <2>8, <2>9, <2>10
    DEF MainStep, MakeBlock
<1>3. ASSUME Restart PROVE TypeOK'
  BY <1>3 DEF Restart, TypeOK, PoolTypeOK, MainTypeOK, Phases, Stages, NoCount, NoNonce
<1>4. ASSUME UNCHANGED vars PROVE TypeOK'
  BY <1>4 DEF vars, poolVars, mainVars, TypeOK, PoolTypeOK, MainTypeOK
<1> QED
  BY <1>1, <1>2, <1>3, <1>4 DEF Next

(* Every variable of the pool and of the block producer keeps its type.    *)
THEOREM TypeCorrect == Spec => []TypeOK
<1>1. Init => TypeOK
  BY DEF Init, PoolInit, MainIdle, TypeOK, PoolTypeOK, MainTypeOK, Stages, Phases,
         NoCount, NoNonce
<1> QED
  BY <1>1, TypeStep, PTL DEF Spec

-----------------------------------------------------------------------------
(* No accepted transaction is lost, and no included one is unmarked.       *)
(*                                                                         *)
(* Neither property is inductive.  A transaction that is deleted from the  *)
(* processed ones must be in the block already, which is so because only   *)
(* keys the walk has passed are deleted; one that is moved into the block  *)
(* must be marked, which is so because a snapshot is only ever taken of    *)
(* transactions that are marked or about to be.                            *)

AtMark(t) == \E j \in Job : doing[j] = t /\ stage[j] = "mark"

Marked(t) == t \in blockTxns \/ AtMark(t)

Kept(t) == t \in processed \/ block[t] > 0 \/ included[t] > 0

(* What the walk through the snapshot has passed is in the block.          *)
WalkInBlock ==
    phase = "fill" =>
        /\ todo \subseteq snapProcessed
        /\ \A t \in snapProcessed \ todo : block[t] > 0

KnownIsMarked == \A t \in Txn : Kept(t) \/ t \in snapProcessed => Marked(t)

MarkedIsKept == \A t \in Txn : Marked(t) => Kept(t)

IInv == TypeOK /\ WalkInBlock /\ (restarts = 0 => KnownIsMarked /\ MarkedIsKept)

(* A step of a job that is not about to mark, before or after, changes     *)
(* nobody's mark.                                                          *)
LEMMA QuietJob ==
    ASSUME NEW j \in Job, stage[j] # "mark", stage'[j] # "mark",
           \A i \in Job \ {j} : stage'[i] = stage[i] /\ doing'[i] = doing[i]
    PROVE  \A t \in Txn : AtMark(t)' <=> AtMark(t)
  BY DEF AtMark

(* IInv survives every step of a job.                                      *)
LEMMA PoolStepKeeps ==
    ASSUME IInv, PoolStep, restarts = 0
    PROVE  KnownIsMarked' /\ MarkedIsKept'
<1>1. PICK j \in Job : Request(j) \/ JobStep(j)
  BY DEF PoolStep, PoolNext
<1>2. /\ KnownIsMarked /\ MarkedIsKept
      /\ stage \in [Job -> Stages] /\ doing \in [Job -> Txn \cup {None}]
      /\ stage[j] # "idle" => doing[j] \in Txn
  BY DEF IInv, TypeOK, PoolTypeOK
<1>3. UNCHANGED <<snapProcessed, block, included>>
  BY DEF PoolStep, mainVars
<1>4. CASE StoreProcessed(j)
  <2>1. stage[j] = "store" /\ doing[j] \in Txn
    BY <1>2, <1>4 DEF StoreProcessed
  <2>2. \A t \in Txn : AtMark(t)' <=> AtMark(t) \/ t = doing[j]
    BY <1>2, <1>4, <2>1 DEF StoreProcessed, Goto, AtMark
  <2> QED
    BY <1>2, <1>3, <1>4, <2>1, <2>2
    DEF StoreProcessed, KnownIsMarked, MarkedIsKept, Marked, Kept
<1>5. CASE MarkBlockTxn(j)
  <2>1. stage[j] = "mark" /\ doing[j] \in Txn
    BY <1>2, <1>5 DEF MarkBlockTxn
  <2>2. \A t \in Txn : AtMark(t) <=> AtMark(t)' \/ t = doing[j]
    BY <1>2, <1>5, <2>1 DEF MarkBlockTxn, Goto, AtMark
  <2> QED
    BY <1>2, <1>3, <1>5, <2>1, <2>2
    DEF MarkBlockTxn, KnownIsMarked, MarkedIsKept, Marked, Kept
<1>6. CASE ~StoreProcessed(j) /\ ~MarkBlockTxn(j)
  <2>1. /\ stage[j] # "mark" /\ stage'[j] # "mark"
        /\ \A i \in Job \ {j} : stage'[i] = stage[i] /\ doing'[i] = doing[i]
        /\ UNCHANGED <<processed, blockTxns>>
    BY <1>1, <1>2, <1>6
    DEF Request, ClientRequest, PeerRequest, Start, JobStep, Goto, Finish, Track, Verify,
        Check, Hold, CheckNonce, HoldAhead, Execute, Refuse, StoreFee, Release
  <2>2. \A t \in Txn : AtMark(t)' <=> AtMark(t)
    BY <2>1, QuietJob
  <2> QED
    BY <1>2, <1>3, <2>1, <2>2 DEF KnownIsMarked, MarkedIsKept, Marked, Kept
<1> QED
  BY <1>4, <1>5, <1>6

(* IInv survives every step of the main thread.                            *)
LEMMA MainStepKeeps ==
    ASSUME IInv, MainStep, restarts = 0
    PROVE  KnownIsMarked' /\ MarkedIsKept'
<1>1. /\ KnownIsMarked /\ MarkedIsKept
      /\ WalkInBlock
      /\ block \in [Txn -> Nat] /\ included \in [Txn -> Nat]
      /\ phase \in {"apply1", "apply2"} => current \in Txn
  BY DEF IInv, TypeOK, MainTypeOK
<1>2. UNCHANGED <<stage, doing>>
  BY DEF MainStep, MakeBlock, TakeSnapshot, MyTurn, NotMyTurn, AddProcessed, DeleteProcessed,
         CheckPending, ApplyPending, RefusePending, StartPass2, DropPending, StoreBlock,
         StoreNonces, poolVars
<1>3. \A t \in Txn : AtMark(t)' <=> AtMark(t)
  BY <1>2 DEF AtMark
<1> USE DEF KnownIsMarked, MarkedIsKept, Marked, Kept
<1>4. CASE TakeSnapshot
  BY <1>1, <1>3, <1>4 DEF TakeSnapshot, poolVars
<1>5. CASE AddProcessed
  <2>1. PICK t \in todo : block' = [block EXCEPT ![t] = @ + 1]
    BY <1>5 DEF AddProcessed
  <2>2. t \in snapProcessed
    BY <1>1, <1>5, <2>1 DEF AddProcessed, WalkInBlock
  <2>3. \A u \in Txn : (block[u] > 0 => block'[u] > 0) /\ (block'[u] > 0 => block[u] > 0 \/ u = t)
    BY <1>1, <2>1
  <2> QED
    BY <1>1, <1>3, <1>5, <2>2, <2>3 DEF AddProcessed
<1>6. CASE DeleteProcessed
  BY <1>1, <1>3, <1>6 DEF DeleteProcessed, WalkInBlock
<1>7. CASE ApplyPending
  <2>1. current \in Txn /\ block' = [block EXCEPT ![current] = @ + 1]
    BY <1>1, <1>7 DEF ApplyPending
  <2>2. \A u \in Txn : block'[u] > 0 <=> block[u] > 0 \/ u = current
    BY <1>1, <2>1
  <2> QED
    BY <1>1, <1>3, <1>7, <2>1, <2>2 DEF ApplyPending
<1>8. CASE StoreBlock
  <2>1. \A u \in Txn : included'[u] > 0 <=> included[u] > 0 \/ block[u] > 0
    BY <1>1, <1>8 DEF StoreBlock
  <2>2. \A u \in Txn : ~(block'[u] > 0)
    BY <1>8 DEF StoreBlock, NoCount
  <2> QED
    BY <1>1, <1>3, <1>8, <2>1, <2>2 DEF StoreBlock, poolVars
<1>9. CASE MyTurn \/ NotMyTurn \/ CheckPending \/ RefusePending \/ StartPass2
  BY <1>1, <1>3, <1>9
  DEF MyTurn, NotMyTurn, CheckPending, RefusePending, StartPass2, poolVars
<1>10. CASE DropPending \/ StoreNonces
  BY <1>1, <1>3, <1>10 DEF DropPending, StoreNonces
<1> QED
  BY <1>4, <1>5, <1>6, <1>7, <1>8, <1>9, <1>10 DEF MainStep, MakeBlock

(* The walk puts every transaction it passes into the block, and nothing   *)
(* takes it out again before the walk ends.                                *)
LEMMA WalkKeeps ==
    ASSUME IInv, [Next]_vars
    PROVE  WalkInBlock'
<1>1. WalkInBlock /\ block \in [Txn -> Nat] /\ snapProcessed \subseteq Txn
  BY DEF IInv, TypeOK, MainTypeOK
<1>2. CASE AddProcessed
  <2>1. PICK t \in todo : block' = [block EXCEPT ![t] = @ + 1] /\ todo' = todo \ {t}
    BY <1>2 DEF AddProcessed
  <2>2. \A u \in Txn : block'[u] > 0 <=> block[u] > 0 \/ u = t
    BY <1>1, <1>2, <2>1 DEF AddProcessed, WalkInBlock
  <2> QED
    BY <1>1, <1>2, <2>1, <2>2 DEF AddProcessed, WalkInBlock
<1>3. CASE MyTurn
  BY <1>3 DEF MyTurn, WalkInBlock
<1>4. CASE PoolStep \/ UNCHANGED vars
  BY <1>1, <1>4 DEF PoolStep, vars, mainVars, WalkInBlock
<1>5. CASE Restart
  BY <1>5 DEF Restart, WalkInBlock
<1>6. CASE MainStep /\ ~AddProcessed /\ ~MyTurn
  <2>1. phase' # "fill"
    BY <1>6 DEF MainStep, MakeBlock, TakeSnapshot, NotMyTurn, DeleteProcessed, CheckPending,
       ApplyPending, RefusePending, StartPass2, DropPending, StoreBlock, StoreNonces
  <2> QED
    BY <2>1 DEF WalkInBlock
<1> QED
  BY <1>2, <1>3, <1>4, <1>5, <1>6 DEF Next

(* The inductive invariant holds in every reachable state.                 *)
THEOREM Inductive == Spec => []IInv
<1>1. Init => IInv
  <2>1. Init => TypeOK
    BY DEF Init, PoolInit, MainIdle, TypeOK, PoolTypeOK, MainTypeOK, Stages, Phases,
           NoCount, NoNonce
  <2>2. Init => WalkInBlock /\ KnownIsMarked /\ MarkedIsKept
    BY DEF Init, PoolInit, MainIdle, WalkInBlock, KnownIsMarked, MarkedIsKept, Marked, Kept,
           AtMark, NoCount
  <2> QED
    BY <2>1, <2>2 DEF IInv
<1>2. IInv /\ [Next]_vars => IInv'
  <2> SUFFICES ASSUME IInv, [Next]_vars PROVE IInv'
    OBVIOUS
  <2>1. TypeOK' /\ WalkInBlock'
    BY TypeStep, WalkKeeps DEF IInv
  <2>2. ASSUME restarts' = 0 PROVE KnownIsMarked' /\ MarkedIsKept'
    <3>1. CASE PoolStep
      BY <2>2, <3>1, PoolStepKeeps DEF PoolStep
    <3>2. CASE MainStep
      <4>1. restarts = 0
        BY <2>2, <3>2 DEF MainStep, MakeBlock, TakeSnapshot, MyTurn, NotMyTurn, AddProcessed,
           DeleteProcessed, CheckPending, ApplyPending, RefusePending, StartPass2,
           DropPending, StoreBlock, StoreNonces
      <4> QED
        BY <3>2, <4>1, MainStepKeeps
    <3>3. CASE Restart
      BY <2>2, <3>3 DEF Restart, IInv, TypeOK, MainTypeOK
    <3>4. CASE UNCHANGED vars
      BY <2>2, <3>4 DEF vars, poolVars, mainVars, IInv, KnownIsMarked, MarkedIsKept, Marked,
         Kept, AtMark
    <3> QED
      BY <3>1, <3>2, <3>3, <3>4 DEF Next
  <2> QED
    BY <2>1, <2>2 DEF IInv
<1> QED
  BY <1>1, <1>2, PTL DEF Spec

(* A hash that is refused as a duplicate belongs to a transaction that is  *)
(* waiting for a block or in one.                                          *)
THEOREM NothingLost == Spec => []AcceptedNotLost
<1>1. IInv => AcceptedNotLost
  BY DEF IInv, TypeOK, PoolTypeOK, MarkedIsKept, Marked, Kept, AcceptedNotLost
<1> QED
  BY <1>1, Inductive, PTL

(* A transaction in a block is refused as a duplicate, or is about to be.  *)
THEOREM NothingUnmarked == Spec => []IncludedIsMarked
<1>1. IInv => IncludedIsMarked
  <2> SUFFICES ASSUME IInv, restarts = 0, NEW t \in Txn, block[t] + included[t] > 0
               PROVE  Marked(t)
    BY DEF IncludedIsMarked, Marked, AtMark
  <2>1. block[t] > 0 \/ included[t] > 0
    BY DEF IInv, TypeOK, MainTypeOK
  <2> QED
    BY <2>1 DEF IInv, KnownIsMarked, Kept
<1> QED
  BY <1>1, Inductive, PTL

-----------------------------------------------------------------------------
(* A transaction that is sent once at a time is taken once.                *)
(*                                                                         *)
(* Job and main thread both test db_block_txns long before they write to   *)
(* it.  What keeps them apart is that a transaction is in one hand at a    *)
(* time: a pending one is not pre-processed by a job, because verify_txn   *)
(* drops it, and what a job pre-processes is not marked yet.               *)

(* Stages of a job whose transaction has passed the tests for duplicates.  *)
Taken == {"check", "hold", "holdRelease", "nonce", "execute", "fee", "store"}

OneJob ==
    \A i, j \in Job : i # j /\ doing[i] # None => doing[i] # doing[j]

IdleHasNone == \A j \in Job : stage[j] = "idle" => doing[j] = None

PendingNotTaken ==
    \A j \in Job : doing[j] \in pending => stage[j] \in {"track", "verify", "release"}

TakenIsNew ==
    \A j \in Job : stage[j] \in Taken => doing[j] \notin blockTxns \cup processed

(* What the main thread goes through is still in the databases.            *)
Applying == phase \in {"apply1", "apply2"}

WalkIsPending ==
    /\ snapPending \subseteq pending
    /\ phase \in {"pass1", "apply1", "pass2", "apply2"} => todo \subseteq snapPending
    /\ retry \subseteq (IF phase \in {"pass1", "apply1"} THEN snapPending ELSE {})
    /\ Applying => current \in pending \ blockTxns
    /\ phase \in {"turn", "fill"} => snapProcessed \subseteq processed
    /\ phase = "fill" => todo \subseteq snapProcessed

OneHand == OneJob /\ IdleHasNone /\ PendingNotTaken /\ TakenIsNew /\ WalkIsPending

(* A pre-processed transaction is in no block unless the walk has passed   *)
(* it.                                                                     *)
Passed(t) == phase = "fill" /\ t \in snapProcessed \ todo

InOneBlock ==
    \A t \in Txn :
        /\ block[t] + included[t] <= 1
        /\ t \in processed /\ ~Passed(t) => block[t] + included[t] = 0

OnceInv == OneHand /\ (restarts = 0 => InOneBlock)

(* Past its nonce check and before its nonces are recorded.                *)
Executing(t) ==
    \/ \E j \in Job : doing[j] = t /\ stage[j] = "execute"
    \/ Applying /\ current = t

InTables(t) ==
    t \in processed \/ \E j \in Job : doing[j] = t /\ stage[j] \in {"fee", "store", "mark"}

StoreHasFee == \A j \in Job : stage[j] = "store" => doing[j] \in statusFee

(* The verdict on a nonce is not stale when the nonce is recorded.         *)
NonceInv ==
    /\ \A w \in Wallet : walletNonce[w] <= preNonce[w] /\ usedNonce[w] <= preNonce[w]
    /\ \A t \in Txn : Executing(t) => \A w \in Signers(t) : NonceOf[t][w] = preNonce[w] + 1
    /\ \A t \in Txn : InTables(t) => \A w \in Wallet : NonceOf[t][w] <= preNonce[w]

TablesInv == StoreHasFee /\ NonceInv /\ TablesAgree

(* A job's step keeps every transaction in one hand.                       *)
LEMMA JobKeepsHands ==
    ASSUME OncePerHash, TypeOK, OneHand, PoolStep
    PROVE  OneHand'
<1>1. PICK j \in Job : Request(j) \/ JobStep(j)
  BY DEF PoolStep, PoolNext
<1>2. /\ stage \in [Job -> Stages] /\ doing \in [Job -> Txn \cup {None}]
      /\ stage[j] # "idle" => doing[j] \in Txn /\ doing[j] # None
      /\ pending \subseteq Txn /\ blockTxns \subseteq Txn /\ processed \subseteq Txn
  BY NoneAssumption DEF TypeOK, PoolTypeOK
<1>3. /\ UNCHANGED <<phase, snapProcessed, snapPending, todo, retry, current>>
      /\ OneJob /\ IdleHasNone /\ PendingNotTaken /\ TakenIsNew /\ WalkIsPending
  BY DEF PoolStep, mainVars, OneHand
<1>4. \A i \in Job \ {j} : stage'[i] = stage[i] /\ doing'[i] = doing[i]
  BY <1>1, <1>2 DEF Request, ClientRequest, PeerRequest, Start, JobStep, Track, Verify, Check,
     Hold, CheckNonce, HoldAhead, Execute, Refuse, StoreFee, StoreProcessed, MarkBlockTxn,
     Release, Goto, Finish
<1>5. CASE Request(j)
  <2>1. PICK t \in Txn : ClientRequest(j, t) \/ PeerRequest(j, t)
    BY <1>5 DEF Request
  <2>2. /\ doing'[j] = t /\ stage'[j] \in {"verify", "track"} /\ t # None
        /\ \A i \in Job : doing[i] # t
        /\ UNCHANGED <<pending, processed, blockTxns>>
    BY <1>2, <2>1, NoneAssumption DEF ClientRequest, PeerRequest, Start
  <2>3. OneJob' /\ IdleHasNone'
    BY <1>3, <1>4, <2>2 DEF OneJob, IdleHasNone
  <2>4. PendingNotTaken' /\ TakenIsNew'
    BY <1>3, <1>4, <2>2 DEF PendingNotTaken, TakenIsNew, Taken
  <2>5. WalkIsPending'
    BY <1>3, <2>2 DEF WalkIsPending, Applying
  <2> QED BY <2>3, <2>4, <2>5 DEF OneHand
<1>6. ASSUME stage[j] # "idle", doing'[j] = doing[j], stage'[j] # "idle",
             pending' = pending, blockTxns' = blockTxns, processed' = processed,
             \/ stage'[j] \in {"verify", "release"}
             \/ stage[j] \in Taken /\ stage'[j] \in Taken
             \/ stage[j] = "verify" /\ doing[j] \notin pending \cup processed \cup blockTxns
      PROVE  OneHand'
  <2>1. OneJob' /\ IdleHasNone'
    BY <1>3, <1>4, <1>6 DEF OneJob, IdleHasNone
  <2>2. PendingNotTaken' /\ TakenIsNew'
    BY <1>3, <1>4, <1>6 DEF PendingNotTaken, TakenIsNew, Taken
  <2>3. WalkIsPending'
    BY <1>3, <1>6 DEF WalkIsPending, Applying
  <2> QED BY <2>1, <2>2, <2>3 DEF OneHand
<1>7. ASSUME stage'[j] = "idle", doing'[j] = None, blockTxns' = blockTxns,
             processed' = processed, pending' \in {pending, pending \cup {doing[j]}}, stage[j] # "idle"
      PROVE  OneHand'
  <2>1. OneJob' /\ IdleHasNone'
    BY <1>2, <1>3, <1>4, <1>7 DEF OneJob, IdleHasNone
  <2>2. \A i \in Job \ {j} : doing[i] # doing[j]
    BY <1>2, <1>3, <1>7 DEF OneJob
  <2>3. PendingNotTaken' /\ TakenIsNew'
    BY <1>2, <1>3, <1>4, <1>7, <2>2, NoneAssumption DEF PendingNotTaken, TakenIsNew, Taken
  <2>4. WalkIsPending'
    BY <1>3, <1>7 DEF WalkIsPending, Applying
  <2> QED BY <2>1, <2>3, <2>4 DEF OneHand
<1>8. CASE Track(j) \/ Verify(j) \/ Check(j)
  BY <1>2, <1>6, <1>7, <1>8 DEF Track, Verify, Check, Goto, Finish, Taken
<1>9. CASE Hold(j) \/ Release(j)
  BY <1>2, <1>7, <1>9 DEF Hold, Release, Finish
<1>10. CASE CheckNonce(j) \/ Execute(j) \/ Refuse(j) \/ StoreFee(j)
  BY <1>2, <1>6, <1>10 DEF CheckNonce, Execute, Refuse, StoreFee, Goto, Taken
<1>11. CASE HoldAhead(j)
  <2>1. /\ stage'[j] = "release" /\ doing' = doing /\ stage[j] = "holdRelease"
        /\ pending' = pending \cup {doing[j]} /\ UNCHANGED <<processed, blockTxns>>
    BY <1>2, <1>11 DEF HoldAhead, Goto
  <2>2. OneJob' /\ IdleHasNone'
    BY <1>3, <1>4, <2>1 DEF OneJob, IdleHasNone
  <2>3. \A i \in Job \ {j} : doing[i] # doing[j]
    BY <1>2, <1>3, <2>1 DEF OneJob
  <2>4. PendingNotTaken' /\ TakenIsNew'
    BY <1>3, <1>4, <2>1, <2>3 DEF PendingNotTaken, TakenIsNew, Taken
  <2>5. WalkIsPending'
    BY <1>3, <2>1 DEF WalkIsPending, Applying
  <2> QED BY <2>2, <2>4, <2>5 DEF OneHand
<1>12. CASE StoreProcessed(j) \/ MarkBlockTxn(j)
  <2>1. /\ stage'[j] \in {"mark", "release"} /\ doing' = doing /\ stage[j] \in {"store", "mark"}
        /\ pending' = pending
        /\ processed \subseteq processed' /\ processed' \subseteq processed \cup {doing[j]}
        /\ blockTxns' \subseteq blockTxns \cup {doing[j]}
    BY <1>2, <1>12 DEF StoreProcessed, MarkBlockTxn, Goto
  <2>2. OneJob' /\ IdleHasNone'
    BY <1>3, <1>4, <2>1 DEF OneJob, IdleHasNone
  <2>3. doing[j] \notin pending /\ \A i \in Job \ {j} : doing[i] # doing[j]
    BY <1>2, <1>3, <2>1 DEF OneJob, PendingNotTaken
  <2>4. PendingNotTaken'
    BY <1>3, <1>4, <2>1, <2>3 DEF PendingNotTaken
  <2>5. TakenIsNew'
    BY <1>3, <1>4, <2>1, <2>3 DEF TakenIsNew, Taken
  <2>6. WalkIsPending'
    BY <1>3, <2>1, <2>3 DEF WalkIsPending, Applying
  <2> QED BY <2>2, <2>4, <2>5, <2>6 DEF OneHand
<1> QED BY <1>1, <1>5, <1>8, <1>9, <1>10, <1>11, <1>12 DEF JobStep

(* So does a step of the main thread.                                      *)
LEMMA MainKeepsHands ==
    ASSUME TypeOK, OneHand, MainStep
    PROVE  OneHand'
<1>1. UNCHANGED <<stage, doing>>
  BY DEF MainStep, MakeBlock, TakeSnapshot, MyTurn, NotMyTurn, AddProcessed, DeleteProcessed,
         CheckPending, ApplyPending, RefusePending, StartPass2, DropPending, StoreBlock,
         StoreNonces, poolVars
<1>2. /\ OneJob /\ IdleHasNone /\ PendingNotTaken /\ TakenIsNew /\ WalkIsPending
      /\ doing \in [Job -> Txn \cup {None}]
  BY DEF OneHand, TypeOK, PoolTypeOK
<1>3. OneJob' /\ IdleHasNone'
  BY <1>1, <1>2 DEF OneJob, IdleHasNone
<1>4. pending' \subseteq pending
  BY DEF MainStep, MakeBlock, TakeSnapshot, MyTurn, NotMyTurn, AddProcessed, DeleteProcessed,
         CheckPending, ApplyPending, RefusePending, StartPass2, DropPending, StoreBlock,
         StoreNonces, poolVars
<1>5. PendingNotTaken'
  BY <1>1, <1>2, <1>4 DEF PendingNotTaken
<1>6. /\ processed' \subseteq processed
      /\ blockTxns' = blockTxns \/ (Applying /\ blockTxns' = blockTxns \cup {current})
  BY DEF MainStep, MakeBlock, TakeSnapshot, MyTurn, NotMyTurn, AddProcessed, DeleteProcessed,
         CheckPending, ApplyPending, RefusePending, StartPass2, DropPending, StoreBlock,
         StoreNonces, poolVars, Applying
<1>7. TakenIsNew'
  <2>1. Applying => \A j \in Job : doing[j] = current => stage[j] \notin Taken
    BY <1>2 DEF WalkIsPending, PendingNotTaken, Taken
  <2> QED BY <1>1, <1>2, <1>6, <2>1 DEF TakenIsNew
<1> USE DEF WalkIsPending, Applying
<1>8. CASE TakeSnapshot \/ MyTurn \/ NotMyTurn
  <2>1. WalkIsPending'
    BY <1>2, <1>8 DEF TakeSnapshot, MyTurn, NotMyTurn, poolVars
  <2> QED BY <1>3, <1>5, <1>7, <2>1 DEF OneHand
<1>9. CASE AddProcessed \/ DeleteProcessed
  <2>1. WalkIsPending'
    BY <1>2, <1>9 DEF AddProcessed, DeleteProcessed
  <2> QED BY <1>3, <1>5, <1>7, <2>1 DEF OneHand
<1>10. CASE CheckPending
  <2>1. PICK t \in todo : /\ todo' = todo \ {t}
                          /\ \/ UNCHANGED <<retry, phase, current>>
                             \/ /\ retry' = IF phase = "pass1" THEN retry \cup {t} ELSE retry
                                /\ UNCHANGED <<phase, current>>
                             \/ /\ t \notin blockTxns /\ current' = t /\ retry' = retry
                                /\ phase' = IF phase = "pass1" THEN "apply1" ELSE "apply2"
    BY <1>10 DEF CheckPending, NextInPass
  <2>2. WalkIsPending'
    BY <1>2, <1>10, <2>1 DEF CheckPending, poolVars
  <2> QED BY <1>3, <1>5, <1>7, <2>2 DEF OneHand
<1>11. CASE ApplyPending \/ RefusePending
  <2>1. WalkIsPending'
    BY <1>2, <1>11 DEF ApplyPending, RefusePending, poolVars
  <2> QED BY <1>3, <1>5, <1>7, <2>1 DEF OneHand
<1>12. CASE StartPass2 \/ DropPending
  <2>1. WalkIsPending'
    BY <1>2, <1>12 DEF StartPass2, DropPending, poolVars
  <2> QED BY <1>3, <1>5, <1>7, <2>1 DEF OneHand
<1>13. CASE StoreBlock \/ StoreNonces
  <2>1. WalkIsPending'
    BY <1>2, <1>13 DEF StoreBlock, StoreNonces, poolVars
  <2> QED BY <1>3, <1>5, <1>7, <2>1 DEF OneHand
<1> QED BY <1>8, <1>9, <1>10, <1>11, <1>12, <1>13 DEF MainStep, MakeBlock

(* Every step keeps every transaction in one hand; a restart empties them. *)
LEMMA HandsStep ==
    ASSUME OncePerHash, TypeOK, OneHand, [Next]_vars
    PROVE  OneHand'
<1>1. CASE Restart
  BY <1>1 DEF Restart, OneHand, OneJob, IdleHasNone, PendingNotTaken, TakenIsNew, WalkIsPending,
     Taken, Applying
<1>2. CASE UNCHANGED vars
  BY <1>2 DEF vars, poolVars, mainVars, OneHand, OneJob, IdleHasNone, PendingNotTaken, TakenIsNew,
     WalkIsPending, Applying
<1> QED BY <1>1, <1>2, JobKeepsHands, MainKeepsHands DEF Next

(* What is added to a block, or to the pre-processed ones, is in no block: *)
(* what is in one is marked, and what is marked is not taken again.        *)
LEMMA InOneBlockStep ==
    ASSUME OncePerHash, IInv, OneHand, restarts = 0, InOneBlock, PoolStep \/ MainStep
    PROVE  InOneBlock'
<1>1. /\ KnownIsMarked /\ TypeOK /\ PoolTypeOK /\ MainTypeOK
      /\ OneJob /\ PendingNotTaken /\ TakenIsNew /\ WalkIsPending
      /\ block \in [Txn -> Nat] /\ included \in [Txn -> Nat]
  BY DEF IInv, OneHand, TypeOK, MainTypeOK
<1>2. CASE PoolStep
  <2>1. PICK j \in Job : Request(j) \/ JobStep(j)
    BY <1>2 DEF PoolStep, PoolNext
  <2>2. UNCHANGED <<phase, snapProcessed, todo, block, included>>
    BY <1>2 DEF PoolStep, mainVars
  <2>3. CASE StoreProcessed(j)
    <3>1. stage[j] = "store" /\ doing[j] \in Txn /\ processed' = processed \cup {doing[j]}
      BY <1>1, <2>3 DEF StoreProcessed, PoolTypeOK
    <3>2. doing[j] \notin blockTxns /\ ~AtMark(doing[j])
      BY <1>1, <3>1, NoneAssumption DEF TakenIsNew, Taken, OneJob, AtMark
    <3>3. block[doing[j]] + included[doing[j]] = 0
      BY <1>1, <3>1, <3>2 DEF KnownIsMarked, Kept, Marked
    <3> QED BY <2>2, <3>1, <3>3 DEF InOneBlock, Passed
  <2>4. CASE ~StoreProcessed(j)
    <3>1. processed' = processed
      BY <2>1, <2>4 DEF Request, ClientRequest, PeerRequest, Start, JobStep, Track, Verify,
         Check, Hold, CheckNonce, HoldAhead, Execute, Refuse, StoreFee, MarkBlockTxn, Release
    <3> QED BY <2>2, <3>1 DEF InOneBlock, Passed
  <2> QED BY <2>3, <2>4
<1>3. CASE AddProcessed
  <2>1. PICK t \in todo : todo' = todo \ {t} /\ block' = [block EXCEPT ![t] = @ + 1]
    BY <1>3 DEF AddProcessed
  <2>2. t \in Txn /\ t \in processed /\ ~Passed(t)
    BY <1>1, <1>3, <2>1 DEF AddProcessed, WalkIsPending, Passed, MainTypeOK
  <2>3. block[t] + included[t] = 0
    BY <2>2 DEF InOneBlock
  <2>4. block'[t] = 1 /\ \A u \in Txn \ {t} : block'[u] = block[u]
    BY <1>1, <2>1, <2>2, <2>3
  <2>5. UNCHANGED <<processed, included, phase, snapProcessed>> /\ phase = "fill"
    BY <1>3 DEF AddProcessed
  <2>6. \A u \in Txn : block'[u] + included'[u] <= 1
    BY <1>1, <2>2, <2>3, <2>4, <2>5 DEF InOneBlock
  <2>7. Passed(t)' /\ \A u \in Txn \ {t} : Passed(u)' <=> Passed(u)
    BY <1>1, <1>3, <2>1, <2>2, <2>5 DEF Passed, WalkIsPending
  <2> QED BY <2>4, <2>5, <2>6, <2>7 DEF InOneBlock
<1>4. CASE ApplyPending
  <2>1. /\ Applying /\ current \in Txn /\ block' = [block EXCEPT ![current] = @ + 1]
        /\ UNCHANGED <<processed, included>> /\ current \in pending \ blockTxns
        /\ phase # "fill" /\ phase' # "fill"
    BY <1>1, <1>4 DEF ApplyPending, MainTypeOK, Applying, WalkIsPending
  <2>2. ~AtMark(current)
    BY <1>1, <2>1 DEF PendingNotTaken, AtMark
  <2>3. block[current] + included[current] = 0 /\ current \notin processed
    BY <1>1, <2>1, <2>2 DEF KnownIsMarked, Kept, Marked
  <2>4. block'[current] = 1 /\ \A u \in Txn \ {current} : block'[u] = block[u]
    BY <1>1, <2>1, <2>3
  <2> QED BY <1>1, <2>1, <2>3, <2>4 DEF InOneBlock, Passed
<1>5. CASE StoreBlock
  <2>1. \A t \in Txn : block'[t] + included'[t] = block[t] + included[t]
    BY <1>1, <1>5 DEF StoreBlock, NoCount
  <2> QED BY <1>5, <2>1 DEF StoreBlock, InOneBlock, Passed, poolVars
<1>6. CASE DeleteProcessed
  BY <1>6 DEF DeleteProcessed, InOneBlock, Passed
<1>7. CASE MyTurn \/ TakeSnapshot
  BY <1>7 DEF MyTurn, TakeSnapshot, InOneBlock, Passed, poolVars
<1>8. CASE NotMyTurn \/ CheckPending \/ RefusePending \/ StartPass2
  BY <1>8 DEF NotMyTurn, CheckPending, RefusePending, StartPass2, InOneBlock, Passed, poolVars
<1>9. CASE DropPending \/ StoreNonces
  BY <1>9 DEF DropPending, StoreNonces, InOneBlock, Passed
<1> QED BY <1>2, <1>3, <1>4, <1>5, <1>6, <1>7, <1>8, <1>9 DEF MainStep, MakeBlock

(* The main thread and the jobs do not count restarts.                     *)
LEMMA OnlyRestartCounts ==
    ASSUME [Next]_vars, TypeOK
    PROVE  (Restart /\ restarts' # 0) \/ restarts' = restarts
<1>1. CASE PoolStep \/ UNCHANGED vars
  BY <1>1 DEF PoolStep, vars
<1>2. CASE MainStep
  BY <1>2 DEF MainStep, MakeBlock, TakeSnapshot, MyTurn, NotMyTurn, AddProcessed,
     DeleteProcessed, CheckPending, ApplyPending, RefusePending, StartPass2, DropPending,
     StoreBlock, StoreNonces
<1>3. CASE Restart
  BY <1>3 DEF Restart, TypeOK, MainTypeOK
<1> QED BY <1>1, <1>2, <1>3 DEF Next

(* The invariant about transactions that are sent once at a time.          *)
LEMMA OnceInductive ==
    ASSUME OncePerHash
    PROVE  Spec => []OnceInv
<1>1. Init => OnceInv
  BY DEF Init, PoolInit, MainIdle, OnceInv, OneHand, OneJob, IdleHasNone, PendingNotTaken,
     TakenIsNew, Taken, WalkIsPending, Applying, InOneBlock, Passed, NoCount
<1>2. IInv /\ OnceInv /\ [Next]_vars => OnceInv'
  <2> SUFFICES ASSUME IInv, OnceInv, [Next]_vars PROVE OnceInv'
    OBVIOUS
  <2>1. OneHand'
    BY HandsStep DEF IInv, OnceInv
  <2>2. ASSUME restarts' = 0 PROVE InOneBlock'
    <3>1. restarts = 0 /\ ~Restart
      BY <2>2, OnlyRestartCounts DEF IInv, Restart, TypeOK, MainTypeOK
    <3>2. CASE UNCHANGED vars
      BY <3>1, <3>2 DEF vars, mainVars, poolVars, OnceInv, InOneBlock, Passed
    <3> QED BY <3>1, <3>2, InOneBlockStep DEF OnceInv, Next
  <2> QED BY <2>1, <2>2 DEF OnceInv
<1> QED BY <1>1, <1>2, Inductive, PTL DEF Spec

(* A transaction that is not sent again while it is being handled gets     *)
(* into the chain once at most, whatever its nonces are and whichever way  *)
(* job and main thread divide it between them.                             *)
THEOREM NothingTwice ==
    ASSUME OncePerHash
    PROVE  Spec => []NoTxnTwice
<1>1. OnceInv => NoTxnTwice
  BY DEF OnceInv, InOneBlock, NoTxnTwice
<1> QED BY <1>1, OnceInductive, PTL

(* Its hash is never taken again once it is marked, not even after the     *)
(* databases that a restart empties are gone.                              *)
THEOREM MarkedStaysRefused ==
    ASSUME OncePerHash
    PROVE  Spec => MarkedRefusedForGood
<1> DEFINE Refused == \A t \in blockTxns :
                         t \notin processed \cup snapProcessed =>
                             t \notin processed' /\ block'[t] <= block[t]
<1>1. IInv /\ OnceInv /\ [Next]_vars => [Refused]_vars
  <2> SUFFICES ASSUME IInv, OnceInv, [Next]_vars, NEW t \in blockTxns,
                      t \notin processed \cup snapProcessed
               PROVE  t \notin processed' /\ block'[t] <= block[t]
    OBVIOUS
  <2>1. /\ t \in Txn /\ block[t] \in Nat /\ block \in [Txn -> Nat]
        /\ doing \in [Job -> Txn \cup {None}]
        /\ PendingNotTaken /\ TakenIsNew /\ WalkIsPending
    BY DEF IInv, TypeOK, PoolTypeOK, MainTypeOK, OnceInv, OneHand
  <2>2. CASE PoolStep
    <3>1. PICK j \in Job : Request(j) \/ JobStep(j)
      BY <2>2 DEF PoolStep, PoolNext
    <3>2. block' = block
      BY <2>2 DEF PoolStep, mainVars
    <3>3. processed' = processed \/ (stage[j] = "store" /\ processed' = processed \cup {doing[j]})
      BY <3>1 DEF Request, ClientRequest, PeerRequest, Start, JobStep, Track, Verify,
         Check, Hold, CheckNonce, HoldAhead, Execute, Refuse, StoreFee, StoreProcessed,
         MarkBlockTxn, Release
    <3>4. stage[j] = "store" => doing[j] # t
      BY <2>1 DEF TakenIsNew, Taken
    <3> QED BY <2>1, <3>2, <3>3, <3>4
  <2>3. CASE AddProcessed
    <3>1. PICK u \in todo : block' = [block EXCEPT ![u] = @ + 1] /\ processed' = processed
      BY <2>3 DEF AddProcessed
    <3>2. u # t
      BY <2>1, <2>3 DEF AddProcessed, WalkIsPending
    <3> QED BY <2>1, <3>1, <3>2
  <2>4. CASE ApplyPending
    <3>1. current # t /\ block' = [block EXCEPT ![current] = @ + 1] /\ processed' = processed
      BY <2>1, <2>4 DEF ApplyPending, WalkIsPending, Applying
    <3> QED BY <2>1, <3>1
  <2>5. CASE StoreBlock
    BY <2>1, <2>5 DEF StoreBlock, NoCount, poolVars
  <2>6. CASE DeleteProcessed
    BY <2>1, <2>6 DEF DeleteProcessed
  <2>7. CASE TakeSnapshot \/ MyTurn \/ NotMyTurn \/ CheckPending \/ RefusePending \/ StartPass2
    BY <2>1, <2>7 DEF TakeSnapshot, MyTurn, NotMyTurn, CheckPending, RefusePending, StartPass2,
       poolVars
  <2>8. CASE DropPending \/ StoreNonces
    BY <2>1, <2>8 DEF DropPending, StoreNonces
  <2>9. CASE Restart
    BY <2>1, <2>9 DEF Restart, NoCount
  <2>10. CASE UNCHANGED vars
    BY <2>1, <2>10 DEF vars, poolVars, mainVars
  <2> QED BY <2>2, <2>3, <2>4, <2>5, <2>6, <2>7, <2>8, <2>9, <2>10 DEF Next, MainStep, MakeBlock
<1> QED BY <1>1, Inductive, OnceInductive, PTL DEF Spec, MarkedRefusedForGood

-----------------------------------------------------------------------------
(* The tables agree, as long as nobody signs two transactions with one     *)
(* nonce.                                                                  *)
(*                                                                         *)
(* A nonce is compared in one step and recorded in a later one.  In        *)
(* between the running nonces of its signers stay as they are: another     *)
(* transaction that is about to record one of them would have the same     *)
(* nonce.                                                                  *)

(* The nonce a transaction is compared with is the running one: the stored *)
(* one is there when nothing runs ahead of it.                             *)
LEMMA CurrentIsRunning ==
    ASSUME TypeOK, NEW w \in Wallet, walletNonce[w] <= preNonce[w]
    PROVE  CurrentNonce(w) = preNonce[w]
BY DEF CurrentNonce, TypeOK, PoolTypeOK

(* Two transactions past their nonce checks have no signer in common, and  *)
(* nobody handles one of them twice.                                       *)
LEMMA ExecutingApart ==
    ASSUME Numbered, TypeOK, NonceInv, NEW t \in Txn, NEW u \in Txn, t # u,
           Executing(t), Executing(u), NEW w \in Signers(t)
    PROVE  w \notin Signers(u)
BY NonceAssumption DEF NonceInv, Signers, Numbered

(* Recording the nonces of a transaction moves the running nonces of its   *)
(* signers on by one, and leaves the others.                               *)
LEMMA AdmitMovesOn ==
    ASSUME TypeOK, NonceInv, NEW t \in Txn, Executing(t), AdmitNonce(t)
    PROVE  /\ \A w \in Signers(t) : preNonce'[w] = preNonce[w] + 1 /\ preNonce'[w] = NonceOf[t][w]
           /\ \A w \in Wallet \ Signers(t) : preNonce'[w] = preNonce[w] /\ NonceOf[t][w] = 0
           /\ \A w \in Wallet : preNonce[w] <= preNonce'[w] /\ NonceOf[t][w] <= preNonce'[w]
<1>1. /\ preNonce \in [Wallet -> Nat] /\ \A w \in Wallet : NonceOf[t][w] \in Nat
      /\ \A w \in Signers(t) : NonceOf[t][w] = preNonce[w] + 1
  BY NonceAssumption DEF TypeOK, PoolTypeOK, NonceInv
<1> QED BY <1>1 DEF AdmitNonce, Signers

(* What is left of NonceInv when a transaction's nonces are recorded: no   *)
(* other one that is past its check loses its verdict.                     *)
LEMMA AdmitKeepsVerdicts ==
    ASSUME Numbered, TypeOK, NonceInv, NEW t \in Txn, Executing(t), AdmitNonce(t),
           usedNonce' \in [Wallet -> Nat], walletNonce' = walletNonce,
           \A w \in Wallet : usedNonce'[w] <= preNonce'[w],
           \A u \in Txn : Executing(u)' => Executing(u) /\ u # t,
           \A u \in Txn : InTables(u)' => InTables(u) \/ u = t
    PROVE  NonceInv'
<1>1. /\ \A w \in Signers(t) : preNonce'[w] = preNonce[w] + 1 /\ preNonce'[w] = NonceOf[t][w]
      /\ \A w \in Wallet \ Signers(t) : preNonce'[w] = preNonce[w] /\ NonceOf[t][w] = 0
      /\ \A w \in Wallet : preNonce[w] <= preNonce'[w] /\ NonceOf[t][w] <= preNonce'[w]
  BY AdmitMovesOn
<1>2. /\ preNonce \in [Wallet -> Nat] /\ preNonce' \in [Wallet -> Nat]
      /\ walletNonce \in [Wallet -> Nat]
      /\ \A u \in Txn, w \in Wallet : NonceOf[u][w] \in Nat
  BY AdmitNonceType, NonceAssumption DEF TypeOK, PoolTypeOK
<1>3. \A w \in Wallet : walletNonce'[w] <= preNonce'[w]
  BY <1>1, <1>2 DEF NonceInv
<1>4. ASSUME NEW u \in Txn, Executing(u)', NEW w \in Signers(u)
      PROVE  NonceOf[u][w] = preNonce'[w] + 1
  <2>1. Executing(u) /\ u # t /\ w \in Wallet
    BY <1>4 DEF Signers
  <2>2. w \notin Signers(t)
    BY <2>1, <1>4, ExecutingApart
  <2> QED BY <1>1, <1>4, <2>1, <2>2 DEF NonceInv
<1>5. ASSUME NEW u \in Txn, InTables(u)', NEW w \in Wallet
      PROVE  NonceOf[u][w] <= preNonce'[w]
  <2>1. CASE InTables(u)
    <3>1. NonceOf[u][w] <= preNonce[w]
      BY <2>1 DEF NonceInv
    <3> QED BY <1>1, <1>2, <3>1
  <2>2. CASE u = t
    BY <1>1, <2>2
  <2> QED BY <1>5, <2>1, <2>2
<1> QED BY <1>3, <1>4, <1>5 DEF NonceInv, Signers

(* The numbers given out so far, and one more.                             *)
LEMMA AdmitKeepsLedger ==
    ASSUME TypeOK, NonceInv, NonceLedgerExact, restarts = 0, NEW t \in Txn, Executing(t),
           AdmitNonce(t), \A u \in Txn : Admitted(u)' <=> Admitted(u) \/ u = t
    PROVE  NonceLedgerExact'
<1>1. /\ \A w \in Signers(t) : preNonce'[w] = preNonce[w] + 1 /\ preNonce'[w] = NonceOf[t][w]
      /\ \A w \in Wallet \ Signers(t) : preNonce'[w] = preNonce[w] /\ NonceOf[t][w] = 0
  BY AdmitMovesOn
<1> DEFINE Given(w) == {NonceOf[u][w] : u \in {v \in Txn : Admitted(v) /\ w \in Signers(v)}}
           Later(w) == {NonceOf[u][w] : u \in {v \in Txn : Admitted(v)' /\ w \in Signers(v)}}
<1>2. SUFFICES ASSUME NEW w \in Wallet PROVE Later(w) = 1 .. preNonce'[w]
  BY DEF NonceLedgerExact, Signers
<1>3. Given(w) = 1 .. preNonce[w] /\ preNonce[w] \in Nat
  BY DEF NonceLedgerExact, TypeOK, PoolTypeOK
<1>4. CASE w \in Signers(t)
  <2>1. Later(w) = Given(w) \cup {NonceOf[t][w]}
    BY <1>4
  <2>2. 1 .. preNonce[w] + 1 = (1 .. preNonce[w]) \cup {preNonce[w] + 1}
    BY <1>3
  <2> QED BY <1>1, <1>3, <1>4, <2>1, <2>2
<1>5. CASE w \notin Signers(t)
  <2>1. Later(w) = Given(w)
    BY <1>5
  <2> QED BY <1>1, <1>3, <1>5, <2>1
<1> QED BY <1>4, <1>5

(* A job's step keeps the tables in agreement.                             *)
LEMMA JobKeepsTables ==
    ASSUME Numbered, TypeOK, OneHand, TablesInv, PoolStep
    PROVE  TablesInv'
<1>1. PICK j \in Job : Request(j) \/ JobStep(j)
  BY DEF PoolStep, PoolNext
<1>2. /\ stage \in [Job -> Stages] /\ doing \in [Job -> Txn \cup {None}]
      /\ stage[j] # "idle" => doing[j] \in Txn /\ doing[j] # None
      /\ \A w \in Wallet : preNonce[w] \in Nat /\ walletNonce[w] \in Nat /\ usedNonce[w] \in Nat
  BY NoneAssumption DEF TypeOK, PoolTypeOK, MainTypeOK
<1>3. /\ UNCHANGED <<phase, current, block, included, usedNonce, restarts>>
      /\ OneJob /\ PendingNotTaken /\ WalkIsPending
      /\ StoreHasFee /\ NonceInv /\ NonceLedgerExact /\ ProcessedHasFee
  BY DEF PoolStep, mainVars, OneHand, TablesInv, TablesAgree
<1>4. \A i \in Job \ {j} : stage'[i] = stage[i] /\ doing'[i] = doing[i]
  BY <1>1, <1>2 DEF Request, ClientRequest, PeerRequest, Start, JobStep, Track, Verify, Check,
     Hold, CheckNonce, HoldAhead, Execute, Refuse, StoreFee, StoreProcessed, MarkBlockTxn,
     Release, Goto, Finish
<1>5. NonceInv' => StoredNonceAdmitted'
  BY DEF NonceInv, StoredNonceAdmitted
<1>6. ASSUME UNCHANGED <<processed, statusFee, blockTxns, preNonce, walletNonce>>,
             stage[j] \notin {"fee", "store", "mark"},
             stage'[j] \notin {"execute", "fee", "store", "mark"}
      PROVE  TablesInv'
  <2>1. StoreHasFee'
    BY <1>3, <1>4, <1>6 DEF StoreHasFee
  <2>2. \A t \in Txn : (Executing(t)' => Executing(t)) /\ (InTables(t)' => InTables(t))
    BY <1>3, <1>4, <1>6 DEF Executing, InTables, Applying
  <2>3. NonceInv'
    BY <1>3, <1>6, <2>2 DEF NonceInv
  <2>4. \A t \in Txn : Admitted(t)' <=> Admitted(t)
    BY <1>4, <1>6 DEF Admitted
  <2>5. NonceLedgerExact' /\ ProcessedHasFee'
    BY <1>3, <1>6, <2>4 DEF NonceLedgerExact, ProcessedHasFee
  <2> QED BY <1>5, <2>1, <2>3, <2>5 DEF TablesInv, TablesAgree
<1>7. CASE Request(j) \/ Track(j) \/ Verify(j) \/ Check(j)
  BY <1>2, <1>6, <1>7 DEF Request, ClientRequest, PeerRequest, Start, Track, Verify, Check, Goto,
     Finish
<1>8. CASE Hold(j) \/ HoldAhead(j) \/ Refuse(j) \/ Release(j)
  BY <1>2, <1>6, <1>8 DEF Hold, HoldAhead, Refuse, Release, Goto, Finish
<1>9. CASE CheckNonce(j)
  <2>1. /\ UNCHANGED <<processed, statusFee, blockTxns, preNonce, walletNonce, doing>>
        /\ stage[j] = "nonce" /\ doing[j] \in Txn
        /\ \/ stage'[j] \in {"holdRelease", "release"}
           \/ stage'[j] = "execute" /\ NonceNext(doing[j])
    BY <1>2, <1>9 DEF CheckNonce, Goto
  <2>2. CASE stage'[j] \in {"holdRelease", "release"}
    BY <1>6, <2>1, <2>2
  <2>3. CASE stage'[j] = "execute" /\ NonceNext(doing[j])
    <3>1. \A w \in Signers(doing[j]) : NonceOf[doing[j]][w] = preNonce[w] + 1
      BY <1>3, <2>3, CurrentIsRunning DEF NonceNext, NonceInv, Signers
    <3>2. \A t \in Txn : /\ Executing(t)' => Executing(t) \/ t = doing[j]
                         /\ InTables(t)' => InTables(t)
      BY <1>3, <1>4, <2>1, <2>3 DEF Executing, InTables, Applying
    <3>3. NonceInv'
      BY <1>3, <2>1, <3>1, <3>2 DEF NonceInv
    <3>4. \A t \in Txn : Admitted(t)' <=> Admitted(t)
      BY <1>4, <2>1, <2>3 DEF Admitted
    <3>5. NonceLedgerExact' /\ ProcessedHasFee' /\ StoreHasFee'
      BY <1>3, <1>4, <2>1, <2>3, <3>4 DEF NonceLedgerExact, ProcessedHasFee, StoreHasFee
    <3> QED BY <1>5, <3>3, <3>5 DEF TablesInv, TablesAgree
  <2> QED BY <2>1, <2>2, <2>3
<1>10. CASE Execute(j)
  <2> DEFINE t == doing[j]
  <2>1. /\ UNCHANGED <<processed, statusFee, blockTxns, walletNonce, doing>> /\ AdmitNonce(t)
        /\ stage[j] = "execute" /\ stage'[j] = "fee" /\ t \in Txn
    BY <1>2, <1>10 DEF Execute, Goto
  <2>2. Executing(t)
    BY <2>1 DEF Executing
  <2>3. ~(Applying /\ current = t) /\ \A i \in Job \ {j} : doing[i] # t
    BY <1>2, <1>3, <2>1 DEF WalkIsPending, PendingNotTaken, OneJob
  <2>4. \A u \in Txn : Executing(u)' => Executing(u) /\ u # t
    BY <1>3, <1>4, <2>1, <2>3 DEF Executing, Applying
  <2>5. \A u \in Txn : InTables(u)' => InTables(u) \/ u = t
    BY <1>4, <2>1 DEF InTables
  <2>6. \A u \in Txn : Admitted(u)' <=> Admitted(u) \/ u = t
    BY <1>4, <2>1 DEF Admitted
  <2>7. StoreHasFee' /\ ProcessedHasFee'
    BY <1>3, <1>4, <2>1 DEF StoreHasFee, ProcessedHasFee
  <2> HIDE DEF t
  <2>8. \A w \in Wallet : preNonce[w] <= preNonce'[w] /\ preNonce'[w] \in Nat
    BY <1>3, <2>1, <2>2, AdmitMovesOn, AdmitNonceType DEF TypeOK, PoolTypeOK
  <2>9. \A w \in Wallet : usedNonce'[w] <= preNonce'[w]
    BY <1>2, <1>3, <2>8 DEF NonceInv
  <2>10. usedNonce' \in [Wallet -> Nat]
    BY <1>3 DEF TypeOK, MainTypeOK
  <2>11. NonceInv'
    BY <1>3, <2>1, <2>2, <2>4, <2>5, <2>9, <2>10, AdmitKeepsVerdicts
  <2>12. restarts = 0 => NonceLedgerExact'
    BY <1>3, <2>1, <2>2, <2>6, AdmitKeepsLedger
  <2>13. NonceLedgerExact'
    BY <1>3, <2>12 DEF NonceLedgerExact
  <2> QED BY <1>5, <2>7, <2>11, <2>13 DEF TablesInv, TablesAgree
<1>11. CASE StoreFee(j) \/ StoreProcessed(j) \/ MarkBlockTxn(j)
  <2>1. /\ UNCHANGED <<preNonce, walletNonce, doing>> /\ doing[j] \in Txn
        /\ \/ /\ stage[j] = "fee" /\ stage'[j] = "store"
              /\ statusFee' = statusFee \cup {doing[j]} /\ UNCHANGED <<processed, blockTxns>>
           \/ /\ stage[j] = "store" /\ stage'[j] = "mark"
              /\ processed' = processed \cup {doing[j]} /\ UNCHANGED <<statusFee, blockTxns>>
           \/ /\ stage[j] = "mark" /\ stage'[j] = "release"
              /\ blockTxns' = blockTxns \cup {doing[j]} /\ UNCHANGED <<statusFee, processed>>
    BY <1>2, <1>11 DEF StoreFee, StoreProcessed, MarkBlockTxn, Goto
  <2>2. StoreHasFee'
    BY <1>3, <1>4, <2>1 DEF StoreHasFee
  <2>3. ProcessedHasFee'
    BY <1>3, <2>1 DEF ProcessedHasFee, StoreHasFee
  <2>4. \A t \in Txn : Executing(t)' => Executing(t)
    BY <1>3, <1>4, <2>1 DEF Executing, Applying
  <2>5. \A t \in Txn : InTables(t)' => InTables(t)
    BY <1>4, <2>1 DEF InTables
  <2>6. \A t \in Txn : Admitted(t)' <=> Admitted(t)
    BY <1>4, <2>1 DEF Admitted
  <2>7. NonceInv'
    BY <1>3, <2>1, <2>4, <2>5 DEF NonceInv
  <2>8. NonceLedgerExact'
    BY <1>3, <2>1, <2>6 DEF NonceLedgerExact
  <2> QED BY <1>5, <2>2, <2>3, <2>7, <2>8 DEF TablesInv, TablesAgree
<1> QED BY <1>1, <1>7, <1>8, <1>9, <1>10, <1>11 DEF JobStep

(* So does a step of the main thread.                                      *)
LEMMA MainKeepsTables ==
    ASSUME Numbered, TypeOK, OneHand, TablesInv, MainStep
    PROVE  TablesInv'
<1>1. UNCHANGED <<stage, doing, restarts>>
  BY DEF MainStep, MakeBlock, TakeSnapshot, MyTurn, NotMyTurn, AddProcessed, DeleteProcessed,
         CheckPending, ApplyPending, RefusePending, StartPass2, DropPending, StoreBlock,
         StoreNonces, poolVars
<1>2. /\ OneJob /\ PendingNotTaken /\ TakenIsNew /\ WalkIsPending
      /\ StoreHasFee /\ NonceInv /\ NonceLedgerExact /\ ProcessedHasFee
      /\ \A w \in Wallet : preNonce[w] \in Nat /\ walletNonce[w] \in Nat /\ usedNonce[w] \in Nat
      /\ \A t \in Txn, w \in Wallet : NonceOf[t][w] \in Nat
  BY NonceAssumption DEF OneHand, TablesInv, TablesAgree, TypeOK, PoolTypeOK, MainTypeOK
<1>3. NonceInv' => StoredNonceAdmitted'
  BY DEF NonceInv, StoredNonceAdmitted
<1>4. ASSUME preNonce' = preNonce, blockTxns' = blockTxns,
             \A w \in Wallet : walletNonce'[w] <= preNonce[w] /\ usedNonce'[w] <= preNonce[w],
             \A t \in Txn : Applying' /\ current' = t =>
                Executing(t) \/ \A w \in Signers(t) : NonceOf[t][w] = preNonce[w] + 1,
             processed' \subseteq processed
      PROVE  NonceInv' /\ NonceLedgerExact'
  <2>1. \A t \in Txn : InTables(t)' => InTables(t)
    BY <1>1, <1>4 DEF InTables
  <2>2. \A t \in Txn : Executing(t)' => Executing(t) \/ \A w \in Signers(t) : NonceOf[t][w] = preNonce[w] + 1
    BY <1>1, <1>4 DEF Executing
  <2>3. NonceInv'
    BY <1>2, <1>4, <2>1, <2>2 DEF NonceInv
  <2>4. \A t \in Txn : Admitted(t)' <=> Admitted(t)
    BY <1>1, <1>4 DEF Admitted
  <2> QED BY <1>1, <1>2, <1>4, <2>3, <2>4 DEF NonceLedgerExact
<1>5. ASSUME UNCHANGED <<preNonce, blockTxns, walletNonce, usedNonce, statusFee, block, included>>,
             processed' \subseteq processed,
             \A t \in Txn : Applying' /\ current' = t =>
                Executing(t) \/ \A w \in Signers(t) : NonceOf[t][w] = preNonce[w] + 1
      PROVE  TablesInv'
  <2>1. NonceInv' /\ NonceLedgerExact'
    BY <1>2, <1>4, <1>5 DEF NonceInv
  <2>2. StoreHasFee' /\ ProcessedHasFee'
    BY <1>1, <1>2, <1>5 DEF StoreHasFee, ProcessedHasFee
  <2> QED BY <1>3, <2>1, <2>2 DEF TablesInv, TablesAgree
<1>6. CASE TakeSnapshot \/ MyTurn \/ NotMyTurn \/ DeleteProcessed
  BY <1>5, <1>6 DEF TakeSnapshot, MyTurn, NotMyTurn, DeleteProcessed, poolVars, Applying
<1>7. CASE RefusePending \/ StartPass2 \/ DropPending
  BY <1>5, <1>7 DEF RefusePending, StartPass2, DropPending, poolVars, Applying
<1>8. CASE CheckPending
  <2>1. /\ UNCHANGED <<preNonce, blockTxns, walletNonce, usedNonce, statusFee, block, included,
                       processed>>
        /\ ~Applying
        /\ Applying' => NonceNext(current') /\ current' \in Txn
    BY <1>8 DEF CheckPending, poolVars, Applying
  <2>2. \A t \in Txn : NonceNext(t) => \A w \in Signers(t) : NonceOf[t][w] = preNonce[w] + 1
    BY <1>2, CurrentIsRunning DEF NonceNext, NonceInv, Signers
  <2> QED BY <1>5, <2>1, <2>2
<1>9. CASE AddProcessed
  <2>1. PICK t \in todo : /\ block' = [block EXCEPT ![t] = @ + 1]
                          /\ statusFee' = statusFee \ {t}
                          /\ UseNonces(t)
    BY <1>9 DEF AddProcessed
  <2>2. /\ UNCHANGED <<preNonce, blockTxns, walletNonce, included, processed>> /\ ~Applying'
        /\ t \in processed /\ t \in Txn
    BY <1>2, <1>9, <2>1 DEF AddProcessed, Applying, WalkIsPending, TypeOK, MainTypeOK
  <2>3. \A w \in Wallet : NonceOf[t][w] <= preNonce[w]
    BY <1>2, <2>2 DEF NonceInv, InTables
  <2>4. \A w \in Wallet : usedNonce'[w] <= preNonce[w]
    BY <1>2, <2>1, <2>3 DEF UseNonces, NonceInv
  <2>5. NonceInv' /\ NonceLedgerExact'
    BY <1>2, <1>4, <2>2, <2>4 DEF NonceInv
  <2>6. StoreHasFee'
    BY <1>1, <1>2, <2>1, <2>2 DEF StoreHasFee, TakenIsNew, Taken
  <2>7. block'[t] # 0 /\ \A u \in Txn \ {t} : block'[u] = block[u]
    BY <2>1, <2>2 DEF TypeOK, MainTypeOK
  <2>8. ProcessedHasFee'
    BY <1>2, <2>1, <2>2, <2>7 DEF ProcessedHasFee, TypeOK, PoolTypeOK
  <2> QED BY <1>3, <2>5, <2>6, <2>8 DEF TablesInv, TablesAgree
<1>10. CASE ApplyPending
  <2> DEFINE t == current
  <2>1. /\ UNCHANGED <<walletNonce, statusFee, included, processed>> /\ ~Applying' /\ t \in Txn
        /\ Applying /\ AdmitNonce(t) /\ UseNonces(t) /\ blockTxns' = blockTxns \cup {t}
        /\ block' = [block EXCEPT ![t] = @ + 1]
    BY <1>10 DEF ApplyPending, Applying, TypeOK, MainTypeOK
  <2>2. Executing(t)
    BY <2>1 DEF Executing
  <2>3. \A i \in Job : doing[i] = t => stage[i] \notin {"execute"}
    BY <1>2, <2>1 DEF WalkIsPending, PendingNotTaken
  <2>4. \A u \in Txn : Executing(u)' => Executing(u) /\ u # t
    BY <1>1, <2>1, <2>3 DEF Executing
  <2>5. \A u \in Txn : InTables(u)' => InTables(u) \/ u = t
    BY <1>1, <2>1 DEF InTables
  <2>6. \A u \in Txn : Admitted(u)' <=> Admitted(u) \/ u = t
    BY <1>1, <2>1 DEF Admitted
  <2>7. \A u \in Txn : block'[u] = 0 => block[u] = 0
    BY <2>1 DEF TypeOK, MainTypeOK
  <2>8. StoreHasFee' /\ ProcessedHasFee'
    BY <1>1, <1>2, <2>1, <2>7 DEF StoreHasFee, ProcessedHasFee, TypeOK, PoolTypeOK
  <2> HIDE DEF t
  <2>9. \A w \in Wallet : /\ preNonce[w] <= preNonce'[w] /\ preNonce'[w] \in Nat
                          /\ NonceOf[t][w] <= preNonce'[w]
    BY <1>2, <2>1, <2>2, AdmitMovesOn, AdmitNonceType DEF TypeOK, PoolTypeOK
  <2>10. \A w \in Wallet : usedNonce'[w] <= preNonce'[w]
    BY <1>2, <2>1, <2>9 DEF NonceInv, UseNonces
  <2>11. usedNonce' \in [Wallet -> Nat]
    BY <2>1, UseNoncesType DEF TypeOK, MainTypeOK
  <2>12. NonceInv'
    BY <1>2, <2>1, <2>2, <2>4, <2>5, <2>10, <2>11, AdmitKeepsVerdicts
  <2>13. restarts = 0 => NonceLedgerExact'
    BY <1>2, <2>1, <2>2, <2>6, AdmitKeepsLedger
  <2>14. NonceLedgerExact'
    BY <1>1, <2>13 DEF NonceLedgerExact
  <2> QED BY <1>3, <2>8, <2>12, <2>14 DEF TablesInv, TablesAgree
<1>11. CASE StoreBlock
  <2>1. /\ UNCHANGED <<preNonce, blockTxns, walletNonce, usedNonce, statusFee, processed>>
        /\ ~Applying'
        /\ \A t \in Txn : included'[t] = 0 => block[t] = 0 /\ included[t] = 0
    BY <1>11 DEF StoreBlock, poolVars, Applying, TypeOK, MainTypeOK
  <2>2. NonceInv' /\ NonceLedgerExact'
    BY <1>2, <1>4, <2>1 DEF NonceInv
  <2>3. StoreHasFee' /\ ProcessedHasFee'
    BY <1>1, <1>2, <2>1 DEF StoreHasFee, ProcessedHasFee, TypeOK, PoolTypeOK
  <2> QED BY <1>3, <2>2, <2>3 DEF TablesInv, TablesAgree
<1>12. CASE StoreNonces
  <2>1. /\ UNCHANGED <<preNonce, blockTxns, statusFee, processed, block, included>> /\ ~Applying'
        /\ \A w \in Wallet : walletNonce'[w] \in {walletNonce[w], usedNonce[w]} /\ usedNonce'[w] = 0
    BY <1>12 DEF StoreNonces, Applying, NoNonce
  <2>2. NonceInv' /\ NonceLedgerExact'
    BY <1>2, <1>4, <2>1 DEF NonceInv
  <2>3. StoreHasFee' /\ ProcessedHasFee'
    BY <1>1, <1>2, <2>1 DEF StoreHasFee, ProcessedHasFee
  <2> QED BY <1>3, <2>2, <2>3 DEF TablesInv, TablesAgree
<1> QED BY <1>6, <1>7, <1>8, <1>9, <1>10, <1>11, <1>12 DEF MainStep, MakeBlock

(* A restart leaves nothing in flight, and the running nonces where the    *)
(* stored ones are.                                                        *)
LEMMA RestartKeepsTables ==
    ASSUME TypeOK, TablesInv, Restart
    PROVE  TablesInv'
<1>1. /\ processed' = {} /\ phase' = "wait" /\ restarts' # 0 /\ preNonce' = walletNonce
      /\ walletNonce' = walletNonce /\ usedNonce' = NoNonce
      /\ \A j \in Job : stage'[j] = "idle"
      /\ \A w \in Wallet : walletNonce[w] \in Nat
  BY DEF Restart, TypeOK, PoolTypeOK, MainTypeOK
<1>2. \A t \in Txn : ~Executing(t)' /\ ~InTables(t)'
  BY <1>1 DEF Executing, InTables, Applying
<1>3. NonceInv' /\ StoredNonceAdmitted'
  BY <1>1, <1>2 DEF NonceInv, StoredNonceAdmitted, NoNonce
<1>4. NonceLedgerExact' /\ ProcessedHasFee' /\ StoreHasFee'
  BY <1>1 DEF NonceLedgerExact, ProcessedHasFee, StoreHasFee
<1> QED BY <1>3, <1>4 DEF TablesInv, TablesAgree

(* The databases that jobs and main thread write one by one agree whenever *)
(* they are looked at, if transactions are sent once at a time and nobody  *)
(* signs two of them with one nonce: the nonces given out have no gap and  *)
(* no duplicate, and the stored ones are behind them.                      *)
THEOREM TablesAlwaysAgree ==
    ASSUME OncePerHash, Numbered
    PROVE  Spec => []TablesAgree
<1>1. Init => TablesInv
  <2> SUFFICES ASSUME Init PROVE TablesInv
    OBVIOUS
  <2>1. \A t \in Txn : ~Executing(t) /\ ~InTables(t) /\ ~Admitted(t)
    BY DEF Init, PoolInit, MainIdle, Executing, InTables, Admitted, Applying
  <2>2. \A w \in Wallet : walletNonce[w] = 0 /\ preNonce[w] = 0 /\ usedNonce[w] = 0
    BY DEF Init, PoolInit, MainIdle, NoNonce
  <2>3. NonceInv /\ StoredNonceAdmitted
    BY <2>1, <2>2 DEF NonceInv, StoredNonceAdmitted
  <2>4. NonceLedgerExact
    BY <2>1, <2>2 DEF NonceLedgerExact
  <2>5. StoreHasFee /\ ProcessedHasFee
    BY DEF Init, PoolInit, StoreHasFee, ProcessedHasFee
  <2> QED BY <2>3, <2>4, <2>5 DEF TablesInv, TablesAgree
<1>2. IInv /\ OnceInv /\ TablesInv /\ [Next]_vars => TablesInv'
  <2> SUFFICES ASSUME IInv, OnceInv, TablesInv, [Next]_vars PROVE TablesInv'
    OBVIOUS
  <2>1. TypeOK /\ OneHand
    BY DEF IInv, OnceInv
  <2>2. CASE UNCHANGED vars
    BY <2>2 DEF vars, poolVars, mainVars, TablesInv, StoreHasFee, NonceInv, Executing, Applying,
       InTables, TablesAgree, NonceLedgerExact, Admitted, ProcessedHasFee, StoredNonceAdmitted
  <2> QED BY <2>1, <2>2, JobKeepsTables, MainKeepsTables, RestartKeepsTables DEF Next
<1>3. TablesInv => TablesAgree
  BY DEF TablesInv
<1> QED BY <1>1, <1>2, <1>3, Inductive, OnceInductive, PTL DEF Spec
=============================================================================
