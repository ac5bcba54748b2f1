------------------------- MODULE BlockReplicaProofs -------------------------
(***************************************************************************)
(* Proofs about BlockReplica, for any blocks, transactions and jobs, and   *)
(* any number of restarts: one chain, the effects of its transactions,     *)
(* and, in the last part, how a clean block is taken over.                 *)
(***************************************************************************)
EXTENDS BlockReplica, FoldProofs, SequenceTheorems

(* The stored blocks have a highest one, so that Tip is it, and the block  *)
(* that is processed is a block.                                           *)
HasTip == stored # {} => \E b \in stored : \A c \in stored : Height[c] <= Height[b]

ChainInv ==
    /\ stored \subseteq Block
    /\ current \in Block \cup {None}
    /\ phase # "idle" => current \in Block
    /\ HasTip
    /\ OneChain

(* Tip is one of the highest stored blocks.                                *)
LEMMA TipIsHighest ==
    ASSUME HasTip, stored # {}
    PROVE  Tip \in stored /\ \A c \in stored : Height[c] <= Height[Tip]
BY DEF HasTip, Tip

(* The invariant holds at the beginning.                                   *)
LEMMA ChainInit == Init => ChainInv
BY DEF Init, ChainInv, HasTip, OneChain

(* The comparison of the hashes lets a block through only behind the tip,  *)
(* one above everything that is stored.                                    *)
LEMMA StoreKeepsChain == ChainInv /\ Store => ChainInv'
<1> SUFFICES ASSUME ChainInv, Store PROVE ChainInv'
  OBVIOUS
<1>1. /\ current \in Block /\ current' = current
      /\ stored' = stored \cup {current}
      /\ Parent[current] = Tip
  BY DEF ChainInv, Store, Leave, SameBlock
<1>2. CASE stored = {}
  <2>1. stored' = {current} /\ Parent[current] = None
    BY <1>1, <1>2 DEF Tip
  <2>2. Height[current] <= Height[current]
    BY <1>1, HeightAssumption
  <2> QED BY <1>1, <2>1, <2>2 DEF ChainInv, HasTip, OneChain
<1>3. CASE stored # {}
  <2>1. Tip \in stored /\ \A c \in stored : Height[c] <= Height[Tip]
    BY <1>3, TipIsHighest DEF ChainInv
  <2>2. Tip \in Block /\ Tip # None
    BY <2>1, ParentAssumption DEF ChainInv
  <2>3. Height[current] = Height[Tip] + 1
    BY <1>1, <2>2, HeightAssumption
  <2>4. \A c \in stored : Height[c] \in Nat /\ Height[c] < Height[current]
    BY <2>1, <2>2, <2>3, HeightAssumption DEF ChainInv
  <2>5. \A c \in stored : Parent[c] # Tip
    <3> SUFFICES ASSUME NEW c \in stored, Parent[c] = Tip PROVE FALSE
      OBVIOUS
    <3>1. c \in Block /\ Height[c] = Height[Tip] + 1
      BY <2>2, HeightAssumption DEF ChainInv
    <3>2. Height[c] <= Height[Tip] /\ Height[Tip] \in Nat
      BY <2>1, <2>2, HeightAssumption
    <3> QED BY <3>1, <3>2
  <2>6. HasTip'
    BY <1>1, <2>4, HeightAssumption DEF HasTip
  <2>7. OneChain'
    BY <1>1, <2>1, <2>5 DEF OneChain, ChainInv
  <2> QED BY <1>1, <2>6, <2>7 DEF ChainInv
<1> QED BY <1>2, <1>3

(* The invariant is inductive: a block is stored behind the tip only.      *)
LEMMA ChainStep == ChainInv /\ [Next]_vars => ChainInv'
<1> SUFFICES ASSUME ChainInv, [Next]_vars PROVE ChainInv'
  OBVIOUS
<1>1. ASSUME stored' = stored, current' = current, phase' # "idle" => phase # "idle"
      PROVE  ChainInv'
  BY <1>1 DEF ChainInv, HasTip, OneChain
<1>2. CASE PoolStep
  BY <1>1, <1>2 DEF PoolStep, buildVars
<1>3. ASSUME NEW b \in Block, Receive(b) PROVE ChainInv'
  BY <1>3 DEF Receive, ChainInv, HasTip, OneChain
<1>4. CASE Wrap \/ Wrapped
  BY <1>1, <1>4 DEF Wrap, Wrapped, buildVars
<1>5. CASE AddKnown \/ DropKey
  BY <1>1, <1>5 DEF AddKnown, DropKey
<1>6. CASE CheckFresh \/ ApplyFresh
  BY <1>1, <1>6 DEF CheckFresh, ApplyFresh
<1>7. CASE StartPass2 \/ DropPending
  BY <1>1, <1>7 DEF StartPass2, DropPending
<1>8. CASE CountFees \/ Replay \/ Forget
  BY <1>1, <1>8 DEF CountFees, Replay, Forget, buildVars
<1>9. CASE Store
  BY <1>9, StoreKeepsChain
<1>10. CASE RefuseBlock
  BY <1>1, <1>10 DEF RefuseBlock, Leave
<1>11. CASE StoreWallets \/ StoreNonces
  BY <1>1, <1>11 DEF StoreWallets, StoreNonces, buildVars
<1>12. CASE Restart
  BY <1>12 DEF Restart, ChainInv, HasTip, OneChain
<1>13. CASE UNCHANGED vars
  BY <1>1, <1>13 DEF vars, replicaVars, buildVars
<1> QED BY <1>2, <1>3, <1>4, <1>5, <1>6, <1>7, <1>8, <1>9, <1>10, <1>11, <1>12, <1>13
        DEF Next, Process

(* The stored blocks form one chain, although a block is received behind   *)
(* any stored block and blocks of several proposers compete for a height:  *)
(* in every instance, whatever the jobs do and whenever the node restarts. *)
THEOREM OneChainAlways == Spec => []OneChain
<1>1. ChainInv => OneChain
  BY DEF ChainInv
<1> QED BY ChainInit, ChainStep, <1>1, PTL DEF Spec
-----------------------------------------------------------------------------
(* Sequences of transactions. *)

(* What is in a sequence when something is appended.                       *)
LEMMA SetOfAppend ==
    ASSUME NEW s \in Seq(Txn), NEW t \in Txn
    PROVE  ToSet(Append(s, t)) = ToSet(s) \cup {t} /\ Append(s, t) \in Seq(Txn)
<1>1. /\ Len(s) \in Nat /\ Append(s, t) \in Seq(Txn) /\ Len(Append(s, t)) = Len(s) + 1
      /\ \A i \in 1 .. Len(s) : Append(s, t)[i] = s[i]
  OBVIOUS
<1>2. Append(s, t)[Len(s) + 1] = t /\ Len(s) + 1 \in DOMAIN Append(s, t)
  BY <1>1
<1>3. ToSet(Append(s, t)) \subseteq ToSet(s) \cup {t}
  BY <1>1, <1>2 DEF ToSet
<1>4. t \in ToSet(Append(s, t))
  BY <1>2 DEF ToSet
<1>5. ToSet(s) \subseteq ToSet(Append(s, t))
  BY <1>1 DEF ToSet
<1> QED BY <1>1, <1>3, <1>4, <1>5

(* A sequence is its head and its tail.                                    *)
LEMMA SetOfTail ==
    ASSUME NEW s \in Seq(Txn), s # <<>>
    PROVE  /\ ToSet(s) = {Head(s)} \cup ToSet(Tail(s))
           /\ Head(s) \in Txn /\ Tail(s) \in Seq(Txn)
<1>1. /\ Len(s) \in Nat \ {0} /\ Head(s) = s[1] /\ Head(s) \in Txn /\ Tail(s) \in Seq(Txn)
      /\ Len(Tail(s)) = Len(s) - 1
      /\ \A i \in 1 .. Len(s) - 1 : Tail(s)[i] = s[i + 1]
  OBVIOUS
<1>2. {Head(s)} \cup ToSet(Tail(s)) \subseteq ToSet(s)
  BY <1>1 DEF ToSet
<1>3. ASSUME NEW i \in DOMAIN s PROVE s[i] \in {Head(s)} \cup ToSet(Tail(s))
  <2>1. CASE i = 1
    BY <1>1, <2>1
  <2>2. CASE i # 1
    <3>1. i - 1 \in 1 .. Len(s) - 1 /\ Tail(s)[i - 1] = s[i]
      BY <1>1, <2>2
    <3> QED BY <1>1, <3>1 DEF ToSet
  <2> QED BY <2>1, <2>2
<1>4. ToSet(s) \subseteq {Head(s)} \cup ToSet(Tail(s))
  BY <1>3 DEF ToSet
<1> QED BY <1>1, <1>2, <1>4

(* The elements of a sequence of transactions are transactions.            *)
LEMMA SetOfSeq == ASSUME NEW s \in Seq(Txn) PROVE ToSet(s) \subseteq Txn
BY DEF ToSet

(* The order in which pass 2 takes what is left is a sequence.             *)
LEMMA OrderIsSeq ==
    ASSUME NEW S, S \subseteq Txn, IsFiniteSet(S), NEW s \in SetToSeqs(S)
    PROVE  s \in Seq(Txn)
<1>1. Cardinality(S) \in Nat
  BY FS_CardinalityType
<1> QED BY <1>1 DEF SetToSeqs

-----------------------------------------------------------------------------
(* Type correctness. *)

(* An admitted transaction leaves the running nonces natural numbers.      *)
LEMMA AdmitNonceType ==
    ASSUME NEW t \in Txn, preNonce \in [Wallet -> Nat], AdmitNonce(t)
    PROVE  preNonce' \in [Wallet -> Nat]
BY NonceAssumption DEF AdmitNonce

(* The maximum that add_used_nonce keeps is a natural number.              *)
LEMMA UseNoncesType ==
    ASSUME NEW t \in Txn, usedNonce \in [Wallet -> Nat], UseNonces(t)
    PROVE  usedNonce' \in [Wallet -> Nat]
BY NonceAssumption DEF UseNonces

(* A count that goes up by one stays a natural number.                     *)
LEMMA OneMoreType ==
    ASSUME NEW f \in [Txn -> Nat], NEW t \in Txn
    PROVE  [f EXCEPT ![t] = f[t] + 1] \in [Txn -> Nat]
OBVIOUS

RType == TypeOK /\ IsFiniteSet(retry)

(* The types hold at the beginning.                                        *)
LEMMA RTypeInit == Init => RType
<1> SUFFICES ASSUME Init PROVE RType
  OBVIOUS
<1>1. PoolTypeOK
  BY DEF Init, PoolInit, PoolTypeOK, Stages
<1>2. /\ records \in [Txn -> Nat] /\ fees \in [Txn -> Nat] /\ temp \in [Txn -> Nat]
      /\ wallets \in [Txn -> Nat] /\ usedNonce \in [Wallet -> Nat]
  BY DEF Init, NoCount, NoNonce
<1>3. todo \in Seq(Txn) /\ known \in Seq(Txn) /\ fresh \in Seq(Txn) /\ manual \in Seq(Txn)
  BY DEF Init
<1>4. IsFiniteSet(retry)
  BY FS_EmptySet DEF Init
<1> QED BY <1>1, <1>2, <1>3, <1>4 DEF Init, RType, TypeOK, Phases

(* Jobs keep the types.                                                    *)
LEMMA RTypePool == RType /\ PoolStep => RType'
<1> SUFFICES ASSUME RType, PoolStep PROVE RType'
  OBVIOUS
<1>1. PICK j \in Job :
        /\ Request(j) \/ JobStep(j)
        /\ IF Executes(j)
           THEN /\ records' = [records EXCEPT ![doing[j]] = @ + 1]
                /\ fees' = [fees EXCEPT ![doing[j]] = @ + 1]
           ELSE UNCHANGED <<records, fees>>
  BY DEF PoolStep
<1>2. /\ UNCHANGED <<temp, wallets, usedNonce, stored, phase, todo, buildVars, refused, restarts>>
      /\ clean' \in BOOLEAN
  BY DEF PoolStep
<1>3. records' \in [Txn -> Nat] /\ fees' \in [Txn -> Nat]
  <2>1. records \in [Txn -> Nat] /\ fees \in [Txn -> Nat]
    BY DEF RType, TypeOK
  <2>2. Executes(j) => doing[j] \in Txn
    BY DEF Executes, RType, TypeOK, PoolTypeOK
  <2> QED BY <1>1, <2>1, <2>2
<1>4. PoolTypeOK'
  <2> USE DEF PoolTypeOK, Stages, Goto, Finish
  <2>1. PoolTypeOK
    BY DEF RType, TypeOK
  <2>3. CASE Request(j)
    BY <2>1, <2>3 DEF Request, ClientRequest, PeerRequest, Start
  <2>4. CASE Track(j)
    BY <2>1, <2>4 DEF Track
  <2>5. CASE Verify(j) \/ Check(j) \/ CheckNonce(j)
    BY <2>1, <2>5 DEF Verify, Check, CheckNonce
  <2>6. CASE Hold(j) \/ HoldAhead(j)
    BY <2>1, <2>6 DEF Hold, HoldAhead
  <2>7. CASE Execute(j)
    <3>1. preNonce' \in [Wallet -> Nat]
      BY <2>1, <2>7, AdmitNonceType DEF Execute
    <3> QED BY <2>1, <2>7, <3>1 DEF Execute
  <2>8. CASE Refuse(j)
    BY <2>1, <2>8 DEF Refuse
  <2>9. CASE StoreFee(j) \/ StoreProcessed(j)
    BY <2>1, <2>9 DEF StoreFee, StoreProcessed
  <2>10. CASE MarkBlockTxn(j) \/ Release(j)
    BY <2>1, <2>10 DEF MarkBlockTxn, Release
  <2> QED BY <1>1, <2>3, <2>4, <2>5, <2>6, <2>7, <2>8, <2>9, <2>10 DEF JobStep
<1> QED BY <1>2, <1>3, <1>4 DEF RType, TypeOK, buildVars

(* The thread that takes over a block keeps the types.                     *)
LEMMA RTypeProcess == RType /\ Process => RType'
<1> SUFFICES ASSUME RType, Process PROVE RType'
  OBVIOUS
<1> USE DEF RType, TypeOK, PoolTypeOK, Phases
<1>1. todo # <<>> => /\ ToSet(todo) = {Head(todo)} \cup ToSet(Tail(todo))
                     /\ Head(todo) \in Txn /\ Tail(todo) \in Seq(Txn)
  BY SetOfTail
<1>2. \A s \in Seq(Txn), t \in Txn : Append(s, t) \in Seq(Txn)
  BY SetOfAppend
<1>3. <<>> \in Seq(Txn)
  OBVIOUS
<1>4. CASE Wrap
  BY <1>1, <1>2, <1>4 DEF Wrap, poolVars, effectVars
<1>5. CASE Wrapped
  BY <1>5 DEF Wrapped, poolVars, effectVars, buildVars
<1>6. CASE AddKnown
  <2>1. usedNonce' \in [Wallet -> Nat]
    BY <1>1, <1>6, UseNoncesType DEF AddKnown
  <2> QED BY <1>1, <1>2, <1>6, <2>1 DEF AddKnown, effectVars
<1>7. CASE DropKey
  BY <1>3, <1>7 DEF DropKey, effectVars
<1>8. CASE CheckFresh
  <2>1. retry' \in {retry, retry \cup {Head(todo)}}
    BY <1>8 DEF CheckFresh
  <2>2. Head(todo) \in Txn
    BY <1>1, <1>8 DEF CheckFresh
  <2>3. IsFiniteSet(retry) /\ IsFiniteSet(retry \cup {Head(todo)})
    BY FS_AddElement
  <2>4. retry' \subseteq Txn /\ IsFiniteSet(retry')
    BY <2>1, <2>2, <2>3
  <2> QED BY <1>1, <1>8, <2>4 DEF CheckFresh, poolVars, effectVars
<1>9. CASE ApplyFresh
  <2>1. todo # <<>>
    BY <1>9 DEF ApplyFresh
  <2>2. usedNonce' \in [Wallet -> Nat] /\ preNonce' \in [Wallet -> Nat]
    BY <1>1, <1>9, <2>1, UseNoncesType, AdmitNonceType DEF ApplyFresh
  <2>3. /\ records' = [records EXCEPT ![Head(todo)] = records[Head(todo)] + 1]
        /\ fees' = [fees EXCEPT ![Head(todo)] = fees[Head(todo)] + 1]
    BY <1>9 DEF ApplyFresh
  <2>4. records' \in [Txn -> Nat] /\ fees' \in [Txn -> Nat]
    <3>1. Head(todo) \in Txn /\ records \in [Txn -> Nat] /\ fees \in [Txn -> Nat]
      BY <1>1, <2>1
    <3> QED BY <2>3, <3>1, OneMoreType
  <2> QED BY <1>1, <1>2, <1>9, <2>1, <2>2, <2>4 DEF ApplyFresh
<1>10. CASE StartPass2
  <2>1. todo' \in Seq(Txn)
    BY <1>10, OrderIsSeq DEF StartPass2
  <2> QED BY <1>10, <2>1, FS_EmptySet DEF StartPass2, poolVars, effectVars
<1>11. CASE DropPending
  BY <1>3, <1>11 DEF DropPending, effectVars
<1>12. CASE CountFees
  BY <1>12 DEF CountFees, poolVars
<1>13. CASE Replay
  <2>1. temp' \in [Txn -> Nat] /\ phase' = "forget" /\ todo # <<>> /\ todo' = todo
    <3>1. Head(todo) \in Txn /\ temp \in [Txn -> Nat] /\ records \in [Txn -> Nat]
      BY <1>1, <1>13 DEF Replay
    <3> HIDE DEF RType, TypeOK, PoolTypeOK, Phases
    <3>2. /\ temp' = [temp EXCEPT ![Head(todo)] = temp[Head(todo)] + records[Head(todo)]]
          /\ phase' = "forget" /\ todo # <<>> /\ todo' = todo
      BY <1>13 DEF Replay
    <3>3. temp[Head(todo)] + records[Head(todo)] \in Nat
      BY <3>1
    <3> QED BY <3>1, <3>2, <3>3
  <2> QED BY <1>13, <2>1 DEF Replay, poolVars, buildVars
<1>14. CASE Forget
  BY <1>1, <1>14 DEF Forget, poolVars, buildVars
<1>15. CASE Store
  <2>1. stored' \subseteq Block
    BY <1>15 DEF Store, Leave
  <2> QED BY <1>3, <1>15, <2>1 DEF Store, Leave, poolVars, effectVars
<1>16. CASE RefuseBlock
  BY <1>3, <1>16 DEF RefuseBlock, Leave, poolVars, effectVars
<1>17. CASE StoreWallets
  BY <1>17 DEF StoreWallets, NoCount, poolVars, buildVars
<1>18. CASE StoreNonces
  BY <1>18 DEF StoreNonces, NoNonce, effectVars, buildVars
<1> QED BY <1>4, <1>5, <1>6, <1>7, <1>8, <1>9, <1>10, <1>11, <1>12, <1>13, <1>14, <1>15, <1>16,
        <1>17, <1>18 DEF Process

(* Every step keeps the types of all variables.                            *)
LEMMA RTypeStep == RType /\ [Next]_vars => RType'
<1> SUFFICES ASSUME RType, [Next]_vars PROVE RType'
  OBVIOUS
<1>1. ASSUME NEW b \in Block, Receive(b) PROVE RType'
  BY <1>1, TxnsOfAssumption DEF Receive, RType, TypeOK, PoolTypeOK, Phases, Undisturbed, poolVars,
     effectVars
<1>2. CASE Restart
  <2>1. PoolTypeOK'
    BY <1>2 DEF Restart, RType, TypeOK, PoolTypeOK, Stages
  <2>2. /\ records' \in [Txn -> Nat] /\ fees' \in [Txn -> Nat] /\ temp' \in [Txn -> Nat]
        /\ wallets' \in [Txn -> Nat] /\ usedNonce' \in [Wallet -> Nat]
    BY <1>2 DEF Restart, RType, TypeOK, NoCount, NoNonce
  <2>3. todo' \in Seq(Txn) /\ known' \in Seq(Txn) /\ fresh' \in Seq(Txn) /\ manual' \in Seq(Txn)
    BY <1>2 DEF Restart
  <2>4. IsFiniteSet(retry')
    BY <1>2, FS_EmptySet DEF Restart
  <2>5. /\ stored' \subseteq Block /\ current' \in Block \cup {None} /\ retry' \subseteq Txn
        /\ listed' \subseteq Txn /\ restarts' \in Nat /\ phase' = "idle"
    BY <1>2 DEF Restart, RType, TypeOK
  <2>6. feesMatch' \in BOOLEAN /\ clean' \in BOOLEAN
    BY <1>2 DEF Restart
  <2>7. refused' \in BOOLEAN
    BY <1>2 DEF Restart, RType, TypeOK
  <2> QED BY <2>1, <2>2, <2>3, <2>4, <2>5, <2>6, <2>7 DEF RType, TypeOK, Phases
<1>3. CASE UNCHANGED vars
  BY <1>3 DEF vars, poolVars, replicaVars, effectVars, buildVars, RType, TypeOK, PoolTypeOK
<1> QED BY <1>1, <1>2, <1>3, RTypePool, RTypeProcess DEF Next
-----------------------------------------------------------------------------
(* Marks: what has a stored status, is in the block being built or in the  *)
(* chain is marked, or a job is about to mark it.                          *)

Marking(t) ==
    t \in blockTxns \/ \E j \in Job : doing[j] = t /\ stage[j] \in {"store", "mark"}

MarkInv == restarts = 0 => \A t \in statusFee \cup listed \cup ChainTxns : Marking(t)

(* What a job, or the thread of the blocks, does to the jobs' marks.       *)
JobFrame(j) ==
    \A i \in Job \ {j} : stage'[i] = stage[i] /\ doing'[i] = doing[i]

(* A job's step is its own, and a mark it is about to make it makes.       *)
LEMMA JobStepMarks ==
    ASSUME TypeOK, NEW j \in Job, Request(j) \/ JobStep(j)
    PROVE  /\ JobFrame(j)
           /\ statusFee' \in {statusFee, statusFee \cup {doing[j]}}
           /\ statusFee' # statusFee => stage[j] = "fee"
           /\ stage[j] = "fee" => stage'[j] = "store" /\ doing'[j] = doing[j] /\ blockTxns' = blockTxns
           /\ stage'[j] = "fee" => Executes(j) /\ doing'[j] = doing[j] /\ doing[j] \in Txn
           /\ \A t \in Txn : Marking(t) => Marking(t)'
           /\ walletNonce' = walletNonce
<1> USE DEF Goto, Finish, JobFrame
<1>1. /\ stage \in [Job -> Stages] /\ doing \in [Job -> Txn \cup {None}]
      /\ stage[j] # "idle" => doing[j] \in Txn
  BY DEF TypeOK, PoolTypeOK
<1>2. ASSUME JobFrame(j), statusFee' = statusFee, blockTxns \subseteq blockTxns',
             stage[j] \notin {"fee", "store", "mark"}, stage'[j] # "fee" \/ (Executes(j) /\ doing' = doing),
             walletNonce' = walletNonce
      PROVE  /\ JobFrame(j)
             /\ statusFee' \in {statusFee, statusFee \cup {doing[j]}}
             /\ statusFee' # statusFee => stage[j] = "fee"
             /\ stage[j] = "fee" => stage'[j] = "store" /\ doing'[j] = doing[j] /\ blockTxns' = blockTxns
             /\ stage'[j] = "fee" => Executes(j) /\ doing'[j] = doing[j] /\ doing[j] \in Txn
             /\ \A t \in Txn : Marking(t) => Marking(t)'
             /\ walletNonce' = walletNonce
  BY <1>1, <1>2 DEF Marking, Executes
<1>3. CASE Request(j)
  BY <1>1, <1>2, <1>3 DEF Request, ClientRequest, PeerRequest, Start
<1>4. CASE Track(j) \/ Verify(j) \/ Check(j) \/ Hold(j)
  BY <1>1, <1>2, <1>4 DEF Track, Verify, Check, Hold
<1>5. CASE CheckNonce(j) \/ HoldAhead(j) \/ Refuse(j) \/ Release(j)
  BY <1>1, <1>2, <1>5 DEF CheckNonce, HoldAhead, Refuse, Release
<1>6. CASE Execute(j)
  BY <1>1, <1>2, <1>6 DEF Execute, Executes
<1>7. CASE StoreFee(j)
  BY <1>1, <1>7 DEF StoreFee, Marking
<1>8. CASE StoreProcessed(j)
  BY <1>1, <1>8 DEF StoreProcessed, Marking
<1>9. CASE MarkBlockTxn(j)
  BY <1>1, <1>9 DEF MarkBlockTxn, Marking
<1> QED BY <1>3, <1>4, <1>5, <1>6, <1>7, <1>8, <1>9 DEF JobStep

(* The thread that takes over a block does not touch the jobs.             *)
LEMMA ProcessFrame ==
    ASSUME Process
    PROVE  UNCHANGED <<stage, doing, received, restarts>> /\ blockTxns \subseteq blockTxns'
<1>1. CASE Wrap \/ Wrapped \/ AddKnown \/ DropKey
  BY <1>1 DEF Wrap, Wrapped, AddKnown, DropKey, poolVars
<1>2. CASE CheckFresh \/ ApplyFresh \/ StartPass2 \/ DropPending
  BY <1>2 DEF CheckFresh, ApplyFresh, StartPass2, DropPending, poolVars
<1>3. CASE CountFees \/ Replay \/ Forget
  BY <1>3 DEF CountFees, Replay, Forget, poolVars
<1>4. CASE Store \/ RefuseBlock \/ StoreWallets \/ StoreNonces
  BY <1>4 DEF Store, RefuseBlock, StoreWallets, StoreNonces, poolVars
<1> QED BY <1>1, <1>2, <1>3, <1>4 DEF Process

(* The chain grows by the block that is stored.                            *)
LEMMA ChainGrows ==
    /\ stored' = stored => ChainTxns' = ChainTxns
    /\ stored' = stored \cup {current} => ChainTxns' = ChainTxns \cup ToSet(TxnsOf[current])
BY DEF ChainTxns

(* A transaction of the chain is one.                                      *)
LEMMA ChainOfTxns == ASSUME stored \subseteq Block PROVE ChainTxns \subseteq Txn
<1>1. ASSUME NEW b \in stored PROVE ToSet(TxnsOf[b]) \subseteq Txn
  BY TxnsOfAssumption, SetOfSeq
<1> QED BY <1>1 DEF ChainTxns

(* Marks stay, and only what is marked gets a status or into the block.    *)
LEMMA MarkStep == RType /\ MarkInv /\ [Next]_vars => MarkInv'
<1> SUFFICES ASSUME RType, MarkInv, [Next]_vars, restarts' = 0 PROVE MarkInv'
  BY DEF MarkInv
<1> DEFINE Known == statusFee \cup listed \cup ChainTxns
<1>1. Known \subseteq Txn /\ restarts \in Nat
  BY ChainOfTxns DEF RType, TypeOK, PoolTypeOK
<1>2. CASE PoolStep
  <2>1. PICK j \in Job : Request(j) \/ JobStep(j)
    BY <1>2 DEF PoolStep
  <2>2. UNCHANGED <<restarts, listed, stored>>
    BY <1>2 DEF PoolStep, buildVars
  <2>3. ASSUME NEW t \in Known' PROVE Marking(t)'
    <3>1. CASE t \in Known
      BY <1>1, <2>1, <2>2, <3>1, JobStepMarks DEF MarkInv, RType
    <3>2. CASE t \notin Known
      <4>1. t = doing[j] /\ stage[j] = "fee"
        BY <2>1, <2>2, <3>2, JobStepMarks, ChainGrows DEF RType
      <4>2. stage'[j] = "store" /\ doing'[j] = t
        BY <2>1, <4>1, JobStepMarks DEF RType
      <4> QED BY <4>2 DEF Marking
    <3> QED BY <3>1, <3>2
  <2> QED BY <2>3 DEF MarkInv
<1>3. ASSUME UNCHANGED <<stage, doing, restarts>>, blockTxns \subseteq blockTxns',
             Known' \subseteq Known \cup blockTxns'
      PROVE  MarkInv'
  <2>1. \A t \in Txn : Marking(t) => Marking(t)'
    BY <1>3 DEF Marking
  <2>2. ASSUME NEW t \in Known' PROVE Marking(t)'
    BY <1>1, <1>3, <2>1 DEF MarkInv, Marking
  <2> QED BY <2>2 DEF MarkInv
<1>4. CASE Process
  <2>1. UNCHANGED <<stage, doing, restarts>> /\ blockTxns \subseteq blockTxns'
    BY <1>4, ProcessFrame
  <2>2. CASE AddKnown
    <3>1. stored' = stored /\ listed' \cup statusFee' \subseteq listed \cup statusFee
      BY <2>2 DEF AddKnown
    <3> QED BY <1>3, <2>1, <3>1, ChainGrows
  <2>3. CASE ApplyFresh
    <3>1. /\ stored' = stored /\ statusFee' = statusFee /\ listed' \subseteq listed \cup blockTxns'
      BY <2>3 DEF ApplyFresh
    <3> QED BY <1>3, <2>1, <3>1, ChainGrows
  <2>4. CASE Store
    <3>1. stored' = stored \cup {current} /\ ToSet(TxnsOf[current]) \subseteq listed
      BY <2>4 DEF Store, SameBlock
    <3>2. listed' = {} /\ statusFee' = statusFee
      BY <2>4 DEF Store, Leave, poolVars
    <3> QED BY <1>3, <2>1, <3>1, <3>2, ChainGrows
  <2>5. CASE RefuseBlock
    <3>1. stored' = stored /\ statusFee' = statusFee /\ listed' = {}
      BY <2>5 DEF RefuseBlock, Leave, poolVars
    <3> QED BY <1>3, <2>1, <3>1, ChainGrows
  <2>6. ASSUME UNCHANGED <<stored, statusFee, listed>> PROVE MarkInv'
    BY <1>3, <2>1, <2>6, ChainGrows
  <2>7. CASE Wrap \/ Wrapped \/ DropKey \/ CheckFresh
    BY <2>6, <2>7 DEF Wrap, Wrapped, DropKey, CheckFresh, poolVars, buildVars
  <2>8. CASE StartPass2 \/ DropPending \/ CountFees \/ Replay \/ Forget
    BY <2>6, <2>8 DEF StartPass2, DropPending, CountFees, Replay, Forget, poolVars, buildVars
  <2>9. CASE StoreWallets \/ StoreNonces
    BY <2>6, <2>9 DEF StoreWallets, StoreNonces, poolVars, buildVars
  <2> QED BY <1>4, <2>2, <2>3, <2>4, <2>5, <2>7, <2>8, <2>9 DEF Process
<1>5. ASSUME NEW b \in Block, Receive(b) PROVE MarkInv'
  BY <1>3, <1>5, ChainGrows DEF Receive, poolVars
<1>6. CASE Restart
  BY <1>1, <1>6 DEF Restart
<1>7. CASE UNCHANGED vars
  BY <1>3, <1>7, ChainGrows DEF vars, poolVars, replicaVars, buildVars
<1> QED BY <1>2, <1>4, <1>5, <1>6, <1>7 DEF Next

-----------------------------------------------------------------------------
(* Effects: what has been executed is in the records, in the temporary or  *)
(* in the stored balances.                                                 *)

Replaying == phase \in {"replay", "forget"}

(* The block will be refused: it has transactions without a status.  Only  *)
(* then may a job execute a transaction between its replay and the removal *)
(* of its records, which are lost with it.                                 *)
Doomed == Replaying /\ ~(ToSet(manual) \subseteq listed)

AtFee(t) == \E j \in Job : doing[j] = t /\ stage[j] = "fee"

Applied(t) == records[t] >= 1 \/ temp[t] >= 1 \/ wallets[t] >= 1

ReplayInv ==
    /\ phase \in {"idle", "wallets", "nonces"} => manual = <<>>
    /\ Replaying => ToSet(todo) \subseteq ToSet(manual)

AppliedInv ==
    ~Doomed =>
        /\ \A t \in Txn : t \in statusFee \cup listed \/ AtFee(t) => Applied(t)
        /\ Replaying =>
              \A t \in ToSet(manual) : t \in ToSet(todo) \/ temp[t] >= 1 \/ wallets[t] >= 1
        /\ phase = "forget" => temp[Head(todo)] >= 1 \/ wallets[Head(todo)] >= 1

ChargedInv ==
    \A t \in ChainTxns : wallets[t] >= 1 \/ (phase = "wallets" /\ temp[t] >= 1)

EffectInv == ReplayInv /\ (restarts = 0 /\ ~refused => AppliedInv /\ ChargedInv)

(* The replay goes through the block that has been built.                  *)
LEMMA ReplayStep == RType /\ ReplayInv /\ [Next]_vars => ReplayInv'
<1> SUFFICES ASSUME RType, ReplayInv, [Next]_vars PROVE ReplayInv'
  OBVIOUS
<1> USE DEF ReplayInv, Replaying
<1>1. CASE PoolStep
  BY <1>1 DEF PoolStep, buildVars
<1>2. ASSUME NEW b \in Block, Receive(b) PROVE ReplayInv'
  BY <1>2 DEF Receive
<1>3. CASE Wrap \/ Wrapped \/ AddKnown \/ DropKey
  BY <1>3 DEF Wrap, Wrapped, AddKnown, DropKey, buildVars
<1>4. CASE CheckFresh \/ ApplyFresh
  BY <1>4 DEF CheckFresh, ApplyFresh
<1>5. CASE StartPass2 \/ DropPending
  BY <1>5 DEF StartPass2, DropPending
<1>6. CASE CountFees
  BY <1>6 DEF CountFees
<1>7. CASE Replay
  BY <1>7 DEF Replay, buildVars
<1>8. CASE Forget
  <2>1. todo # <<>> /\ todo \in Seq(Txn)
    BY <1>8 DEF Forget, RType, TypeOK
  <2>2. ToSet(todo') \subseteq ToSet(todo)
    BY <1>8, <2>1, SetOfTail DEF Forget
  <2> QED BY <1>8, <2>2 DEF Forget, buildVars
<1>9. CASE Store \/ RefuseBlock
  BY <1>9 DEF Store, RefuseBlock, Leave
<1>10. CASE StoreWallets \/ StoreNonces
  BY <1>10 DEF StoreWallets, StoreNonces, buildVars
<1>11. CASE Restart
  BY <1>11 DEF Restart
<1>12. CASE UNCHANGED vars
  BY <1>12 DEF vars, replicaVars, buildVars
<1> QED BY <1>1, <1>2, <1>3, <1>4, <1>5, <1>6, <1>7, <1>8, <1>9, <1>10, <1>11, <1>12
        DEF Next, Process

(* A job that executes a transaction leaves its records behind, and its    *)
(* status only afterwards.                                                 *)
LEMMA JobKeepsEffects ==
    ASSUME RType, AppliedInv, ChargedInv, PoolStep
    PROVE  AppliedInv' /\ ChargedInv'
<1>1. PICK j \in Job :
        /\ Request(j) \/ JobStep(j)
        /\ IF Executes(j)
           THEN /\ records' = [records EXCEPT ![doing[j]] = @ + 1]
                /\ fees' = [fees EXCEPT ![doing[j]] = @ + 1]
           ELSE UNCHANGED <<records, fees>>
  BY DEF PoolStep
<1>2. /\ UNCHANGED <<listed, stored, phase, manual, todo, temp, wallets>>
      /\ records \in [Txn -> Nat]
  BY DEF PoolStep, buildVars, RType, TypeOK
<1>3. ASSUME NEW t \in Txn PROVE Applied(t) => Applied(t)'
  BY <1>1, <1>2 DEF Applied
<1>4. ASSUME NEW t \in Txn, t \in (statusFee \cup listed)' \/ AtFee(t)', AppliedInv, ~Doomed
      PROVE  Applied(t)'
  <2>1. CASE t \in statusFee \cup listed \/ AtFee(t)
    BY <1>3, <1>4, <2>1 DEF AppliedInv
  <2>2. CASE t \in statusFee' /\ t \notin statusFee
    <3>1. t = doing[j] /\ stage[j] = "fee"
      BY <1>1, <2>2, JobStepMarks DEF RType
    <3>2. AtFee(t)
      BY <3>1 DEF AtFee
    <3> QED BY <2>1, <3>2
  <2>3. CASE AtFee(t)' /\ ~AtFee(t)
    <3>1. PICK i \in Job : doing'[i] = t /\ stage'[i] = "fee"
      BY <2>3 DEF AtFee
    <3>2. i = j
      BY <1>1, <2>3, <3>1, JobStepMarks DEF RType, JobFrame, AtFee
    <3>3. Executes(j) /\ doing[j] = t
      BY <1>1, <3>1, <3>2, JobStepMarks DEF RType
    <3>4. records'[t] = records[t] + 1
      BY <1>1, <1>2, <3>3
    <3> QED BY <1>2, <3>4 DEF Applied
  <2> QED BY <1>2, <1>4, <2>1, <2>2, <2>3
<1>5. AppliedInv'
  BY <1>2, <1>4 DEF AppliedInv, Doomed, Replaying
<1>6. ChargedInv'
  BY <1>2, ChainGrows DEF ChargedInv
<1> QED BY <1>5, <1>6

(* From the records to the temporary and on to the stored balances no      *)
(* effect is lost, unless the block is going to be refused.                *)
LEMMA ProcessKeepsEffects ==
    ASSUME RType, ReplayInv, AppliedInv, ChargedInv, Process, ~refused', ChainInv
    PROVE  AppliedInv' /\ ChargedInv'
<1>1. /\ records \in [Txn -> Nat] /\ temp \in [Txn -> Nat] /\ wallets \in [Txn -> Nat]
      /\ UNCHANGED <<stage, doing>>
      /\ ToSet(manual) \subseteq Txn /\ ChainTxns \subseteq Txn /\ statusFee \cup listed \subseteq Txn
  BY ProcessFrame, SetOfSeq, ChainOfTxns DEF RType, TypeOK, PoolTypeOK
<1>2. \A t \in Txn : AtFee(t)' <=> AtFee(t)
  BY <1>1 DEF AtFee
<1>3. ASSUME UNCHANGED <<effectVars, stored>>, statusFee' \cup listed' \subseteq statusFee \cup listed,
             ~Replaying, ~Replaying', phase # "wallets", phase' # "wallets"
      PROVE  AppliedInv' /\ ChargedInv'
  <2>1. \A t \in Txn : Applied(t)' <=> Applied(t)
    BY <1>3 DEF Applied, effectVars
  <2>2. AppliedInv'
    BY <1>2, <1>3, <2>1 DEF AppliedInv, Doomed, Replaying
  <2> QED BY <1>3, <2>2, ChainGrows DEF ChargedInv, effectVars
<1>4. CASE Wrap \/ Wrapped \/ DropKey \/ CheckFresh
  BY <1>3, <1>4 DEF Wrap, Wrapped, DropKey, CheckFresh, poolVars, buildVars, Replaying
<1>5. CASE AddKnown
  BY <1>3, <1>5 DEF AddKnown, Replaying
<1>6. CASE StartPass2 \/ DropPending
  BY <1>3, <1>6 DEF StartPass2, DropPending, poolVars, Replaying
<1>7. CASE ApplyFresh
  <2>1. PICK h \in Txn :
           /\ UNCHANGED <<statusFee, stored, temp, wallets>> /\ phase \in {"apply1", "apply2"}
           /\ records' = [records EXCEPT ![h] = @ + 1] /\ listed' = listed \cup {h}
           /\ phase' \in {"pass1", "pass2"}
    BY <1>7, SetOfTail DEF ApplyFresh, RType, TypeOK
  <2>2. \A t \in Txn : (Applied(t) => Applied(t)') /\ Applied(h)'
    BY <1>1, <2>1 DEF Applied
  <2>3. AppliedInv'
    BY <1>2, <2>1, <2>2 DEF AppliedInv, Doomed, Replaying
  <2> QED BY <2>1, <2>3, ChainGrows DEF ChargedInv
<1>8. CASE CountFees
  <2>1. /\ UNCHANGED <<statusFee, listed, stored, records, temp, wallets, manual>>
        /\ phase = "fees" /\ phase' = "replay" /\ todo' = manual
    BY <1>8 DEF CountFees, poolVars
  <2>2. \A t \in Txn : Applied(t)' <=> Applied(t)
    BY <2>1 DEF Applied
  <2>3. AppliedInv'
    BY <1>2, <2>1, <2>2 DEF AppliedInv, Doomed, Replaying
  <2> QED BY <2>1, <2>3, ChainGrows DEF ChargedInv
<1>9. CASE Replay
  <2>1. PICK h \in Txn :
           /\ UNCHANGED <<statusFee, listed, stored, records, wallets, manual, todo>>
           /\ phase = "replay" /\ phase' = "forget" /\ temp' = [temp EXCEPT ![h] = @ + records[h]]
           /\ h \in ToSet(todo) /\ h \in ToSet(manual) /\ h = Head(todo)
    BY <1>9, SetOfTail DEF Replay, poolVars, buildVars, RType, TypeOK, ReplayInv, Replaying
  <2>2. temp'[h] = temp[h] + records[h] /\ \A t \in Txn \ {h} : temp'[t] = temp[t]
    BY <1>1, <2>1
  <2>3. \A t \in Txn : (Applied(t) => Applied(t)') /\ (temp[t] >= 1 => temp'[t] >= 1)
    BY <1>1, <2>1, <2>2 DEF Applied
  <2>4. ~Doomed => temp'[h] >= 1 \/ wallets[h] >= 1
    <3>1. ~Doomed => Applied(h)
      BY <1>1, <2>1 DEF AppliedInv, Doomed, Replaying
    <3> QED BY <1>1, <2>1, <2>2, <3>1 DEF Applied
  <2>5. (Doomed' <=> Doomed) /\ Replaying
    BY <2>1 DEF Doomed, Replaying
  <2>6. AppliedInv'
    BY <1>1, <1>2, <2>1, <2>3, <2>4, <2>5 DEF AppliedInv
  <2> QED BY <2>1, <2>6, ChainGrows DEF ChargedInv
<1>10. CASE Forget
  <2>1. PICK h \in Txn :
           /\ UNCHANGED <<statusFee, listed, stored, temp, wallets, manual>>
           /\ phase = "forget" /\ phase' = "replay" /\ records' = [records EXCEPT ![h] = 0]
           /\ ToSet(todo) = {h} \cup ToSet(todo') /\ h = Head(todo)
    BY <1>10, SetOfTail DEF Forget, poolVars, buildVars, RType, TypeOK
  <2>2. ~Doomed => temp[h] >= 1 \/ wallets[h] >= 1
    BY <2>1 DEF AppliedInv
  <2>3. \A t \in Txn \ {h} : Applied(t)' <=> Applied(t)
    BY <1>1, <2>1 DEF Applied
  <2>4. ~Doomed => Applied(h)'
    BY <2>1, <2>2 DEF Applied
  <2>5. (Doomed' <=> Doomed) /\ Replaying
    BY <2>1 DEF Doomed, Replaying
  <2>6. ~Doomed' => \A t \in Txn : (t \in statusFee' \cup listed') \/ AtFee(t)' => Applied(t)'
    BY <1>2, <2>1, <2>3, <2>4, <2>5 DEF AppliedInv
  <2>7. ~Doomed' => \A t \in ToSet(manual') : t \in ToSet(todo') \/ temp'[t] >= 1 \/ wallets'[t] >= 1
    BY <2>1, <2>2, <2>5 DEF AppliedInv
  <2>8. AppliedInv'
    BY <2>1, <2>6, <2>7 DEF AppliedInv
  <2> QED BY <2>1, <2>8, ChainGrows DEF ChargedInv
<1>11. CASE Store
  <2>1. /\ UNCHANGED <<statusFee, records, temp, wallets>> /\ phase = "replay" /\ phase' = "wallets"
        /\ listed' = {} /\ todo = <<>> /\ manual = TxnsOf[current]
        /\ ToSet(TxnsOf[current]) \subseteq listed /\ stored' = stored \cup {current}
    BY <1>11 DEF Store, SameBlock, Leave, poolVars, effectVars
  <2>2. ~Doomed /\ Replaying
    BY <2>1 DEF Doomed, Replaying
  <2>3. \A t \in Txn : Applied(t)' <=> Applied(t)
    BY <2>1 DEF Applied
  <2>4. AppliedInv'
    BY <1>1, <1>2, <2>1, <2>2, <2>3 DEF AppliedInv, Replaying
  <2>5. \A t \in ToSet(TxnsOf[current]) : temp[t] >= 1 \/ wallets[t] >= 1
    BY <2>1, <2>2 DEF AppliedInv, ToSet
  <2> QED BY <2>1, <2>4, <2>5, ChainGrows DEF ChargedInv
<1>12. CASE RefuseBlock
  BY <1>12 DEF RefuseBlock
<1>13. CASE StoreWallets
  <2>1. /\ UNCHANGED <<statusFee, listed, records, stored>> /\ phase = "wallets" /\ phase' = "nonces"
        /\ \A t \in Txn : wallets'[t] = wallets[t] + temp[t]
    BY <1>13 DEF StoreWallets, poolVars, buildVars
  <2>2. \A t \in Txn : (Applied(t) => Applied(t)') /\ (temp[t] >= 1 \/ wallets[t] >= 1 => wallets'[t] >= 1)
    BY <1>1, <2>1 DEF Applied
  <2>3. AppliedInv'
    BY <1>1, <1>2, <2>1, <2>2 DEF AppliedInv, Doomed, Replaying
  <2> QED BY <1>1, <2>1, <2>2, <2>3, ChainGrows DEF ChargedInv
<1>14. CASE StoreNonces
  <2>1. /\ UNCHANGED <<effectVars, stored, listed, statusFee>> /\ phase = "nonces" /\ phase' = "idle"
    BY <1>14 DEF StoreNonces, buildVars
  <2> QED BY <1>3, <2>1 DEF Replaying
<1> QED BY <1>4, <1>5, <1>6, <1>7, <1>8, <1>9, <1>10, <1>11, <1>12, <1>13, <1>14 DEF Process

(* The invariant about effects, as long as no block has been refused and   *)
(* the node has not restarted.                                             *)
LEMMA EffectStep == RType /\ ChainInv /\ EffectInv /\ [Next]_vars => EffectInv'
<1> SUFFICES ASSUME RType, ChainInv, EffectInv, [Next]_vars PROVE EffectInv'
  OBVIOUS
<1>1. ReplayInv'
  BY ReplayStep DEF EffectInv
<1>2. ASSUME restarts' = 0, ~refused' PROVE AppliedInv' /\ ChargedInv'
  <2>1. CASE Restart
    BY <1>2, <2>1 DEF Restart, RType, TypeOK
  <2>2. CASE PoolStep
    BY <1>2, <2>2, JobKeepsEffects DEF PoolStep, EffectInv
  <2>3. CASE Process
    <3>1. refused => refused'
      BY <2>3 DEF Process, Wrap, Wrapped, AddKnown, DropKey, CheckFresh, ApplyFresh, StartPass2,
         DropPending, CountFees, Replay, Forget, Store, RefuseBlock, StoreWallets, StoreNonces
    <3>2. restarts = 0 /\ ~refused
      BY <1>2, <2>3, <3>1, ProcessFrame
    <3> QED BY <1>2, <2>3, <3>2, ProcessKeepsEffects DEF EffectInv
  <2>4. ASSUME NEW b \in Block, Receive(b) PROVE AppliedInv' /\ ChargedInv'
    <3>1. /\ UNCHANGED <<poolVars, effectVars, stored, listed, refused, restarts>>
          /\ phase = "idle" /\ phase' = "wrap"
      BY <2>4 DEF Receive
    <3>2. AppliedInv /\ ChargedInv
      BY <1>2, <3>1 DEF EffectInv
    <3>3. \A t \in Txn : (Applied(t)' <=> Applied(t)) /\ (AtFee(t)' <=> AtFee(t))
      BY <3>1 DEF Applied, AtFee, effectVars, poolVars
    <3>4. AppliedInv'
      BY <3>1, <3>2, <3>3 DEF AppliedInv, Doomed, Replaying, poolVars
    <3> QED BY <3>1, <3>2, <3>4, ChainGrows DEF ChargedInv, effectVars
  <2>5. CASE UNCHANGED vars
    <3>1. /\ UNCHANGED <<poolVars, effectVars, stored, listed, refused, restarts, phase, todo, manual>>
      BY <2>5 DEF vars, replicaVars, buildVars
    <3>2. AppliedInv /\ ChargedInv
      BY <1>2, <3>1 DEF EffectInv
    <3>3. \A t \in Txn : (Applied(t)' <=> Applied(t)) /\ (AtFee(t)' <=> AtFee(t))
      BY <3>1 DEF Applied, AtFee, effectVars, poolVars
    <3>4. AppliedInv'
      BY <3>1, <3>2, <3>3 DEF AppliedInv, Doomed, Replaying, poolVars, effectVars
    <3> QED BY <3>1, <3>2, <3>4, ChainGrows DEF ChargedInv, effectVars
  <2> QED BY <2>1, <2>2, <2>3, <2>4, <2>5 DEF Next
<1> QED BY <1>1, <1>2 DEF EffectInv

-----------------------------------------------------------------------------
(* Nonces: the used ones are those of the block being built, and a block   *)
(* that is stored has higher ones than the chain.                          *)

TopNonce(After, w) == IF stored = {} THEN 0 ELSE After[Tip][w]

Storing == phase \in {"wallets", "nonces"}

BuildNonces ==
    ~Storing =>
        \A w \in Wallet :
            /\ \A t \in ToSet(manual) : NonceOf[t][w] <= usedNonce[w]
            /\ usedNonce[w] # 0 =>
                  \E t \in ToSet(manual) : w \in Signers(t) /\ NonceOf[t][w] = usedNonce[w]

ChainNonces(After) ==
    /\ \A w \in Wallet : walletNonce[w] <= TopNonce(After, w)
    /\ Storing => \A w \in Wallet : usedNonce[w] <= TopNonce(After, w)
    /\ \A t \in ChainTxns, w \in Wallet :
          w \in Signers(t) =>
              NonceOf[t][w] <= IF Storing /\ usedNonce[w] # 0 THEN usedNonce[w] ELSE walletNonce[w]

NonceInv(After) == restarts = 0 /\ ~refused => BuildNonces /\ ChainNonces(After)

(* A transaction that is added brings its nonces with it.                  *)
LEMMA BuildAdds ==
    ASSUME RType, BuildNonces, ~Storing, NEW t \in Txn, manual' = Append(manual, t), UseNonces(t)
    PROVE  BuildNonces'
<1>1. /\ usedNonce \in [Wallet -> Nat] /\ manual \in Seq(Txn)
      /\ \A u \in Txn, w \in Wallet : NonceOf[u][w] \in Nat
  BY NonceAssumption DEF RType, TypeOK
<1>2. ToSet(manual') = ToSet(manual) \cup {t} /\ ToSet(manual) \subseteq Txn
  BY <1>1, SetOfAppend, SetOfSeq
<1>3. SUFFICES ASSUME NEW w \in Wallet
               PROVE  /\ \A u \in ToSet(manual') : NonceOf[u][w] <= usedNonce'[w]
                      /\ usedNonce'[w] # 0 =>
                            \E u \in ToSet(manual') : w \in Signers(u) /\ NonceOf[u][w] = usedNonce'[w]
  BY DEF BuildNonces, Signers
<1>4. /\ \A u \in ToSet(manual) : NonceOf[u][w] <= usedNonce[w]
      /\ usedNonce[w] # 0 =>
            \E u \in ToSet(manual) : w \in Signers(u) /\ NonceOf[u][w] = usedNonce[w]
  BY DEF BuildNonces
<1>5. CASE NonceOf[t][w] > usedNonce[w]
  <2>1. usedNonce'[w] = NonceOf[t][w] /\ w \in Signers(t)
    BY <1>1, <1>5 DEF UseNonces, Signers
  <2> QED BY <1>1, <1>2, <1>4, <1>5, <2>1
<1>6. CASE ~(NonceOf[t][w] > usedNonce[w])
  <2>1. usedNonce'[w] = usedNonce[w] /\ NonceOf[t][w] <= usedNonce[w]
    BY <1>1, <1>6 DEF UseNonces
  <2> QED BY <1>2, <1>4, <2>1
<1> QED BY <1>5, <1>6

(* The block that is stored is the new tip.                                *)
LEMMA StoredIsTip ==
    ASSUME ChainInv, Store
    PROVE  /\ current \in Block /\ stored' = stored \cup {current} /\ Tip' = current
           /\ \A After, w : TopNonce(After, w) = IF Parent[current] = None THEN 0 ELSE After[Parent[current]][w]
<1>1. /\ current \in Block /\ stored' = stored \cup {current} /\ Parent[current] = Tip
  BY DEF ChainInv, Store, SameBlock
<1>2. \A b \in stored : Height[b] < Height[current] /\ Height[b] \in Nat
  <2>1. stored # {} => /\ Tip \in stored /\ \A c \in stored : Height[c] <= Height[Tip]
                       /\ Tip \in Block /\ Tip # None
    BY TipIsHighest, ParentAssumption DEF ChainInv
  <2>2. stored # {} => Height[current] = Height[Tip] + 1
    BY <1>1, <2>1, HeightAssumption
  <2> QED BY <2>1, <2>2, HeightAssumption DEF ChainInv
<1>3. \A b \in stored' : (\A d \in stored' : Height[d] <= Height[b]) <=> b = current
  BY <1>1, <1>2, HeightAssumption
<1>4. Tip' = CHOOSE b \in stored' : \A d \in stored' : Height[d] <= Height[b]
  BY <1>1 DEF Tip
<1>5. Tip' = current
  BY <1>1, <1>3, <1>4
<1>6. stored # {} => Tip # None
  BY TipIsHighest, ParentAssumption DEF ChainInv
<1>7. stored = {} => Tip = None
  BY DEF Tip
<1> QED BY <1>1, <1>5, <1>6, <1>7 DEF TopNonce

(* Nonces of a valid block that is stored are above those of the chain.    *)
LEMMA StoreKeepsNonces ==
    ASSUME NEW After, ValidBlocks(After), RType, ChainInv, BuildNonces, ChainNonces(After), Store
    PROVE  BuildNonces' /\ ChainNonces(After)'
<1> DEFINE before(w) == TopNonce(After, w)
           txns == ToSet(TxnsOf[current])
<1>1. /\ phase = "replay" /\ phase' = "wallets" /\ manual = TxnsOf[current]
      /\ UNCHANGED <<walletNonce, usedNonce>>
      /\ \A w \in Wallet : walletNonce[w] \in Nat /\ usedNonce[w] \in Nat
  BY DEF Store, SameBlock, Leave, poolVars, RType, TypeOK, PoolTypeOK
<1>2. /\ current \in Block /\ stored' = stored \cup {current} /\ Tip' = current
      /\ \A w : before(w) = IF Parent[current] = None THEN 0 ELSE After[Parent[current]][w]
  BY StoredIsTip
<1>3. /\ txns \subseteq Txn /\ ChainTxns \subseteq Txn /\ ChainTxns' = ChainTxns \cup txns
      /\ \A t \in Txn, w \in Wallet : NonceOf[t][w] \in Nat
  BY <1>2, ChainGrows, ChainOfTxns, SetOfSeq, TxnsOfAssumption, NonceAssumption DEF ChainInv
<1>4. \A w \in Wallet : TopNonce(After, w)' = After[current][w]
  BY <1>2 DEF TopNonce
<1>5. \A w \in Wallet :
         /\ before(w) \in Nat /\ After[current][w] \in Nat /\ before(w) <= After[current][w]
         /\ \A t \in txns : w \in Signers(t) => before(w) < NonceOf[t][w] /\ NonceOf[t][w] <= After[current][w]
  BY <1>2, ParentAssumption DEF ValidBlocks, Before
<1> HIDE DEF before
<1>6. \A w \in Wallet : walletNonce[w] <= before(w)
  BY DEF ChainNonces, before
<1>7. ~Storing /\ Storing'
  BY <1>1 DEF Storing
<1>8. \A w \in Wallet : /\ \A t \in txns : NonceOf[t][w] <= usedNonce[w]
                        /\ usedNonce[w] # 0 =>
                              \E t \in txns : w \in Signers(t) /\ NonceOf[t][w] = usedNonce[w]
  BY <1>1, <1>7 DEF BuildNonces
<1>9. \A w \in Wallet : walletNonce[w] <= After[current][w] /\ usedNonce[w] <= After[current][w]
  BY <1>1, <1>3, <1>5, <1>6, <1>8
<1>10. ASSUME NEW t \in ChainTxns', NEW w \in Wallet, w \in Signers(t)
       PROVE  NonceOf[t][w] <= IF usedNonce[w] # 0 THEN usedNonce[w] ELSE walletNonce[w]
  <2>1. CASE t \in txns
    <3>1. NonceOf[t][w] # 0 /\ NonceOf[t][w] <= usedNonce[w] /\ NonceOf[t][w] \in Nat
      BY <1>3, <1>8, <1>10, <2>1 DEF Signers
    <3> QED BY <1>1, <3>1
  <2>2. CASE t \in ChainTxns
    <3>1. NonceOf[t][w] <= walletNonce[w]
      BY <1>7, <1>10, <2>2 DEF ChainNonces
    <3>2. usedNonce[w] # 0 => walletNonce[w] < usedNonce[w]
      BY <1>1, <1>3, <1>5, <1>6, <1>8
    <3> QED BY <1>1, <1>3, <2>2, <3>1, <3>2
  <2> QED BY <1>3, <1>10, <2>1, <2>2
<1>11. BuildNonces'
  BY <1>7 DEF BuildNonces
<1>12. ChainNonces(After)'
  BY <1>1, <1>4, <1>7, <1>9, <1>10 DEF ChainNonces
<1> QED BY <1>11, <1>12

(* The invariant about nonces, as long as no block has been refused and    *)
(* the node has not restarted.                                             *)
LEMMA NonceStep ==
    ASSUME NEW After, ValidBlocks(After), RType, ChainInv, ReplayInv, NonceInv(After), [Next]_vars
    PROVE  NonceInv(After)'
<1> SUFFICES ASSUME restarts' = 0, ~refused' PROVE BuildNonces' /\ ChainNonces(After)'
  BY DEF NonceInv
<1>1. /\ usedNonce \in [Wallet -> Nat] /\ walletNonce \in [Wallet -> Nat] /\ restarts \in Nat
  BY DEF RType, TypeOK, PoolTypeOK
<1>2. stored' = stored => (Tip' = Tip /\ \A w : TopNonce(After, w)' = TopNonce(After, w))
  BY DEF Tip, TopNonce
<1>3. ASSUME restarts = 0, ~refused PROVE BuildNonces /\ ChainNonces(After)
  BY <1>3 DEF NonceInv
<1>4. ASSUME UNCHANGED <<walletNonce, usedNonce, stored, restarts>>, ~refused,
             manual' = manual, Storing' <=> Storing
      PROVE  BuildNonces' /\ ChainNonces(After)'
  <2>1. BuildNonces /\ ChainNonces(After)
    BY <1>3, <1>4
  <2> QED BY <1>2, <1>4, <2>1, ChainGrows DEF BuildNonces, ChainNonces
<1>5. CASE PoolStep
  <2>1. walletNonce' = walletNonce
    BY <1>5, JobStepMarks DEF PoolStep, RType
  <2> QED BY <1>4, <1>5, <2>1 DEF PoolStep, buildVars, Storing
<1>6. ASSUME NEW b \in Block, Receive(b) PROVE BuildNonces' /\ ChainNonces(After)'
  BY <1>4, <1>6 DEF Receive, Storing, poolVars
<1>7. CASE Restart
  BY <1>1, <1>7 DEF Restart
<1>8. CASE UNCHANGED vars
  BY <1>4, <1>8 DEF vars, poolVars, replicaVars, buildVars, Storing
<1>9. CASE Process
  <2>1. restarts = 0
    BY <1>9, ProcessFrame
  <2>2. CASE Wrap \/ Wrapped \/ DropKey \/ CheckFresh
    BY <1>4, <2>1, <2>2 DEF Wrap, Wrapped, DropKey, CheckFresh, Storing, poolVars, buildVars
  <2>3. CASE StartPass2 \/ DropPending
    BY <1>4, <2>1, <2>3 DEF StartPass2, DropPending, Storing, poolVars
  <2>4. CASE CountFees \/ Replay \/ Forget
    BY <1>4, <2>1, <2>4 DEF CountFees, Replay, Forget, Storing, poolVars, buildVars
  <2>5. CASE AddKnown \/ ApplyFresh
    <3>1. PICK t \in Txn : /\ UseNonces(t) /\ manual' = Append(manual, t)
                           /\ UNCHANGED <<walletNonce, stored, refused>> /\ ~Storing /\ ~Storing'
      BY <2>5, SetOfTail DEF AddKnown, ApplyFresh, Storing, RType, TypeOK
    <3>2. BuildNonces /\ ChainNonces(After)
      BY <1>3, <2>1, <3>1
    <3>3. BuildNonces'
      BY <3>1, <3>2, BuildAdds
    <3> QED BY <1>2, <3>1, <3>2, <3>3, ChainGrows DEF ChainNonces
  <2>6. CASE Store
    <3>1. BuildNonces /\ ChainNonces(After)
      BY <1>3, <2>1, <2>6 DEF Store
    <3> QED BY <2>6, <3>1, StoreKeepsNonces
  <2>7. CASE RefuseBlock
    BY <2>7 DEF RefuseBlock
  <2>8. CASE StoreWallets
    BY <1>4, <2>1, <2>8 DEF StoreWallets, Storing, poolVars, buildVars
  <2>9. CASE StoreNonces
    <3>1. /\ \A w \in Wallet : walletNonce'[w] = IF usedNonce[w] # 0 THEN usedNonce[w] ELSE walletNonce[w]
          /\ \A w \in Wallet : usedNonce'[w] = 0
          /\ UNCHANGED <<stored, refused>> /\ Storing /\ ~Storing' /\ manual' = <<>>
      BY <2>9 DEF StoreNonces, NoNonce, Storing, ReplayInv, buildVars
    <3>2. BuildNonces /\ ChainNonces(After)
      BY <1>3, <2>1, <3>1
    <3>3. ToSet(manual') = {}
      BY <3>1 DEF ToSet
    <3>4. BuildNonces'
      BY <3>1, <3>3 DEF BuildNonces
    <3> QED BY <1>2, <3>1, <3>2, <3>4, ChainGrows DEF ChainNonces
  <2> QED BY <1>9, <2>2, <2>3, <2>4, <2>5, <2>6, <2>7, <2>8, <2>9 DEF Process
<1> QED BY <1>5, <1>6, <1>7, <1>8, <1>9 DEF Next

-----------------------------------------------------------------------------
(* The invariant of the replica. *)
IInv == RType /\ ChainInv /\ MarkInv /\ EffectInv

(* It holds at the beginning, and in every reachable state.                *)
LEMMA Inductive == Spec => []IInv
<1>1. Init => IInv
  <2> SUFFICES ASSUME Init PROVE IInv
    OBVIOUS
  <2>1. ChainTxns = {} /\ statusFee = {} /\ listed = {} /\ manual = <<>> /\ phase = "idle"
    BY DEF Init, PoolInit, ChainTxns
  <2>2. \A t : ~AtFee(t)
    BY DEF Init, PoolInit, AtFee
  <2>3. MarkInv
    BY <2>1 DEF MarkInv
  <2>4. EffectInv
    BY <2>1, <2>2 DEF EffectInv, ReplayInv, Replaying, AppliedInv, ChargedInv
  <2> QED BY <2>3, <2>4, RTypeInit, ChainInit DEF IInv
<1>2. IInv /\ [Next]_vars => IInv'
  BY RTypeStep, ChainStep, MarkStep, EffectStep DEF IInv
<1> QED BY <1>1, <1>2, PTL DEF Spec

(* Whatever the jobs do beside it, the thread that takes over valid blocks *)
(* leaves every transaction of the chain with its effects, its nonces and  *)
(* its mark: effects and nonces as long as no block has been refused.      *)
THEOREM EffectsOfChain ==
    ASSUME NEW After, ValidBlocks(After)
    PROVE  Spec => []ChainEffects
<1>1. Init => NonceInv(After)
  <2> SUFFICES ASSUME Init PROVE NonceInv(After)
    OBVIOUS
  <2>1. ChainTxns = {} /\ ToSet(manual) = {} /\ stored = {} /\ phase = "idle"
    BY DEF Init, ChainTxns, ToSet
  <2>2. \A w \in Wallet : walletNonce[w] = 0 /\ usedNonce[w] = 0
    BY DEF Init, PoolInit, NoNonce
  <2> QED BY <2>1, <2>2 DEF NonceInv, BuildNonces, ChainNonces, TopNonce, Storing
<1>2. IInv /\ NonceInv(After) /\ [Next]_vars => NonceInv(After)'
  BY NonceStep DEF IInv, EffectInv
<1>3. IInv /\ NonceInv(After) => ChainEffects
  <2> SUFFICES ASSUME IInv, NonceInv(After) PROVE ChainEffects
    OBVIOUS
  <2>1. TypeOK /\ ChainMarked
    BY DEF IInv, RType, MarkInv, Marking, ChainMarked
  <2>2. ChainCharged
    BY DEF IInv, EffectInv, ChargedInv, ChainCharged
  <2>3. ChainNonceStored
    BY DEF NonceInv, ChainNonces, ChainNonceStored, Storing, Signers
  <2> QED BY <2>1, <2>2, <2>3 DEF ChainEffects
<1> QED BY <1>1, <1>2, <1>3, Inductive, PTL DEF Spec

-----------------------------------------------------------------------------
(* Clean blocks. *)

(* A transaction that has not been handed to a block is executed by one    *)
(* job at most, which leaves its records and fees once and a status, and   *)
(* marks it after that.                                                    *)
Done(t) == Marking(t) \/ AtFee(t)

Given == ChainTxns \cup ToSet(manual)

Tidy(t) ==
    LET n == IF t \in statusFee \/ AtFee(t) THEN 1 ELSE 0 IN
    /\ records[t] = n /\ fees[t] = n /\ temp[t] = 0 /\ wallets[t] = 0
    /\ Marking(t) => t \in statusFee

OneJobEach == \A i, j \in Job : doing[i] = doing[j] /\ doing[i] # None => i = j

OnceInv ==
    /\ \A t \in Txn \ Given : Tidy(t)
    /\ \A j \in Job : stage[j] \in {"nonce", "execute"} => doing[j] \notin blockTxns \/ doing[j] \in Given

(* The running nonces have no gaps: every number up to them was that of a  *)
(* transaction which is done.                                              *)
Used(w, n) == \E u \in Txn : Done(u) /\ NonceOf[u][w] = n

Below(t) == \A w \in Signers(t) : \A n \in 1 .. NonceOf[t][w] - 1 : Used(w, n)

GapInv ==
    /\ \A w \in Wallet : \A n \in 1 .. preNonce[w] : Used(w, n)
    /\ \A j \in Job : stage[j] = "execute" => Below(doing[j])
    /\ phase \in {"apply1", "apply2"} => Below(Head(todo))
    /\ \A u \in Txn : \A w \in Signers(u) : Done(u) => preNonce[w] # 0

SourceInv ==
    \A w \in Wallet : walletNonce[w] # 0 \/ (Storing /\ usedNonce[w] # 0) =>
        \E u \in ChainTxns : w \in Signers(u)

TopInv(After) ==
    \A w \in Wallet : TopNonce(After, w) = 0 \/ \E u \in ChainTxns : NonceOf[u][w] = TopNonce(After, w)

(* What the thread of the blocks leaves empty.                             *)
EmptyInv ==
    /\ phase = "wrap" => manual = <<>>
    /\ phase \notin {"wrap", "known"} => known = <<>>
    /\ phase \notin {"wrap", "known", "pass1", "apply1", "pass2", "apply2"} => fresh = <<>>
    /\ phase \notin {"pass1", "apply1"} => retry = {}

(* A sequence in three parts.                                              *)
Parts(s, p, q, r) ==
    /\ Len(s) = Len(p) + Len(q) + Len(r)
    /\ \A i \in 1 .. Len(p) : s[i] = p[i]
    /\ \A i \in 1 .. Len(q) : s[Len(p) + i] = q[i]
    /\ \A i \in 1 .. Len(r) : s[Len(p) + Len(q) + i] = r[i]

Marked(s) == ToSet(s) \subseteq blockTxns
Unmarked(s) == ToSet(s) \cap blockTxns = {}

(* A transaction of the block, with its records, fees and effects.         *)
Stands(t, r, f, e, b) ==
    /\ records[t] = r /\ fees[t] = f /\ temp[t] = e /\ wallets[t] = b
    /\ t \in blockTxns /\ t \notin statusFee

(* What is in a clean block that is being built.                           *)
InBlock == \A t \in ToSet(manual) : Stands(t, 1, 1, 0, 0) /\ t \in listed

CleanWrap ==
    LET B == TxnsOf[current] IN
    /\ Parts(B, known, fresh, todo) /\ Marked(known) /\ Unmarked(fresh)
    /\ fresh # <<>> => Unmarked(todo)
    /\ \A i, k \in DOMAIN B : i < k /\ B[k] \in blockTxns => B[i] \in blockTxns

CleanKnown ==
    Parts(TxnsOf[current], manual, todo, fresh) /\ Marked(todo) /\ Unmarked(fresh)

CleanPass == Parts(TxnsOf[current], manual, todo, <<>>) /\ Unmarked(todo)

(* What of the block has been replayed is in the temporary balances.       *)
CleanReplay ==
    LET B == TxnsOf[current]
        n == Len(B) - Len(todo)
    IN
    /\ manual = B /\ feesMatch /\ ToSet(B) \subseteq listed
    /\ n >= 0 /\ \A i \in 1 .. Len(todo) : todo[i] = B[n + i]
    /\ \A i \in DOMAIN B :
          /\ i <= n => Stands(B[i], 0, 0, 1, 0)
          /\ i = n + 1 /\ phase = "forget" => Stands(B[i], 1, 0, 1, 0)
          /\ i > n + 1 \/ (i = n + 1 /\ phase # "forget") => Stands(B[i], 1, 0, 0, 0)

CleanStored(e, b) == \A t \in ToSet(TxnsOf[current]) : Stands(t, 0, 0, e, b)

CleanPhase ==
    /\ phase = "wrap" => CleanWrap
    /\ phase = "known" => CleanKnown
    /\ phase \in {"pass1", "apply1"} => CleanPass /\ retry = {}
    /\ phase \in {"pass2", "fees"} => manual = TxnsOf[current]
    /\ phase = "pass2" => todo = <<>>
    /\ phase # "apply2"
    /\ phase \in {"known", "pass1", "apply1", "pass2", "fees"} => InBlock
    /\ phase \in {"replay", "forget"} => CleanReplay
    /\ phase = "wallets" => CleanStored(1, 0)
    /\ phase \in {"nonces", "idle"} => CleanStored(0, 1)
    /\ phase \in {"wallets", "nonces", "idle"} => current \in stored
    /\ phase \notin {"wallets", "nonces", "idle"} => Parent[current] = Tip

(* No mark is ahead of the running nonces.                                 *)
MarksBehind == \A t \in blockTxns : \A w \in Signers(t) : NonceOf[t][w] <= CurrentNonce(w)

CleanFrame ==
    /\ restarts = 0 /\ ~refused /\ current \in Block
    /\ \A j \in Job : stage[j] = "idle"
    /\ ToSet(TxnsOf[current]) \cap received = {}

CleanInv == clean => CleanFrame /\ MarksBehind /\ CleanPhase

Takeover(After) ==
    /\ OneJobEach /\ EmptyInv /\ CleanInv
    /\ restarts = 0 /\ ~refused => OnceInv /\ GapInv /\ SourceInv /\ TopInv(After)

(* What a job's step may newly do.                                         *)
LEMMA JobStepNews ==
    ASSUME TypeOK, NEW j \in Job, Request(j) \/ JobStep(j)
    PROVE  /\ \A t \in Txn : Done(t)' => Done(t) \/ (Executes(j) /\ doing[j] = t)
           /\ Executes(j) => AdmitNonce(doing[j]) /\ doing'[j] = doing[j] /\ UNCHANGED <<statusFee, blockTxns>>
           /\ ~Executes(j) => preNonce' = preNonce
           /\ stage'[j] = "execute" =>
                 stage[j] = "nonce" /\ NonceNext(doing[j]) /\ doing'[j] = doing[j]
           /\ stage'[j] = "nonce" => stage[j] = "check" /\ doing[j] \notin blockTxns /\ doing'[j] = doing[j]
           /\ blockTxns' # blockTxns => stage[j] = "mark" /\ blockTxns' = blockTxns \cup {doing[j]}
<1> USE DEF Goto, Finish
<1>1. /\ stage \in [Job -> Stages] /\ doing \in [Job -> Txn \cup {None}]
      /\ stage[j] # "idle" => doing[j] \in Txn
  BY DEF TypeOK, PoolTypeOK
<1>2. JobFrame(j)
  BY JobStepMarks
<1>3. ASSUME statusFee' = statusFee, blockTxns' = blockTxns,
             stage'[j] \notin {"fee", "store", "mark"}
      PROVE  \A t \in Txn : Done(t)' => Done(t)
  BY <1>2, <1>3 DEF Done, Marking, AtFee, JobFrame
<1>4. CASE Request(j)
  <2>1. /\ statusFee' = statusFee /\ blockTxns' = blockTxns /\ preNonce' = preNonce
        /\ stage'[j] \in {"verify", "track"} /\ stage[j] = "idle"
    BY <1>1, <1>4 DEF Request, ClientRequest, PeerRequest, Start
  <2> QED BY <1>3, <2>1 DEF Executes
<1>5. CASE Track(j) \/ Verify(j) \/ Hold(j) \/ HoldAhead(j) \/ Refuse(j) \/ Release(j)
  <2>1. /\ statusFee' = statusFee /\ blockTxns' = blockTxns /\ preNonce' = preNonce
        /\ stage'[j] \in {"verify", "check", "idle", "release"}
    BY <1>1, <1>5 DEF Track, Verify, Hold, HoldAhead, Refuse, Release
  <2> QED BY <1>3, <2>1 DEF Executes
<1>6. CASE Check(j)
  <2>1. /\ statusFee' = statusFee /\ blockTxns' = blockTxns /\ preNonce' = preNonce
        /\ stage'[j] \in {"hold", "release", "nonce", "idle"} /\ stage[j] = "check"
    BY <1>1, <1>6 DEF Check
  <2>2. stage'[j] = "nonce" => doing[j] \notin blockTxns /\ doing'[j] = doing[j]
    BY <1>1, <1>6 DEF Check
  <2> QED BY <1>3, <2>1, <2>2 DEF Executes
<1>7. CASE CheckNonce(j)
  <2>1. /\ statusFee' = statusFee /\ blockTxns' = blockTxns /\ preNonce' = preNonce
        /\ stage'[j] \in {"execute", "holdRelease", "release"} /\ stage[j] = "nonce"
    BY <1>1, <1>7 DEF CheckNonce
  <2>2. stage'[j] = "execute" => NonceNext(doing[j]) /\ doing'[j] = doing[j]
    BY <1>1, <1>7 DEF CheckNonce
  <2> QED BY <1>3, <2>1, <2>2 DEF Executes
<1>8. CASE Execute(j)
  <2>1. /\ UNCHANGED <<statusFee, blockTxns, doing>> /\ stage[j] = "execute" /\ stage'[j] = "fee"
        /\ AdmitNonce(doing[j])
    BY <1>1, <1>8 DEF Execute
  <2>2. \A t \in Txn : Done(t)' => Done(t) \/ doing[j] = t
    BY <1>2, <2>1 DEF Done, Marking, AtFee, JobFrame
  <2> QED BY <2>1, <2>2 DEF Executes
<1>9. CASE StoreFee(j)
  <2>1. /\ UNCHANGED <<blockTxns, doing, preNonce>> /\ stage[j] = "fee" /\ stage'[j] = "store"
    BY <1>1, <1>9 DEF StoreFee
  <2>2. \A t \in Txn : Done(t)' => Done(t)
    BY <1>2, <2>1 DEF Done, Marking, AtFee, JobFrame
  <2> QED BY <2>1, <2>2 DEF Executes
<1>10. CASE StoreProcessed(j)
  <2>1. /\ UNCHANGED <<blockTxns, doing, preNonce>> /\ stage[j] = "store" /\ stage'[j] = "mark"
    BY <1>1, <1>10 DEF StoreProcessed
  <2>2. \A t \in Txn : Done(t)' => Done(t)
    BY <1>2, <2>1 DEF Done, Marking, AtFee, JobFrame
  <2> QED BY <2>1, <2>2 DEF Executes
<1>11. CASE MarkBlockTxn(j)
  <2>1. /\ UNCHANGED <<doing, preNonce>> /\ stage[j] = "mark" /\ stage'[j] = "release"
        /\ blockTxns' = blockTxns \cup {doing[j]}
    BY <1>1, <1>11 DEF MarkBlockTxn
  <2>2. \A t \in Txn : Done(t)' => Done(t)
    BY <1>2, <2>1 DEF Done, Marking, AtFee, JobFrame
  <2> QED BY <2>1, <2>2 DEF Executes
<1> QED BY <1>4, <1>5, <1>6, <1>7, <1>8, <1>9, <1>10, <1>11 DEF JobStep

(* What is done stays so, except for a restart.                            *)
LEMMA DoneStays ==
    ASSUME RType, [Next]_vars, restarts' = 0
    PROVE  \A t \in Txn : Done(t) => Done(t)'
<1>1. ASSUME UNCHANGED <<stage, doing>>, blockTxns \subseteq blockTxns'
      PROVE  \A t \in Txn : Done(t) => Done(t)'
  BY <1>1 DEF Done, Marking, AtFee
<1>2. CASE PoolStep
  <2>1. PICK j \in Job : Request(j) \/ JobStep(j)
    BY <1>2 DEF PoolStep
  <2>2. ASSUME NEW t \in Txn, AtFee(t) PROVE Done(t)'
    <3>1. PICK i \in Job : doing[i] = t /\ stage[i] = "fee"
      BY <2>2 DEF AtFee
    <3>2. CASE i = j
      <4>1. stage'[j] = "store" /\ doing'[j] = t
        BY <2>1, <3>1, <3>2, JobStepMarks DEF RType
      <4> QED BY <4>1 DEF Done, Marking
    <3>3. CASE i # j
      <4>1. stage'[i] = "fee" /\ doing'[i] = t
        BY <2>1, <3>1, <3>3, JobStepMarks DEF RType, JobFrame
      <4> QED BY <4>1 DEF Done, AtFee
    <3> QED BY <3>2, <3>3
  <2>3. \A t \in Txn : Marking(t) => Done(t)'
    BY <2>1, JobStepMarks DEF RType, Done
  <2> QED BY <2>2, <2>3 DEF Done
<1>3. CASE Process
  BY <1>1, <1>3, ProcessFrame
<1>4. ASSUME NEW b \in Block, Receive(b) PROVE UNCHANGED poolVars
  BY <1>4 DEF Receive
<1>5. CASE Restart
  BY <1>5 DEF Restart, RType, TypeOK
<1>6. CASE UNCHANGED vars
  BY <1>1, <1>6 DEF vars, poolVars
<1> QED BY <1>1, <1>2, <1>3, <1>4, <1>5, <1>6 DEF Next, poolVars

(* Two jobs never have the same transaction in hand.                       *)
LEMMA OneJobStep ==
    ASSUME OncePerHash, RType, OneJobEach, [Next]_vars
    PROVE  OneJobEach'
<1>1. doing \in [Job -> Txn \cup {None}]
  BY DEF RType, TypeOK, PoolTypeOK
<1>2. ASSUME NEW j \in Job, doing' \in {doing, [doing EXCEPT ![j] = None]} PROVE OneJobEach'
  BY <1>1, <1>2 DEF OneJobEach
<1>3. ASSUME doing' = doing PROVE OneJobEach'
  BY <1>3 DEF OneJobEach
<1>4. CASE PoolStep
  <2>1. PICK j \in Job : Request(j) \/ JobStep(j)
    BY <1>4 DEF PoolStep
  <2>2. CASE Request(j)
    <3>1. PICK t \in Txn : /\ \A i \in Job : doing[i] # t
                           /\ doing' = [doing EXCEPT ![j] = t]
      BY <2>2 DEF Request, ClientRequest, PeerRequest, Start
    <3> QED BY <1>1, <3>1 DEF OneJobEach
  <2>3. CASE JobStep(j)
    <3>1. doing' \in {doing, [doing EXCEPT ![j] = None]}
      BY <2>3 DEF JobStep, Goto, Finish, Track, Verify, Check, Hold, CheckNonce, HoldAhead, Execute, Refuse,
         StoreFee, StoreProcessed, MarkBlockTxn, Release
    <3> QED BY <1>2, <3>1
  <2> QED BY <2>1, <2>2, <2>3
<1>5. CASE Process
  BY <1>3, <1>5, ProcessFrame
<1>6. ASSUME NEW b \in Block, Receive(b) PROVE OneJobEach'
  BY <1>3, <1>6 DEF Receive, poolVars
<1>7. CASE Restart
  <2>1. \A j \in Job : doing'[j] = None
    BY <1>7 DEF Restart
  <2> QED BY <2>1 DEF OneJobEach
<1>8. CASE UNCHANGED vars
  BY <1>3, <1>8 DEF vars, poolVars
<1> QED BY <1>4, <1>5, <1>6, <1>7, <1>8 DEF Next

(* What the thread of the blocks leaves empty stays so.                    *)
LEMMA EmptyStep == RType /\ ReplayInv /\ EmptyInv /\ [Next]_vars => EmptyInv'
<1> SUFFICES ASSUME RType, ReplayInv, EmptyInv, [Next]_vars PROVE EmptyInv'
  OBVIOUS
<1> USE DEF EmptyInv
<1>1. CASE PoolStep
  BY <1>1 DEF PoolStep, buildVars
<1>2. ASSUME NEW b \in Block, Receive(b) PROVE EmptyInv'
  BY <1>2 DEF Receive, ReplayInv
<1>3. CASE Wrap \/ Wrapped \/ AddKnown \/ DropKey
  BY <1>3 DEF Wrap, Wrapped, AddKnown, DropKey, buildVars
<1>4. CASE CheckFresh \/ ApplyFresh
  BY <1>4 DEF CheckFresh, ApplyFresh
<1>5. CASE StartPass2 \/ DropPending
  BY <1>5 DEF StartPass2, DropPending
<1>6. CASE CountFees \/ Replay \/ Forget
  BY <1>6 DEF CountFees, Replay, Forget, buildVars
<1>7. CASE Store \/ RefuseBlock
  BY <1>7 DEF Store, RefuseBlock, Leave
<1>8. CASE StoreWallets \/ StoreNonces
  BY <1>8 DEF StoreWallets, StoreNonces, buildVars
<1>9. CASE Restart
  BY <1>9 DEF Restart
<1>10. CASE UNCHANGED vars
  BY <1>10 DEF vars, replicaVars, buildVars
<1> QED BY <1>1, <1>2, <1>3, <1>4, <1>5, <1>6, <1>7, <1>8, <1>9, <1>10 DEF Next, Process

(* What is handed to a block stays in it or in the chain, unless the block *)
(* is refused.                                                             *)
LEMMA GivenGrows ==
    ASSUME RType, [Next]_vars, restarts' = 0, ~refused'
    PROVE  Given \subseteq Given' /\ restarts = 0 /\ ~refused
<1> USE DEF Given
<1>1. ASSUME stored' = stored, manual' = manual PROVE Given \subseteq Given'
  BY <1>1, ChainGrows
<1>2. manual \in Seq(Txn)
  BY DEF RType, TypeOK
<1>3. CASE PoolStep
  BY <1>1, <1>3 DEF PoolStep, buildVars
<1>4. ASSUME NEW b \in Block, Receive(b) PROVE Given \subseteq Given' /\ restarts = 0 /\ ~refused
  BY <1>1, <1>4 DEF Receive
<1>5. CASE Process
  <2>1. restarts = 0
    BY <1>5, ProcessFrame
  <2>2. CASE Wrap \/ Wrapped \/ DropKey \/ CheckFresh
    BY <1>1, <2>1, <2>2 DEF Wrap, Wrapped, DropKey, CheckFresh, buildVars
  <2>3. CASE StartPass2 \/ DropPending
    <3>1. stored' = stored /\ manual' = manual
      BY <2>3 DEF StartPass2, DropPending
    <3>2. ~refused
      BY <2>3 DEF StartPass2, DropPending
    <3> QED BY <1>1, <2>1, <3>1, <3>2
  <2>4. CASE CountFees \/ Replay \/ Forget
    BY <1>1, <2>1, <2>4 DEF CountFees, Replay, Forget, buildVars
  <2>5. CASE AddKnown \/ ApplyFresh
    <3>1. PICK t \in Txn : manual' = Append(manual, t) /\ stored' = stored /\ refused' = refused
      BY <2>5, SetOfTail DEF AddKnown, ApplyFresh, RType, TypeOK
    <3> QED BY <1>2, <2>1, <3>1, SetOfAppend, ChainGrows
  <2>6. CASE Store
    <3>1. stored' = stored \cup {current} /\ manual = TxnsOf[current] /\ refused' = refused
      BY <2>6 DEF Store, SameBlock
    <3> QED BY <2>1, <3>1, ChainGrows
  <2>7. CASE RefuseBlock
    BY <2>7 DEF RefuseBlock
  <2>8. CASE StoreWallets \/ StoreNonces
    BY <1>1, <2>1, <2>8 DEF StoreWallets, StoreNonces, buildVars
  <2> QED BY <1>5, <2>2, <2>3, <2>4, <2>5, <2>6, <2>7, <2>8 DEF Process
<1>6. CASE Restart
  BY <1>6 DEF Restart, RType, TypeOK
<1>7. CASE UNCHANGED vars
  BY <1>1, <1>7 DEF vars, replicaVars, buildVars
<1> QED BY <1>3, <1>4, <1>5, <1>6, <1>7 DEF Next

(* The thread of the blocks changes nothing of what it has not been given. *)
LEMMA OthersAlone ==
    ASSUME RType, ReplayInv, OnceInv, Process, restarts' = 0, ~refused'
    PROVE  \A t \in Txn \ Given' :
              /\ records'[t] = records[t] /\ fees'[t] = fees[t] /\ temp'[t] = temp[t]
              /\ wallets'[t] = wallets[t]
              /\ (t \in statusFee' <=> t \in statusFee) /\ (t \in blockTxns' <=> t \in blockTxns)
<1>1. Given \subseteq Given' /\ todo \in Seq(Txn) /\ manual \in Seq(Txn)
  BY GivenGrows DEF RType, TypeOK, Next
<1>2. /\ records \in [Txn -> Nat] /\ fees \in [Txn -> Nat] /\ temp \in [Txn -> Nat]
      /\ wallets \in [Txn -> Nat]
  BY DEF RType, TypeOK
<1>3. CASE Wrap \/ Wrapped \/ DropKey \/ CheckFresh
  BY <1>3 DEF Wrap, Wrapped, DropKey, CheckFresh, poolVars, effectVars
<1>4. CASE StartPass2 \/ DropPending \/ Store \/ RefuseBlock \/ StoreNonces
  BY <1>4 DEF StartPass2, DropPending, Store, RefuseBlock, StoreNonces, poolVars, effectVars
<1>5. CASE AddKnown
  <2>1. Head(todo) \in Given'
    <3>1. manual' = Append(manual, Head(todo)) /\ Head(todo) \in Txn
      BY <1>1, <1>5, SetOfTail DEF AddKnown
    <3> QED BY <1>1, <3>1, SetOfAppend DEF Given
  <2> QED BY <1>5, <2>1 DEF AddKnown, effectVars
<1>6. CASE ApplyFresh
  <2>1. Head(todo) \in Given' /\ Head(todo) \in Txn
    <3>1. manual' = Append(manual, Head(todo)) /\ Head(todo) \in Txn
      BY <1>1, <1>6, SetOfTail DEF ApplyFresh, RType, TypeOK
    <3> QED BY <1>1, <3>1, SetOfAppend DEF Given
  <2> QED BY <1>2, <1>6, <2>1 DEF ApplyFresh
<1>7. CASE CountFees
  <2>1. \A t \in Txn : t \notin ToSet(manual) => fees'[t] = fees[t]
    BY <1>7 DEF CountFees
  <2>2. UNCHANGED <<records, temp, wallets, statusFee, blockTxns>>
    BY <1>7 DEF CountFees, poolVars
  <2> QED BY <1>1, <2>1, <2>2 DEF Given
<1>8. CASE Replay \/ Forget
  <2>1. todo # <<>> /\ phase \in {"replay", "forget"}
    BY <1>8 DEF Replay, Forget, RType, TypeOK
  <2>2. Head(todo) \in ToSet(manual) /\ Head(todo) \in Txn
    BY <1>1, <2>1, SetOfTail DEF ReplayInv, Replaying
  <2>3. Head(todo) \in Given'
    BY <1>1, <2>2 DEF Given
  <2> QED BY <1>2, <1>8, <2>2, <2>3 DEF Replay, Forget, poolVars
<1>9. CASE StoreWallets
  <2>1. UNCHANGED <<records, fees, statusFee, blockTxns>>
    BY <1>9 DEF StoreWallets, poolVars
  <2>2. \A t \in Txn : wallets'[t] = wallets[t] + temp[t] /\ temp'[t] = 0
    BY <1>9 DEF StoreWallets, NoCount
  <2>3. \A t \in Txn \ Given' : temp[t] = 0
    BY <1>1 DEF OnceInv, Tidy
  <2> QED BY <1>2, <2>1, <2>2, <2>3
<1> QED BY <1>3, <1>4, <1>5, <1>6, <1>7, <1>8, <1>9 DEF Process

(* A job that is at the fees leaves the status.                            *)
LEMMA FeeLeavesStatus ==
    ASSUME NEW j \in Job, JobStep(j), stage[j] = "fee"
    PROVE  statusFee' = statusFee \cup {doing[j]}
BY DEF JobStep, Goto, Finish, Track, Verify, Check, Hold, CheckNonce, HoldAhead, Execute, Refuse,
   StoreFee, StoreProcessed, MarkBlockTxn, Release

(* A job executes a transaction once, and what has been given to a block   *)
(* without its work is not its business any more.                          *)
LEMMA OncePool ==
    ASSUME RType, MarkInv, OneJobEach, OneJobEach', OnceInv, PoolStep, restarts = 0
    PROVE  OnceInv'
<1>1. PICK j \in Job :
        /\ Request(j) \/ JobStep(j)
        /\ IF Executes(j)
           THEN /\ records' = [records EXCEPT ![doing[j]] = @ + 1]
                /\ fees' = [fees EXCEPT ![doing[j]] = @ + 1]
           ELSE UNCHANGED <<records, fees>>
  BY DEF PoolStep
<1>2. /\ UNCHANGED <<temp, wallets>> /\ Given' = Given /\ TypeOK
      /\ records \in [Txn -> Nat] /\ fees \in [Txn -> Nat]
      /\ doing \in [Job -> Txn \cup {None}] /\ stage \in [Job -> Stages]
      /\ \A i \in Job : stage[i] # "idle" => doing[i] \in Txn
  BY ChainGrows DEF PoolStep, buildVars, RType, TypeOK, PoolTypeOK, Given
<1>3. JobFrame(j) /\ (stage[j] = "fee" => stage'[j] = "store" /\ doing'[j] = doing[j])
  BY <1>1, <1>2, JobStepMarks
<1>4. stage[j] = "fee" => statusFee' = statusFee \cup {doing[j]}
  <2>1. Request(j) => stage[j] = "idle"
    BY DEF Request, ClientRequest, PeerRequest, Start
  <2> QED BY <1>1, <2>1, FeeLeavesStatus
<1>5. statusFee \subseteq statusFee' /\ \A t \in statusFee' \ statusFee : t = doing[j] /\ stage[j] = "fee"
  BY <1>1, <1>2, JobStepMarks
<1>6. ASSUME NEW t \in Txn \ Given PROVE Tidy(t)'
  <2>1. Tidy(t)
    BY DEF OnceInv
  <2>2. CASE Executes(j) /\ doing[j] = t
    <3>1. stage[j] = "execute" /\ stage'[j] = "fee" /\ doing'[j] = t /\ UNCHANGED <<statusFee, blockTxns>>
      BY <1>1, <1>2, <2>2, JobStepNews DEF Executes
    <3>2. t \notin blockTxns
      BY <2>2, <3>1 DEF OnceInv
    <3>3. \A i \in Job : doing[i] = t => i = j
      BY <2>2, NoneAssumption DEF OneJobEach
    <3>4. ~Marking(t) /\ ~AtFee(t)
      BY <3>1, <3>2, <3>3 DEF Marking, AtFee
    <3>5. t \notin statusFee
      BY <3>4 DEF MarkInv
    <3>6. records[t] = 0 /\ fees[t] = 0 /\ temp[t] = 0 /\ wallets[t] = 0
      BY <2>1, <3>4, <3>5 DEF Tidy
    <3>7. records'[t] = 1 /\ fees'[t] = 1 /\ temp'[t] = 0 /\ wallets'[t] = 0
      BY <1>1, <1>2, <2>2, <3>6
    <3>8. AtFee(t)'
      BY <3>1 DEF AtFee
    <3>9. ~Marking(t)'
      BY <1>3, <3>1, <3>2, <3>3 DEF Marking, JobFrame
    <3> QED BY <3>7, <3>8, <3>9 DEF Tidy
  <2>3. CASE ~(Executes(j) /\ doing[j] = t)
    <3>1. records'[t] = records[t] /\ fees'[t] = fees[t]
      BY <1>1, <1>2, <2>3
    <3>2. AtFee(t)' => AtFee(t)
      <4>1. ASSUME NEW i \in Job, doing'[i] = t, stage'[i] = "fee" PROVE AtFee(t)
        <5>1. CASE i = j
          BY <1>1, <1>2, <2>3, <4>1, <5>1, JobStepMarks
        <5>2. CASE i # j
          BY <1>3, <4>1, <5>2 DEF JobFrame, AtFee
        <5> QED BY <5>1, <5>2
      <4> QED BY <4>1 DEF AtFee
    <3>3. AtFee(t) => AtFee(t)' \/ t \in statusFee'
      BY <1>3, <1>4 DEF AtFee, JobFrame
    <3>4. t \in statusFee' => t \in statusFee \/ AtFee(t)
      BY <1>5 DEF AtFee
    <3>5. Marking(t)' => t \in statusFee'
      <4> SUFFICES ASSUME Marking(t)', t \notin statusFee' PROVE FALSE
        OBVIOUS
      <4>1. Done(t)
        BY <1>1, <1>2, <2>3, JobStepNews DEF Done
      <4>2. ~Marking(t)
        BY <1>5, <2>1 DEF Tidy
      <4>3. PICK i \in Job : doing[i] = t /\ stage[i] = "fee"
        BY <4>1, <4>2 DEF Done, AtFee
      <4>4. i # j
        BY <1>4, <4>3
      <4>5. stage'[i] = "fee" /\ doing'[i] = t
        BY <1>3, <4>3, <4>4 DEF JobFrame
      <4>6. doing[j] # t
        BY <4>3, <4>4, NoneAssumption DEF OneJobEach
      <4>7. t \notin blockTxns'
        BY <1>1, <1>2, <4>2, <4>6, JobStepNews DEF Marking
      <4>8. PICK k \in Job : doing'[k] = t /\ stage'[k] \in {"store", "mark"}
        BY <4>7 DEF Marking
      <4>9. k = i
        BY <4>5, <4>8, NoneAssumption DEF OneJobEach
      <4> QED BY <4>5, <4>8, <4>9
    <3> QED BY <1>2, <1>5, <2>1, <3>1, <3>2, <3>3, <3>4, <3>5 DEF Tidy
  <2> QED BY <2>2, <2>3
<1>7. ASSUME NEW i \in Job, stage'[i] \in {"nonce", "execute"}
      PROVE  doing'[i] \notin blockTxns' \/ doing'[i] \in Given
  <2>1. CASE i = j
    <3>1. doing'[j] = doing[j] /\ stage[j] \in {"nonce", "check"}
      BY <1>1, <1>2, <1>7, <2>1, JobStepNews
    <3>2. blockTxns' = blockTxns
      BY <1>1, <1>2, <3>1, JobStepNews
    <3>3. doing[j] \notin blockTxns \/ doing[j] \in Given
      BY <1>1, <1>2, <1>7, <2>1, JobStepNews DEF OnceInv
    <3> QED BY <2>1, <3>1, <3>2, <3>3
  <2>2. CASE i # j
    <3>1. stage'[i] = stage[i] /\ doing'[i] = doing[i] /\ doing[i] \in Txn
      BY <1>2, <1>3, <1>7, <2>2 DEF JobFrame
    <3>2. doing[i] \notin blockTxns \/ doing[i] \in Given
      BY <1>7, <3>1 DEF OnceInv
    <3>3. blockTxns' # blockTxns => blockTxns' = blockTxns \cup {doing[j]}
      BY <1>1, <1>2, JobStepNews
    <3>4. doing[j] # doing[i]
      BY <2>2, <3>1, NoneAssumption DEF OneJobEach
    <3> QED BY <3>1, <3>2, <3>3, <3>4
  <2> QED BY <2>1, <2>2
<1> QED BY <1>2, <1>6, <1>7 DEF OnceInv

(* The invariant about transactions that no block has been given.          *)
LEMMA OnceStep ==
    ASSUME RType, MarkInv, ReplayInv, OneJobEach, OneJobEach', OnceInv, [Next]_vars,
           restarts' = 0, ~refused'
    PROVE  OnceInv'
<1>1. Given \subseteq Given' /\ restarts = 0
  BY GivenGrows
<1>2. ASSUME UNCHANGED <<poolVars, effectVars>> PROVE OnceInv'
  <2>1. \A t \in Txn : (AtFee(t)' <=> AtFee(t)) /\ (Marking(t)' <=> Marking(t))
    BY <1>2 DEF AtFee, Marking, poolVars
  <2>2. \A t \in Txn \ Given' : Tidy(t)'
    BY <1>1, <1>2, <2>1 DEF OnceInv, Tidy, poolVars, effectVars
  <2> QED BY <1>1, <1>2, <2>2 DEF OnceInv, poolVars
<1>3. CASE PoolStep
  BY <1>1, <1>3, OncePool
<1>4. CASE Process
  <2>1. \A t \in Txn \ Given' :
           /\ records'[t] = records[t] /\ fees'[t] = fees[t] /\ temp'[t] = temp[t]
           /\ wallets'[t] = wallets[t]
           /\ (t \in statusFee' <=> t \in statusFee) /\ (t \in blockTxns' <=> t \in blockTxns)
    BY <1>4, OthersAlone
  <2>2. UNCHANGED <<stage, doing>>
    BY <1>4, ProcessFrame
  <2>3. \A t \in Txn \ Given' : (AtFee(t)' <=> AtFee(t)) /\ (Marking(t)' <=> Marking(t))
    BY <2>1, <2>2 DEF AtFee, Marking
  <2>4. \A t \in Txn \ Given' : Tidy(t)'
    BY <1>1, <2>1, <2>3 DEF OnceInv, Tidy
  <2>5. \A j \in Job : stage[j] # "idle" => doing[j] \in Txn
    BY DEF RType, TypeOK, PoolTypeOK
  <2>6. \A j \in Job : stage'[j] \in {"nonce", "execute"} => doing'[j] \notin blockTxns' \/ doing'[j] \in Given'
    BY <1>1, <2>1, <2>2, <2>5 DEF OnceInv
  <2> QED BY <2>4, <2>6 DEF OnceInv
<1>5. ASSUME NEW b \in Block, Receive(b) PROVE OnceInv'
  BY <1>2, <1>5 DEF Receive
<1>6. CASE Restart
  BY <1>1, <1>6 DEF Restart
<1>7. CASE UNCHANGED vars
  BY <1>2, <1>7 DEF vars, replicaVars
<1> QED BY <1>3, <1>4, <1>5, <1>6, <1>7 DEF Next

(* While the node has not restarted, the running nonces are those the      *)
(* nonce check compares with.                                              *)
LEMMA RunningIsCurrent ==
    ASSUME RType, MarkInv, GapInv, SourceInv, restarts = 0
    PROVE  \A w \in Wallet : CurrentNonce(w) = preNonce[w]
<1>1. ASSUME NEW w \in Wallet, preNonce[w] = 0, walletNonce[w] # 0 PROVE FALSE
  <2>1. PICK u \in ChainTxns : w \in Signers(u)
    BY <1>1 DEF SourceInv
  <2>2. u \in Txn /\ Marking(u)
    BY ChainOfTxns DEF MarkInv, RType, TypeOK
  <2> QED BY <1>1, <2>1, <2>2 DEF GapInv, Done
<1> QED BY <1>1 DEF CurrentNonce

(* An admitted transaction closes the gap it has left.                     *)
LEMMA AdmitKeepsGap ==
    ASSUME NEW t \in Txn, RType, AdmitNonce(t), Below(t), GapInv,
           \A u \in Txn : Done(u) => Done(u)', Done(t)', \A u \in Txn : Done(u)' => Done(u) \/ u = t
    PROVE  /\ \A w \in Wallet : \A n \in 1 .. preNonce'[w] : Used(w, n)'
           /\ \A u \in Txn : \A w \in Signers(u) : Done(u)' => preNonce'[w] # 0
<1>1. /\ \A w \in Wallet : preNonce'[w] = IF w \in Signers(t) THEN NonceOf[t][w] ELSE preNonce[w]
      /\ \A w \in Wallet : NonceOf[t][w] \in Nat
  BY NonceAssumption DEF AdmitNonce
<1>2. \A w \in Wallet : \A n : Used(w, n) => Used(w, n)'
  BY DEF Used
<1>3. ASSUME NEW w \in Wallet, NEW n \in 1 .. preNonce'[w] PROVE Used(w, n)'
  <2>1. CASE w \in Signers(t) /\ n = NonceOf[t][w]
    BY <2>1 DEF Used
  <2>2. CASE w \in Signers(t) /\ n # NonceOf[t][w]
    <3>1. n \in 1 .. NonceOf[t][w] - 1
      BY <1>1, <1>3, <2>2
    <3> QED BY <1>2, <2>2, <3>1 DEF Below
  <2>3. CASE w \notin Signers(t)
    BY <1>1, <1>2, <1>3, <2>3 DEF GapInv
  <2> QED BY <2>1, <2>2, <2>3
<1>4. ASSUME NEW u \in Txn, NEW w \in Signers(u), Done(u)' PROVE preNonce'[w] # 0
  <2>1. w \in Wallet
    BY DEF Signers
  <2>2. CASE w \in Signers(t)
    BY <1>1, <2>1, <2>2 DEF Signers
  <2>3. CASE w \notin Signers(t)
    BY <1>1, <1>4, <2>1, <2>3 DEF GapInv
  <2> QED BY <2>2, <2>3
<1> QED BY <1>3, <1>4

(* What passes the nonce check leaves no gap.                              *)
LEMMA NextIsBelow ==
    ASSUME NEW t \in Txn, RType, GapInv, \A w \in Wallet : CurrentNonce(w) = preNonce[w], NonceNext(t)
    PROVE  Below(t)
<1>1. ASSUME NEW w \in Signers(t), NEW n \in 1 .. NonceOf[t][w] - 1 PROVE Used(w, n)
  <2>1. w \in Wallet /\ NonceOf[t][w] = preNonce[w] + 1 /\ preNonce[w] \in Nat
    BY DEF Signers, NonceNext, RType, TypeOK, PoolTypeOK
  <2>2. n \in 1 .. preNonce[w]
    BY <2>1
  <2> QED BY <2>1, <2>2 DEF GapInv
<1> QED BY <1>1 DEF Below

(* The running nonces stay without gaps.                                   *)
LEMMA GapStep ==
    ASSUME RType, MarkInv, SourceInv, GapInv, [Next]_vars, restarts' = 0, ~refused'
    PROVE  GapInv'
<1>1. restarts = 0 /\ \A t \in Txn : Done(t) => Done(t)'
  BY GivenGrows, DoneStays
<1>2. \A w \in Wallet : CurrentNonce(w) = preNonce[w]
  BY <1>1, RunningIsCurrent
<1>3. /\ \A w \in Wallet : \A n : Used(w, n) => Used(w, n)'
      /\ \A t \in Txn : Below(t) => Below(t)'
  BY <1>1 DEF Used, Below, Signers
<1>4. ASSUME preNonce' = preNonce, \A t \in Txn : Done(t)' => Done(t)
      PROVE  /\ \A w \in Wallet : \A n \in 1 .. preNonce'[w] : Used(w, n)'
             /\ \A u \in Txn : \A w \in Signers(u) : Done(u)' => preNonce'[w] # 0
  BY <1>3, <1>4 DEF GapInv
<1>5. /\ TypeOK /\ \A j \in Job : stage[j] # "idle" => doing[j] \in Txn
      /\ todo \in Seq(Txn) /\ (phase \in {"apply1", "apply2"} => todo # <<>>)
  BY DEF RType, TypeOK, PoolTypeOK
<1>6. todo # <<>> => Head(todo) \in Txn
  BY <1>5, SetOfTail
<1>7. CASE PoolStep
  <2>1. PICK j \in Job : Request(j) \/ JobStep(j)
    BY <1>7 DEF PoolStep
  <2>2. /\ \A w \in Wallet : \A n \in 1 .. preNonce'[w] : Used(w, n)'
        /\ \A u \in Txn : \A w \in Signers(u) : Done(u)' => preNonce'[w] # 0
    <3>1. CASE Executes(j)
      <4>1. /\ stage[j] = "execute" /\ stage'[j] = "fee" /\ doing'[j] = doing[j] /\ AdmitNonce(doing[j])
            /\ doing[j] \in Txn
        BY <1>5, <2>1, <3>1, JobStepNews DEF Executes
      <4>2. Done(doing[j])'
        BY <4>1 DEF Done, AtFee
      <4>3. Below(doing[j]) /\ \A u \in Txn : Done(u)' => Done(u) \/ u = doing[j]
        BY <1>5, <2>1, <4>1, JobStepNews DEF GapInv
      <4> QED BY <1>1, <4>1, <4>2, <4>3, AdmitKeepsGap
    <3>2. CASE ~Executes(j)
      BY <1>4, <1>5, <2>1, <3>2, JobStepNews
    <3> QED BY <3>1, <3>2
  <2>3. ASSUME NEW i \in Job, stage'[i] = "execute" PROVE Below(doing[i])'
    <3>1. CASE i = j
      <4>1. stage[j] = "nonce" /\ NonceNext(doing[j]) /\ doing'[j] = doing[j] /\ doing[j] \in Txn
        BY <1>5, <2>1, <2>3, <3>1, JobStepNews
      <4> QED BY <1>2, <1>3, <3>1, <4>1, NextIsBelow
    <3>2. CASE i # j
      <4>1. stage[i] = "execute" /\ doing'[i] = doing[i] /\ doing[i] \in Txn
        BY <1>5, <2>1, <2>3, <3>2, JobStepMarks DEF JobFrame
      <4> QED BY <1>3, <4>1 DEF GapInv
    <3> QED BY <3>1, <3>2
  <2>4. phase' \in {"apply1", "apply2"} => Below(Head(todo))'
    BY <1>3, <1>5, <1>6, <1>7 DEF PoolStep, GapInv
  <2> QED BY <2>2, <2>3, <2>4 DEF GapInv
<1>8. ASSUME UNCHANGED <<preNonce, stage, doing>>, \A t \in Txn : Done(t)' => Done(t),
             phase' \in {"apply1", "apply2"} => Below(Head(todo))'
      PROVE  GapInv'
  <2>1. ASSUME NEW i \in Job, stage'[i] = "execute" PROVE Below(doing[i])'
    BY <1>3, <1>5, <1>8, <2>1 DEF GapInv
  <2> QED BY <1>4, <1>8, <2>1 DEF GapInv
<1>9. ASSUME UNCHANGED <<stage, doing, blockTxns>> PROVE \A t \in Txn : Done(t)' => Done(t)
  BY <1>9 DEF Done, Marking, AtFee
<1>10. CASE ApplyFresh
  <2>1. PICK t \in Txn :
           /\ phase \in {"apply1", "apply2"} /\ AdmitNonce(t) /\ t = Head(todo)
           /\ blockTxns' = blockTxns \cup {t} /\ UNCHANGED <<stage, doing>>
           /\ phase' \in {"pass1", "pass2"}
    BY <1>5, <1>6, <1>10 DEF ApplyFresh
  <2>2. Done(t)' /\ \A u \in Txn : Done(u)' => Done(u) \/ u = t
    BY <2>1 DEF Done, Marking, AtFee
  <2>3. Below(t)
    BY <2>1 DEF GapInv
  <2>4. /\ \A w \in Wallet : \A n \in 1 .. preNonce'[w] : Used(w, n)'
        /\ \A u \in Txn : \A w \in Signers(u) : Done(u)' => preNonce'[w] # 0
    BY <1>1, <2>1, <2>2, <2>3, AdmitKeepsGap
  <2>5. ASSUME NEW i \in Job, stage'[i] = "execute" PROVE Below(doing[i])'
    <3>1. stage[i] = "execute" /\ doing'[i] = doing[i] /\ doing[i] \in Txn
      BY <1>5, <2>1, <2>5
    <3>2. Below(doing[i])
      BY <3>1 DEF GapInv
    <3> QED BY <1>3, <3>1, <3>2
  <2> QED BY <2>1, <2>4, <2>5 DEF GapInv
<1>11. CASE CheckFresh
  <2>1. UNCHANGED <<preNonce, stage, doing, blockTxns>> /\ phase \in {"pass1", "pass2"}
        /\ Head(todo) \in Txn
    BY <1>6, <1>11 DEF CheckFresh, poolVars
  <2>2. phase' \in {"apply1", "apply2"} => todo' = todo /\ NonceNext(Head(todo))
    BY <1>11, <2>1 DEF CheckFresh
  <2>3. phase' \in {"apply1", "apply2"} => Below(Head(todo))'
    BY <1>2, <1>3, <2>1, <2>2, NextIsBelow
  <2> QED BY <1>8, <1>9, <2>1, <2>3
<1>12. CASE Process /\ ~ApplyFresh /\ ~CheckFresh
  <2>1. UNCHANGED <<preNonce, stage, doing, blockTxns>> /\ phase' \notin {"apply1", "apply2"}
    <3>1. CASE Wrap \/ Wrapped \/ AddKnown \/ DropKey
      BY <3>1 DEF Wrap, Wrapped, AddKnown, DropKey, poolVars
    <3>2. CASE StartPass2 \/ DropPending \/ CountFees \/ Replay \/ Forget
      BY <3>2 DEF StartPass2, DropPending, CountFees, Replay, Forget, poolVars
    <3>3. CASE Store \/ RefuseBlock \/ StoreWallets \/ StoreNonces
      BY <3>3 DEF Store, RefuseBlock, Leave, StoreWallets, StoreNonces, poolVars
    <3> QED BY <1>12, <3>1, <3>2, <3>3 DEF Process
  <2> QED BY <1>8, <1>9, <2>1
<1>13. ASSUME NEW b \in Block, Receive(b) PROVE GapInv'
  BY <1>8, <1>9, <1>13 DEF Receive, poolVars
<1>14. CASE Restart
  BY <1>1, <1>14 DEF Restart
<1>15. CASE UNCHANGED vars
  <2>1. phase' \in {"apply1", "apply2"} => Below(Head(todo))'
    BY <1>3, <1>5, <1>6, <1>15 DEF vars, replicaVars, GapInv
  <2> QED BY <1>8, <1>9, <1>15, <2>1 DEF vars, poolVars, replicaVars
<1> QED BY <1>7, <1>10, <1>11, <1>12, <1>13, <1>14, <1>15 DEF Next, Process

(* Stored nonces come from transactions of the chain.                      *)
LEMMA SourceStep ==
    ASSUME NEW After, RType, NonceInv(After), SourceInv, [Next]_vars, restarts' = 0, ~refused'
    PROVE  SourceInv'
<1>1. restarts = 0 /\ ~refused
  BY GivenGrows
<1>2. ASSUME UNCHANGED <<walletNonce, usedNonce>>, Storing' => Storing, ChainTxns \subseteq ChainTxns'
      PROVE  SourceInv'
  BY <1>2 DEF SourceInv
<1>3. stored' = stored => ChainTxns \subseteq ChainTxns'
  BY ChainGrows
<1>4. CASE PoolStep
  <2>1. walletNonce' = walletNonce
    BY <1>4, JobStepMarks DEF PoolStep, RType
  <2> QED BY <1>2, <1>3, <1>4, <2>1 DEF PoolStep, Storing
<1>5. ASSUME NEW b \in Block, Receive(b) PROVE SourceInv'
  BY <1>2, <1>3, <1>5 DEF Receive, Storing, poolVars
<1>6. CASE Restart
  BY <1>1, <1>6 DEF Restart
<1>7. CASE UNCHANGED vars
  BY <1>2, <1>3, <1>7 DEF vars, poolVars, replicaVars, Storing
<1>8. CASE Wrap \/ Wrapped \/ DropKey \/ CheckFresh
  BY <1>2, <1>3, <1>8 DEF Wrap, Wrapped, DropKey, CheckFresh, Storing, poolVars, buildVars
<1>9. CASE StartPass2 \/ DropPending
  BY <1>2, <1>3, <1>9 DEF StartPass2, DropPending, Storing, poolVars
<1>10. CASE CountFees \/ Replay \/ Forget
  BY <1>2, <1>3, <1>10 DEF CountFees, Replay, Forget, Storing, poolVars, buildVars
<1>11. CASE AddKnown \/ ApplyFresh
  <2>1. UNCHANGED <<walletNonce, stored>> /\ ~Storing'
    BY <1>11 DEF AddKnown, ApplyFresh, Storing
  <2> QED BY <1>3, <2>1 DEF SourceInv
<1>12. CASE Store
  <2>1. /\ UNCHANGED <<walletNonce, usedNonce>> /\ ~Storing
        /\ manual = TxnsOf[current] /\ stored' = stored \cup {current}
    BY <1>12 DEF Store, SameBlock, Storing, poolVars
  <2>2. \A w \in Wallet : usedNonce[w] # 0 => \E t \in ToSet(manual) : w \in Signers(t)
    BY <1>1, <2>1 DEF NonceInv, BuildNonces
  <2>3. ChainTxns' = ChainTxns \cup ToSet(manual)
    BY <2>1, ChainGrows
  <2> QED BY <2>1, <2>2, <2>3 DEF SourceInv
<1>13. CASE RefuseBlock
  BY <1>13 DEF RefuseBlock
<1>14. CASE StoreWallets
  BY <1>2, <1>3, <1>14 DEF StoreWallets, Storing, poolVars, buildVars
<1>15. CASE StoreNonces
  <2>1. /\ \A w \in Wallet : walletNonce'[w] = IF usedNonce[w] # 0 THEN usedNonce[w] ELSE walletNonce[w]
        /\ Storing /\ ~Storing' /\ stored' = stored
    BY <1>15 DEF StoreNonces, Storing
  <2> QED BY <1>3, <2>1 DEF SourceInv
<1> QED BY <1>4, <1>5, <1>6, <1>7, <1>8, <1>9, <1>10, <1>11, <1>12, <1>13, <1>14, <1>15
        DEF Next, Process

(* The nonces behind the tip are those of transactions of the chain.       *)
LEMMA TopStep ==
    ASSUME NEW After, InNonceOrder(After), RType, ChainInv, TopInv(After), [Next]_vars, restarts' = 0
    PROVE  TopInv(After)'
<1>1. ASSUME stored' = stored PROVE TopInv(After)'
  <2>1. ChainTxns' = ChainTxns /\ \A w : TopNonce(After, w)' = TopNonce(After, w)
    BY <1>1, ChainGrows DEF TopNonce, Tip
  <2> QED BY <2>1 DEF TopInv
<1>2. CASE Store
  <2>1. /\ current \in Block /\ stored' = stored \cup {current} /\ Tip' = current
        /\ \A w : TopNonce(After, w) = Before(After, current, w)
    BY <1>2, StoredIsTip DEF Before
  <2>2. \A w : TopNonce(After, w)' = After[current][w]
    BY <2>1 DEF TopNonce
  <2>3. ChainTxns' = ChainTxns \cup ToSet(TxnsOf[current])
    BY <2>1, ChainGrows
  <2>4. ASSUME NEW w \in Wallet
        PROVE  TopNonce(After, w)' = 0 \/ \E u \in ChainTxns' : NonceOf[u][w] = TopNonce(After, w)'
    <3>1. \/ After[current][w] = TopNonce(After, w)
          \/ \E t \in ToSet(TxnsOf[current]) : NonceOf[t][w] = After[current][w]
      BY <2>1 DEF InNonceOrder
    <3>2. TopNonce(After, w) = 0 \/ \E u \in ChainTxns : NonceOf[u][w] = TopNonce(After, w)
      BY DEF TopInv
    <3> QED BY <2>2, <2>3, <3>1, <3>2
  <2> QED BY <2>4 DEF TopInv
<1>3. CASE ~Store
  <2>1. stored' = stored
    <3>1. CASE Wrap \/ Wrapped \/ AddKnown \/ DropKey
      BY <3>1 DEF Wrap, Wrapped, AddKnown, DropKey
    <3>2. CASE CheckFresh \/ ApplyFresh \/ StartPass2 \/ DropPending
      BY <3>2 DEF CheckFresh, ApplyFresh, StartPass2, DropPending
    <3>3. CASE CountFees \/ Replay \/ Forget \/ RefuseBlock \/ StoreWallets \/ StoreNonces
      BY <3>3 DEF CountFees, Replay, Forget, RefuseBlock, StoreWallets, StoreNonces
    <3>4. CASE PoolStep \/ Restart \/ \E b \in Block : Receive(b)
      BY <3>4 DEF PoolStep, Restart, Receive
    <3>5. CASE UNCHANGED vars
      BY <3>5 DEF vars, replicaVars
    <3> QED BY <1>3, <3>1, <3>2, <3>3, <3>4, <3>5 DEF Next, Process
  <2> QED BY <1>1, <2>1
<1> QED BY <1>2, <1>3

-----------------------------------------------------------------------------
(* Sequences in three parts.                                               *)

(* The parts are in the sequence.                                          *)
LEMMA PartsIn ==
    ASSUME NEW s \in Seq(Txn), NEW p \in Seq(Txn), NEW q \in Seq(Txn), NEW r \in Seq(Txn),
           Parts(s, p, q, r)
    PROVE  ToSet(p) \subseteq ToSet(s) /\ ToSet(q) \subseteq ToSet(s) /\ ToSet(r) \subseteq ToSet(s)
<1>1. /\ Len(p) \in Nat /\ Len(q) \in Nat /\ Len(r) \in Nat /\ Len(s) = Len(p) + Len(q) + Len(r)
      /\ \A i \in 1 .. Len(p) : s[i] = p[i]
      /\ \A i \in 1 .. Len(q) : s[Len(p) + i] = q[i]
      /\ \A i \in 1 .. Len(r) : s[Len(p) + Len(q) + i] = r[i]
      /\ DOMAIN s = 1 .. Len(s) /\ DOMAIN p = 1 .. Len(p) /\ DOMAIN q = 1 .. Len(q)
      /\ DOMAIN r = 1 .. Len(r)
  BY DEF Parts
<1>2. ASSUME NEW i \in DOMAIN p PROVE p[i] \in ToSet(s)
  <2>1. i \in DOMAIN s /\ s[i] = p[i]
    BY <1>1
  <2> QED BY <2>1 DEF ToSet
<1>3. ASSUME NEW i \in DOMAIN q PROVE q[i] \in ToSet(s)
  <2>1. i \in 1 .. Len(q)
    BY <1>1
  <2>2. Len(p) + i \in 1 .. Len(p) + Len(q) + Len(r)
    <3>1. Len(p) \in Nat /\ Len(q) \in Nat /\ Len(r) \in Nat
      BY <1>1
    <3> QED BY <2>1, <3>1
  <2>3. Len(p) + i \in DOMAIN s /\ s[Len(p) + i] = q[i]
    BY <1>1, <2>1, <2>2
  <2> QED BY <2>3 DEF ToSet
<1>4. ASSUME NEW i \in DOMAIN r PROVE r[i] \in ToSet(s)
  <2>1. i \in 1 .. Len(r)
    BY <1>1
  <2>2. Len(p) + Len(q) + i \in 1 .. Len(p) + Len(q) + Len(r)
    <3>1. Len(p) \in Nat /\ Len(q) \in Nat /\ Len(r) \in Nat
      BY <1>1
    <3> QED BY <2>1, <3>1
  <2>3. Len(p) + Len(q) + i \in DOMAIN s /\ s[Len(p) + Len(q) + i] = r[i]
    BY <1>1, <2>1, <2>2
  <2> QED BY <2>3 DEF ToSet
<1> QED BY <1>2, <1>3, <1>4 DEF ToSet

(* The head of the second part moves to the end of the first one.          *)
LEMMA PartsMove ==
    ASSUME NEW s \in Seq(Txn), NEW p \in Seq(Txn), NEW q \in Seq(Txn), NEW r \in Seq(Txn),
           Parts(s, p, q, r), q # <<>>
    PROVE  /\ Parts(s, Append(p, Head(q)), Tail(q), r)
           /\ Len(p) + 1 \in DOMAIN s /\ s[Len(p) + 1] = Head(q)
           /\ IsInjective(s) => Head(q) \notin ToSet(p) \cup ToSet(Tail(q))
<1> DEFINE x == Append(p, Head(q))
           y == Tail(q)
<1>1. /\ Len(p) \in Nat /\ Len(q) \in Nat \ {0} /\ Len(r) \in Nat /\ Len(s) = Len(p) + Len(q) + Len(r)
      /\ \A i \in 1 .. Len(p) : s[i] = p[i]
      /\ \A i \in 1 .. Len(q) : s[Len(p) + i] = q[i]
      /\ \A i \in 1 .. Len(r) : s[Len(p) + Len(q) + i] = r[i]
      /\ DOMAIN s = 1 .. Len(s) /\ Head(q) = q[1] /\ DOMAIN p = 1 .. Len(p)
  BY DEF Parts
<1>2. /\ Len(x) = Len(p) + 1 /\ x[Len(p) + 1] = Head(q) /\ \A i \in 1 .. Len(p) : x[i] = p[i]
      /\ Len(y) = Len(q) - 1 /\ \A i \in 1 .. Len(q) - 1 : y[i] = q[i + 1]
      /\ DOMAIN y = 1 .. Len(y)
  BY <1>1
<1> HIDE DEF x, y
<1>3. Len(p) + 1 \in DOMAIN s /\ s[Len(p) + 1] = Head(q)
  BY <1>1
<1>4. ASSUME NEW i \in 1 .. Len(x) PROVE s[i] = x[i]
  <2>1. CASE i = Len(p) + 1
    BY <1>2, <1>3, <2>1
  <2>2. CASE i # Len(p) + 1
    <3>1. Len(p) \in Nat /\ Len(x) = Len(p) + 1
      BY <1>1, <1>2
    <3>2. i \in 1 .. Len(p)
      BY <2>2, <3>1
    <3> QED BY <1>1, <1>2, <3>2
  <2> QED BY <2>1, <2>2
<1>5. ASSUME NEW i \in 1 .. Len(y) PROVE s[Len(x) + i] = y[i]
  <2>1. i + 1 \in 1 .. Len(q) /\ y[i] = q[i + 1] /\ Len(x) + i = Len(p) + (i + 1)
    BY <1>1, <1>2
  <2> QED BY <1>1, <2>1
<1>6. ASSUME NEW i \in 1 .. Len(r) PROVE s[Len(x) + Len(y) + i] = r[i]
  <2>1. Len(x) + Len(y) + i = Len(p) + Len(q) + i
    BY <1>1, <1>2
  <2> QED BY <1>1, <2>1
<1>7. Parts(s, x, y, r)
  BY <1>1, <1>2, <1>4, <1>5, <1>6 DEF Parts
<1>8. ASSUME IsInjective(s) PROVE Head(q) \notin ToSet(p) \cup ToSet(y)
  <2>1. ASSUME NEW i \in DOMAIN p PROVE p[i] # Head(q)
    <3>1. i \in DOMAIN s /\ s[i] = p[i] /\ i # Len(p) + 1
      BY <1>1
    <3> QED BY <1>3, <1>8, <3>1 DEF IsInjective
  <2>2. ASSUME NEW i \in DOMAIN y PROVE y[i] # Head(q)
    <3>1. Len(x) + i \in DOMAIN s /\ Len(x) + i # Len(p) + 1 /\ i \in 1 .. Len(y)
      BY <1>1, <1>2
    <3>2. s[Len(x) + i] = y[i]
      BY <1>5, <3>1
    <3> QED BY <1>3, <1>8, <3>1, <3>2 DEF IsInjective
  <2> QED BY <2>1, <2>2 DEF ToSet
<1> QED BY <1>3, <1>7, <1>8 DEF x, y

(* Parts that are empty, and parts that are left out.                      *)
LEMMA PartsEmpty ==
    ASSUME NEW s \in Seq(Txn), NEW p \in Seq(Txn), NEW q \in Seq(Txn)
    PROVE  /\ Parts(s, <<>>, <<>>, s)
           /\ Parts(s, p, q, <<>>) <=> Parts(s, p, <<>>, q)
           /\ Parts(s, p, q, <<>>) <=> Parts(s, <<>>, p, q)
           /\ Parts(s, p, <<>>, <<>>) => p = s
<1>1. /\ Len(p) \in Nat /\ Len(q) \in Nat /\ Len(s) \in Nat /\ Len(<<>>) = 0
      /\ \A i \in 1 .. 0 : FALSE
  OBVIOUS
<1>2. Parts(s, <<>>, <<>>, s)
  <2>1. \A i \in 1 .. Len(s) : 0 + 0 + i = i
    BY <1>1
  <2> QED BY <1>1, <2>1 DEF Parts
<1> DEFINE Two == /\ Len(s) = Len(p) + Len(q)
                  /\ \A i \in 1 .. Len(p) : s[i] = p[i]
                  /\ \A i \in 1 .. Len(q) : s[Len(p) + i] = q[i]
<1>3. Parts(s, p, q, <<>>) <=> Two
  BY <1>1 DEF Parts
<1>4. Parts(s, p, <<>>, q) <=> Two
  <2>1. \A i \in 1 .. Len(q) : Len(p) + 0 + i = Len(p) + i
    BY <1>1
  <2> QED BY <1>1, <2>1 DEF Parts
<1>5. Parts(s, <<>>, p, q) <=> Two
  <2>1. /\ \A i \in 1 .. Len(p) : 0 + i = i
        /\ \A i \in 1 .. Len(q) : 0 + Len(p) + i = Len(p) + i
    BY <1>1
  <2> QED BY <1>1, <2>1 DEF Parts
<1>6. ASSUME Parts(s, p, <<>>, <<>>) PROVE p = s
  <2>1. Len(s) = Len(p) /\ \A i \in 1 .. Len(p) : s[i] = p[i]
    BY <1>1, <1>6 DEF Parts
  <2> QED BY <2>1, SeqEqual
<1> QED BY <1>2, <1>3, <1>4, <1>5, <1>6

(* The head of the third part moves to the end of the second one.          *)
LEMMA PartsMoveLast ==
    ASSUME NEW s \in Seq(Txn), NEW p \in Seq(Txn), NEW q \in Seq(Txn), NEW r \in Seq(Txn),
           Parts(s, p, q, r), r # <<>>
    PROVE  /\ Parts(s, p, Append(q, Head(r)), Tail(r))
           /\ Len(p) + Len(q) + 1 \in DOMAIN s /\ s[Len(p) + Len(q) + 1] = Head(r)
           /\ \A i \in DOMAIN Tail(r) :
                 Len(p) + Len(q) + 1 + i \in DOMAIN s /\ s[Len(p) + Len(q) + 1 + i] = Tail(r)[i]
<1> DEFINE x == Append(q, Head(r))
           y == Tail(r)
<1>1. /\ Len(p) \in Nat /\ Len(q) \in Nat /\ Len(r) \in Nat \ {0} /\ Len(s) = Len(p) + Len(q) + Len(r)
      /\ \A i \in 1 .. Len(p) : s[i] = p[i]
      /\ \A i \in 1 .. Len(q) : s[Len(p) + i] = q[i]
      /\ \A i \in 1 .. Len(r) : s[Len(p) + Len(q) + i] = r[i]
      /\ DOMAIN s = 1 .. Len(s) /\ Head(r) = r[1]
  BY DEF Parts
<1>2. /\ Len(x) = Len(q) + 1 /\ x[Len(q) + 1] = Head(r) /\ \A i \in 1 .. Len(q) : x[i] = q[i]
      /\ Len(y) = Len(r) - 1 /\ \A i \in 1 .. Len(r) - 1 : y[i] = r[i + 1]
      /\ DOMAIN y = 1 .. Len(y)
  BY <1>1
<1> HIDE DEF x, y
<1>3. Len(p) + Len(q) + 1 \in DOMAIN s /\ s[Len(p) + Len(q) + 1] = Head(r)
  BY <1>1
<1>4. ASSUME NEW i \in 1 .. Len(x) PROVE s[Len(p) + i] = x[i]
  <2>1. CASE i = Len(q) + 1
    <3>1. Len(p) + i = Len(p) + Len(q) + 1
      BY <1>1, <2>1
    <3> QED BY <1>2, <1>3, <2>1, <3>1
  <2>2. CASE i # Len(q) + 1
    <3>1. i \in 1 .. Len(q)
      BY <1>1, <1>2, <2>2
    <3> QED BY <1>1, <1>2, <3>1
  <2> QED BY <2>1, <2>2
<1>5. ASSUME NEW i \in 1 .. Len(y)
      PROVE  Len(p) + Len(q) + 1 + i \in DOMAIN s /\ s[Len(p) + Len(q) + 1 + i] = y[i]
  <2>1. i + 1 \in 1 .. Len(r) /\ y[i] = r[i + 1]
        /\ Len(p) + Len(q) + 1 + i = Len(p) + Len(q) + (i + 1)
    BY <1>1, <1>2
  <2> QED BY <1>1, <2>1
<1>6. ASSUME NEW i \in 1 .. Len(y) PROVE s[Len(p) + Len(x) + i] = y[i]
  <2>1. Len(p) + Len(x) + i = Len(p) + Len(q) + 1 + i
    BY <1>1, <1>2
  <2> QED BY <1>5, <2>1
<1>7. Parts(s, p, x, y)
  BY <1>1, <1>2, <1>4, <1>6 DEF Parts
<1> QED BY <1>2, <1>3, <1>5, <1>7 DEF x, y

(* What is marked is a beginning of the block.                             *)
LEMMA BeginningIsMarked ==
    ASSUME NEW s \in Seq(Txn), IsInjective(s), NEW n \in 0 .. Len(s),
           blockTxns \cap ToSet(s) = ToSet(SubSeq(s, 1, n)),
           NEW i \in DOMAIN s, NEW k \in DOMAIN s, i < k, s[k] \in blockTxns
    PROVE  s[i] \in blockTxns
<1>1. Len(s) \in Nat /\ DOMAIN s = 1 .. Len(s)
  OBVIOUS
<1>2. Len(SubSeq(s, 1, n)) = n /\ \A m \in 1 .. n : SubSeq(s, 1, n)[m] = s[m]
  BY <1>1, SubSeqProperties
<1>3. DOMAIN SubSeq(s, 1, n) = 1 .. n
  BY <1>1, <1>2, SubSeqProperties
<1>4. s[k] \in ToSet(SubSeq(s, 1, n))
  BY DEF ToSet
<1>5. PICK m \in 1 .. n : SubSeq(s, 1, n)[m] = s[k]
  BY <1>3, <1>4 DEF ToSet
<1>6. m = k
  BY <1>1, <1>2, <1>5 DEF IsInjective
<1>7. i \in 1 .. n /\ SubSeq(s, 1, n)[i] = s[i]
  BY <1>1, <1>2, <1>6
<1>8. s[i] \in ToSet(SubSeq(s, 1, n))
  BY <1>3, <1>7 DEF ToSet
<1> QED BY <1>8

-----------------------------------------------------------------------------
(* The steps with a clean block. *)

(* What holds while a clean block is processed.                            *)
Clean(After) ==
    /\ RType /\ ChainInv /\ MarkInv /\ ReplayInv /\ NonceInv(After) /\ EmptyInv
    /\ OnceInv /\ GapInv /\ SourceInv /\ TopInv(After)
    /\ CleanFrame /\ MarksBehind /\ CleanPhase

(* Nothing of a valid block behind the tip is in the chain.                *)
LEMMA BlockIsNew ==
    ASSUME NEW After, ValidBlocks(After), Clean(After), Parent[current] = Tip, ~Storing
    PROVE  /\ ToSet(TxnsOf[current]) \cap ChainTxns = {}
           /\ \A w : TopNonce(After, w) = Before(After, current, w)
<1>1. current \in Block /\ restarts = 0 /\ ~refused
  BY DEF Clean, CleanFrame
<1>2. \A w : TopNonce(After, w) = Before(After, current, w)
  <2>1. CASE stored = {}
    BY <2>1 DEF TopNonce, Before, Tip
  <2>2. CASE stored # {}
    <3>1. Tip \in Block
      BY <2>2, TipIsHighest DEF Clean, ChainInv
    <3>2. Parent[current] # None
      BY <3>1, ParentAssumption
    <3> QED BY <2>2, <3>2 DEF TopNonce, Before
  <2> QED BY <2>1, <2>2
<1>3. ASSUME NEW t \in ToSet(TxnsOf[current]), t \in ChainTxns PROVE FALSE
  <2>1. t \in Txn
    BY <1>3, ChainOfTxns DEF Clean, ChainInv
  <2>2. PICK w \in Wallet : NonceOf[t][w] # 0
    BY <2>1, SignedAssumption
  <2>3. w \in Signers(t)
    BY <2>2 DEF Signers
  <2>4. NonceOf[t][w] <= walletNonce[w] /\ walletNonce[w] <= TopNonce(After, w)
    BY <1>1, <1>3, <2>2, <2>3 DEF Clean, NonceInv, ChainNonces
  <2>5. Before(After, current, w) < NonceOf[t][w]
    BY <1>1, <1>3, <2>2, <2>3 DEF ValidBlocks
  <2>6. /\ NonceOf[t][w] \in Nat /\ walletNonce[w] \in Nat /\ Before(After, current, w) \in Nat
    BY <1>1, <2>1, NonceAssumption, ParentAssumption
       DEF Clean, RType, TypeOK, PoolTypeOK, ValidBlocks, Before
  <2> QED BY <1>2, <2>4, <2>5, <2>6
<1> QED BY <1>2, <1>3

(* With the jobs idle, what is done is marked.                             *)
LEMMA IdleIsMarked ==
    ASSUME CleanFrame
    PROVE  \A t : (Marking(t) <=> t \in blockTxns) /\ ~AtFee(t) /\ (Done(t) <=> t \in blockTxns)
BY DEF CleanFrame, Marking, AtFee, Done

(* The transactions of a clean block are in its sequence.                  *)
LEMMA CleanTypes ==
    ASSUME NEW After, Clean(After)
    PROVE  /\ TxnsOf[current] \in Seq(Txn) /\ current \in Block
           /\ todo \in Seq(Txn) /\ known \in Seq(Txn) /\ fresh \in Seq(Txn) /\ manual \in Seq(Txn)
           /\ ToSet(TxnsOf[current]) \subseteq Txn /\ TypeOK
           /\ InNonceOrder(After) => IsInjective(TxnsOf[current]) /\ TxnsOf[current] # <<>>
BY TxnsOfAssumption, SetOfSeq DEF Clean, CleanFrame, RType, TypeOK, InNonceOrder

(* The next fresh transaction of a clean block has not been executed, and  *)
(* its nonces are the next ones.                                           *)
LEMMA HeadIsNext ==
    ASSUME NEW After, ValidBlocks(After), InNonceOrder(After), Numbered, Clean(After),
           phase \in {"pass1", "apply1"}, todo # <<>>
    PROVE  Head(todo) \in Txn /\ Head(todo) \notin blockTxns /\ NonceNext(Head(todo))
<1> DEFINE B == TxnsOf[current]
           t == Head(todo)
           i == Len(manual) + 1
<1>1. Parts(B, manual, todo, <<>>) /\ Unmarked(todo) /\ InBlock /\ Parent[current] = Tip /\ ~Storing
  BY DEF Clean, CleanPhase, CleanPass, Storing
<1>2. B \in Seq(Txn) /\ todo \in Seq(Txn) /\ manual \in Seq(Txn) /\ current \in Block /\ TypeOK
  BY CleanTypes
<1>3. i \in DOMAIN B /\ B[i] = t
  <2>1. <<>> \in Seq(Txn)
    OBVIOUS
  <2> HIDE DEF B
  <2>2. Len(manual) + 1 \in DOMAIN B /\ B[Len(manual) + 1] = Head(todo)
    BY <1>1, <1>2, <2>1, PartsMove
  <2> QED BY <2>2
<1>4. t \in ToSet(todo) /\ t \in Txn
  BY <1>2, SetOfTail
<1>5. t \notin blockTxns
  BY <1>1, <1>4 DEF Unmarked
<1>6. restarts = 0 /\ \A w \in Wallet : CurrentNonce(w) = preNonce[w]
  BY RunningIsCurrent DEF Clean, CleanFrame
<1>7. \A u : Marking(u) => u \in blockTxns
  BY IdleIsMarked DEF Clean
<1>8. ASSUME NEW w \in Signers(t) PROVE NonceOf[t][w] = CurrentNonce(w) + 1
  <2> DEFINE m == NonceOf[t][w]
  <2>1. w \in Wallet /\ m \in Nat \ {0} /\ preNonce[w] \in Nat
    BY <1>2, <1>4, NonceAssumption DEF Signers, TypeOK, PoolTypeOK
  <2>2. ASSUME NEW u \in Txn, u \in blockTxns, NonceOf[u][w] = m - 1 PROVE m <= preNonce[w] + 1
    <3>1. CASE m - 1 = 0
      BY <2>1, <3>1
    <3>2. CASE m - 1 # 0
      <4>1. w \in Signers(u)
        BY <2>1, <2>2, <3>2 DEF Signers
      <4>2. m - 1 <= preNonce[w]
        BY <1>6, <2>1, <2>2, <4>1 DEF Clean, MarksBehind
      <4> QED BY <2>1, <4>2
    <3> QED BY <3>1, <3>2
  <2>3. m <= preNonce[w] + 1
    <3>1. \/ m = Before(After, current, w) + 1
          \/ \E k \in 1 .. i - 1 : NonceOf[B[k]][w] = m - 1
      BY <1>2, <1>3, <2>1 DEF InNonceOrder
    <3>2. CASE m = Before(After, current, w) + 1
      <4>1. TopNonce(After, w) = Before(After, current, w) /\ Before(After, current, w) \in Nat
        BY <1>1, <1>2, <2>1, BlockIsNew, ParentAssumption DEF ValidBlocks, Before
      <4>2. CASE TopNonce(After, w) = 0
        BY <2>1, <3>2, <4>1, <4>2
      <4>3. CASE \E u \in ChainTxns : NonceOf[u][w] = TopNonce(After, w)
        <5>1. PICK u \in ChainTxns : NonceOf[u][w] = m - 1
          BY <3>2, <4>1, <4>3
        <5>2. u \in Txn /\ u \in blockTxns
          BY <1>6, <1>7, ChainOfTxns DEF Clean, ChainInv, MarkInv
        <5> QED BY <2>2, <5>1, <5>2
      <4> QED BY <2>1, <4>2, <4>3 DEF Clean, TopInv
    <3>3. ASSUME NEW k \in 1 .. i - 1, NonceOf[B[k]][w] = m - 1 PROVE m <= preNonce[w] + 1
      <4>1. k \in 1 .. Len(manual) /\ k \in DOMAIN manual
        BY <1>2
      <4>2. B[k] = manual[k] /\ manual[k] \in ToSet(manual)
        BY <1>1, <4>1 DEF Parts, ToSet
      <4>3. B[k] \in blockTxns /\ B[k] \in Txn
        BY <1>1, <1>2, <4>1, <4>2 DEF InBlock, Stands
      <4> QED BY <2>2, <3>3, <4>3
    <3> QED BY <3>1, <3>2, <3>3
  <2>4. ~(m <= preNonce[w])
    <3> SUFFICES ASSUME m <= preNonce[w] PROVE FALSE
      OBVIOUS
    <3>1. m \in 1 .. preNonce[w]
      BY <2>1
    <3>2. Used(w, m)
      BY <2>1, <3>1 DEF Clean, GapInv
    <3>3. PICK u \in Txn : Done(u) /\ NonceOf[u][w] = m
      BY <3>2 DEF Used
    <3>4. u = t
      BY <1>4, <2>1, <3>3 DEF Numbered
    <3> QED BY <1>5, <3>3, <3>4, IdleIsMarked DEF Clean
  <2> QED BY <1>6, <2>1, <2>3, <2>4
<1> QED BY <1>4, <1>5, <1>8 DEF NonceNext

(* A step of the thread of the blocks leaves the jobs and the block as     *)
(* they are.                                                               *)
LEMMA FrameStep ==
    ASSUME CleanFrame, Process, current' = current, refused' = refused
    PROVE  CleanFrame'
BY ProcessFrame DEF CleanFrame

(* A block that comes under ideal conditions.                              *)
LEMMA ReceiveClean ==
    ASSUME NEW After, InNonceOrder(After), RType, ReplayInv, EmptyInv,
           NEW b \in Block, Receive(b), clean'
    PROVE  (CleanFrame /\ MarksBehind /\ CleanPhase)'
<1> DEFINE B == TxnsOf[b]
<1>1. /\ Undisturbed(b) /\ phase = "idle" /\ current' = b /\ todo' = B /\ phase' = "wrap"
      /\ UNCHANGED <<poolVars, stored, known, fresh, refused, restarts>>
  BY DEF Receive
<1>2. B \in Seq(Txn) /\ IsInjective(B)
  BY TxnsOfAssumption DEF InNonceOrder
<1>3. known' = <<>> /\ fresh' = <<>>
  BY <1>1 DEF EmptyInv
<1>4. CleanFrame'
  BY <1>1 DEF CleanFrame, Undisturbed, poolVars
<1>5. MarksBehind'
  BY <1>1 DEF MarksBehind, Undisturbed, poolVars, CurrentNonce, Signers
<1>6. CleanWrap'
  <2>1. Parts(B, <<>>, <<>>, B)
    BY <1>2, PartsEmpty
  <2>2. \A i, k \in DOMAIN B : i < k /\ B[k] \in blockTxns => B[i] \in blockTxns
    <3>1. PICK n \in 0 .. Len(B) : blockTxns \cap ToSet(B) = ToSet(SubSeq(B, 1, n))
      BY <1>1 DEF Undisturbed
    <3> HIDE DEF B
    <3> QED BY <1>2, <3>1, BeginningIsMarked
  <2>3. ToSet(<<>>) = {}
    BY DEF ToSet
  <2> QED BY <1>1, <1>3, <2>1, <2>2, <2>3 DEF CleanWrap, Marked, Unmarked, poolVars
<1>7. Parent[current'] = Tip'
  BY <1>1 DEF Undisturbed, Tip
<1>8. CleanPhase'
  BY <1>1, <1>6, <1>7 DEF CleanPhase
<1> QED BY <1>4, <1>5, <1>8

(* wrap_block: what is marked goes to the known transactions, and after it *)
(* come the fresh ones.                                                    *)
LEMMA WrapClean ==
    ASSUME NEW After, InNonceOrder(After), Clean(After), Wrap
    PROVE  (CleanFrame /\ MarksBehind /\ CleanPhase)'
<1> DEFINE B == TxnsOf[current]
           t == Head(todo)
<1>1. /\ phase = "wrap" /\ phase' = "wrap" /\ todo # <<>> /\ todo' = Tail(todo)
      /\ t \in blockTxns \/ t \notin received \/ SlowRequests
      /\ \/ t \in blockTxns \cup received /\ known' = Append(known, t) /\ fresh' = fresh
         \/ t \notin blockTxns /\ fresh' = Append(fresh, t) /\ known' = known
      /\ UNCHANGED <<poolVars, stored, current, refused>>
  BY DEF Wrap
<1>2. B \in Seq(Txn) /\ todo \in Seq(Txn) /\ known \in Seq(Txn) /\ fresh \in Seq(Txn)
  BY CleanTypes
<1>3. CleanWrap /\ Parent[current] = Tip
  BY <1>1 DEF Clean, CleanPhase
<1>4. Parts(B, known, fresh, todo) /\ Marked(known) /\ Unmarked(fresh)
  BY <1>3 DEF CleanWrap
<1>5. t \in ToSet(todo) /\ ToSet(todo) = {t} \cup ToSet(Tail(todo)) /\ t \in Txn /\ Tail(todo) \in Seq(Txn)
  BY <1>1, <1>2, SetOfTail
<1>6. t \notin received
  <2>1. t \in ToSet(B)
    BY <1>2, <1>4, <1>5, PartsIn
  <2> QED BY <2>1 DEF Clean, CleanFrame
<1>7. ASSUME t \in blockTxns PROVE CleanWrap'
  <2>1. fresh = <<>>
    BY <1>3, <1>5, <1>7 DEF CleanWrap, Unmarked
  <2>2. known' = Append(known, t) /\ fresh' = <<>>
    BY <1>1, <1>7, <2>1
  <2>3. <<>> \in Seq(Txn) /\ Append(known, t) \in Seq(Txn)
    BY <1>2, <1>5, SetOfAppend
  <2> HIDE DEF B
  <2>4. Parts(B, known, todo, <<>>)
    BY <1>2, <1>4, <2>1, PartsEmpty
  <2>5. Parts(B, Append(known, Head(todo)), Tail(todo), <<>>)
    BY <1>1, <1>2, <2>3, <2>4, PartsMove
  <2>6. Parts(B, known', fresh', todo')
    BY <1>1, <1>2, <1>5, <2>2, <2>3, <2>5, PartsEmpty
  <2>7. Marked(known')
    BY <1>2, <1>4, <1>5, <1>7, <2>2, SetOfAppend DEF Marked
  <2>8. Unmarked(fresh')
    BY <2>2 DEF Unmarked, ToSet
  <2> QED BY <1>1, <1>3, <2>2, <2>6, <2>7, <2>8 DEF B, CleanWrap, Marked, Unmarked, poolVars
<1>8. ASSUME t \notin blockTxns PROVE CleanWrap'
  <2>1. known' = known /\ fresh' = Append(fresh, t)
    BY <1>1, <1>6, <1>8
  <2>2. /\ Parts(B, known, Append(fresh, t), Tail(todo))
        /\ Len(known) + Len(fresh) + 1 \in DOMAIN B /\ B[Len(known) + Len(fresh) + 1] = t
        /\ \A i \in DOMAIN Tail(todo) :
              Len(known) + Len(fresh) + 1 + i \in DOMAIN B
              /\ B[Len(known) + Len(fresh) + 1 + i] = Tail(todo)[i]
    <3> HIDE DEF B
    <3> QED BY <1>1, <1>2, <1>4, PartsMoveLast
  <2>3. Unmarked(fresh')
    BY <1>2, <1>4, <1>5, <1>8, <2>1, SetOfAppend DEF Unmarked
  <2>4. ASSUME NEW i \in DOMAIN Tail(todo), Tail(todo)[i] \in blockTxns PROVE FALSE
    <3> DEFINE k == Len(known) + Len(fresh) + 1
    <3>1. k \in DOMAIN B /\ k + i \in DOMAIN B /\ B[k] = t /\ B[k + i] \in blockTxns
      BY <2>2, <2>4
    <3>2. k \in Nat /\ i \in Nat \ {0}
      BY <1>2, <1>5
    <3> HIDE DEF k
    <3>3. k < k + i
      BY <3>2
    <3>4. B[k] \in blockTxns
      BY <1>3, <3>1, <3>3 DEF CleanWrap
    <3> QED BY <1>8, <3>1, <3>4
  <2>5. Unmarked(Tail(todo))
    BY <2>4 DEF Unmarked, ToSet
  <2> QED BY <1>1, <1>3, <1>4, <2>1, <2>2, <2>3, <2>5 DEF CleanWrap, Marked, Unmarked, poolVars
<1>9. CleanWrap'
  BY <1>7, <1>8
<1>10. CleanFrame'
  BY <1>1, FrameStep DEF Clean, Process
<1>11. MarksBehind'
  BY <1>1 DEF Clean, MarksBehind, poolVars, CurrentNonce, Signers
<1>12. CleanPhase'
  BY <1>1, <1>3, <1>9 DEF CleanPhase, Tip
<1> QED BY <1>10, <1>11, <1>12

(* The keys are sorted out: no transaction is in the node's block yet.     *)
LEMMA WrappedClean ==
    ASSUME NEW After, Clean(After), Wrapped
    PROVE  (CleanFrame /\ MarksBehind /\ CleanPhase)'
<1> DEFINE B == TxnsOf[current]
<1>1. /\ phase = "wrap" /\ phase' = "known" /\ todo = <<>> /\ todo' = known
      /\ UNCHANGED <<poolVars, effectVars, stored, current, known, fresh, manual, refused>>
  BY DEF Wrapped, buildVars
<1>2. B \in Seq(Txn) /\ known \in Seq(Txn) /\ fresh \in Seq(Txn)
  BY CleanTypes
<1>3. CleanWrap /\ Parent[current] = Tip /\ manual = <<>>
  BY <1>1 DEF Clean, CleanPhase, EmptyInv
<1>4. Parts(B, <<>>, known, fresh) /\ Marked(known) /\ Unmarked(fresh)
  <2>1. Parts(B, known, fresh, <<>>) /\ Marked(known) /\ Unmarked(fresh)
    BY <1>1, <1>3 DEF CleanWrap
  <2> HIDE DEF B
  <2> QED BY <1>2, <2>1, PartsEmpty
<1>5. CleanKnown'
  BY <1>1, <1>3, <1>4 DEF CleanKnown, Marked, Unmarked, poolVars
<1>6. InBlock'
  BY <1>1, <1>3 DEF InBlock, ToSet
<1>7. CleanFrame'
  BY <1>1, FrameStep DEF Clean, Process
<1>8. MarksBehind'
  BY <1>1 DEF Clean, MarksBehind, poolVars, CurrentNonce, Signers
<1>9. CleanPhase'
  BY <1>1, <1>3, <1>5, <1>6 DEF CleanPhase, Tip
<1> QED BY <1>7, <1>8, <1>9

(* A transaction of the block that is in no block yet.                     *)
LEMMA NotGiven ==
    ASSUME NEW After, ValidBlocks(After), Clean(After), Parent[current] = Tip, ~Storing,
           NEW t \in ToSet(TxnsOf[current]), t \notin ToSet(manual)
    PROVE  /\ t \in Txn /\ temp[t] = 0 /\ wallets[t] = 0
           /\ IF t \in blockTxns THEN t \in statusFee /\ records[t] = 1 /\ fees[t] = 1
              ELSE t \notin statusFee /\ records[t] = 0 /\ fees[t] = 0
<1>1. t \in Txn /\ t \notin Given
  BY BlockIsNew, CleanTypes DEF Given
<1>2. Tidy(t)
  BY <1>1 DEF Clean, OnceInv
<1>3. (Marking(t) <=> t \in blockTxns) /\ ~AtFee(t) /\ restarts = 0
  BY IdleIsMarked DEF Clean, CleanFrame
<1>4. t \in statusFee => t \in blockTxns
  BY <1>3 DEF Clean, MarkInv
<1> QED BY <1>1, <1>2, <1>3, <1>4 DEF Tidy

(* A known transaction comes into the block with its records and fees.     *)
LEMMA AddKnownClean ==
    ASSUME NEW After, ValidBlocks(After), InNonceOrder(After), Clean(After), AddKnown
    PROVE  (CleanFrame /\ MarksBehind /\ CleanPhase)'
<1> DEFINE B == TxnsOf[current]
           t == Head(todo)
<1>1. /\ phase = "known" /\ phase' = "known" /\ todo # <<>> /\ todo' = Tail(todo)
      /\ manual' = Append(manual, t) /\ listed' = listed \cup ({t} \cap statusFee)
      /\ statusFee' = statusFee \ {t}
      /\ UNCHANGED <<blockTxns, preNonce, walletNonce, effectVars, stored, current, fresh, refused>>
  BY DEF AddKnown
<1>2. /\ B \in Seq(Txn) /\ todo \in Seq(Txn) /\ manual \in Seq(Txn) /\ fresh \in Seq(Txn)
      /\ IsInjective(B)
  BY CleanTypes
<1>3. CleanKnown /\ InBlock /\ Parent[current] = Tip /\ ~Storing
  BY <1>1 DEF Clean, CleanPhase, Storing
<1>4. Parts(B, manual, todo, fresh) /\ Marked(todo) /\ Unmarked(fresh)
  BY <1>3 DEF CleanKnown
<1>5. ToSet(todo) = {t} \cup ToSet(Tail(todo)) /\ t \in Txn /\ Tail(todo) \in Seq(Txn)
  BY <1>1, <1>2, SetOfTail
<1>6. Parts(B, Append(manual, t), Tail(todo), fresh) /\ t \notin ToSet(manual) /\ t \in ToSet(B)
  <2>1. t \in ToSet(todo)
    BY <1>5
  <2> HIDE DEF B
  <2> QED BY <1>1, <1>2, <1>4, <2>1, PartsMove, PartsIn
<1>7. t \in blockTxns /\ t \in statusFee /\ records[t] = 1 /\ fees[t] = 1 /\ temp[t] = 0 /\ wallets[t] = 0
  <2>1. t \in blockTxns
    BY <1>4, <1>5 DEF Marked
  <2> QED BY <1>3, <1>6, <2>1, NotGiven
<1>8. CleanKnown'
  BY <1>1, <1>4, <1>5, <1>6 DEF CleanKnown, Marked, Unmarked
<1>9. InBlock'
  <2>1. ToSet(manual') = ToSet(manual) \cup {t}
    BY <1>1, <1>2, <1>5, SetOfAppend
  <2> QED BY <1>1, <1>3, <1>7, <2>1 DEF InBlock, Stands, effectVars
<1>10. CleanFrame'
  BY <1>1, FrameStep DEF Clean, Process
<1>11. MarksBehind'
  BY <1>1 DEF Clean, MarksBehind, CurrentNonce, Signers
<1>12. CleanPhase'
  BY <1>1, <1>3, <1>8, <1>9 DEF CleanPhase, Tip
<1> QED BY <1>10, <1>11, <1>12

(* The fresh transactions are what is left.                                *)
LEMMA DropKeyClean ==
    ASSUME NEW After, Clean(After), DropKey
    PROVE  (CleanFrame /\ MarksBehind /\ CleanPhase)'
<1> DEFINE B == TxnsOf[current]
<1>1. /\ phase = "known" /\ phase' = "pass1" /\ todo = <<>> /\ todo' = fresh
      /\ UNCHANGED <<blockTxns, statusFee, preNonce, walletNonce, effectVars, stored, current,
                     manual, listed, retry, refused>>
  BY DEF DropKey
<1>2. B \in Seq(Txn) /\ manual \in Seq(Txn) /\ fresh \in Seq(Txn)
  BY CleanTypes
<1>3. CleanKnown /\ InBlock /\ Parent[current] = Tip /\ retry = {}
  BY <1>1 DEF Clean, CleanPhase, EmptyInv
<1>4. Parts(B, manual, fresh, <<>>) /\ Unmarked(fresh)
  <2>1. Parts(B, manual, <<>>, fresh) /\ Unmarked(fresh)
    BY <1>1, <1>3 DEF CleanKnown
  <2> HIDE DEF B
  <2> QED BY <1>2, <2>1, PartsEmpty
<1>5. CleanPass'
  BY <1>1, <1>4 DEF CleanPass, Unmarked
<1>6. InBlock'
  BY <1>1, <1>3 DEF InBlock, Stands, effectVars
<1>7. CleanFrame'
  BY <1>1, FrameStep DEF Clean, Process
<1>8. MarksBehind'
  BY <1>1 DEF Clean, MarksBehind, CurrentNonce, Signers
<1>9. CleanPhase'
  BY <1>1, <1>3, <1>5, <1>6 DEF CleanPhase, Tip
<1> QED BY <1>7, <1>8, <1>9

(* The nonce check lets the next fresh transaction through.                *)
LEMMA CheckClean ==
    ASSUME NEW After, ValidBlocks(After), InNonceOrder(After), Numbered, Clean(After), CheckFresh
    PROVE  (CleanFrame /\ MarksBehind /\ CleanPhase)'
<1> DEFINE t == Head(todo)
<1>1. /\ phase \in {"pass1", "pass2"} /\ todo # <<>>
      /\ \/ t \in blockTxns \/ NonceUsed(t)
         \/ NonceAhead(t)
         \/ phase' = (IF phase = "pass1" THEN "apply1" ELSE "apply2") /\ UNCHANGED <<retry, todo>>
      /\ UNCHANGED <<poolVars, effectVars, stored, current, manual, listed, refused>>
  BY DEF CheckFresh
<1>2. phase = "pass1" /\ CleanPass /\ retry = {} /\ InBlock /\ Parent[current] = Tip
  BY <1>1 DEF Clean, CleanPhase
<1>3. t \in Txn /\ t \notin blockTxns /\ NonceNext(t)
  BY <1>1, <1>2, HeadIsNext
<1>4. ~NonceUsed(t) /\ ~NonceAhead(t)
  <2>1. \A w \in Signers(t) : CurrentNonce(w) \in Nat /\ NonceOf[t][w] = CurrentNonce(w) + 1
    BY <1>3, CleanTypes DEF NonceNext, CurrentNonce, Signers, TypeOK, PoolTypeOK
  <2> QED BY <2>1 DEF NonceUsed, NonceAhead
<1>5. phase' = "apply1" /\ UNCHANGED <<retry, todo>>
  BY <1>1, <1>2, <1>3, <1>4
<1>6. CleanPass' /\ InBlock'
  BY <1>1, <1>2, <1>5
     DEF CleanPass, Unmarked, InBlock, Stands, poolVars, effectVars
<1>7. CleanFrame'
  BY <1>1, FrameStep DEF Clean, Process
<1>8. MarksBehind'
  BY <1>1 DEF Clean, MarksBehind, poolVars, CurrentNonce, Signers
<1>9. CleanPhase'
  BY <1>1, <1>2, <1>5, <1>6 DEF CleanPhase, Tip
<1> QED BY <1>7, <1>8, <1>9

(* A fresh transaction is executed and comes into the block.               *)
LEMMA ApplyClean ==
    ASSUME NEW After, ValidBlocks(After), InNonceOrder(After), Numbered, Clean(After), ApplyFresh
    PROVE  (CleanFrame /\ MarksBehind /\ CleanPhase)'
<1> DEFINE B == TxnsOf[current]
           t == Head(todo)
<1>1. /\ phase \in {"apply1", "apply2"} /\ todo' = Tail(todo) /\ AdmitNonce(t)
      /\ phase' = (IF phase = "apply1" THEN "pass1" ELSE "pass2")
      /\ blockTxns' = blockTxns \cup {t} /\ listed' = listed \cup {t} /\ manual' = Append(manual, t)
      /\ records' = [records EXCEPT ![t] = @ + 1] /\ fees' = [fees EXCEPT ![t] = @ + 1]
      /\ UNCHANGED <<statusFee, walletNonce, temp, wallets, stored, current, retry, refused>>
  BY DEF ApplyFresh
<1>2. /\ B \in Seq(Txn) /\ todo \in Seq(Txn) /\ manual \in Seq(Txn) /\ IsInjective(B) /\ TypeOK
      /\ <<>> \in Seq(Txn)
  BY CleanTypes
<1>3. /\ phase = "apply1" /\ phase' = "pass1" /\ CleanPass /\ InBlock /\ retry = {}
      /\ Parent[current] = Tip /\ ~Storing
  BY <1>1 DEF Clean, CleanPhase, Storing
<1>4. todo # <<>>
  BY <1>2, <1>3 DEF TypeOK
<1>5. Parts(B, manual, todo, <<>>) /\ Unmarked(todo)
  BY <1>3 DEF CleanPass
<1>6. ToSet(todo) = {t} \cup ToSet(Tail(todo)) /\ t \in Txn /\ Tail(todo) \in Seq(Txn)
  BY <1>2, <1>4, SetOfTail
<1>7. /\ Parts(B, Append(manual, t), Tail(todo), <<>>)
      /\ t \notin ToSet(manual) /\ t \notin ToSet(Tail(todo)) /\ t \in ToSet(B)
  <2>1. t \in ToSet(todo)
    BY <1>6
  <2> HIDE DEF B
  <2> QED BY <1>2, <1>4, <1>5, <2>1, PartsMove, PartsIn
<1>8. t \notin blockTxns /\ NonceNext(t)
  BY <1>3, <1>4, HeadIsNext
<1>9. t \notin statusFee /\ records[t] = 0 /\ fees[t] = 0 /\ temp[t] = 0 /\ wallets[t] = 0
  BY <1>3, <1>7, <1>8, NotGiven
<1>10. records \in [Txn -> Nat] /\ fees \in [Txn -> Nat]
  BY <1>2 DEF TypeOK
<1>11. CleanPass'
  BY <1>1, <1>5, <1>6, <1>7 DEF CleanPass, Unmarked
<1>12. InBlock'
  <2>1. ToSet(manual') = ToSet(manual) \cup {t}
    BY <1>1, <1>2, <1>6, SetOfAppend
  <2>2. ASSUME NEW u \in ToSet(manual) PROVE Stands(u, 1, 1, 0, 0)' /\ u \in listed'
    <3>1. u # t /\ u \in Txn /\ Stands(u, 1, 1, 0, 0) /\ u \in listed
      BY <1>2, <1>3, <1>7, SetOfSeq DEF InBlock
    <3> QED BY <1>1, <1>10, <3>1 DEF Stands
  <2>3. ASSUME NEW u \in Txn, u = t PROVE Stands(u, 1, 1, 0, 0)' /\ u \in listed'
    <3> HIDE DEF t
    <3> QED BY <1>1, <1>9, <1>10, <2>3 DEF Stands
  <2> QED BY <1>6, <2>1, <2>2, <2>3 DEF InBlock
<1>13. CleanFrame'
  BY <1>1, FrameStep DEF Clean, Process
<1>14. MarksBehind'
  <2> SUFFICES ASSUME NEW u \in blockTxns', NEW w \in Signers(u)
               PROVE  NonceOf[u][w] <= CurrentNonce(w)'
    BY DEF MarksBehind, Signers
  <2>1. /\ w \in Wallet /\ NonceOf[t][w] \in Nat /\ CurrentNonce(w) \in Nat
        /\ u \in blockTxns => NonceOf[u][w] \in Nat /\ NonceOf[u][w] <= CurrentNonce(w)
    BY <1>2, <1>6, NonceAssumption DEF Signers, Clean, MarksBehind, TypeOK, PoolTypeOK, CurrentNonce
  <2>2. preNonce'[w] = IF w \in Signers(t) THEN NonceOf[t][w] ELSE preNonce[w]
    BY <1>1, <2>1 DEF AdmitNonce
  <2>3. CASE w \in Signers(t)
    <3>1. CurrentNonce(w)' = NonceOf[t][w] /\ NonceOf[t][w] = CurrentNonce(w) + 1
      BY <1>8, <2>1, <2>2, <2>3 DEF CurrentNonce, NonceNext, Signers
    <3> QED BY <1>1, <2>1, <3>1
  <2>4. CASE w \notin Signers(t)
    <3>1. CurrentNonce(w)' = CurrentNonce(w) /\ u # t
      BY <1>1, <2>2, <2>4 DEF CurrentNonce
    <3> QED BY <1>1, <2>1, <3>1
  <2> QED BY <2>3, <2>4
<1>15. CleanPhase'
  BY <1>1, <1>3, <1>11, <1>12 DEF CleanPhase, Tip
<1> QED BY <1>13, <1>14, <1>15

(* Nothing is left for a second pass.                                      *)
LEMMA Pass2Clean ==
    ASSUME NEW After, Clean(After), StartPass2
    PROVE  (CleanFrame /\ MarksBehind /\ CleanPhase)'
<1> DEFINE B == TxnsOf[current]
<1>1. /\ phase = "pass1" /\ phase' = "pass2" /\ todo = <<>> /\ todo' \in SetToSeqs(retry)
      /\ UNCHANGED <<poolVars, effectVars, stored, current, manual, listed, refused>>
  BY DEF StartPass2
<1>2. B \in Seq(Txn) /\ manual \in Seq(Txn)
  BY CleanTypes
<1>3. CleanPass /\ InBlock /\ Parent[current] = Tip /\ retry = {}
  BY <1>1 DEF Clean, CleanPhase
<1>4. manual = B
  <2>1. Parts(B, manual, <<>>, <<>>)
    BY <1>1, <1>3 DEF CleanPass
  <2> HIDE DEF B
  <2> QED BY <1>2, <2>1, PartsEmpty
<1>5. todo' = <<>>
  <2>1. Cardinality({}) = 0
    BY FS_EmptySet
  <2>2. todo' \in [1 .. 0 -> {}]
    BY <1>1, <1>3, <2>1 DEF SetToSeqs
  <2> QED BY <2>2
<1>6. InBlock'
  BY <1>1, <1>3 DEF InBlock, Stands, poolVars, effectVars
<1>7. CleanFrame'
  BY <1>1, FrameStep DEF Clean, Process
<1>8. MarksBehind'
  BY <1>1 DEF Clean, MarksBehind, poolVars, CurrentNonce, Signers
<1>9. CleanPhase'
  BY <1>1, <1>3, <1>4, <1>5, <1>6 DEF CleanPhase, Tip
<1> QED BY <1>7, <1>8, <1>9

(* The block has transactions.                                             *)
LEMMA DropPendingClean ==
    ASSUME NEW After, InNonceOrder(After), Clean(After), DropPending
    PROVE  (CleanFrame /\ MarksBehind /\ CleanPhase)' /\ refused' = refused
<1>1. /\ phase = "pass2" /\ phase' = (IF manual = <<>> THEN "idle" ELSE "fees")
      /\ refused' = (refused \/ manual = <<>>)
      /\ UNCHANGED <<blockTxns, statusFee, preNonce, walletNonce, effectVars, stored, current,
                     manual, listed>>
  BY DEF DropPending
<1>2. InBlock /\ Parent[current] = Tip /\ manual = TxnsOf[current]
  BY <1>1 DEF Clean, CleanPhase
<1>3. manual # <<>> /\ refused \in BOOLEAN
  BY <1>2, CleanTypes DEF TypeOK
<1>4. phase' = "fees" /\ refused' = refused
  BY <1>1, <1>3
<1>5. InBlock'
  BY <1>1, <1>2 DEF InBlock, Stands, effectVars
<1>6. CleanFrame'
  BY <1>1, <1>4, FrameStep DEF Clean, Process
<1>7. MarksBehind'
  BY <1>1 DEF Clean, MarksBehind, CurrentNonce, Signers
<1>8. CleanPhase'
  BY <1>1, <1>2, <1>4, <1>5 DEF CleanPhase, Tip
<1> QED BY <1>4, <1>6, <1>7, <1>8

(* The fees of the block are those of its transactions, one each.          *)
LEMMA CountClean ==
    ASSUME NEW After, InNonceOrder(After), Clean(After), CountFees
    PROVE  (CleanFrame /\ MarksBehind /\ CleanPhase)'
<1> DEFINE B == TxnsOf[current]
<1>1. /\ phase = "fees" /\ phase' = "replay" /\ todo' = manual
      /\ feesMatch' = (SumFunctionOnSet(fees, ToSet(manual)) = Len(B))
      /\ fees' = [t \in Txn |-> IF t \in ToSet(manual) THEN 0 ELSE fees[t]]
      /\ UNCHANGED <<poolVars, records, temp, wallets, stored, current, manual, listed, refused>>
  BY DEF CountFees
<1>2. B \in Seq(Txn) /\ IsInjective(B) /\ ToSet(B) \subseteq Txn
  BY CleanTypes
<1>3. InBlock /\ Parent[current] = Tip /\ manual = B
  BY <1>1 DEF Clean, CleanPhase
<1>4. Len(B) \in Nat /\ DOMAIN B = 1 .. Len(B)
  BY <1>2
<1>5. \A t \in ToSet(B) : t \in Txn /\ Stands(t, 1, 1, 0, 0) /\ t \in listed
  BY <1>2, <1>3 DEF InBlock
<1>6. \A i \in 1 .. Len(B) : B[i] \in ToSet(B)
  BY <1>4 DEF ToSet
<1>7. SumFunctionOnSet(fees, ToSet(manual)) = Len(B)
  <2>1. \A i \in 1 .. Len(B) : fees[B[i]] = 1
    BY <1>5, <1>6 DEF Stands
  <2>2. \A i, k \in 1 .. Len(B) : B[i] = B[k] => i = k
    BY <1>2, <1>4 DEF IsInjective
  <2>3. ToSet(manual) = {B[i] : i \in 1 .. Len(B)}
    BY <1>3, <1>4 DEF ToSet
  <2> HIDE DEF B
  <2> QED BY <1>4, <2>1, <2>2, <2>3, SumOfOnes
<1>8. \A t \in ToSet(B) : Stands(t, 1, 0, 0, 0)'
  BY <1>1, <1>3, <1>5 DEF Stands, poolVars
<1>9. CleanReplay'
  <2>1. manual' = B /\ todo' = B /\ feesMatch' /\ ToSet(B) \subseteq listed'
    BY <1>1, <1>3, <1>5, <1>7
  <2>2. Len(B) - Len(B) = 0 /\ \A i \in 1 .. Len(B) : 0 + i = i
    BY <1>4
  <2>3. \A i \in 1 .. Len(B) : ~(i <= 0) /\ Stands(B[i], 1, 0, 0, 0)'
    <3>1. \A i \in 1 .. Len(B) : Stands(B[i], 1, 0, 0, 0)'
      <4>1. B' = B
        BY <1>1
      <4> HIDE DEF B
      <4> QED BY <1>6, <1>8, <4>1
    <3> QED BY <1>4, <3>1
  <2> QED BY <1>1, <1>4, <2>1, <2>2, <2>3 DEF CleanReplay
<1>10. CleanFrame'
  BY <1>1, FrameStep DEF Clean, Process
<1>11. MarksBehind'
  BY <1>1 DEF Clean, MarksBehind, poolVars, CurrentNonce, Signers
<1>12. CleanPhase'
  BY <1>1, <1>3, <1>9 DEF CleanPhase, Tip
<1> QED BY <1>10, <1>11, <1>12

(* The transaction the replay is at, and the others.                       *)
LEMMA ReplayPlace ==
    ASSUME NEW After, InNonceOrder(After), Clean(After), CleanReplay, todo # <<>>
    PROVE  LET B == TxnsOf[current]
               n == Len(B) - Len(todo)
           IN
           /\ n \in Nat /\ n + 1 \in DOMAIN B /\ B[n + 1] = Head(todo) /\ Head(todo) \in Txn
           /\ \A i \in DOMAIN B : B[i] \in Txn /\ i \in Nat /\ (B[i] = Head(todo) <=> i = n + 1)
           /\ Len(Tail(todo)) = Len(todo) - 1 /\ Len(todo) \in Nat /\ Len(B) \in Nat
           /\ \A i \in 1 .. Len(Tail(todo)) : Tail(todo)[i] = B[n + 1 + i]
<1> DEFINE B == TxnsOf[current]
           n == Len(B) - Len(todo)
<1>1. B \in Seq(Txn) /\ todo \in Seq(Txn) /\ IsInjective(B)
  BY CleanTypes
<1>2. n >= 0 /\ \A i \in 1 .. Len(todo) : todo[i] = B[n + i]
  BY DEF CleanReplay
<1>3. /\ Len(todo) \in Nat \ {0} /\ Len(B) \in Nat /\ n \in Nat /\ DOMAIN B = 1 .. Len(B)
      /\ Head(todo) = todo[1] /\ Len(Tail(todo)) = Len(todo) - 1 /\ Head(todo) \in Txn
      /\ \A i \in 1 .. Len(todo) - 1 : Tail(todo)[i] = todo[i + 1]
      /\ \A i \in DOMAIN B : B[i] \in Txn
  BY <1>1, <1>2
<1>4. n + 1 \in DOMAIN B
  BY <1>3
<1> HIDE DEF n
<1>5. B[n + 1] = Head(todo)
  BY <1>2, <1>3
<1>6. \A i \in DOMAIN B : i \in Nat /\ (B[i] = Head(todo) <=> i = n + 1)
  <2>1. \A i \in DOMAIN B : B[i] = B[n + 1] => i = n + 1
    BY <1>1, <1>4 DEF IsInjective
  <2> QED BY <1>3, <1>5, <2>1
<1>7. ASSUME NEW i \in 1 .. Len(Tail(todo)) PROVE Tail(todo)[i] = B[n + 1 + i]
  <2>1. i + 1 \in 1 .. Len(todo) /\ n + (i + 1) = n + 1 + i /\ i \in 1 .. Len(todo) - 1
    BY <1>3
  <2> QED BY <1>2, <1>3, <2>1
<1> QED BY <1>3, <1>4, <1>5, <1>6, <1>7 DEF n

(* A transaction of the block is replayed.                                 *)
LEMMA ReplayClean ==
    ASSUME NEW After, InNonceOrder(After), Clean(After), Replay
    PROVE  (CleanFrame /\ MarksBehind /\ CleanPhase)'
<1> DEFINE B == TxnsOf[current]
           n == Len(B) - Len(todo)
           h == Head(todo)
<1>1. /\ phase = "replay" /\ phase' = "forget" /\ todo # <<>> /\ todo' = todo
      /\ temp' = [temp EXCEPT ![h] = @ + records[h]]
      /\ UNCHANGED <<poolVars, records, fees, wallets, stored, current, manual, listed, feesMatch,
                     refused>>
  BY DEF Replay, buildVars
<1>2. CleanReplay /\ Parent[current] = Tip
  BY <1>1 DEF Clean, CleanPhase
<1>3. /\ n + 1 \in DOMAIN B /\ n \in Nat
      /\ \A i \in DOMAIN B : B[i] \in Txn /\ i \in Nat /\ (B[i] = h <=> i = n + 1)
  BY <1>1, <1>2, ReplayPlace
<1>4. temp \in [Txn -> Nat]
  BY CleanTypes DEF TypeOK
<1> HIDE DEF h
<1>5. ASSUME NEW i \in DOMAIN B
      PROVE  /\ i <= n => Stands(B[i], 0, 0, 1, 0)'
             /\ i = n + 1 => Stands(B[i], 1, 0, 1, 0)'
             /\ i > n + 1 => Stands(B[i], 1, 0, 0, 0)'
  <2>1. /\ i <= n => Stands(B[i], 0, 0, 1, 0)
        /\ i = n + 1 => Stands(B[i], 1, 0, 0, 0)
        /\ i > n + 1 => Stands(B[i], 1, 0, 0, 0)
    BY <1>1, <1>2 DEF CleanReplay
  <2>2. B[i] \in Txn /\ i \in Nat /\ n \in Nat
    BY <1>3
  <2>3. temp'[B[i]] = IF i = n + 1 THEN temp[B[i]] + records[B[i]] ELSE temp[B[i]]
    BY <1>1, <1>3, <1>4, <2>2
  <2>4. ASSUME NEW t, NEW r, NEW f, NEW e, NEW b, Stands(t, r, f, e, b), temp'[t] = temp[t]
        PROVE  Stands(t, r, f, e, b)'
    BY <1>1, <2>4 DEF Stands, poolVars
  <2>5. ASSUME NEW t, Stands(t, 1, 0, 0, 0), temp'[t] = temp[t] + records[t]
        PROVE  Stands(t, 1, 0, 1, 0)'
    BY <1>1, <2>5 DEF Stands, poolVars
  <2>6. B' = B
    BY <1>1
  <2>7. i <= n => Stands(B[i], 0, 0, 1, 0)'
    BY <2>1, <2>2, <2>3, <2>4, <2>6
  <2>8. i = n + 1 => Stands(B[i], 1, 0, 1, 0)'
    BY <2>1, <2>2, <2>3, <2>5, <2>6
  <2>9. i > n + 1 => Stands(B[i], 1, 0, 0, 0)'
    BY <2>1, <2>2, <2>3, <2>4, <2>6
  <2> QED BY <2>7, <2>8, <2>9
<1>6. CleanReplay'
  BY <1>1, <1>2, <1>5 DEF CleanReplay
<1>7. CleanFrame'
  BY <1>1, FrameStep DEF Clean, Process
<1>8. MarksBehind'
  BY <1>1 DEF Clean, MarksBehind, poolVars, CurrentNonce, Signers
<1>9. CleanPhase'
  BY <1>1, <1>2, <1>6 DEF CleanPhase, Tip
<1> QED BY <1>7, <1>8, <1>9

(* Its records are removed.                                                *)
LEMMA ForgetClean ==
    ASSUME NEW After, InNonceOrder(After), Clean(After), Forget
    PROVE  (CleanFrame /\ MarksBehind /\ CleanPhase)'
<1> DEFINE B == TxnsOf[current]
           n == Len(B) - Len(todo)
           h == Head(todo)
<1>1. /\ phase = "forget" /\ phase' = "replay" /\ todo' = Tail(todo)
      /\ records' = [records EXCEPT ![h] = 0]
      /\ UNCHANGED <<poolVars, fees, temp, wallets, stored, current, manual, listed, feesMatch,
                     refused>>
  BY DEF Forget, buildVars
<1>2. CleanReplay /\ Parent[current] = Tip
  BY <1>1 DEF Clean, CleanPhase
<1>3. todo # <<>> /\ records \in [Txn -> Nat]
  BY <1>1, CleanTypes DEF TypeOK
<1>4. /\ n + 1 \in DOMAIN B /\ n \in Nat
      /\ \A i \in DOMAIN B : B[i] \in Txn /\ i \in Nat /\ (B[i] = h <=> i = n + 1)
      /\ Len(todo') = Len(todo) - 1 /\ Len(todo) \in Nat /\ Len(B) \in Nat
      /\ \A i \in 1 .. Len(todo') : todo'[i] = B[n + 1 + i]
  BY <1>1, <1>2, <1>3, ReplayPlace
<1>5. Len(B) - Len(todo') = n + 1
  BY <1>4
<1> HIDE DEF h, n
<1>6. ASSUME NEW i \in DOMAIN B
      PROVE  /\ i <= n + 1 => Stands(B[i], 0, 0, 1, 0)'
             /\ i > n + 1 => Stands(B[i], 1, 0, 0, 0)'
  <2>1. /\ i <= n => Stands(B[i], 0, 0, 1, 0)
        /\ i = n + 1 => Stands(B[i], 1, 0, 1, 0)
        /\ i > n + 1 => Stands(B[i], 1, 0, 0, 0)
    <3>1. /\ i <= n => Stands(B[i], 0, 0, 1, 0)
          /\ i = n + 1 /\ phase = "forget" => Stands(B[i], 1, 0, 1, 0)
          /\ i > n + 1 \/ (i = n + 1 /\ phase # "forget") => Stands(B[i], 1, 0, 0, 0)
      BY <1>2 DEF CleanReplay, n
    <3> QED BY <1>1, <3>1
  <2>2. B[i] \in Txn /\ i \in Nat /\ n \in Nat
    BY <1>4
  <2>3. records'[B[i]] = IF i = n + 1 THEN 0 ELSE records[B[i]]
    BY <1>1, <1>3, <1>4, <2>2
  <2>4. ASSUME NEW t, NEW r, NEW f, NEW e, NEW b, Stands(t, r, f, e, b), records'[t] = records[t]
        PROVE  Stands(t, r, f, e, b)'
    BY <1>1, <2>4 DEF Stands, poolVars
  <2>5. ASSUME NEW t, Stands(t, 1, 0, 1, 0), records'[t] = 0 PROVE Stands(t, 0, 0, 1, 0)'
    BY <1>1, <2>5 DEF Stands, poolVars
  <2>6. B' = B
    BY <1>1
  <2>7. i <= n + 1 => Stands(B[i], 0, 0, 1, 0)'
    <3>1. CASE i = n + 1
      BY <2>1, <2>3, <2>5, <2>6, <3>1
    <3>2. CASE i # n + 1
      BY <2>1, <2>2, <2>3, <2>4, <2>6, <3>2
    <3> QED BY <3>1, <3>2
  <2>8. i > n + 1 => Stands(B[i], 1, 0, 0, 0)'
    BY <2>1, <2>2, <2>3, <2>4, <2>6
  <2> QED BY <2>7, <2>8
<1>7. CleanReplay'
  <2>1. manual' = B /\ feesMatch' /\ ToSet(B) \subseteq listed' /\ current' = current
    BY <1>1, <1>2 DEF CleanReplay
  <2>2. n + 1 >= 0
    BY <1>4
  <2>3. \A i \in DOMAIN B : i > n + 1 + 1 \/ i = n + 1 + 1 => i > n + 1
    BY <1>4
  <2> QED BY <1>1, <1>4, <1>5, <1>6, <2>1, <2>2, <2>3 DEF CleanReplay
<1>8. CleanFrame'
  BY <1>1, FrameStep DEF Clean, Process
<1>9. MarksBehind'
  BY <1>1 DEF Clean, MarksBehind, poolVars, CurrentNonce, Signers
<1>10. CleanPhase'
  BY <1>1, <1>2, <1>7 DEF CleanPhase, Tip
<1> QED BY <1>8, <1>9, <1>10

(* The block that has been built is the peer's, and is stored.             *)
LEMMA StoreClean ==
    ASSUME NEW After, InNonceOrder(After), Clean(After), Store
    PROVE  (CleanFrame /\ MarksBehind /\ CleanPhase)'
<1> DEFINE B == TxnsOf[current]
<1>1. /\ phase = "replay" /\ phase' = "wallets" /\ todo = <<>> /\ stored' = stored \cup {current}
      /\ UNCHANGED <<poolVars, effectVars, current, refused>>
  BY DEF Store, Leave
<1>2. CleanReplay
  BY <1>1 DEF Clean, CleanPhase
<1>3. B \in Seq(Txn)
  BY CleanTypes
<1>4. CleanStored(1, 0)'
  <2>1. Len(B) \in Nat /\ DOMAIN B = 1 .. Len(B) /\ Len(todo) = 0
    BY <1>1, <1>3
  <2>2. \A i \in DOMAIN B : i <= Len(B) - Len(todo)
    BY <2>1
  <2>3. \A i \in DOMAIN B : Stands(B[i], 0, 0, 1, 0)
    BY <1>2, <2>2 DEF CleanReplay
  <2>4. \A t \in ToSet(B) : Stands(t, 0, 0, 1, 0)
    BY <2>3 DEF ToSet
  <2> QED BY <1>1, <2>4 DEF CleanStored, Stands, poolVars, effectVars
<1>5. CleanFrame'
  BY <1>1, FrameStep DEF Clean, Process
<1>6. MarksBehind'
  BY <1>1 DEF Clean, MarksBehind, poolVars, CurrentNonce, Signers
<1>7. CleanPhase'
  BY <1>1, <1>4 DEF CleanPhase
<1> QED BY <1>5, <1>6, <1>7

(* A clean block is not refused.                                           *)
LEMMA CleanNotRefused ==
    ASSUME NEW After, Clean(After), RefuseBlock
    PROVE  FALSE
<1>1. phase = "replay" /\ ~SameBlock
  BY DEF RefuseBlock
<1>2. CleanReplay /\ Parent[current] = Tip
  BY <1>1 DEF Clean, CleanPhase
<1> QED BY <1>1, <1>2 DEF CleanReplay, SameBlock

(* The balances and the nonces are stored.                                 *)
LEMMA WriteClean ==
    ASSUME NEW After, Clean(After), StoreWallets \/ StoreNonces
    PROVE  (CleanFrame /\ MarksBehind /\ CleanPhase)'
<1> DEFINE B == TxnsOf[current]
<1>1. UNCHANGED <<stored, current, refused, blockTxns, statusFee, preNonce, records, fees>>
  BY DEF StoreWallets, StoreNonces, poolVars, buildVars, effectVars
<1>2. ToSet(B) \subseteq Txn /\ TypeOK
  BY CleanTypes
<1>3. CleanFrame'
  BY <1>1, FrameStep DEF Clean, Process
<1>4. CASE StoreWallets
  <2>1. /\ phase = "wallets" /\ phase' = "nonces" /\ walletNonce' = walletNonce
        /\ wallets' = [t \in Txn |-> wallets[t] + temp[t]] /\ temp' = NoCount
    BY <1>4 DEF StoreWallets, poolVars
  <2>2. CleanStored(1, 0) /\ current \in stored
    BY <2>1 DEF Clean, CleanPhase
  <2>3. CleanStored(0, 1)'
    BY <1>1, <1>2, <2>1, <2>2 DEF CleanStored, Stands, NoCount
  <2>4. MarksBehind'
    BY <1>1, <2>1 DEF Clean, MarksBehind, CurrentNonce, Signers
  <2>5. CleanPhase'
    BY <1>1, <2>1, <2>2, <2>3 DEF CleanPhase
  <2> QED BY <1>3, <2>4, <2>5
<1>5. CASE StoreNonces
  <2>1. phase = "nonces" /\ phase' = "idle" /\ UNCHANGED <<temp, wallets>>
    BY <1>5 DEF StoreNonces, effectVars
  <2>2. CleanStored(0, 1) /\ current \in stored
    BY <2>1 DEF Clean, CleanPhase
  <2>3. CleanStored(0, 1)'
    BY <1>1, <2>1, <2>2 DEF CleanStored, Stands
  <2>4. MarksBehind'
    <3>1. \A w \in Wallet : CurrentNonce(w) = preNonce[w]
      BY RunningIsCurrent DEF Clean, CleanFrame
    <3>2. ASSUME NEW u \in blockTxns, NEW w \in Signers(u) PROVE NonceOf[u][w] <= CurrentNonce(w)'
      <4>1. /\ w \in Wallet /\ NonceOf[u][w] \in Nat \ {0} /\ preNonce[w] \in Nat
            /\ NonceOf[u][w] <= preNonce[w]
        BY <1>2, <3>1, NonceAssumption DEF Clean, MarksBehind, Signers, TypeOK, PoolTypeOK
      <4>2. preNonce[w] # 0
        BY <4>1
      <4> QED BY <1>1, <4>1, <4>2 DEF CurrentNonce
    <3> QED BY <1>1, <3>2 DEF MarksBehind, Signers
  <2>5. CleanPhase'
    BY <1>1, <2>1, <2>2, <2>3 DEF CleanPhase
  <2> QED BY <1>3, <2>4, <2>5
<1> QED BY <1>4, <1>5

(* Every step of the thread keeps a clean block clean, and refuses none.   *)
LEMMA CleanProcess ==
    ASSUME NEW After, ValidBlocks(After), InNonceOrder(After), Numbered, Clean(After), Process
    PROVE  (CleanFrame /\ MarksBehind /\ CleanPhase)'
<1>1. CASE Wrap \/ Wrapped
  BY <1>1, WrapClean, WrappedClean
<1>2. CASE AddKnown \/ DropKey
  BY <1>2, AddKnownClean, DropKeyClean
<1>3. CASE CheckFresh \/ ApplyFresh
  BY <1>3, CheckClean, ApplyClean
<1>4. CASE StartPass2 \/ DropPending
  BY <1>4, Pass2Clean, DropPendingClean
<1>5. CASE CountFees \/ Replay \/ Forget
  BY <1>5, CountClean, ReplayClean, ForgetClean
<1>6. CASE Store
  BY <1>6, StoreClean
<1>7. CASE RefuseBlock
  BY <1>7, CleanNotRefused
<1>8. CASE StoreWallets \/ StoreNonces
  BY <1>8, WriteClean
<1> QED BY <1>1, <1>2, <1>3, <1>4, <1>5, <1>6, <1>7, <1>8 DEF Process

(* A job's step, or a restart, ends what is said of a clean block.         *)
LEMMA CleanStep ==
    ASSUME NEW After, ValidBlocks(After), InNonceOrder(After), Numbered,
           IInv, NonceInv(After), Takeover(After), [Next]_vars
    PROVE  CleanInv'
<1> SUFFICES ASSUME clean' PROVE (CleanFrame /\ MarksBehind /\ CleanPhase)'
  BY DEF CleanInv
<1>1. RType /\ ChainInv /\ MarkInv /\ ReplayInv /\ EmptyInv
  BY DEF IInv, EffectInv, Takeover
<1>2. ASSUME clean PROVE Clean(After)
  BY <1>1, <1>2 DEF Takeover, CleanInv, CleanFrame, Clean
<1>3. CASE PoolStep \/ Restart
  BY <1>3 DEF PoolStep, Restart
<1>4. ASSUME NEW b \in Block, Receive(b) PROVE (CleanFrame /\ MarksBehind /\ CleanPhase)'
  BY <1>1, <1>4, ReceiveClean
<1>5. CASE Process
  <2>1. clean
    BY <1>5 DEF Process, Wrap, Wrapped, AddKnown, DropKey, CheckFresh, ApplyFresh, StartPass2,
       DropPending, CountFees, Replay, Forget, Store, RefuseBlock, StoreWallets, StoreNonces
  <2> QED BY <1>2, <1>5, <2>1, CleanProcess
<1>6. CASE UNCHANGED vars
  <2>1. clean /\ UNCHANGED <<poolVars, effectVars, current, todo, known, fresh, retry, manual,
                             listed, feesMatch, stored, phase, refused, restarts>>
    BY <1>6 DEF vars, replicaVars, buildVars
  <2>2. CleanFrame /\ MarksBehind /\ CleanPhase
    BY <1>2, <2>1 DEF Clean
  <2>3. CleanFrame' /\ MarksBehind'
    BY <2>1, <2>2 DEF CleanFrame, MarksBehind, poolVars, CurrentNonce, Signers
  <2>4. /\ \A s : (Marked(s)' <=> Marked(s)) /\ (Unmarked(s)' <=> Unmarked(s))
        /\ \A t, r, f, e, b : Stands(t, r, f, e, b)' <=> Stands(t, r, f, e, b)
        /\ Tip' = Tip
    BY <2>1 DEF Marked, Unmarked, Stands, Tip, poolVars, effectVars
  <2>5. (CleanWrap => CleanWrap') /\ (CleanKnown => CleanKnown') /\ (CleanPass => CleanPass')
    BY <2>1 DEF CleanWrap, CleanKnown, CleanPass, Marked, Unmarked, poolVars
  <2>6. (InBlock => InBlock') /\ \A e, b : CleanStored(e, b) => CleanStored(e, b)'
    BY <2>1, <2>4 DEF InBlock, CleanStored
  <2>7. CleanReplay => CleanReplay'
    BY <2>1 DEF CleanReplay, Stands, poolVars, effectVars
  <2> QED BY <2>1, <2>2, <2>3, <2>4, <2>5, <2>6, <2>7 DEF CleanPhase
<1> QED BY <1>3, <1>4, <1>5, <1>6 DEF Next

(* A block that comes under ideal conditions is never refused, and leaves  *)
(* each of its transactions applied once and nothing else behind, whatever *)
(* has gone on before it came: provided that blocks are valid and in the   *)
(* order of their nonces, that nobody signs two transactions with one      *)
(* nonce, and that no transaction is sent while it is being handled.       *)
THEOREM CleanTakeover ==
    ASSUME OncePerHash, Numbered, NEW After, ValidBlocks(After), InNonceOrder(After)
    PROVE  Spec => []CleanBlockTakenOver
<1>1. Init => NonceInv(After) /\ Takeover(After)
  <2> SUFFICES ASSUME Init PROVE NonceInv(After) /\ Takeover(After)
    OBVIOUS
  <2>1. /\ ChainTxns = {} /\ ToSet(manual) = {} /\ stored = {} /\ phase = "idle" /\ ~clean
        /\ manual = <<>> /\ known = <<>> /\ fresh = <<>> /\ retry = {}
    BY DEF Init, ChainTxns, ToSet
  <2>2. /\ \A w \in Wallet : walletNonce[w] = 0 /\ usedNonce[w] = 0 /\ preNonce[w] = 0
        /\ \A j \in Job : stage[j] = "idle" /\ doing[j] = None
        /\ statusFee = {} /\ blockTxns = {}
        /\ \A t \in Txn : records[t] = 0 /\ fees[t] = 0 /\ temp[t] = 0 /\ wallets[t] = 0
    BY DEF Init, PoolInit, NoNonce, NoCount
  <2>3. NonceInv(After)
    BY <2>1, <2>2 DEF NonceInv, BuildNonces, ChainNonces, TopNonce, Storing
  <2>4. \A t : ~Marking(t) /\ ~AtFee(t) /\ ~Done(t)
    BY <2>2 DEF Marking, AtFee, Done
  <2>5. OneJobEach /\ EmptyInv /\ CleanInv
    BY <2>1, <2>2 DEF OneJobEach, EmptyInv, CleanInv
  <2>6. OnceInv
    BY <2>2, <2>4 DEF OnceInv, Tidy
  <2>7. GapInv /\ SourceInv /\ TopInv(After)
    BY <2>1, <2>2, <2>4 DEF GapInv, SourceInv, TopInv, TopNonce, Storing
  <2> QED BY <2>3, <2>5, <2>6, <2>7 DEF Takeover
<1>2. IInv /\ IInv' /\ NonceInv(After) /\ Takeover(After) /\ [Next]_vars =>
        NonceInv(After)' /\ Takeover(After)'
  <2> SUFFICES ASSUME IInv, IInv', NonceInv(After), Takeover(After), [Next]_vars
               PROVE  NonceInv(After)' /\ Takeover(After)'
    OBVIOUS
  <2>1. RType /\ ChainInv /\ MarkInv /\ ReplayInv /\ OneJobEach /\ EmptyInv
    BY DEF IInv, EffectInv, Takeover
  <2>2. NonceInv(After)'
    BY <2>1, NonceStep
  <2>3. OneJobEach' /\ EmptyInv' /\ CleanInv'
    BY <2>1, OneJobStep, EmptyStep, CleanStep
  <2>4. ASSUME restarts' = 0, ~refused' PROVE (OnceInv /\ GapInv /\ SourceInv /\ TopInv(After))'
    <3>1. restarts = 0 /\ ~refused
      BY <2>1, <2>4, GivenGrows
    <3>2. OnceInv /\ GapInv /\ SourceInv /\ TopInv(After)
      BY <3>1 DEF Takeover
    <3>3. OnceInv'
      BY <2>1, <2>3, <2>4, <3>2, OnceStep
    <3>4. GapInv'
      BY <2>1, <2>4, <3>2, GapStep
    <3>5. SourceInv'
      BY <2>1, <2>4, <3>2, SourceStep
    <3>6. TopInv(After)'
      BY <2>1, <2>4, <3>2, TopStep
    <3> QED BY <3>3, <3>4, <3>5, <3>6
  <2> QED BY <2>2, <2>3, <2>4 DEF Takeover
<1>3. IInv /\ Takeover(After) => CleanBlockTakenOver
  <2> SUFFICES ASSUME IInv, Takeover(After), clean
               PROVE  /\ ~refused
                      /\ phase = "idle" =>
                            /\ current \in stored
                            /\ \A t \in ToSet(TxnsOf[current]) :
                                  /\ wallets[t] = 1
                                  /\ records[t] = 0 /\ fees[t] = 0 /\ temp[t] = 0
                                  /\ t \in blockTxns /\ t \notin statusFee
    BY DEF CleanBlockTakenOver
  <2>1. ~refused /\ CleanPhase
    BY DEF Takeover, CleanInv, CleanFrame
  <2> QED BY <2>1 DEF CleanPhase, CleanStored, Stands
<1> QED BY <1>1, <1>2, <1>3, Inductive, PTL DEF Spec
=============================================================================
