------------------------ MODULE SmartContractProofs ------------------------
(***************************************************************************)
(* Proofs about SmartContract, for any contracts, users, transactions,     *)
(* fees, depth and number of restarts.                                     *)
(***************************************************************************)
EXTENDS SmartContract, FoldProofs, SequenceTheorems

-----------------------------------------------------------------------------
(* The invariant. *)

Amounts == [Wallet -> Nat]
Address == Wallet \cup {NoWallet}
Stored == Value \cup {NoKey}
Context == [wallet : Address, called : Address, current : Address, payer : Address,
            chain : Seq(Instance), depth : Nat, available : Nat, used : Nat]
Frame == [code : Instance, how : {"first", "call", "delegate"}, cost : Nat, limit : Nat,
          back : Context]

(* Children, with what became of them, and on whose authority.             *)
ChildRec == [type : {"coin", "other"}, payer : Address, nonce : Nat, to : Address, amount : Int]
Goes(c) == c.amount \in Nat /\ (c.to \in Wallet \/ c.amount = 0)
Covered(c, ok) == c.payer \in Wallet /\ (ok => Goes(c))
Made == {m \in [child : ChildRec, ok : BOOLEAN, authority : SUBSET Wallet] :
            Covered(m.child, m.ok)}
Outcome == {h \in [child : ChildRec, ok : BOOLEAN] : Covered(h.child, h.ok)}
OutcomeOf(m) == [child |-> m.child, ok |-> m.ok]
Outcomes(S) == {OutcomeOf(m) : m \in S}
AnyHash == Txn \cup Outcome

MachineTyping ==
    /\ phase \in {"idle", "running", "done", "failed", "settled", "undone"}
    /\ txn \in Txn \cup {NoKey} /\ (txn = NoKey <=> phase = "idle")
    /\ sender \in Context /\ frames \in Seq(Frame)
    /\ children \in SUBSET Made /\ sc \in [hashes : Seq(Outcome), nonces : Amounts]
StateTyping ==
    /\ instances \in SUBSET Instance /\ store \in [Instance -> Stored]
    /\ saved \in [Instance -> {<<>>} \cup {<<v>> : v \in Stored}]
    /\ due \in [Instance -> Nat]
    /\ history \in [good : [Instance -> Stored], gas : Nat, torn : BOOLEAN, drift : BOOLEAN,
                    unpaid : BOOLEAN, chain : SUBSET ChildRec]
BlockTyping ==
    /\ running \in Amounts /\ balance \in Amounts
    /\ nonce \in Amounts /\ used \in Amounts /\ stored \in Amounts
    /\ waiting \in SUBSET Txn
    /\ block \in [txns : Seq(Txn), made : SUBSET Instance, children : SUBSET Made,
                  hashes : Seq(AnyHash)]
    /\ record \in [Txn -> [Wallet -> Int]]
    /\ restarts \in 0..MaxRestarts
Typing == MachineTyping /\ StateTyping /\ BlockTyping

(* A frame's limit is what the host says is available, and what has been   *)
(* used, is available and was spent by the callers was all approved.       *)
GasInv ==
    /\ phase = "idle" => frames = <<>>
    /\ phase \in {"running", "done", "failed", "settled"} => frames # <<>>
    /\ phase = "running" =>
          /\ frames[Top].limit = sender.available
          /\ sender.used + sender.available + Cost(Front(frames)) <= fee_left(txn)
    /\ phase \notin {"idle", "running"} =>
          /\ history.gas <= fee_left(txn)
          /\ frames = <<>> => history.gas = 0
    /\ ~ history.unpaid

(* Frame b of fs is the one on whose behalf frame k runs; and the context  *)
(* c is the right one for frame k, in an execution of t.                   *)
OnBehalf(fs, k, b) ==
    /\ b \in 1..k /\ fs[b].how # "delegate"
    /\ \A l \in b + 1 .. k : fs[l].how = "delegate"
Matches(t, c, fs, k) ==
    \E b \in 1..k :
        /\ OnBehalf(fs, k, b)
        /\ c.current = fs[k].code /\ c.called = fs[b].code /\ c.payer = t.to
        /\ Len(c.chain) = k - b + 1
        /\ \A l \in 1 .. k - b + 1 : c.chain[l] = fs[b + l - 1].code
        /\ c.wallet = IF b = 1 THEN t.user ELSE NoWallet

(* The context of the code in execution is right, and so is each one that  *)
(* a return will bring back.                                               *)
StackInv ==
    phase = "running" =>
        /\ frames[1].how = "first" /\ \A k \in 2..Top : frames[k].how # "first"
        /\ Matches(txn, sender, frames, Top)
        /\ \A k \in 2..Top : Matches(txn, frames[k].back, frames, k - 1)

(* What a failure would restore is what the last success left.             *)
SavedInv ==
    /\ phase \in {"idle", "settled", "undone"} => saved = Unsaved
    /\ ~ history.torn => Restored = history.good

(* The hashes of the block, and those of the execution, are of what is in  *)
(* them; the transaction in execution is not in the block yet.             *)
HashInv ==
    /\ ToSet(block.hashes) = ToSet(block.txns) \cup Outcomes(block.children)
    /\ phase \in {"running", "done", "failed"} => ToSet(sc.hashes) = Outcomes(children)
    /\ phase \in {"idle", "settled", "undone"} => sc = NoChildren
    /\ phase # "idle" => txn \in waiting
    /\ ToSet(block.txns) \cap waiting = {}

(* What w gets when wallet a does.                                         *)
When(w, a, n) == IF w = a THEN n ELSE 0

(* The running balances are what the block would store now, the record of  *)
(* the transaction in execution and its deposit; and that record takes     *)
(* from every wallet but the one the fees go to, so that no debit of a     *)
(* child's is dropped.                                                     *)
Held == IF frames = <<>> THEN 0 ELSE fee_left(txn)
Replayed == add_temp_wallet_balance(record, balance, block.hashes \o sc.hashes)
Balanced ==
    ~ history.drift =>
        IF phase = "idle" THEN running = Replayed
        ELSE \A w \in Wallet :
                running[w] = Replayed[w] + record[txn][w] - When(w, txn.user, Held)
OwnDebits == phase # "idle" => \A w \in Wallet \ {Fees} : record[txn][w] <= 0

(* All tokens are in the running balances, in the deposit or due; what is  *)
(* due is the running contract's; and none was lost in the chain.          *)
DueIsRunning == \A i \in Instance : due[i] # 0 => frames # <<>> /\ i = txn.to
SupplyInv ==
    ~ history.torn /\ ~ history.drift =>
        /\ DueIsRunning
        /\ SumFunctionOnSet(running, Wallet) + Held + SumFunctionOnSet(due, Instance)
              = SumFunctionOnSet(FirstBalance, Wallet)
        /\ SumFunctionOnSet(balance, Wallet) = SumFunctionOnSet(FirstBalance, Wallet)

(* What the accounts of a block rest on.                                   *)
MoneyInv == Balanced /\ OwnDebits /\ SupplyInv

(* The nonces of a contract's children are different and none is ahead of  *)
(* the wallet's.                                                           *)
Kept == history.chain \cup {m.child : m \in block.children} \cup {m.child : m \in children}
NonceInv ==
    restarts = 0 =>
        /\ \A c \in Kept : c.payer \in Instance => c.nonce <= nonce[c.payer]
        /\ \A c, d \in Kept :
              c.payer \in Instance /\ c.payer = d.payer /\ c.nonce = d.nonce => c = d

IInv ==
    /\ Typing
    /\ GasInv /\ StackInv /\ SavedInv /\ HashInv /\ ChildAuthorised /\ NonceInv

-----------------------------------------------------------------------------
(* Records, frames and what they cost. *)

(* The constants, one fact at a time.                                      *)
LEMMA Constants ==
    /\ BaseFee \in Nat /\ StorageFee \in Nat /\ ChildFee \in Nat /\ MaxDepth \in Nat
    /\ MaxRestarts \in Nat /\ FirstBalance \in Amounts
    /\ Instance \subseteq Wallet /\ User \subseteq Wallet /\ Fees \in Wallet
    /\ Payee \subseteq Wallet /\ Missing \subseteq Instance
    /\ \A t \in Txn : /\ t.user \in User /\ t.to \in Instance /\ t.nonce \in Nat
                      /\ t.user \in Wallet /\ t.to \in Wallet /\ t.user \notin Instance
                      /\ fee_left(t) \in Nat /\ gas_limit_calc(t) = fee_left(t)
<1>1. /\ BaseFee \in Nat /\ StorageFee \in Nat /\ ChildFee \in Nat /\ MaxDepth \in Nat
      /\ MaxRestarts \in Nat /\ FirstBalance \in Amounts
      /\ Instance \subseteq Wallet /\ User \subseteq Wallet /\ Fees \in Wallet
      /\ Payee \subseteq Wallet /\ Missing \subseteq Instance
  BY ContractAssumption DEF Amounts, Wallet
<1>2. ASSUME NEW t \in Txn
      PROVE  /\ t.user \in User /\ t.to \in Instance /\ t.nonce \in Nat
             /\ t.user \in Wallet /\ t.to \in Wallet /\ t.user \notin Instance
             /\ fee_left(t) \in Nat /\ gas_limit_calc(t) = fee_left(t)
  <2>1. t.user \in User /\ t.to \in Instance /\ t.nonce \in Nat /\ t.user \notin Instance
    BY ContractAssumption
  <2>2. t.approved \in Nat /\ t.approved >= BaseFee
    BY ContractAssumption
  <2> QED BY <1>1, <2>1, <2>2 DEF fee_left, gas_limit_calc
<1> QED BY <1>1, <1>2

(* Changes of a frame.                                                     *)
LEMMA FrameChanges ==
    /\ \A f \in Frame :
          LET g == [f EXCEPT !.cost = @ + 1]
          IN  /\ g \in Frame /\ g.cost = f.cost + 1
              /\ g.code = f.code /\ g.how = f.how /\ g.limit = f.limit /\ g.back = f.back
    /\ \A f \in Frame, n \in Nat :
          LET g == [f EXCEPT !.limit = n]
          IN  /\ g \in Frame /\ g.limit = n
              /\ g.code = f.code /\ g.how = f.how /\ g.cost = f.cost /\ g.back = f.back
<1>1. ASSUME NEW f \in Frame
      PROVE  LET g == [f EXCEPT !.cost = @ + 1]
             IN  /\ g \in Frame /\ g.cost = f.cost + 1
                 /\ g.code = f.code /\ g.how = f.how /\ g.limit = f.limit /\ g.back = f.back
  BY DEF Frame
<1>2. ASSUME NEW f \in Frame, NEW n \in Nat
      PROVE  LET g == [f EXCEPT !.limit = n]
             IN  /\ g \in Frame /\ g.limit = n
                 /\ g.code = f.code /\ g.how = f.how /\ g.cost = f.cost /\ g.back = f.back
  BY DEF Frame
<1> QED BY <1>1, <1>2

(* The fields of a frame and of a context.                                 *)
LEMMA FrameFields ==
    ASSUME NEW f \in Frame
    PROVE  /\ f.code \in Instance /\ f.how \in {"first", "call", "delegate"}
           /\ f.cost \in Nat /\ f.limit \in Nat /\ f.back \in Context
BY DEF Frame

(* And of a context.                                                       *)
LEMMA ContextFields ==
    ASSUME NEW c \in Context
    PROVE  /\ c.wallet \in Address /\ c.called \in Address /\ c.current \in Address
           /\ c.payer \in Address /\ c.chain \in Seq(Instance)
           /\ c.depth \in Nat /\ c.available \in Nat /\ c.used \in Nat
BY DEF Context

(* A unit of gas is charged to the frame on top.                           *)
LEMMA SpentFacts ==
    ASSUME frames \in Seq(Frame), frames # <<>>
    PROVE  /\ Top \in Nat /\ Top >= 1 /\ Spent \in Seq(Frame) /\ Len(Spent) = Top
           /\ Spent[Top].cost = frames[Top].cost + 1
           /\ \A k \in 1..Top : /\ frames[k] \in Frame /\ Spent[k].code = frames[k].code
                                /\ Spent[k].how = frames[k].how
                                /\ Spent[k].limit = frames[k].limit
                                /\ Spent[k].back = frames[k].back
           /\ \A k \in 1..(Top - 1) : Spent[k] = frames[k]
<1>1. Top \in Nat /\ Top >= 1 /\ DOMAIN frames = 1..Top /\ \A k \in 1..Top : frames[k] \in Frame
  BY DEF Top
<1>2. DEFINE g == [frames[Top] EXCEPT !.cost = @ + 1]
<1>3. /\ g \in Frame /\ g.cost = frames[Top].cost + 1 /\ g.code = frames[Top].code
      /\ g.how = frames[Top].how /\ g.limit = frames[Top].limit /\ g.back = frames[Top].back
  BY <1>1, FrameChanges
<1>4. Spent = [frames EXCEPT ![Top] = g]
  BY DEF Spent
<1> HIDE DEF g
<1>5. Spent = [k \in 1..Top |-> IF k = Top THEN g ELSE frames[k]]
  BY <1>1, <1>4
<1>6. Spent \in [1..Top -> Frame]
  BY <1>1, <1>3, <1>5
<1>7. Spent \in Seq(Frame) /\ Len(Spent) = Top
  BY <1>1, <1>6
<1> QED BY <1>1, <1>3, <1>5, <1>7

(* What frames cost is a number, and that of the one on top is added last. *)
LEMMA CostFacts ==
    ASSUME NEW fs \in Seq(Frame)
    PROVE  /\ Cost(fs) \in Nat
           /\ fs # <<>> => Cost(fs) = Cost(Front(fs)) + fs[Len(fs)].cost
<1> DEFINE n == Len(fs)
           c == [k \in DOMAIN fs |-> fs[k].cost]
<1>1. n \in Nat /\ DOMAIN fs = 1..n /\ IsFiniteSet(1..n) /\ \A k \in 1..n : c[k] \in Nat
  BY FS_Interval, FrameFields
<1>2. Cost(fs) = SumFunctionOnSet(c, 1..n)
  BY <1>1 DEF Cost, SumFunction
<1>3. Cost(fs) \in Nat
  BY <1>1, <1>2, SumNat
<1>4. ASSUME fs # <<>>
      PROVE  Cost(fs) = Cost(Front(fs)) + fs[n].cost
  <2>1. n >= 1
    BY <1>1, <1>4
  <2> DEFINE d == [k \in DOMAIN Front(fs) |-> Front(fs)[k].cost]
  <2>2. Front(fs) = [k \in 1..(n - 1) |-> fs[k]]
    BY <1>1, <2>1 DEF Front
  <2>3. DOMAIN Front(fs) = 1..(n - 1) /\ \A k \in 1..(n - 1) : d[k] = c[k]
    BY <1>1, <2>1, <2>2
  <2>4. Cost(Front(fs)) = SumFunctionOnSet(d, 1..(n - 1))
    BY <2>3 DEF Cost, SumFunction
  <2>5. (1..n) \ {n} = 1..(n - 1) /\ n \in 1..n /\ IsFiniteSet(1..(n - 1))
    <3>1. IsFiniteSet(1..(n - 1))
      BY <1>1, FS_Interval
    <3>2. (1..n) \ {n} = 1..(n - 1)
      BY <1>1
    <3> QED BY <1>1, <2>1, <3>1, <3>2
  <2>6. c[n] = fs[n].cost /\ \A k \in 1..n : c[k] \in Int
    BY <1>1, <2>5
  <2> HIDE DEF c, d, n
  <2>7. SumFunctionOnSet(c, 1..n) = c[n] + SumFunctionOnSet(c, 1..(n - 1))
    <3> DEFINE R == 1..n
    <3>1. IsFiniteSet(R) /\ n \in R /\ R \ {n} = 1..(n - 1) /\ \A k \in R : c[k] \in Int
      BY <1>1, <2>5, <2>6
    <3> HIDE DEF R
    <3>2. SumFunctionOnSet(c, R) = c[n] + SumFunctionOnSet(c, R \ {n})
      BY <3>1, SumTake
    <3> QED BY <3>1, <3>2 DEF R
  <2>8. SumFunctionOnSet(c, 1..(n - 1)) = SumFunctionOnSet(d, 1..(n - 1))
    BY <2>3, <2>5, SumSame
  <2>9. c[n] \in Nat /\ SumFunctionOnSet(c, 1..(n - 1)) \in Int
    <3>1. \A k \in 1..(n - 1) : c[k] \in Int
      BY <1>1, <2>6
    <3> QED BY <1>1, <2>5, <3>1, SumInt
  <2> QED BY <1>2, <2>4, <2>6, <2>7, <2>8, <2>9
<1> QED BY <1>3, <1>4

(* Only the costs count.                                                   *)
LEMMA CostSame ==
    ASSUME NEW fs \in Seq(Frame), NEW gs \in Seq(Frame), Len(fs) = Len(gs),
           \A k \in 1..Len(fs) : fs[k].cost = gs[k].cost
    PROVE  Cost(fs) = Cost(gs)
<1> DEFINE c == [k \in DOMAIN fs |-> fs[k].cost]
           d == [k \in DOMAIN gs |-> gs[k].cost]
<1>1. DOMAIN fs = 1..Len(fs) /\ DOMAIN gs = 1..Len(fs)
  OBVIOUS
<1>2. c = d
  BY <1>1
<1> QED BY <1>2 DEF Cost

(* A function on the first m numbers is a sequence.                        *)
LEMMA SeqIntro ==
    ASSUME NEW S, NEW m \in Nat, NEW f \in [1..m -> S]
    PROVE  f \in Seq(S) /\ Len(f) = m
OBVIOUS

(* All frames but the last, and a frame more.                              *)
LEMMA FrontFacts ==
    ASSUME NEW fs \in Seq(Frame), fs # <<>>
    PROVE  /\ Front(fs) \in Seq(Frame) /\ Len(Front(fs)) = Len(fs) - 1
           /\ \A k \in 1..(Len(fs) - 1) : Front(fs)[k] = fs[k]
<1>1. Len(fs) \in Nat /\ Len(fs) >= 1 /\ DOMAIN fs = 1..Len(fs)
  OBVIOUS
<1>2. Front(fs) = [k \in 1..(Len(fs) - 1) |-> fs[k]]
  BY <1>1 DEF Front
<1>3. Front(fs) \in [1..(Len(fs) - 1) -> Frame]
  BY <1>1, <1>2
<1> QED BY <1>1, <1>2, <1>3

(* A frame more on top.                                                    *)
LEMMA AppendFacts ==
    ASSUME NEW fs \in Seq(Frame), NEW f \in Frame
    PROVE  /\ Append(fs, f) \in Seq(Frame) /\ Append(fs, f) # <<>>
           /\ Len(Append(fs, f)) = Len(fs) + 1 /\ Append(fs, f)[Len(fs) + 1] = f
           /\ \A k \in 1..Len(fs) : Append(fs, f)[k] = fs[k]
           /\ Front(Append(fs, f)) = fs
<1> DEFINE gs == Append(fs, f)
<1>1. /\ gs \in Seq(Frame) /\ gs # <<>> /\ Len(gs) = Len(fs) + 1 /\ gs[Len(fs) + 1] = f
      /\ \A k \in 1..Len(fs) : gs[k] = fs[k]
  OBVIOUS
<1> HIDE DEF gs
<1>2. Front(gs) \in Seq(Frame) /\ Len(Front(gs)) = Len(fs)
  BY <1>1, FrontFacts
<1>3. \A k \in 1..Len(fs) : Front(gs)[k] = fs[k]
  <2>1. \A k \in 1..(Len(gs) - 1) : Front(gs)[k] = gs[k]
    BY <1>1, FrontFacts
  <2>2. Len(gs) - 1 = Len(fs)
    BY <1>1
  <2> QED BY <1>1, <2>1, <2>2
<1>4. Front(gs) = fs
  BY <1>2, <1>3
<1> QED BY <1>1, <1>4 DEF gs

(* A call: the caller pays for it and the callee begins.                   *)
LEMMA CallFacts ==
    ASSUME frames \in Seq(Frame), sender \in Context, MaySpend, frames # <<>>,
           frames[Top].limit = sender.available,
           NEW i \in Instance, NEW how \in {"call", "delegate"}, NEW back \in Context
    PROVE  LET n == sender.available - (frames[Top].cost + 1)
               f == [code |-> i, how |-> how, cost |-> 0, back |-> back, limit |-> n]
           IN  /\ n \in Nat /\ f \in Frame /\ runCall(i, how, back) = Append(Spent, f)
               /\ Spent[Top].cost = frames[Top].cost + 1
<1>1. frames[Top] \in Frame /\ Top \in Nat /\ Top >= 1 /\ Spent[Top].cost = frames[Top].cost + 1
  BY SpentFacts
<1>2. frames[Top].cost \in Nat /\ frames[Top].limit \in Nat
  BY <1>1, FrameFields
<1>3. sender.available - (frames[Top].cost + 1) \in Nat
  BY <1>2 DEF MaySpend
<1> DEFINE n == sender.available - (frames[Top].cost + 1)
           f == [code |-> i, how |-> how, cost |-> 0, back |-> back, limit |-> n]
<1>4. f \in Frame
  BY <1>3 DEF Frame
<1>5. runCall(i, how, back) = Append(Spent, f)
  BY <1>1 DEF runCall
<1> QED BY <1>1, <1>3, <1>4, <1>5

(* A return: the caller goes on with what is left.                         *)
Popped(n) == [Front(frames) EXCEPT ![Top - 1].limit = n]
(* Those frames, one by one.                                               *)
LEMMA ReturnFacts ==
    ASSUME frames \in Seq(Frame), frames # <<>>, Top # 1,
           NEW n \in Nat, NEW gs, gs = Popped(n)
    PROVE  /\ gs \in Seq(Frame) /\ Len(gs) = Top - 1 /\ Top - 1 \in Nat /\ Top - 1 >= 1
           /\ gs # <<>> /\ gs[Top - 1].limit = n
           /\ \A k \in 1..(Top - 1) : /\ frames[k] \in Frame /\ gs[k].code = frames[k].code
                                      /\ gs[k].how = frames[k].how
                                      /\ gs[k].cost = frames[k].cost
                                      /\ gs[k].back = frames[k].back
<1>1. Top \in Nat /\ Top >= 1 /\ \A k \in 1..Top : frames[k] \in Frame
  BY SpentFacts
<1>2. /\ Front(frames) \in Seq(Frame) /\ Len(Front(frames)) = Top - 1
      /\ \A k \in 1..(Top - 1) : Front(frames)[k] = frames[k]
  BY FrontFacts DEF Top
<1>3. Top - 1 \in 1..(Top - 1) /\ DOMAIN Front(frames) = 1..(Top - 1)
  BY <1>1, <1>2
<1>4. DEFINE g == [frames[Top - 1] EXCEPT !.limit = n]
<1>5. /\ g \in Frame /\ g.limit = n /\ g.code = frames[Top - 1].code
      /\ g.how = frames[Top - 1].how /\ g.cost = frames[Top - 1].cost
      /\ g.back = frames[Top - 1].back
  BY <1>1, <1>3, FrameChanges
<1>6. gs = [Front(frames) EXCEPT ![Top - 1] = g]
  BY <1>2, <1>3 DEF Popped
<1> HIDE DEF g
<1>7. gs = [k \in 1..(Top - 1) |-> IF k = Top - 1 THEN g ELSE frames[k]]
  BY <1>2, <1>3, <1>6
<1>8. ASSUME NEW k \in 1..(Top - 1)
      PROVE  /\ gs[k] \in Frame /\ frames[k] \in Frame /\ gs[k].code = frames[k].code
             /\ gs[k].how = frames[k].how /\ gs[k].cost = frames[k].cost
             /\ gs[k].back = frames[k].back
  <2>1. frames[k] \in Frame
    BY <1>1
  <2>2. gs[k] = IF k = Top - 1 THEN g ELSE frames[k]
    BY <1>7
  <2> QED BY <1>5, <2>1, <2>2
<1>9. gs \in Seq(Frame) /\ Len(gs) = Top - 1
  <2>1. Top - 1 \in Nat
    BY <1>1
  <2>2. gs = [k \in 1..(Top - 1) |-> gs[k]]
    BY <1>7
  <2>3. \A k \in 1..(Top - 1) : gs[k] \in Frame
    BY <1>8
  <2>4. PICK m \in Nat : m = Top - 1
    BY <2>1
  <2>5. gs = [k \in 1..m |-> gs[k]] /\ \A k \in 1..m : gs[k] \in Frame
    BY <2>2, <2>3, <2>4
  <2>6. gs \in [1..m -> Frame]
    BY <2>5
  <2>7. gs \in Seq(Frame) /\ Len(gs) = m
    BY <2>6, SeqIntro
  <2> QED BY <2>4, <2>7
<1>10. gs # <<>> /\ Top - 1 \in Nat /\ Top - 1 >= 1
  <2>1. Top - 1 \in Nat /\ Top - 1 >= 1
    BY <1>1
  <2> QED BY <1>9, <2>1
<1>11. gs[Top - 1].limit = n
  BY <1>3, <1>5, <1>7
<1> QED BY <1>8, <1>9, <1>10, <1>11

-----------------------------------------------------------------------------
(* What a block's hashes do to the balances. *)

Records == [Txn -> [Wallet -> Int]]

(* A child's hash is not a transaction's.                                  *)
LEMMA HashKinds == \A h \in Outcome : h \notin Txn
<1> SUFFICES ASSUME NEW h \in Outcome, h \in Txn PROVE FALSE
  OBVIOUS
<1>1. DOMAIN h = {"child", "ok"}
  BY DEF Outcome
<1>2. DOMAIN h = {"id", "user", "to", "init", "nonce", "approved"}
  BY DistinctAssumption
<1> QED BY <1>1, <1>2

(* What a child's hash adds and takes.                                     *)
LEMMA OutcomeReplay ==
    ASSUME NEW rec, NEW h \in Outcome, NEW w \in Wallet
    PROVE  /\ Added(rec, h, w) = (IF w = Fees THEN ChildFee ELSE 0)
                                    + (IF h.ok /\ w = h.child.to THEN h.child.amount ELSE 0)
           /\ Taken(rec, h, w) = IF w = h.child.payer
                                 THEN ChildFee + (IF h.ok THEN h.child.amount ELSE 0) ELSE 0
           /\ Added(rec, h, w) \in Nat /\ Taken(rec, h, w) \in Nat
<1>1. /\ Added(rec, h, w) = (IF w = Fees THEN ChildFee ELSE 0)
                               + (IF h.ok /\ w = h.child.to THEN h.child.amount ELSE 0)
      /\ Taken(rec, h, w) = IF w = h.child.payer
                            THEN ChildFee + (IF h.ok THEN h.child.amount ELSE 0) ELSE 0
  BY HashKinds DEF Added, Taken
<1>2. ChildFee \in Nat /\ (h.ok => h.child.amount \in Nat)
  BY Constants DEF Outcome, Covered, Goes
<1> QED BY <1>1, <1>2

(* And a transaction's.                                                    *)
LEMMA TxnReplay ==
    ASSUME NEW rec \in Records, NEW t \in Txn, NEW w \in Wallet
    PROVE  /\ Added(rec, t, w) \in Nat /\ Taken(rec, t, w) \in Nat
           /\ Added(rec, t, w) - Taken(rec, t, w) = rec[t][w]
<1>1. rec[t][w] \in Int
  BY DEF Records
<1> QED BY <1>1 DEF Added, Taken

(* A hash leaves balances, and takes all when there is enough.             *)
LEMMA ReplayFacts ==
    ASSUME NEW rec \in Records, NEW b \in Amounts, NEW h \in AnyHash
    PROVE  /\ Replay(rec, b, h) \in Amounts
           /\ \A w \in Wallet : b[w] + Added(rec, h, w) >= Taken(rec, h, w) =>
                 Replay(rec, b, h)[w] = b[w] + Added(rec, h, w) - Taken(rec, h, w)
<1>1. ASSUME NEW w \in Wallet
      PROVE  Added(rec, h, w) \in Nat /\ Taken(rec, h, w) \in Nat /\ b[w] \in Nat
  <2>1. CASE h \in Txn
    BY <2>1, TxnReplay DEF Amounts
  <2>2. CASE h \in Outcome
    BY <2>2, OutcomeReplay DEF Amounts
  <2> QED BY <2>1, <2>2 DEF AnyHash
<1>2. ASSUME NEW w \in Wallet
      PROVE  /\ Replay(rec, b, h)[w] \in Nat
             /\ b[w] + Added(rec, h, w) >= Taken(rec, h, w) =>
                   Replay(rec, b, h)[w] = b[w] + Added(rec, h, w) - Taken(rec, h, w)
  BY <1>1 DEF Replay
<1>3. Replay(rec, b, h) = [w \in Wallet |-> Replay(rec, b, h)[w]]
  BY DEF Replay
<1>4. Replay(rec, b, h) \in Amounts
  BY <1>2, <1>3 DEF Amounts
<1> QED BY <1>2, <1>4

IsReplay(g, rec, b, hs) ==
    g = [s \in SUBSET DOMAIN hs |->
            IF s = {} THEN b ELSE Replay(rec, g[s \ {Max(s)}], hs[Max(s)])]

(* The function behind the fold over a block's hashes.                     *)
LEMMA ReplayExists ==
    ASSUME NEW rec \in Records, NEW b \in Amounts, NEW hs \in Seq(AnyHash)
    PROVE  \E g : IsReplay(g, rec, b, hs)
<1> DEFINE S == DOMAIN hs
           F == [p \in Amounts \X S |-> Replay(rec, p[1], hs[p[2]])]
<1>1. S = 1..Len(hs) /\ Len(hs) \in Nat /\ \A i \in S : hs[i] \in AnyHash
  OBVIOUS
<1>2. Finite(S)
  BY <1>1, FS_Interval DEF Finite
<1> HIDE DEF S
<1>3. F \in [Amounts \X S -> Amounts]
  BY <1>1, ReplayFacts
<1>4. \A x \in Amounts, i \in S : F[<<x, i>>] = Replay(rec, x, hs[i])
  OBVIOUS
<1> HIDE DEF F
<1>5. PICK k : IsFold(k, F, b, S)
  BY <1>2, FoldExists
<1>6. \A s \in SUBSET S : k[s] \in Amounts
  BY <1>2, <1>3, <1>5, FoldType
<1>7. ASSUME NEW s \in SUBSET S, s # {}
      PROVE  F[<<k[s \ {Max(s)}], Max(s)>>] = Replay(rec, k[s \ {Max(s)}], hs[Max(s)])
  <2>1. Max(s) \in S
    BY <1>2, <1>7, MaxIn, FS_Subset DEF Finite
  <2>2. k[s \ {Max(s)}] \in Amounts
    BY <1>6
  <2> QED BY <1>4, <2>1, <2>2
<1>8. k = [s \in SUBSET S |-> IF s = {} THEN b ELSE F[<<k[s \ {Max(s)}], Max(s)>>]]
  BY <1>5 DEF IsFold
<1>9. k = [s \in SUBSET S |-> IF s = {} THEN b
              ELSE Replay(rec, k[s \ {Max(s)}], hs[Max(s)])]
  BY <1>7, <1>8
<1> QED BY <1>9 DEF IsReplay, S

(* The hashes are taken one after the other: g[i] are the balances after   *)
(* the first i.                                                            *)
IsPath(g, rec, b, hs) ==
    /\ g \in [0..Len(hs) -> Amounts]
    /\ g[0] = b
    /\ \A i \in 1..Len(hs) : g[i] = Replay(rec, g[i - 1], hs[i])
(* There are such balances, one hash after the other, and the last are the *)
(* outcome of the fold.                                                    *)
LEMMA ReplayPath ==
    ASSUME NEW rec \in Records, NEW b \in Amounts, NEW hs \in Seq(AnyHash)
    PROVE  \E g : IsPath(g, rec, b, hs) /\ add_temp_wallet_balance(rec, b, hs) = g[Len(hs)]
<1> DEFINE S == DOMAIN hs
           P(k) == k = [s \in SUBSET DOMAIN hs |->
                IF s = {} THEN b ELSE Replay(rec, k[s \ {Max(s)}], hs[Max(s)])]
           k0 == CHOOSE k : P(k)
<1>1. S = 1..Len(hs) /\ Len(hs) \in Nat /\ \A i \in S : hs[i] \in AnyHash
  OBVIOUS
<1>2. add_temp_wallet_balance(rec, b, hs) = k0[DOMAIN hs]
  BY DEF add_temp_wallet_balance, FoldLeft, MapThenFoldSet
<1>3. P(k0)
  BY ReplayExists DEF IsReplay
<1> HIDE DEF k0
<1>4. \A s \in SUBSET S : k0[s] = IF s = {} THEN b ELSE Replay(rec, k0[s \ {Max(s)}], hs[Max(s)])
  BY <1>3
<1> DEFINE g == [i \in 0..Len(hs) |-> k0[1..i]]
<1> HIDE DEF S, P
<1>5. g[0] = b
  <2>1. 1..0 = {} /\ 0 \in 0..Len(hs)
    BY <1>1
  <2>2. k0[1..0] = b
    BY <1>4, <2>1
  <2> QED BY <2>1, <2>2
<1>6. ASSUME NEW i \in 1..Len(hs)
      PROVE  g[i] = Replay(rec, g[i - 1], hs[i])
  <2>1. 1..i \in SUBSET S /\ i - 1 \in 0..Len(hs) /\ i \in 0..Len(hs)
    BY <1>1
  <2>2. k0[1..i] = Replay(rec, k0[1..(i - 1)], hs[i])
    <3>1. Max(1..i) = i /\ (1..i) \ {i} = 1..(i - 1) /\ 1..i # {}
      <4>1. i \in Nat /\ i # 0
        BY <1>1
      <4> QED BY <4>1, PrefixMax
    <3> QED BY <1>4, <2>1, <3>1
  <2> QED BY <2>1, <2>2
<1>7. g \in [0..Len(hs) -> Amounts]
  <2>0. DOMAIN g = 0..Len(hs) /\ g = [i \in 0..Len(hs) |-> g[i]]
    OBVIOUS
  <2> HIDE DEF g
  <2> DEFINE T == {i \in 0..Len(hs) : g[i] \in Amounts}
  <2>1. 0 \in T
    BY <1>1, <1>5
  <2>2. ASSUME NEW i \in 1..Len(hs), i - 1 \in T PROVE i \in T
    <3>1. g[i - 1] \in Amounts /\ hs[i] \in AnyHash /\ i \in 0..Len(hs)
      BY <1>1, <2>2
    <3>2. g[i] \in Amounts
      BY <1>6, <3>1, ReplayFacts
    <3> QED BY <3>1, <3>2
  <2> HIDE DEF T
  <2>3. 0..Len(hs) \subseteq T
    BY <1>1, <2>1, <2>2, PrefixInduction
  <2> QED BY <2>0, <2>3 DEF T
<1>8. k0[DOMAIN hs] = g[Len(hs)]
  BY <1>1 DEF S
<1> HIDE DEF g
<1>9. IsPath(g, rec, b, hs)
  BY <1>5, <1>6, <1>7 DEF IsPath
<1> QED BY <1>2, <1>8, <1>9

(* Two paths agree as far as their hashes and records do.                  *)
LEMMA PathsAgree ==
    ASSUME NEW rec \in Records, NEW rec2 \in Records, NEW b \in Amounts,
           NEW hs \in Seq(AnyHash), NEW hs2 \in Seq(AnyHash), NEW g, NEW h,
           IsPath(g, rec, b, hs), IsPath(h, rec2, b, hs2), NEW n \in Nat,
           n <= Len(hs), n <= Len(hs2), \A i \in 1..n : hs[i] = hs2[i],
           \A i \in 1..n : hs[i] \in Txn => rec[hs[i]] = rec2[hs[i]]
    PROVE  g[n] = h[n]
<1> DEFINE T == {i \in 0..n : g[i] = h[i]}
<1>1. 0 \in T
  BY DEF IsPath
<1>2. ASSUME NEW i \in 1..n, i - 1 \in T PROVE i \in T
  <2>1. i \in 1..Len(hs) /\ i \in 1..Len(hs2) /\ g[i - 1] = h[i - 1]
    BY <1>2
  <2>2. g[i] = Replay(rec, g[i - 1], hs[i]) /\ h[i] = Replay(rec2, h[i - 1], hs2[i])
    BY <2>1 DEF IsPath
  <2>3. hs[i] = hs2[i] /\ (hs[i] \in Txn => rec[hs[i]] = rec2[hs[i]])
    OBVIOUS
  <2>4. Replay(rec, g[i - 1], hs[i]) = Replay(rec2, g[i - 1], hs[i])
    BY <2>3 DEF Replay, Added, Taken
  <2> QED BY <2>1, <2>2, <2>3, <2>4
<1> HIDE DEF T
<1>3. 0..n \subseteq T
  BY <1>1, <1>2, PrefixInduction
<1> QED BY <1>3 DEF T

(* Balances remain balances, and no hash changes none.                     *)
LEMMA ReplayType ==
    ASSUME NEW rec \in Records, NEW b \in Amounts, NEW hs \in Seq(AnyHash)
    PROVE  /\ add_temp_wallet_balance(rec, b, hs) \in Amounts
           /\ hs = <<>> => add_temp_wallet_balance(rec, b, hs) = b
<1>1. PICK g : IsPath(g, rec, b, hs) /\ add_temp_wallet_balance(rec, b, hs) = g[Len(hs)]
  BY ReplayPath
<1>2. Len(hs) \in Nat /\ Len(hs) \in 0..Len(hs)
  OBVIOUS
<1>3. g[Len(hs)] \in Amounts /\ g[0] = b
  BY <1>1, <1>2 DEF IsPath
<1>4. hs = <<>> => Len(hs) = 0
  OBVIOUS
<1> QED BY <1>1, <1>3, <1>4

(* Only the records of the hashes count.                                   *)
LEMMA ReplaySame ==
    ASSUME NEW rec \in Records, NEW rec2 \in Records, NEW b \in Amounts,
           NEW hs \in Seq(AnyHash), \A t \in Txn \cap ToSet(hs) : rec[t] = rec2[t]
    PROVE  add_temp_wallet_balance(rec, b, hs) = add_temp_wallet_balance(rec2, b, hs)
<1>1. PICK g : IsPath(g, rec, b, hs) /\ add_temp_wallet_balance(rec, b, hs) = g[Len(hs)]
  BY ReplayPath
<1>2. PICK h : IsPath(h, rec2, b, hs) /\ add_temp_wallet_balance(rec2, b, hs) = h[Len(hs)]
  BY ReplayPath
<1>3. \A i \in 1..Len(hs) : hs[i] \in Txn => rec[hs[i]] = rec2[hs[i]]
  BY DEF ToSet
<1>4. Len(hs) \in Nat
  OBVIOUS
<1>5. g[Len(hs)] = h[Len(hs)]
  BY <1>1, <1>2, <1>3, <1>4, PathsAgree
<1> QED BY <1>1, <1>2, <1>5

(* The last hash is replayed last.                                         *)
LEMMA ReplayAppend ==
    ASSUME NEW rec \in Records, NEW b \in Amounts, NEW hs \in Seq(AnyHash), NEW x \in AnyHash
    PROVE  add_temp_wallet_balance(rec, b, Append(hs, x))
              = Replay(rec, add_temp_wallet_balance(rec, b, hs), x)
<1> DEFINE hs2 == Append(hs, x)
           n == Len(hs)
<1>1. /\ hs2 \in Seq(AnyHash) /\ n \in Nat /\ Len(hs2) = n + 1 /\ hs2[n + 1] = x
      /\ \A i \in 1..n : hs[i] = hs2[i]
  OBVIOUS
<1>2. PICK g : IsPath(g, rec, b, hs) /\ add_temp_wallet_balance(rec, b, hs) = g[n]
  BY ReplayPath
<1> HIDE DEF hs2
<1>3. PICK h : IsPath(h, rec, b, hs2) /\ add_temp_wallet_balance(rec, b, hs2) = h[Len(hs2)]
  BY <1>1, ReplayPath
<1>4. n <= Len(hs2)
  BY <1>1
<1>5. g[n] = h[n]
  BY <1>1, <1>2, <1>3, <1>4, PathsAgree
<1>6. h[n + 1] = Replay(rec, h[n], x)
  <2>1. n + 1 \in 1..Len(hs2) /\ (n + 1) - 1 = n
    BY <1>1
  <2> QED BY <1>1, <1>3, <2>1 DEF IsPath
<1> QED BY <1>1, <1>2, <1>3, <1>5, <1>6 DEF hs2

(* What an appended member adds to the set of a sequence.                  *)
LEMMA SetAppend ==
    ASSUME NEW S, NEW cs \in Seq(S), NEW x \in S
    PROVE  ToSet(Append(cs, x)) = ToSet(cs) \cup {x}
<1>1. DOMAIN Append(cs, x) = 1..(Len(cs) + 1) /\ DOMAIN cs = 1..Len(cs) /\ Len(cs) \in Nat
  OBVIOUS
<1>2. \A i \in 1..Len(cs) : Append(cs, x)[i] = cs[i]
  OBVIOUS
<1>3. Append(cs, x)[Len(cs) + 1] = x /\ Len(cs) + 1 \in 1..(Len(cs) + 1)
  BY <1>1
<1>4. \A i \in 1..(Len(cs) + 1) : i \in 1..Len(cs) \/ i = Len(cs) + 1
  BY <1>1
<1>5. ASSUME NEW y \in ToSet(Append(cs, x)) PROVE y \in ToSet(cs) \cup {x}
  BY <1>1, <1>2, <1>3, <1>4 DEF ToSet
<1>6. ASSUME NEW y \in ToSet(cs) PROVE y \in ToSet(Append(cs, x))
  <2>1. PICK i \in 1..Len(cs) : y = cs[i]
    BY <1>1 DEF ToSet
  <2>2. y = Append(cs, x)[i] /\ i \in 1..(Len(cs) + 1)
    BY <1>1, <1>2, <2>1
  <2> QED BY <1>1, <2>2 DEF ToSet
<1>7. x \in ToSet(Append(cs, x))
  BY <1>1, <1>3 DEF ToSet
<1> QED BY <1>5, <1>6, <1>7

(* The hashes of an execution join those of the block.                     *)
LEMMA HashesJoin ==
    ASSUME NEW hs \in Seq(AnyHash), NEW cs \in Seq(Outcome)
    PROVE  hs \o cs \in Seq(AnyHash) /\ ToSet(hs \o cs) = ToSet(hs) \cup ToSet(cs)
<1>1. cs \in Seq(AnyHash)
  BY DEF AnyHash
<1>2. hs \o cs \in Seq(AnyHash)
  BY <1>1
<1>3. ToSet(hs \o cs) = ToSet(hs) \cup ToSet(cs)
  <2>1. DOMAIN (hs \o cs) = 1..(Len(hs) + Len(cs)) /\ DOMAIN hs = 1..Len(hs)
        /\ DOMAIN cs = 1..Len(cs) /\ Len(hs) \in Nat /\ Len(cs) \in Nat
    BY <1>1
  <2>2. ASSUME NEW y \in ToSet(hs \o cs) PROVE y \in ToSet(hs) \cup ToSet(cs)
    <3>1. PICK i \in 1..(Len(hs) + Len(cs)) : y = (hs \o cs)[i]
      BY <2>1 DEF ToSet
    <3>2. CASE i <= Len(hs)
      BY <1>1, <2>1, <3>1, <3>2 DEF ToSet
    <3>3. CASE i > Len(hs)
      <4>1. y = cs[i - Len(hs)] /\ i - Len(hs) \in 1..Len(cs)
        BY <1>1, <2>1, <3>1, <3>3
      <4> QED BY <2>1, <4>1 DEF ToSet
    <3> QED BY <2>1, <3>2, <3>3
  <2>3. ASSUME NEW y \in ToSet(hs) PROVE y \in ToSet(hs \o cs)
    <3>1. PICK i \in 1..Len(hs) : y = hs[i]
      BY <2>1 DEF ToSet
    <3>2. y = (hs \o cs)[i] /\ i \in 1..(Len(hs) + Len(cs))
      BY <1>1, <2>1, <3>1
    <3> QED BY <2>1, <3>2 DEF ToSet
  <2>4. ASSUME NEW y \in ToSet(cs) PROVE y \in ToSet(hs \o cs)
    <3>1. PICK i \in 1..Len(cs) : y = cs[i]
      BY <2>1 DEF ToSet
    <3>2. y = (hs \o cs)[Len(hs) + i] /\ Len(hs) + i \in 1..(Len(hs) + Len(cs))
      BY <1>1, <2>1, <3>1
    <3> QED BY <2>1, <3>2 DEF ToSet
  <2> QED BY <2>2, <2>3, <2>4
<1> QED BY <1>2, <1>3

(* A hash more of the execution is the last.                               *)
LEMMA HashesAppend ==
    ASSUME NEW hs \in Seq(AnyHash), NEW cs \in Seq(Outcome), NEW x \in Outcome
    PROVE  /\ hs \o cs \in Seq(AnyHash) /\ x \in AnyHash
           /\ hs \o Append(cs, x) = Append(hs \o cs, x)
           /\ ToSet(Append(cs, x)) = ToSet(cs) \cup {x}
<1>1. cs \in Seq(AnyHash) /\ x \in AnyHash
  BY DEF AnyHash
<1>2. hs \o cs \in Seq(AnyHash)
  BY <1>1
<1>3. hs \o Append(cs, x) = Append(hs \o cs, x)
  <2> DEFINE a == hs \o Append(cs, x)
             c == Append(hs \o cs, x)
             n == Len(hs) + Len(cs) + 1
  <2>1. n \in Nat /\ a \in Seq(AnyHash) /\ c \in Seq(AnyHash) /\ Len(a) = n /\ Len(c) = n
    BY <1>1
  <2>2. ASSUME NEW i \in 1..n PROVE a[i] = c[i]
    <3>1. CASE i <= Len(hs)
      BY <1>1, <3>1
    <3>2. CASE i > Len(hs) /\ i <= Len(hs) + Len(cs)
      BY <1>1, <3>2
    <3>3. CASE i = n
      BY <1>1, <3>3
    <3> QED BY <3>1, <3>2, <3>3
  <2> HIDE DEF a, c, n
  <2>3. a = c
    BY <2>1, <2>2
  <2> QED BY <2>3 DEF a, c
<1>4. ToSet(Append(cs, x)) = ToSet(cs) \cup {x}
  BY SetAppend
<1> QED BY <1>1, <1>2, <1>3, <1>4

-----------------------------------------------------------------------------
(* On whose behalf contracts act. *)

(* There is one frame on whose behalf the one on top runs.                 *)
LEMMA BehalfIs ==
    ASSUME frames \in Seq(Frame), NEW b, OnBehalf(frames, Top, b)
    PROVE  Behalf = b
<1>1. Top \in Nat
  BY DEF Top
<1> DEFINE P(k) == frames[k].how # "delegate" /\ \A l \in k + 1 .. Top : frames[l].how = "delegate"
<1>2. b \in 1..Top /\ P(b)
  BY DEF OnBehalf
<1>3. ASSUME NEW c \in 1..Top, P(c) PROVE c = b
  <2>1. CASE c < b
    BY <1>1, <1>2, <1>3, <2>1
  <2>2. CASE c > b
    BY <1>1, <1>2, <1>3, <2>2
  <2> QED BY <1>1, <1>2, <2>1, <2>2
<1>4. Behalf = CHOOSE k \in 1..Top : P(k)
  BY DEF Behalf
<1> HIDE DEF P
<1> QED BY <1>2, <1>3, <1>4

(* The context names the contracts it acts for.                            *)
LEMMA AuthorityHas ==
    ASSUME MachineTyping, GasInv, StackInv, phase = "running"
    PROVE  /\ sender.called \in Instance /\ sender.called \in Authority
           /\ sender.current \in Instance /\ sender.current \in Authority
           /\ \A w \in ToSet(sender.chain) : w \in Instance /\ w \in Authority
           /\ sender.wallet \in Address
           /\ sender.wallet = NoWallet \/ sender.wallet \in Authority
           /\ Authority \in SUBSET Wallet
           /\ sender.payer = txn.to /\ txn \in Txn
<1>1. frames \in Seq(Frame) /\ frames # <<>> /\ sender \in Context /\ txn \in Txn
  BY DEF MachineTyping, GasInv
<1>2. Top \in Nat /\ Top >= 1 /\ \A k \in 1..Top : frames[k] \in Frame /\ frames[k].code \in Instance
  BY <1>1, SpentFacts, FrameFields
<1>3. PICK b \in 1..Top :
        /\ OnBehalf(frames, Top, b)
        /\ sender.current = frames[Top].code /\ sender.called = frames[b].code
        /\ sender.payer = txn.to
        /\ Len(sender.chain) = Top - b + 1
        /\ \A l \in 1 .. Top - b + 1 : sender.chain[l] = frames[b + l - 1].code
        /\ sender.wallet = IF b = 1 THEN txn.user ELSE NoWallet
  BY DEF StackInv, Matches
<1>4. Behalf = b
  BY <1>1, <1>3, BehalfIs
<1>5. Authority = {frames[k].code : k \in b..Top} \cup (IF b = 1 THEN {txn.user} ELSE {})
  BY <1>4 DEF Authority
<1>6. sender.called \in Instance /\ sender.called \in Authority
  <2>1. b \in b..Top
    BY <1>2
  <2> QED BY <1>2, <1>3, <1>5, <2>1
<1>7. sender.current \in Instance /\ sender.current \in Authority
  <2>1. Top \in b..Top /\ Top \in 1..Top
    BY <1>2
  <2> QED BY <1>2, <1>3, <1>5, <2>1
<1>8. ASSUME NEW w \in ToSet(sender.chain)
      PROVE  w \in Instance /\ w \in Authority
  <2>1. PICK l \in 1..Len(sender.chain) : w = sender.chain[l]
    BY <1>1, ContextFields DEF ToSet
  <2>2. w = frames[b + l - 1].code /\ b + l - 1 \in b..Top /\ b + l - 1 \in 1..Top
    BY <1>2, <1>3, <2>1
  <2> QED BY <1>2, <1>5, <2>2
<1>9. sender.wallet \in Address
  BY <1>1, ContextFields
<1>10. sender.wallet = NoWallet \/ sender.wallet \in Authority
  BY <1>3, <1>5
<1>11. Authority \in SUBSET Wallet
  <2>1. \A k \in b..Top : frames[k].code \in Wallet
    BY <1>2, Constants
  <2> QED BY <1>1, <1>5, <2>1, Constants
<1> QED BY <1>1, <1>3, <1>6, <1>7, <1>8, <1>9, <1>10, <1>11

-----------------------------------------------------------------------------
(* What a step does. *)

(* A host function at work: the gas is charged and the machine goes on.    *)
Works ==
    /\ MaySpend /\ frames' = Spent
    /\ UNCHANGED <<phase, txn, sender, instances, balance, stored, waiting, used, block, restarts,
                   history>>

(* A child is created: it fits, is paid by one the code acts for, and its  *)
(* hash and nonce are noted.                                               *)
Creates(h) ==
    /\ Fits(h.child) /\ h.child.payer \in Authority /\ h.child.payer \in Wallet
    /\ h.ok => running[h.child.payer] >= ChildFee + h.child.amount
    /\ running' = Move(running, h.child, h.ok)
    /\ nonce' = [nonce EXCEPT ![h.child.payer] = h.child.nonce]
    /\ children' = children \cup
                      {[child |-> h.child, ok |-> h.ok, authority |-> Authority]}
    /\ sc'.hashes = Append(sc.hashes, h) /\ sc' \in [hashes : Seq(Outcome), nonces : Amounts]
    /\ UNCHANGED <<store, saved, due, record>>

(* Nothing is created.                                                     *)
CreatesNone ==
    UNCHANGED <<running, nonce, children, sc, store, saved, due, record>>

(* A child, from its parts.                                                *)
LEMMA ChildParts ==
    ASSUME NEW type \in {"coin", "other"}, NEW p \in Address, NEW n \in Nat,
           NEW to \in Address, NEW a \in Int
    PROVE  LET c == Child(type, p, n, to, a)
           IN  c \in ChildRec /\ c.payer = p /\ c.amount = a /\ c.to = to
BY DEF Child, ChildRec

(* A willing recipient of an amount that is a number, or one that is not   *)
(* willing: what a host function that creates a child does.                *)
LEMMA ProcessFacts ==
    ASSUME MachineTyping, BlockTyping, GasInv, StackInv, MaySpend,
           NEW c \in ChildRec, NEW note \in Nat,
           c.payer = NoWallet \/ c.payer \in Authority,
           \/ Process(c, TRUE, note) /\ Goes(c)
           \/ Process(c, FALSE, note)
    PROVE  Works /\ (CreatesNone \/ \E h \in Outcome : Creates(h))
<1>1. phase = "running"
  BY DEF MaySpend
<1>2. Works
  BY DEF Works, Process
<1>3. CASE ~ Fits(c)
  <2>1. UNCHANGED <<running, nonce, children, sc>>
    <3>1. CASE Process(c, TRUE, note)
      BY <1>3, <3>1 DEF Process
    <3>2. CASE Process(c, FALSE, note)
      BY <1>3, <3>2 DEF Process
    <3> QED BY <3>1, <3>2
  <2>2. UNCHANGED <<store, saved, due, record>>
    BY DEF Process
  <2> QED BY <1>2, <2>1, <2>2 DEF CreatesNone
<1>4. CASE Fits(c)
  <2>1. c.payer \in Authority /\ c.payer \in Wallet
    BY <1>1, <1>4, AuthorityHas DEF Fits
  <2>2. PICK ok \in BOOLEAN :
          /\ ok => Goes(c) /\ running[c.payer] >= ChildFee + c.amount
          /\ running' = Move(running, c, ok)
          /\ children' = children \cup {[child |-> c, ok |-> ok, authority |-> Authority]}
          /\ sc' = [hashes |-> Append(sc.hashes, [child |-> c, ok |-> ok]),
                    nonces |-> [sc.nonces EXCEPT ![sender.called] = IF @ < note THEN note ELSE @]]
    <3>1. CASE Process(c, TRUE, note) /\ Goes(c)
      <4> DEFINE o == running[c.payer] >= ChildFee + c.amount
      <4>1. o \in BOOLEAN
        OBVIOUS
      <4> QED BY <1>4, <3>1, <4>1 DEF Process
    <3>2. CASE Process(c, FALSE, note)
      BY <1>4, <3>2 DEF Process
    <3> QED BY <3>1, <3>2
  <2>3. nonce' = [nonce EXCEPT ![c.payer] = c.nonce]
    BY <1>4 DEF Process, note_nonce
  <2>4. UNCHANGED <<store, saved, due, record>>
    BY DEF Process
  <2> DEFINE h == [child |-> c, ok |-> ok]
  <2>5. h \in Outcome /\ h.child = c /\ h.ok = ok
    BY <2>1, <2>2 DEF Outcome, Covered
  <2>6. sc' \in [hashes : Seq(Outcome), nonces : Amounts] /\ sc'.hashes = Append(sc.hashes, h)
    <3>1. sc.hashes \in Seq(Outcome) /\ sc.nonces \in Amounts
      BY DEF MachineTyping
    <3>2. Append(sc.hashes, h) \in Seq(Outcome)
      BY <2>5, <3>1
    <3>3. [sc.nonces EXCEPT ![sender.called] = IF @ < note THEN note ELSE @] \in Amounts
      BY <3>1 DEF Amounts
    <3> HIDE DEF h
    <3> QED BY <2>2, <3>2, <3>3 DEF h
  <2> HIDE DEF h
  <2>7. Creates(h)
    BY <1>4, <2>1, <2>2, <2>3, <2>4, <2>5, <2>6 DEF Creates
  <2> QED BY <1>2, <2>5, <2>7
<1> QED BY <1>2, <1>3, <1>4

(* The wallets a host function may take from, and the next nonce of each.  *)
Payers == {sender.called, sender.current, sender.wallet} \cup ToSet(sender.chain)
(* Each is one the code acts for, or none.                                 *)
LEMMA PayerFacts ==
    ASSUME MachineTyping, BlockTyping, GasInv, StackInv, MaySpend, NEW w \in Payers
    PROVE  /\ w \in Address /\ (w = NoWallet \/ w \in Authority)
           /\ NextNonce(w) \in Nat
           /\ w \in Wallet => running[w] - ChildFee \in Int
<1>1. phase = "running"
  BY DEF MaySpend
<1>2. w \in Address /\ (w = NoWallet \/ w \in Authority)
  BY <1>1, AuthorityHas, Constants DEF Payers, Address
<1>3. NextNonce(w) \in Nat
  BY <1>2 DEF NextNonce, Address, BlockTyping, Amounts
<1>4. w \in Wallet => running[w] - ChildFee \in Int
  BY Constants DEF BlockTyping, Amounts
<1> QED BY <1>2, <1>3, <1>4

(* A child is paid from one of those wallets, with some nonce.             *)
LEMMA ChildMade ==
    ASSUME MachineTyping, BlockTyping, GasInv, StackInv, MaySpend, NEW w \in Payers,
           NEW type \in {"coin", "other"}, NEW n \in Nat, NEW to \in Address, NEW a \in Int,
           NEW note \in Nat,
           \/ /\ Process(Child(type, w, n, to, a), TRUE, note)
              /\ a \in Nat /\ (to \in Wallet \/ a = 0)
           \/ Process(Child(type, w, n, to, a), FALSE, note)
    PROVE  Works /\ (CreatesNone \/ \E h \in Outcome : Creates(h))
<1> DEFINE c == Child(type, w, n, to, a)
<1>1. w \in Address /\ (w = NoWallet \/ w \in Authority)
  BY PayerFacts
<1>2. c \in ChildRec /\ c.payer = w /\ c.amount = a /\ c.to = to
  BY <1>1, ChildParts
<1> HIDE DEF c
<1>3. c.payer = NoWallet \/ c.payer \in Authority
  BY <1>1, <1>2
<1>4. \/ Process(c, TRUE, note) /\ Goes(c)
      \/ Process(c, FALSE, note)
  BY <1>2 DEF c, Goes
<1> QED BY <1>2, <1>3, <1>4, ProcessFacts

(* Payments.                                                               *)
LEMMA PaymentCreates ==
    ASSUME MachineTyping, BlockTyping, GasInv, StackInv, MaySpend, Payment
    PROVE  Works /\ (CreatesNone \/ \E h \in Outcome : Creates(h))
<1>1. phase = "running"
  BY DEF MaySpend
<1>2. /\ sender.called \in Payers /\ sender.current \in Payers /\ sender.wallet \in Payers
      /\ ToSet(sender.chain) \subseteq Payers
  BY DEF Payers
<1>3. /\ sender.called \in Address /\ sender.current \in Address
      /\ sender.called \in Wallet /\ sender.current \in Wallet
      /\ \A w \in ToSet(sender.chain) : w \in Wallet
  BY <1>1, AuthorityHas, Constants DEF Address
<1>4. \A to \in Payee : to \in Address /\ to \in Wallet
  BY Constants DEF Address
<1>5. 0 \in Nat /\ 1 \in Nat /\ 1 \in Int
  OBVIOUS
<1>6. /\ running[sender.called] - ChildFee \in Int /\ running[sender.current] - ChildFee \in Int
      /\ \A w \in ToSet(sender.chain) : running[w] - ChildFee \in Int
  BY <1>2, <1>3, PayerFacts
<1>7. \A w \in Payers : NextNonce(w) \in Nat
  BY PayerFacts
<1>8. ASSUME NEW to \in Payee, SendAll(to)
      PROVE  Works /\ (CreatesNone \/ \E h \in Outcome : Creates(h))
  <2> DEFINE a == running[sender.called] - ChildFee
  <2>1. a > 0 /\ Process(Child("coin", sender.called, NextNonce(sender.called), to, a), TRUE, 0)
    BY <1>8 DEF SendAll
  <2>2. a \in Int /\ a \in Nat
    BY <1>6, <2>1
  <2> HIDE DEF a
  <2> QED BY <1>2, <1>4, <1>5, <1>7, <2>1, <2>2, ChildMade
<1>9. ASSUME NEW to \in Payee, DelegateSendAll(to)
      PROVE  Works /\ (CreatesNone \/ \E h \in Outcome : Creates(h))
  <2>1. PICK w \in ToSet(sender.chain) :
          Process(Child("coin", w, NextNonce(w), to, running[w] - ChildFee), FALSE, 0)
    BY <1>9 DEF DelegateSendAll
  <2> QED BY <1>2, <1>4, <1>5, <1>6, <1>7, <2>1, ChildMade
<1>10. ASSUME NEW to \in Payee, CurrentSendAll(to)
       PROVE  Works /\ (CreatesNone \/ \E h \in Outcome : Creates(h))
  BY <1>2, <1>4, <1>5, <1>6, <1>10, ChildMade DEF CurrentSendAll
<1>11. ASSUME NEW to \in Payee, Send(to, 1)
       PROVE  Works /\ (CreatesNone \/ \E h \in Outcome : Creates(h))
  BY <1>2, <1>4, <1>5, <1>7, <1>11, ChildMade DEF Send
<1>12. ASSUME NEW to \in Payee, DelegateSend(to, 1)
       PROVE  Works /\ (CreatesNone \/ \E h \in Outcome : Creates(h))
  <2>1. PICK w \in ToSet(sender.chain) : Process(Child("coin", w, NextNonce(w), to, 1), TRUE, 0)
    BY <1>12 DEF DelegateSend
  <2> QED BY <1>2, <1>4, <1>5, <1>7, <2>1, ChildMade
<1>13. ASSUME NEW to \in Payee, CurrentSend(to, 1)
       PROVE  Works /\ (CreatesNone \/ \E h \in Outcome : Creates(h))
  BY <1>2, <1>4, <1>5, <1>13, ChildMade DEF CurrentSend
<1>14. ASSUME NEW to \in Wallet, Transfer(to, 1)
       PROVE  Works /\ (CreatesNone \/ \E h \in Outcome : Creates(h))
  BY <1>2, <1>5, <1>7, <1>14, ChildMade DEF Transfer, Address
<1>15. CASE Hold(1) \/ CurrentHold(1)
  BY <1>3, <1>14, <1>15 DEF Hold, CurrentHold
<1> QED BY <1>4, <1>8, <1>9, <1>10, <1>11, <1>12, <1>13, <1>14, <1>15 DEF Payment

(* Children with a nonce of their own.                                     *)
LEMMA OwnCreates ==
    ASSUME MachineTyping, BlockTyping, GasInv, StackInv, MaySpend, NEW w \in Payers,
           NEW b \in BOOLEAN, Own(w, b)
    PROVE  Works /\ (CreatesNone \/ \E h \in Outcome : Creates(h))
<1>1. NoWallet \in Address /\ 0 \in Nat /\ 0 \in Int /\ NextNonce(w) \in Nat
  BY PayerFacts DEF Address
<1>2. CASE b = TRUE
  <2>1. Process(Child("other", w, NextNonce(w), NoWallet, 0), TRUE, NextNonce(w))
    BY <1>2 DEF Own
  <2> QED BY <1>1, <2>1, ChildMade
<1>3. CASE b = FALSE
  <2>1. Process(Child("other", w, NextNonce(w), NoWallet, 0), FALSE, NextNonce(w))
    BY <1>3 DEF Own
  <2> QED BY <1>1, <2>1, ChildMade
<1> QED BY <1>2, <1>3

(* The other children.                                                     *)
LEMMA AuthorisedCreates ==
    ASSUME MachineTyping, BlockTyping, GasInv, StackInv, MaySpend, Authorised
    PROVE  Works /\ (CreatesNone \/ \E h \in Outcome : Creates(h))
<1>1. /\ sender.called \in Payers /\ sender.current \in Payers /\ sender.wallet \in Payers
      /\ ToSet(sender.chain) \subseteq Payers
  BY DEF Payers
<1>2. NoWallet \in Address /\ 0 \in Nat /\ 0 \in Int
  BY DEF Address
<1>3. ASSUME NEW b \in BOOLEAN,
             \/ Mint(b) \/ DelegateMint(b) \/ CurrentMint(b) \/ Vote(b)
             \/ Allowance(b) \/ AllowanceSender(b) \/ AuthorizedCurrencyEquiv(b)
      PROVE  Works /\ (CreatesNone \/ \E h \in Outcome : Creates(h))
  <2>1. \E w \in Payers : Own(w, b)
    BY <1>1, <1>3 DEF Mint, DelegateMint, CurrentMint, Vote, Allowance, AllowanceSender,
                      AuthorizedCurrencyEquiv
  <2> QED BY <2>1, OwnCreates
<1>4. CASE AllowanceCurrent
  BY <1>1, <1>2, <1>4, ChildMade DEF AllowanceCurrent
<1>5. CASE AllowanceDelegate
  <2>1. PICK w \in ToSet(sender.chain) : Process(Child("other", w, 0, NoWallet, 0), TRUE, 0)
    BY <1>5 DEF AllowanceDelegate
  <2> QED BY <1>1, <1>2, <2>1, ChildMade
<1>6. CASE ExpenseRatio
  <2>1. Own(sender.called, TRUE)
    BY <1>6 DEF ExpenseRatio
  <2> QED BY <1>1, <2>1, OwnCreates
<1> QED BY <1>3, <1>4, <1>5, <1>6 DEF Authorised

(* State is written and storage charged, or neither.                       *)
Charges(n) ==
    /\ n <= running[txn.to]
    /\ running' = [running EXCEPT ![txn.to] = @ - n]
    /\ due' = [due EXCEPT ![txn.to] = @ + n]
    /\ record' = [record EXCEPT ![txn][txn.to] = @ - n]
Saves(v) ==
    /\ saved' = Save(sender.current)
    /\ store' = [store EXCEPT ![sender.current] = v]
Writes ==
    /\ UNCHANGED <<nonce, children, sc>>
    /\ UNCHANGED <<running, due, record>> \/ \E n \in Nat : Charges(n)
    /\ UNCHANGED <<store, saved>> \/ \E v \in Stored : Saves(v)

(* What the host functions that are no calls do.                           *)
LEMMA WritesState ==
    ASSUME MachineTyping, GasInv, StackInv,
           Query \/ (\E v \in Value : StoreState(v)) \/ ClearState \/ Emit
    PROVE  Works /\ Writes
<1>1. phase = "running"
  BY DEF Query, StoreState, ClearState, Emit, MaySpend
<1>2. sender.payer = txn.to
  BY <1>1, AuthorityHas
<1>3. ASSUME NEW n \in Nat, storage_fees(n) PROVE Charges(n)
  BY <1>2, <1>3 DEF storage_fees, Charges
<1>4. CASE Query
  BY <1>4 DEF Query, Works, Writes, databases
<1>5. ASSUME NEW v \in Value, StoreState(v) PROVE Works /\ Writes
  <2>1. Works
    BY <1>5 DEF StoreState, Works
  <2>2. Saves(v) /\ v \in Stored /\ UNCHANGED <<nonce, children, sc>>
    BY <1>5 DEF StoreState, Saves, Stored
  <2>3. \E n \in Nat : storage_fees(n)
    <3>1. 0 \in Nat /\ StorageFee \in Nat
      BY Constants
    <3> QED BY <1>5, <3>1 DEF StoreState
  <2> QED BY <1>3, <2>1, <2>2, <2>3 DEF Writes
<1>6. CASE ClearState
  <2>1. Works
    BY <1>6 DEF ClearState, Works
  <2>2. Saves(NoKey) /\ NoKey \in Stored /\ UNCHANGED <<nonce, children, sc, running, due, record>>
    BY <1>6 DEF ClearState, Saves, Stored
  <2> QED BY <2>1, <2>2 DEF Writes
<1>7. CASE Emit
  <2>1. Works
    BY <1>7 DEF Emit, Works
  <2>2. storage_fees(StorageFee) /\ UNCHANGED <<nonce, children, sc, store, saved>>
    BY <1>7 DEF Emit
  <2>3. StorageFee \in Nat
    BY Constants
  <2> QED BY <1>3, <2>1, <2>2, <2>3 DEF Writes
<1> QED BY <1>4, <1>5, <1>6, <1>7

(* The steps, by what they do.                                             *)
LEMMA StepKinds ==
    ASSUME MachineTyping, BlockTyping, GasInv, StackInv, [Next]_vars
    PROVE  \/ Works /\ (Writes \/ \E h \in Outcome : Creates(h))
           \/ \E i \in Instance : Call(i) \/ DelegateCall(i)
           \/ Return \/ Trap \/ Succeed \/ Fail \/ Settle
           \/ \E t \in Txn : Refuse(t) \/ Begin(t)
           \/ StoreBlock \/ Restart
           \/ UNCHANGED vars
<1>1. CASE Query \/ (\E v \in Value : StoreState(v)) \/ ClearState \/ Emit
  BY <1>1, WritesState
<1>2. CASE MaySpend /\ (Payment \/ Authorised)
  <2>1. Works /\ (CreatesNone \/ \E h \in Outcome : Creates(h))
    BY <1>2, PaymentCreates, AuthorisedCreates
  <2>2. CreatesNone => Writes
    BY DEF CreatesNone, Writes
  <2> QED BY <2>1, <2>2
<1> QED BY <1>1, <1>2 DEF Next, Step

-----------------------------------------------------------------------------
(* The variables keep their types. *)

(* The beginning.                                                          *)
LEMMA InitTyping == Init => Typing
<1> SUFFICES ASSUME Init PROVE Typing
  OBVIOUS
<1>1. Nobody \in Context
  BY DEF Nobody, Context, Address
<1>2. Nothing \in Amounts
  BY DEF Nothing, Amounts
<1>3. NoChildren \in [hashes : Seq(Outcome), nonces : Amounts]
  BY <1>2 DEF NoChildren, Nothing
<1>4. MachineTyping
  BY <1>1, <1>3, DistinctAssumption DEF Init, MachineTyping
<1>5. StateTyping
  <2>1. history \in [good : [Instance -> Stored], gas : Nat, torn : BOOLEAN, drift : BOOLEAN,
                     unpaid : BOOLEAN, chain : SUBSET ChildRec]
    BY DEF Init, Stored
  <2>2. saved \in [Instance -> {<<>>} \cup {<<v>> : v \in Stored}]
    BY DEF Init, Unsaved
  <2> QED BY <2>1, <2>2, Constants DEF Init, StateTyping, Stored
<1>6. BlockTyping
  <2>1. EmptyBlock \in [txns : Seq(Txn), made : SUBSET Instance, children : SUBSET Made,
                        hashes : Seq(AnyHash)]
    BY DEF EmptyBlock
  <2>2. record \in [Txn -> [Wallet -> Int]]
    BY DEF Init, Nothing
  <2>3. 0 \in 0..MaxRestarts
    BY Constants
  <2> QED BY <1>2, <2>1, <2>2, <2>3, Constants DEF Init, BlockTyping
<1> QED BY <1>4, <1>5, <1>6 DEF Typing

(* The context of a call, and the one after its return.                    *)
LEMMA ContextChanges ==
    ASSUME NEW c \in Context, NEW i \in Instance, NEW n \in Nat, NEW u \in Nat, NEW d \in Nat
    PROVE  /\ [c EXCEPT !.depth = @ + 1] \in Context
           /\ [CallContext(c, i) EXCEPT !.available = n] \in Context
           /\ [c EXCEPT !.depth = @ + 1, !.available = n, !.chain = Append(@, i),
                        !.current = i] \in Context
           /\ [c EXCEPT !.depth = d] \in Context
           /\ [c EXCEPT !.available = n, !.used = u] \in Context
<1>1. i \in Address /\ NoWallet \in Address
  BY Constants DEF Address
<1>2. c.chain \in Seq(Instance) /\ Append(c.chain, i) \in Seq(Instance) /\ <<i>> \in Seq(Instance)
      /\ c.depth + 1 \in Nat
  BY ContextFields
<1>3. [c EXCEPT !.depth = @ + 1] \in Context
  BY <1>2 DEF Context
<1>4. [CallContext(c, i) EXCEPT !.available = n] \in Context
  BY <1>1, <1>2 DEF Context, CallContext
<1>5. [c EXCEPT !.depth = @ + 1, !.available = n, !.chain = Append(@, i),
                !.current = i] \in Context
  BY <1>1, <1>2 DEF Context
<1>6. [c EXCEPT !.depth = d] \in Context
  BY DEF Context
<1>7. [c EXCEPT !.available = n, !.used = u] \in Context
  BY DEF Context
<1> QED BY <1>3, <1>4, <1>5, <1>6, <1>7

(* A sequence without its last member.                                     *)
LEMMA FrontSeq ==
    ASSUME NEW S, NEW s \in Seq(S), Len(s) >= 1
    PROVE  /\ Front(s) \in Seq(S) /\ Len(Front(s)) = Len(s) - 1
           /\ \A k \in 1..(Len(s) - 1) : Front(s)[k] = s[k]
<1>1. Len(s) - 1 \in Nat /\ Front(s) = [k \in 1..(Len(s) - 1) |-> s[k]]
  BY DEF Front
<1>2. PICK m \in Nat : m = Len(s) - 1
  BY <1>1
<1>3. Front(s) \in [1..m -> S]
  BY <1>1, <1>2
<1>4. Front(s) \in Seq(S) /\ Len(Front(s)) = m
  BY <1>3, SeqIntro
<1> QED BY <1>1, <1>2, <1>4

(* The context of the caller after a return.                               *)
LEMMA Returned ==
    ASSUME MachineTyping, GasInv, StackInv, Return, Top # 1
    PROVE  LET f == frames[Top]
               n == sender.available - f.cost
           IN  /\ phase = "running" /\ UNCHANGED <<phase, history>>
               /\ frames \in Seq(Frame) /\ frames # <<>> /\ Top \in Nat /\ Top >= 2
               /\ f \in Frame /\ f.how \in {"call", "delegate"} /\ n \in Nat
               /\ frames' = Popped(n)
               /\ f.how = "call" =>
                     sender' = [f.back EXCEPT !.depth = sender.depth, !.available = n,
                                              !.used = sender.used + f.cost]
               /\ f.how = "delegate" =>
                     /\ Len(sender.chain) >= 1
                     /\ sender' = [sender EXCEPT !.chain = Front(@), !.current = f.back.current,
                                                 !.available = n, !.used = sender.used + f.cost]
               /\ sender' \in Context /\ sender'.available = n
               /\ sender'.used = sender.used + f.cost
<1> DEFINE f == frames[Top]
           n == sender.available - f.cost
<1>1. phase = "running" /\ f.cost <= f.limit
  BY DEF Return
<1>2. frames \in Seq(Frame) /\ frames # <<>> /\ sender \in Context
  BY <1>1 DEF GasInv, MachineTyping
<1>3. Top \in Nat /\ Top >= 1 /\ f \in Frame
  BY <1>2, SpentFacts
<1>4. Top >= 2 /\ f.how # "first"
  <2>1. Top >= 2
    BY <1>3
  <2>2. Top \in 2..Top
    BY <2>1, <1>3
  <2> QED BY <1>1, <2>1, <2>2 DEF StackInv
<1>5. f.how \in {"call", "delegate"} /\ f.cost \in Nat /\ f.limit \in Nat /\ f.back \in Context
  BY <1>3, <1>4, FrameFields
<1>6. n \in Nat
  BY <1>1, <1>5 DEF GasInv
<1>7. /\ UNCHANGED <<phase, history>>
      /\ frames' = Popped(n)
      /\ sender' = [(IF f.how = "call" THEN CallReturns(f) ELSE DelegateCallReturns(f))
                       EXCEPT !.available = n, !.used = sender.used + f.cost]
  BY <1>4 DEF Return, Popped
<1>8. sender.depth \in Nat /\ sender.used \in Nat /\ sender.chain \in Seq(Instance)
  BY <1>2, ContextFields
<1>9. sender.used + f.cost \in Nat
  BY <1>5, <1>8
<1>10. CASE f.how = "call"
  <2>1. sender' = [f.back EXCEPT !.depth = sender.depth, !.available = n,
                                 !.used = sender.used + f.cost]
    <3>1. \A c \in Context, d \in Nat, m \in Nat, u \in Nat :
             [[c EXCEPT !.depth = d] EXCEPT !.available = m, !.used = u]
                = [c EXCEPT !.depth = d, !.available = m, !.used = u]
      OBVIOUS
    <3> HIDE DEF f, n
    <3> QED BY <1>5, <1>6, <1>7, <1>8, <1>9, <1>10, <3>1 DEF CallReturns
  <2>2. PICK c \in Context, d \in Nat, m \in Nat, u \in Nat :
          c = f.back /\ d = sender.depth /\ m = n /\ u = sender.used + f.cost
    BY <1>5, <1>6, <1>8, <1>9
  <2> HIDE DEF f, n
  <2>3. sender' \in Context /\ sender'.available = n /\ sender'.used = sender.used + f.cost
    <3>1. sender' = [c EXCEPT !.depth = d, !.available = m, !.used = u]
      BY <2>1, <2>2
    <3>2. sender' \in Context /\ sender'.available = m /\ sender'.used = u
      BY <3>1 DEF Context
    <3> QED BY <2>2, <3>2
  <2> QED BY <1>1, <1>2, <1>3, <1>4, <1>5, <1>6, <1>7, <1>10, <2>1, <2>3 DEF f, n
<1>11. CASE f.how = "delegate"
  <2>1. Len(sender.chain) >= 1
    <3>1. PICK b \in 1..Top : Len(sender.chain) = Top - b + 1
      BY <1>1 DEF StackInv, Matches
    <3> QED BY <1>3, <3>1
  <2>2. Front(sender.chain) \in Seq(Instance)
    BY <1>8, <2>1, FrontSeq
  <2>3. f.back.current \in Address
    BY <1>5, ContextFields
  <2>4. sender' = [sender EXCEPT !.chain = Front(@), !.current = f.back.current,
                                 !.available = n, !.used = sender.used + f.cost]
    <3>1. \A c \in Context, s \in Seq(Instance), i \in Address, m \in Nat, u \in Nat :
             [[c EXCEPT !.chain = s, !.current = i] EXCEPT !.available = m, !.used = u]
                = [c EXCEPT !.chain = s, !.current = i, !.available = m, !.used = u]
      OBVIOUS
    <3>2. f.how # "call"
      BY <1>11
    <3>3. DelegateCallReturns(f)
             = [sender EXCEPT !.chain = Front(sender.chain), !.current = f.back.current]
      BY DEF DelegateCallReturns
    <3> HIDE DEF f, n
    <3> QED BY <1>2, <1>5, <1>6, <1>7, <1>8, <1>9, <2>2, <2>3, <3>1, <3>2, <3>3
  <2>5. PICK c \in Context, s \in Seq(Instance), i \in Address, m \in Nat, u \in Nat :
          /\ c = sender /\ s = Front(sender.chain) /\ i = f.back.current
          /\ m = n /\ u = sender.used + f.cost
    BY <1>2, <1>6, <1>9, <2>2, <2>3
  <2> HIDE DEF f, n
  <2>6. sender' \in Context /\ sender'.available = n /\ sender'.used = sender.used + f.cost
    <3>1. sender' = [c EXCEPT !.chain = s, !.current = i, !.available = m, !.used = u]
      BY <2>4, <2>5
    <3>2. sender' \in Context /\ sender'.available = m /\ sender'.used = u
      BY <3>1 DEF Context
    <3> QED BY <2>5, <3>2
  <2> QED BY <1>1, <1>2, <1>3, <1>4, <1>5, <1>6, <1>7, <1>11, <2>1, <2>4, <2>6 DEF f, n
<1> QED BY <1>5, <1>10, <1>11

(* The machine.                                                            *)
LEMMA MachineTyped ==
    ASSUME Typing, GasInv, StackInv, [Next]_vars
    PROVE  MachineTyping'
<1>0. MachineTyping /\ BlockTyping
  BY DEF Typing
<1>1. CASE Works /\ (Writes \/ \E h \in Outcome : Creates(h))
  <2>1. phase = "running"
    BY <1>1 DEF Works, MaySpend
  <2>2. Spent \in Seq(Frame)
    BY <1>0, <2>1, SpentFacts DEF MachineTyping, GasInv
  <2>3. children' \in SUBSET Made /\ sc' \in [hashes : Seq(Outcome), nonces : Amounts]
    <3>1. CASE Writes
      BY <1>0, <3>1 DEF MachineTyping, Writes
    <3>2. ASSUME NEW h \in Outcome, Creates(h)
          PROVE  children' \in SUBSET Made /\ sc' \in [hashes : Seq(Outcome), nonces : Amounts]
      <4>1. h.child \in ChildRec /\ h.ok \in BOOLEAN /\ Covered(h.child, h.ok)
        BY DEF Outcome
      <4>2. Authority \in SUBSET Wallet
        BY <1>0, <2>1, AuthorityHas
      <4>3. [child |-> h.child, ok |-> h.ok, authority |-> Authority] \in Made
        BY <4>1, <4>2 DEF Made
      <4> QED BY <1>0, <3>2, <4>3 DEF MachineTyping, Creates
    <3> QED BY <1>1, <3>1, <3>2
  <2> QED BY <1>0, <1>1, <2>2, <2>3 DEF MachineTyping, Works
<1>2. ASSUME NEW i \in Instance, Call(i) \/ DelegateCall(i)
      PROVE  MachineTyping'
  <2>1. MaySpend /\ phase = "running" /\ UNCHANGED <<phase, txn, children, sc>>
    BY <1>2 DEF Call, DelegateCall, CallableFrom, MaySpend
  <2>2. /\ frames \in Seq(Frame) /\ frames # <<>> /\ sender \in Context
        /\ frames[Top].limit = sender.available
    BY <1>0, <2>1 DEF MachineTyping, GasInv
  <2>3. Spent \in Seq(Frame)
    BY <2>2, SpentFacts
  <2>4. sender' \in Context /\ frames' \in Seq(Frame)
    <3>1. CASE Call(i)
      <4> DEFINE deeper == [sender EXCEPT !.depth = @ + 1]
                 n == sender.available - Spent[Top].cost
      <4>1. deeper \in Context /\ deeper.available = sender.available
        BY <2>2, ContextChanges, ContextFields DEF Context
      <4>2. n \in Nat /\ frames' \in Seq(Frame)
        <5>1. /\ sender.available - (frames[Top].cost + 1) \in Nat
              /\ Spent[Top].cost = frames[Top].cost + 1
              /\ runCall(i, "call", deeper) \in Seq(Frame)
          <6> HIDE DEF deeper
          <6>1. PICK f \in Frame : runCall(i, "call", deeper) = Append(Spent, f)
            BY <2>1, <2>2, <4>1, CallFacts
          <6>2. /\ sender.available - (frames[Top].cost + 1) \in Nat
                /\ Spent[Top].cost = frames[Top].cost + 1
            BY <2>1, <2>2, <4>1, CallFacts
          <6> QED BY <2>3, <6>1, <6>2, AppendFacts
        <5>2. frames' = runCall(i, "call", deeper)
          BY <3>1 DEF Call
        <5> HIDE DEF deeper
        <5> QED BY <5>1, <5>2
      <4>3. sender' = [CallContext(deeper, i) EXCEPT !.available = n]
        <5>1. CallContext(deeper, i).available = sender.available
          BY <4>1 DEF CallContext, Context
        <5> HIDE DEF deeper
        <5>2. sender' = [CallContext(deeper, i) EXCEPT !.available = @ - Spent[Top].cost]
          BY <3>1 DEF Call, deeper
        <5> QED BY <5>1, <5>2
      <4> HIDE DEF deeper, n
      <4> QED BY <4>1, <4>2, <4>3, ContextChanges
    <3>2. CASE DelegateCall(i)
      <4> DEFINE n == sender.available - Spent[Top].cost
      <4>1. n \in Nat /\ frames' \in Seq(Frame)
        <5>1. /\ sender.available - (frames[Top].cost + 1) \in Nat
              /\ Spent[Top].cost = frames[Top].cost + 1
              /\ runCall(i, "delegate", sender) \in Seq(Frame)
          BY <2>1, <2>2, <2>3, CallFacts, AppendFacts
        <5>2. frames' = runCall(i, "delegate", sender)
          BY <3>2 DEF DelegateCall
        <5> QED BY <5>1, <5>2
      <4>2. sender' = [sender EXCEPT !.depth = @ + 1, !.available = n, !.chain = Append(@, i),
                                     !.current = i]
        BY <3>2 DEF DelegateCall
      <4> HIDE DEF n
      <4> QED BY <2>2, <4>1, <4>2, ContextChanges
    <3> QED BY <1>2, <3>1, <3>2
  <2> QED BY <1>0, <2>1, <2>4 DEF MachineTyping
<1>3. CASE Return
  <2>1. UNCHANGED <<txn, children, sc>>
    BY <1>3 DEF Return
  <2>2. CASE Top = 1
    <3>1. frames[Top].how = "first"
      BY <1>3, <2>2 DEF Return, StackInv
    <3>2. phase = "running" /\ phase' = "done" /\ UNCHANGED <<sender, frames>>
      BY <1>3, <3>1 DEF Return
    <3> QED BY <1>0, <2>1, <3>2 DEF MachineTyping
  <2>3. CASE Top # 1
    <3>1. /\ UNCHANGED phase /\ sender' \in Context
          /\ frames' = Popped(sender.available - frames[Top].cost)
          /\ frames \in Seq(Frame) /\ frames # <<>> /\ sender.available - frames[Top].cost \in Nat
      BY <1>0, <1>3, <2>3, Returned
    <3>2. frames' \in Seq(Frame)
      BY <2>3, <3>1, ReturnFacts
    <3> QED BY <1>0, <2>1, <3>1, <3>2 DEF MachineTyping
  <2> QED BY <2>2, <2>3
<1>4. CASE Trap
  BY <1>0, <1>4 DEF Trap, MachineTyping, machine
<1>5. NoChildren \in [hashes : Seq(Outcome), nonces : Amounts] /\ Nobody \in Context
      /\ <<>> \in Seq(Frame) /\ {} \in SUBSET Made
  <2>1. Nobody \in Context
    BY DEF Nobody, Context, Address
  <2>2. NoChildren \in [hashes : Seq(Outcome), nonces : Amounts]
    <3>1. [w \in Wallet |-> 0] \in Amounts /\ <<>> \in Seq(Outcome)
      BY DEF Amounts
    <3> QED BY <3>1 DEF NoChildren
  <2> QED BY <2>1, <2>2
<1>6. CASE Succeed
  BY <1>0, <1>5, <1>6 DEF Succeed, MachineTyping
<1>7. CASE Fail
  BY <1>0, <1>5, <1>7 DEF Fail, MachineTyping
<1>8. CASE Settle
  BY <1>0, <1>5, <1>8 DEF Settle, MachineTyping
<1>9. ASSUME NEW t \in Txn, Refuse(t) PROVE MachineTyping'
  BY <1>0, <1>9 DEF Refuse, MachineTyping, machine
<1>10. ASSUME NEW t \in Txn, Begin(t) PROVE MachineTyping'
  <2>1. txn' = t /\ children' = {} /\ sc' = sc /\ phase' \in {"running", "undone"}
    BY <1>10 DEF Begin
  <2>2. sender' \in Context /\ frames' \in Seq(Frame)
    <3>1. CASE eval(t)
      <4>1. t.user \in Address /\ t.to \in Address /\ t.to \in Instance /\ fee_left(t) \in Nat
        BY Constants DEF Address
      <4>2. <<t.to>> \in Seq(Instance)
        BY <4>1
      <4>3. sender' \in Context
        BY <3>1, <4>1, <4>2 DEF eval, Context
      <4>4. [code |-> t.to, how |-> "first", cost |-> 0, limit |-> fee_left(t),
             back |-> Nobody] \in Frame
        BY <1>5, <4>1 DEF Frame
      <4> QED BY <3>1, <4>3, <4>4 DEF eval
    <3>2. CASE UNCHANGED <<sender, frames>>
      BY <1>0, <3>2 DEF MachineTyping
    <3> QED BY <1>10, <3>1, <3>2 DEF Begin
  <2> QED BY <1>0, <1>5, <2>1, <2>2, DistinctAssumption DEF MachineTyping
<1>11. CASE StoreBlock
  BY <1>0, <1>11 DEF StoreBlock, MachineTyping, machine
<1>12. CASE Restart
  BY <1>0, <1>5, <1>12 DEF Restart, MachineTyping
<1>13. CASE UNCHANGED vars
  BY <1>0, <1>13 DEF vars, machine, MachineTyping
<1> QED BY <1>0, <1>1, <1>2, <1>3, <1>4, <1>6, <1>7, <1>8, <1>9, <1>10, <1>11, <1>12, <1>13,
           StepKinds

-----------------------------------------------------------------------------
(* What the steps do to the balances. *)

(* Which is a number.                                                      *)
LEMMA WhenInt == \A w, a, n : n \in Int => When(w, a, n) \in Int
BY DEF When

(* Tokens move from a to b.                                                *)
LEMMA ShiftFacts ==
    ASSUME NEW f \in [Wallet -> Int], NEW a \in Wallet, NEW b, NEW n \in Int
    PROVE  /\ Shift(f, a, b, n) \in [Wallet -> Int]
           /\ \A w \in Wallet : Shift(f, a, b, n)[w] = f[w] - When(w, a, n) + When(w, b, n)
<1> DEFINE g == [f EXCEPT ![a] = @ - n]
           h == [g EXCEPT ![b] = @ + n]
<1>1. Shift(f, a, b, n) = h
  BY DEF Shift
<1>2. g \in [Wallet -> Int] /\ \A w \in Wallet : g[w] = f[w] - When(w, a, n)
  BY DEF When
<1> HIDE DEF g
<1>3. h \in [Wallet -> Int] /\ \A w \in Wallet : h[w] = g[w] + When(w, b, n)
  <2>1. CASE b \in Wallet
    BY <1>2, <2>1 DEF When
  <2>2. CASE b \notin Wallet
    <3>1. h = [w \in Wallet |-> g[w]]
      BY <1>2, <2>2
    <3> HIDE DEF h
    <3> QED BY <1>2, <2>2, <3>1 DEF When
  <2> QED BY <2>1, <2>2
<1> HIDE DEF h
<1> QED BY <1>1, <1>2, <1>3

(* Balances are functions of integers; and integers that are not negative  *)
(* are balances.                                                           *)
LEMMA AmountsInt ==
    /\ \A f \in Amounts : f \in [Wallet -> Int]
    /\ \A f \in [Wallet -> Int] : (\A w \in Wallet : f[w] >= 0) => f \in Amounts
BY DEF Amounts

(* A child's amounts reach the running balances as its hash will have them *)
(* reach the block's.                                                      *)
LEMMA CreatesMoney ==
    ASSUME BlockTyping, NEW h \in Outcome, Creates(h)
    PROVE  /\ running' \in Amounts
           /\ \A w \in Wallet :
                 /\ running'[w] = running[w] + Added(record, h, w) - Taken(record, h, w)
                 /\ w = h.child.payer => running[w] >= Taken(record, h, w)
                 /\ w # h.child.payer => Taken(record, h, w) = 0
<1> DEFINE c == h.child
           first == Shift(running, c.payer, Fees, ChildFee)
           second == Shift(first, c.payer, c.to, c.amount)
<1>1. /\ c.payer \in Wallet /\ h.ok \in BOOLEAN /\ ChildFee \in Nat /\ Fees \in Wallet
      /\ h.ok => c.amount \in Nat /\ running[c.payer] >= ChildFee + c.amount
      /\ running[c.payer] >= ChildFee
      /\ c.amount \in Int
  BY Constants DEF Outcome, Covered, Goes, Creates, Fits, ChildRec
<1>2. running' = IF h.ok /\ c.amount > 0 THEN second ELSE first
  BY DEF Creates, Move
<1>3. running \in [Wallet -> Int] /\ \A w \in Wallet : running[w] \in Nat
  BY AmountsInt DEF BlockTyping, Amounts
<1>4. /\ first \in [Wallet -> Int]
      /\ \A w \in Wallet :
            first[w] = running[w] - When(w, c.payer, ChildFee) + When(w, Fees, ChildFee)
  BY <1>1, <1>3, ShiftFacts
<1> HIDE DEF first
<1>5. /\ second \in [Wallet -> Int]
      /\ \A w \in Wallet :
            second[w] = first[w] - When(w, c.payer, c.amount) + When(w, c.to, c.amount)
  BY <1>1, <1>4, ShiftFacts
<1> HIDE DEF second
<1>6. ASSUME NEW w \in Wallet
      PROVE  /\ running'[w] = running[w] + Added(record, h, w) - Taken(record, h, w)
             /\ w = c.payer => running[w] >= Taken(record, h, w)
             /\ w # c.payer => Taken(record, h, w) = 0
             /\ running'[w] >= 0
  <2>1. /\ Added(record, h, w) = When(w, Fees, ChildFee)
                                    + (IF h.ok THEN When(w, c.to, c.amount) ELSE 0)
        /\ Taken(record, h, w) = When(w, c.payer, ChildFee + (IF h.ok THEN c.amount ELSE 0))
        /\ Added(record, h, w) \in Nat /\ Taken(record, h, w) \in Nat
    BY OutcomeReplay DEF When
  <2>2. w = c.payer => running[w] >= Taken(record, h, w)
    BY <1>1, <2>1 DEF When
  <2>3. w # c.payer => Taken(record, h, w) = 0
    BY <2>1 DEF When
  <2>4. running'[w] = running[w] + Added(record, h, w) - Taken(record, h, w)
    <3>1. CASE h.ok /\ c.amount > 0
      <4>1. running'[w] = running[w] - When(w, c.payer, ChildFee) + When(w, Fees, ChildFee)
                             - When(w, c.payer, c.amount) + When(w, c.to, c.amount)
        BY <1>1, <1>2, <1>3, <1>4, <1>5, <3>1, WhenInt
      <4>2. /\ Added(record, h, w) = When(w, Fees, ChildFee) + When(w, c.to, c.amount)
            /\ Taken(record, h, w) = When(w, c.payer, ChildFee + c.amount)
        BY <2>1, <3>1
      <4> QED BY <1>1, <1>3, <4>1, <4>2 DEF When
    <3>2. CASE h.ok /\ ~ c.amount > 0
      <4>1. c.amount = 0 /\ running' = first
        BY <1>1, <1>2, <3>2
      <4> QED BY <1>1, <1>3, <1>4, <2>1, <3>2, <4>1 DEF When
    <3>3. CASE ~ h.ok
      BY <1>1, <1>2, <1>3, <1>4, <2>1, <3>3 DEF When
    <3> QED BY <3>1, <3>2, <3>3
  <2>5. running'[w] >= 0
    BY <1>3, <2>1, <2>2, <2>3, <2>4
  <2> QED BY <2>2, <2>3, <2>4, <2>5
<1>7. running' \in Amounts
  <2>1. running' \in [Wallet -> Int]
    BY <1>2, <1>4, <1>5
  <2> QED BY <1>6, <2>1, AmountsInt
<1> QED BY <1>6, <1>7

(* A transaction begins: the base fee is charged, the deposit kept back.   *)
LEMMA BeginFacts ==
    ASSUME Typing, GasInv, NEW t \in Txn, Begin(t)
    PROVE  LET held == IF phase' = "running" THEN fee_left(t) ELSE 0
           IN  /\ phase = "idle" /\ phase' \in {"running", "undone"} /\ txn' = t /\ frames = <<>>
               /\ phase' = "undone" => frames' = <<>>
               /\ phase' = "running" => frames' # <<>> /\ eval(t)
               /\ running' \in Amounts /\ record' \in Records
               /\ \A w \in Wallet :
                     /\ running'[w] = running[w] - When(w, t.user, BaseFee)
                                         + When(w, Fees, BaseFee) - When(w, t.user, held)
                     /\ record'[t][w] = When(w, Fees, BaseFee) - When(w, t.user, BaseFee)
               /\ \A s \in Txn \ {t} : record'[s] = record[s]
<1> DEFINE charged == Shift(running, t.user, Fees, BaseFee)
           first == Shift(Nothing, t.user, Fees, BaseFee)
<1>1. /\ phase = "idle" /\ t \in waiting /\ ~ Refused(t) /\ txn' = t
      /\ record' = [record EXCEPT ![t] = first]
      /\ \/ /\ charged[t.user] >= fee_left(t)
            /\ phase' = "running"
            /\ running' = [charged EXCEPT ![t.user] = @ - gas_limit_calc(t)]
            /\ eval(t)
         \/ /\ phase' = "undone" /\ running' = charged /\ UNCHANGED <<sender, frames>>
  BY DEF Begin
<1>2. frames = <<>>
  BY <1>1 DEF GasInv
<1>3. running \in Amounts /\ record \in Records /\ \A w \in Wallet : running[w] \in Nat
  BY DEF Typing, BlockTyping, Amounts, Records
<1>4. /\ t.user \in Wallet /\ BaseFee \in Nat /\ Fees \in Wallet /\ fee_left(t) \in Nat
      /\ gas_limit_calc(t) = fee_left(t) /\ running[t.user] >= BaseFee
  BY <1>1, <1>3, Constants DEF Refused
<1>5. /\ charged \in [Wallet -> Int]
      /\ \A w \in Wallet : charged[w] = running[w] - When(w, t.user, BaseFee) + When(w, Fees, BaseFee)
  BY <1>3, <1>4, AmountsInt, ShiftFacts
<1> HIDE DEF charged
<1>6. /\ first \in [Wallet -> Int]
      /\ \A w \in Wallet : first[w] = When(w, Fees, BaseFee) - When(w, t.user, BaseFee)
  <2>1. Nothing \in [Wallet -> Int] /\ \A w \in Wallet : Nothing[w] = 0
    BY DEF Nothing
  <2>2. /\ first \in [Wallet -> Int]
        /\ \A w \in Wallet :
              first[w] = Nothing[w] - When(w, t.user, BaseFee) + When(w, Fees, BaseFee)
    BY <1>4, <2>1, ShiftFacts
  <2> QED BY <1>4, <2>1, <2>2 DEF When
<1> HIDE DEF first
<1>7. \A w \in Wallet : charged[w] \in Nat
  BY <1>3, <1>4, <1>5 DEF When
<1>8. record' \in Records /\ record'[t] = first /\ \A s \in Txn \ {t} : record'[s] = record[s]
  BY <1>1, <1>3, <1>6 DEF Records
<1>9. CASE phase' = "running"
  <2>1. running' = [charged EXCEPT ![t.user] = @ - fee_left(t)] /\ charged[t.user] >= fee_left(t)
    BY <1>1, <1>4, <1>9
  <2>2. \A w \in Wallet : running'[w] = charged[w] - When(w, t.user, fee_left(t))
    BY <1>4, <1>5, <2>1 DEF When
  <2>3. running' \in Amounts
    <3>1. charged[t.user] - fee_left(t) \in Nat
      BY <1>4, <1>7, <2>1
    <3> QED BY <1>5, <1>7, <2>1, <3>1 DEF Amounts
  <2>4. eval(t) /\ frames' # <<>>
    BY <1>1, <1>9 DEF eval
  <2>5. \A w \in Wallet :
          running'[w] = running[w] - When(w, t.user, BaseFee) + When(w, Fees, BaseFee)
                           - When(w, t.user, fee_left(t))
    BY <1>3, <1>4, <1>5, <2>2, WhenInt
  <2> QED BY <1>1, <1>2, <1>6, <1>8, <1>9, <2>3, <2>4, <2>5
<1>10. CASE phase' = "undone"
  <2>1. running' = charged /\ frames' = <<>>
    BY <1>1, <1>2, <1>10
  <2>2. running' \in Amounts
    BY <1>5, <1>7, <2>1 DEF Amounts
  <2>3. \A w \in Wallet :
          running'[w] = running[w] - When(w, t.user, BaseFee) + When(w, Fees, BaseFee)
                           - When(w, t.user, 0)
    BY <1>3, <1>4, <1>5, <2>1 DEF When
  <2> QED BY <1>1, <1>2, <1>6, <1>8, <1>10, <2>1, <2>2, <2>3
<1> QED BY <1>1, <1>9, <1>10

(* The settlement: the deposit comes back, and the gas can be charged.     *)
LEMMA SettleFacts ==
    ASSUME Typing, GasInv, Settle
    PROVE  /\ txn \in Txn /\ history.gas \in Nat
           /\ running' \in Amounts /\ record' \in Records /\ due' \in [Instance -> Nat]
           /\ \A s \in Txn \ {txn} : record'[s] = record[s]
           /\ history'.unpaid = history.unpaid
           /\ \E owed \in 0..due[txn.to] :
                 /\ frames # <<>> => owed = due[txn.to]
                 /\ due' = [due EXCEPT ![txn.to] = @ - owed]
                 /\ \A w \in Wallet :
                       /\ running'[w] = running[w] + When(w, txn.user, Held) + When(w, Fees, owed)
                                           - When(w, txn.user, history.gas)
                                           + When(w, Fees, history.gas)
                       /\ record'[txn][w] = record[txn][w] + When(w, Fees, owed)
                                               - When(w, txn.user, history.gas)
                                               + When(w, Fees, history.gas)
<1>1. phase \in {"settled", "undone"} /\ txn \in Txn
  BY DEF Settle, Typing, MachineTyping
<1>2. /\ txn.user \in Wallet /\ txn.to \in Instance /\ Fees \in Wallet /\ fee_left(txn) \in Nat
      /\ gas_limit_calc(txn) = fee_left(txn)
  BY <1>1, Constants
<1>3. /\ running \in Amounts /\ record \in Records /\ due \in [Instance -> Nat]
      /\ history.gas \in Nat /\ due[txn.to] \in Nat /\ \A w \in Wallet : running[w] \in Nat
  BY <1>2 DEF Typing, BlockTyping, StateTyping, Amounts, Records
<1>4. history.gas <= Held /\ Held \in Nat
  BY <1>1, <1>2, <1>3 DEF GasInv, Held
<1> DEFINE ran == frames # <<>>
           owed == IF ran \/ running[txn.user] >= fee_left(txn) THEN due[txn.to] ELSE 0
           back == IF ran THEN [running EXCEPT ![txn.user] = @ + gas_limit_calc(txn)] ELSE running
           stowed == [back EXCEPT ![Fees] = @ + owed]
           payable == stowed[txn.user] >= history.gas
           r1 == [record[txn] EXCEPT ![Fees] = @ + owed]
<1>5. owed \in 0..due[txn.to] /\ (frames # <<>> => owed = due[txn.to]) /\ owed \in Nat
  BY <1>3
<1>6. back \in Amounts /\ \A w \in Wallet : back[w] = running[w] + When(w, txn.user, Held)
  <2>1. CASE ran
    BY <1>2, <1>3, <2>1 DEF When, Held, Amounts
  <2>2. CASE ~ ran
    BY <1>2, <1>3, <2>2 DEF When, Held, Amounts
  <2> QED BY <2>1, <2>2
<1>7. /\ running' = Shift(stowed, txn.user, Fees, IF payable THEN history.gas ELSE 0)
      /\ record' = [record EXCEPT ![txn] = Shift(r1, txn.user, Fees,
                                                 IF payable THEN history.gas ELSE 0)]
      /\ due' = [due EXCEPT ![txn.to] = @ - owed]
      /\ history' = [history EXCEPT !.unpaid = @ \/ ~ payable, !.gas = 0]
  BY DEF Settle
<1> HIDE DEF back, owed
<1>8. /\ stowed \in Amounts
      /\ \A w \in Wallet :
            stowed[w] = running[w] + When(w, txn.user, Held) + When(w, Fees, owed)
  <2>1. \A w \in Wallet : back[w] \in Nat
    BY <1>6 DEF Amounts
  <2>2. stowed \in Amounts /\ \A w \in Wallet : stowed[w] = back[w] + When(w, Fees, owed)
    BY <1>2, <1>5, <1>6, <2>1 DEF When, Amounts
  <2> HIDE DEF stowed
  <2> QED BY <1>6, <2>2
<1> HIDE DEF stowed
<1>9. stowed[txn.user] >= Held
  BY <1>2, <1>3, <1>4, <1>5, <1>8 DEF When
<1>10. payable
  BY <1>2, <1>3, <1>4, <1>8, <1>9 DEF Amounts
<1>11. /\ running' = Shift(stowed, txn.user, Fees, history.gas)
       /\ record' = [record EXCEPT ![txn] = Shift(r1, txn.user, Fees, history.gas)]
       /\ history'.unpaid = history.unpaid
  <2>1. history'.unpaid = history.unpaid
    <3>1. history'.unpaid = (history.unpaid \/ ~ payable) /\ history.unpaid \in BOOLEAN
      BY <1>7 DEF Typing, StateTyping
    <3> HIDE DEF payable
    <3> QED BY <1>10, <3>1
  <2> HIDE DEF payable
  <2>2. (IF payable THEN history.gas ELSE 0) = history.gas
    BY <1>10
  <2>3. running' = Shift(stowed, txn.user, Fees, history.gas)
    BY <1>7, <2>2
  <2>4. record' = [record EXCEPT ![txn] = Shift(r1, txn.user, Fees, history.gas)]
    BY <1>7, <2>2
  <2> QED BY <2>1, <2>3, <2>4
<1> HIDE DEF payable
<1>12. /\ r1 \in [Wallet -> Int] /\ \A w \in Wallet : r1[w] = record[txn][w] + When(w, Fees, owed)
  <2>1. record[txn] \in [Wallet -> Int]
    BY <1>1, <1>3 DEF Records
  <2> QED BY <1>2, <1>5, <2>1 DEF When
<1> HIDE DEF r1
<1>13. /\ Shift(r1, txn.user, Fees, history.gas) \in [Wallet -> Int]
       /\ \A w \in Wallet : Shift(r1, txn.user, Fees, history.gas)[w]
             = r1[w] - When(w, txn.user, history.gas) + When(w, Fees, history.gas)
  BY <1>2, <1>3, <1>12, ShiftFacts
<1>14. /\ Shift(stowed, txn.user, Fees, history.gas) \in [Wallet -> Int]
       /\ \A w \in Wallet : Shift(stowed, txn.user, Fees, history.gas)[w]
             = stowed[w] - When(w, txn.user, history.gas) + When(w, Fees, history.gas)
  BY <1>2, <1>3, <1>8, AmountsInt, ShiftFacts
<1>15. record' \in Records /\ record'[txn] = Shift(r1, txn.user, Fees, history.gas)
       /\ \A s \in Txn \ {txn} : record'[s] = record[s]
  BY <1>1, <1>3, <1>11, <1>13 DEF Records
<1>16. \A w \in Wallet :
          /\ running'[w] = running[w] + When(w, txn.user, Held) + When(w, Fees, owed)
                              - When(w, txn.user, history.gas) + When(w, Fees, history.gas)
          /\ record'[txn][w] = record[txn][w] + When(w, Fees, owed)
                                  - When(w, txn.user, history.gas) + When(w, Fees, history.gas)
  <2> SUFFICES ASSUME NEW w \in Wallet
               PROVE  /\ running'[w] = running[w] + When(w, txn.user, Held) + When(w, Fees, owed)
                              - When(w, txn.user, history.gas) + When(w, Fees, history.gas)
                      /\ record'[txn][w] = record[txn][w] + When(w, Fees, owed)
                              - When(w, txn.user, history.gas) + When(w, Fees, history.gas)
    OBVIOUS
  <2>1. record[txn][w] \in Int /\ running[w] \in Int
    BY <1>1, <1>3 DEF Records
  <2>2. running'[w] = stowed[w] - When(w, txn.user, history.gas) + When(w, Fees, history.gas)
    BY <1>11, <1>14
  <2>3. record'[txn][w] = r1[w] - When(w, txn.user, history.gas) + When(w, Fees, history.gas)
    BY <1>13, <1>15
  <2>4. /\ When(w, txn.user, Held) \in Int /\ When(w, Fees, owed) \in Int
        /\ When(w, txn.user, history.gas) \in Int /\ When(w, Fees, history.gas) \in Int
    BY <1>3, <1>4, <1>5, WhenInt
  <2> QED BY <1>8, <1>12, <2>1, <2>2, <2>3, <2>4
<1>17. running' \in Amounts
  <2>1. ASSUME NEW w \in Wallet PROVE running'[w] >= 0
    BY <1>3, <1>4, <1>5, <1>16 DEF When
  <2> QED BY <1>11, <1>14, <2>1, AmountsInt
<1>18. due' \in [Instance -> Nat]
  BY <1>2, <1>3, <1>5, <1>7
<1> QED BY <1>1, <1>3, <1>5, <1>7, <1>11, <1>15, <1>16, <1>17, <1>18

-----------------------------------------------------------------------------
(* The types of the other variables. *)

History == [good : [Instance -> Stored], gas : Nat, torn : BOOLEAN, drift : BOOLEAN,
            unpaid : BOOLEAN, chain : SUBSET ChildRec]
SavedSet == [Instance -> {<<>>} \cup {<<v>> : v \in Stored}]

(* What would be restored is state.                                        *)
LEMMA RestoredType == ASSUME StateTyping PROVE Restored \in [Instance -> Stored]
<1>1. ASSUME NEW i \in Instance, saved[i] # <<>> PROVE saved[i][1] \in Stored
  <2>1. PICK v \in Stored : saved[i] = <<v>>
    BY <1>1 DEF StateTyping
  <2> QED BY <2>1
<1>2. store \in [Instance -> Stored]
  BY DEF StateTyping
<1> QED BY <1>1, <1>2 DEF Restored

(* A write keeps the first original, so that restoring leads back to it.   *)
LEMMA SavesFacts ==
    ASSUME StateTyping, sender.current \in Instance, NEW v \in Stored, Saves(v)
    PROVE  store' \in [Instance -> Stored] /\ saved' \in SavedSet /\ Restored' = Restored
<1> DEFINE c == sender.current
<1>1. store \in [Instance -> Stored] /\ saved \in SavedSet /\ <<store[c]>> # <<>>
  BY DEF StateTyping, SavedSet
<1>2. store' = [store EXCEPT ![c] = v] /\ saved' = Save(c)
  BY DEF Saves
<1>3. store' \in [Instance -> Stored]
  BY <1>1, <1>2
<1>4. saved' = [i \in Instance |-> IF i = c /\ saved[c] = <<>> THEN <<store[c]>> ELSE saved[i]]
  <2>1. CASE saved[c] = <<>>
    BY <1>1, <1>2, <2>1 DEF Save, SavedSet
  <2>2. CASE saved[c] # <<>>
    BY <1>1, <1>2, <2>2 DEF Save, SavedSet
  <2> QED BY <2>1, <2>2
<1>5. saved' \in SavedSet
  <2>1. <<store[c]>> \in {<<w>> : w \in Stored}
    BY <1>1
  <2> QED BY <1>1, <1>4, <2>1 DEF SavedSet
<1>6. Restored' = Restored
  <2>1. \A i \in Instance : (IF saved'[i] = <<>> THEN store'[i] ELSE saved'[i][1])
                               = (IF saved[i] = <<>> THEN store[i] ELSE saved[i][1])
    <3> SUFFICES ASSUME NEW i \in Instance
                 PROVE  (IF saved'[i] = <<>> THEN store'[i] ELSE saved'[i][1])
                           = (IF saved[i] = <<>> THEN store[i] ELSE saved[i][1])
      OBVIOUS
    <3>1. CASE i = c /\ saved[c] = <<>>
      BY <1>4, <3>1
    <3>2. CASE i = c /\ saved[c] # <<>>
      BY <1>4, <3>2
    <3>3. CASE i # c
      BY <1>1, <1>2, <1>4, <3>3
    <3> QED BY <3>1, <3>2, <3>3
  <2> QED BY <2>1 DEF Restored
<1> QED BY <1>3, <1>5, <1>6

(* The charge for storage.                                                 *)
LEMMA ChargesFacts ==
    ASSUME Typing, txn \in Txn, NEW n \in Nat, Charges(n)
    PROVE  /\ running' \in Amounts /\ due' \in [Instance -> Nat] /\ record' \in Records
           /\ \A w \in Wallet : /\ running'[w] = running[w] - When(w, txn.to, n)
                                /\ record'[txn][w] = record[txn][w] - When(w, txn.to, n)
           /\ \A i \in Instance : due'[i] = due[i] + When(i, txn.to, n)
           /\ \A s \in Txn \ {txn} : record'[s] = record[s]
<1>1. txn.to \in Instance /\ txn.to \in Wallet
  BY Constants
<1>2. /\ running \in Amounts /\ record \in Records /\ due \in [Instance -> Nat]
      /\ record[txn] \in [Wallet -> Int] /\ n <= running[txn.to]
  BY DEF Typing, BlockTyping, StateTyping, Records, Charges
<1>3. running' \in Amounts /\ \A w \in Wallet : running'[w] = running[w] - When(w, txn.to, n)
  BY <1>1, <1>2 DEF Charges, Amounts, When
<1>4. due' \in [Instance -> Nat] /\ \A i \in Instance : due'[i] = due[i] + When(i, txn.to, n)
  BY <1>1, <1>2 DEF Charges, When
<1> DEFINE r == [record[txn] EXCEPT ![txn.to] = @ - n]
<1>5. r \in [Wallet -> Int] /\ \A w \in Wallet : r[w] = record[txn][w] - When(w, txn.to, n)
  BY <1>1, <1>2 DEF When
<1>6. record' = [record EXCEPT ![txn] = r]
  BY <1>2 DEF Charges
<1> HIDE DEF r
<1>7. record' \in Records /\ record'[txn] = r /\ \A s \in Txn \ {txn} : record'[s] = record[s]
  BY <1>2, <1>5, <1>6 DEF Records
<1> QED BY <1>3, <1>4, <1>5, <1>7

(* The contracts' state and what the properties compare it with.           *)
LEMMA StateTyped ==
    ASSUME Typing, GasInv, StackInv, [Next]_vars
    PROVE  StateTyping'
<1>0. MachineTyping /\ BlockTyping /\ StateTyping
  BY DEF Typing
<1>1. /\ instances \in SUBSET Instance /\ store \in [Instance -> Stored] /\ saved \in SavedSet
      /\ due \in [Instance -> Nat] /\ history \in History /\ Unsaved \in SavedSet
  BY DEF Typing, StateTyping, SavedSet, History, Unsaved
<1> SUFFICES /\ instances' \in SUBSET Instance /\ store' \in [Instance -> Stored]
             /\ saved' \in SavedSet /\ due' \in [Instance -> Nat] /\ history' \in History
  BY DEF StateTyping, SavedSet, History
<1>2. CASE Works /\ (Writes \/ \E h \in Outcome : Creates(h))
  <2>1. phase = "running" /\ UNCHANGED <<instances, history>>
    BY <1>2 DEF Works, MaySpend
  <2>2. sender.current \in Instance /\ txn \in Txn
    BY <1>0, <2>1, AuthorityHas
  <2>3. CASE Writes
    <3>1. due' \in [Instance -> Nat]
      BY <1>1, <2>2, <2>3, ChargesFacts DEF Writes
    <3>2. store' \in [Instance -> Stored] /\ saved' \in SavedSet
      BY <1>0, <1>1, <2>2, <2>3, SavesFacts DEF Writes
    <3> QED BY <1>1, <2>1, <3>1, <3>2
  <2>4. ASSUME NEW h \in Outcome, Creates(h) PROVE UNCHANGED <<store, saved, due>>
    BY <2>4 DEF Creates
  <2> QED BY <1>1, <1>2, <2>1, <2>3, <2>4
<1>3. ASSUME NEW i \in Instance, Call(i) \/ DelegateCall(i)
      PROVE  UNCHANGED <<instances, store, saved, due, history>>
  BY <1>3 DEF Call, DelegateCall, databases
<1>4. CASE Return
  <2>1. UNCHANGED <<instances, store, saved, due>>
    BY <1>4 DEF Return, databases
  <2>2. history' \in History
    <3>1. CASE frames[Top].how = "first"
      <4>1. history' = [history EXCEPT !.gas = frames[Top].cost + sender.used] /\ phase = "running"
        BY <1>4, <3>1 DEF Return
      <4>2. frames[Top].cost \in Nat /\ sender.used \in Nat
        BY <1>0, <4>1, SpentFacts, FrameFields, ContextFields DEF MachineTyping, GasInv
      <4>3. frames[Top].cost + sender.used \in Nat
        BY <4>2
      <4> QED BY <1>1, <4>1, <4>3 DEF History
    <3>2. CASE frames[Top].how # "first"
      BY <1>1, <1>4, <3>2 DEF Return
    <3> QED BY <3>1, <3>2
  <2> QED BY <1>1, <2>1, <2>2
<1>5. CASE Trap
  <2>1. UNCHANGED <<instances, store, saved, due>> /\ phase = "running"
    BY <1>5 DEF Trap, databases
  <2>2. history' \in History
    <3> DEFINE last == IF MaySpend THEN frames[Top].cost ELSE frames[Top].limit
               g == sender.used + last + Cost(Front(frames))
    <3>1. frames \in Seq(Frame) /\ frames # <<>> /\ sender \in Context
      BY <1>0, <2>1 DEF MachineTyping, GasInv
    <3>2. last \in Nat /\ sender.used \in Nat
      BY <3>1, SpentFacts, FrameFields, ContextFields
    <3>3. Cost(Front(frames)) \in Nat
      BY <3>1, FrontFacts, CostFacts
    <3>4. g \in Nat
      BY <3>2, <3>3
    <3>5. history' = [history EXCEPT !.gas = g]
      BY <1>5 DEF Trap
    <3> HIDE DEF g
    <3> QED BY <1>1, <3>4, <3>5 DEF History
  <2> QED BY <1>1, <2>1, <2>2
<1>6. CASE Succeed
  <2>1. UNCHANGED <<instances, store, due>> /\ saved' = Unsaved
        /\ history' = [history EXCEPT !.good = store]
    BY <1>6 DEF Succeed
  <2> QED BY <1>1, <2>1 DEF History
<1>7. CASE Fail
  <2>1. UNCHANGED <<instances, due>> /\ saved' = Unsaved /\ store' = Restored
        /\ history' = [history EXCEPT !.drift = @ \/ children # {}]
    BY <1>7 DEF Fail
  <2>2. history' \in History
    BY <1>1, <2>1 DEF History
  <2> QED BY <1>0, <1>1, <2>1, <2>2, RestoredType
<1>8. CASE Settle
  <2>1. UNCHANGED <<instances, store, saved>> /\ due' \in [Instance -> Nat]
    BY <1>8, SettleFacts DEF Settle
  <2>2. history' \in History
    BY <1>1, <1>8 DEF Settle, History
  <2> QED BY <1>1, <2>1, <2>2
<1>9. ASSUME NEW t \in Txn, Refuse(t) PROVE UNCHANGED <<instances, store, saved, due, history>>
  BY <1>9 DEF Refuse
<1>10. ASSUME NEW t \in Txn, Begin(t)
       PROVE  UNCHANGED <<instances, store, saved, due>> /\ history' \in History
  <2>1. UNCHANGED <<instances, store, saved, due>> /\ history' = [history EXCEPT !.gas = 0]
    BY <1>10 DEF Begin, databases
  <2> QED BY <1>1, <2>1 DEF History
<1>11. CASE StoreBlock
  <2>1. /\ UNCHANGED <<store, saved, due>> /\ instances' = instances \cup block.made
        /\ history' = [history EXCEPT !.chain = @ \cup {c.child : c \in block.children}]
    BY <1>11 DEF StoreBlock
  <2>2. block.made \in SUBSET Instance /\ {c.child : c \in block.children} \in SUBSET ChildRec
    BY <1>0 DEF BlockTyping, Made
  <2>3. history' \in History
    BY <1>1, <2>1, <2>2 DEF History
  <2> QED BY <1>1, <2>1, <2>2, <2>3
<1>12. CASE Restart
  <2>1. /\ UNCHANGED <<instances, store, due>> /\ saved' = Unsaved
        /\ history' = [history EXCEPT !.torn = @ \/ phase # "idle", !.gas = 0]
    BY <1>12 DEF Restart
  <2>2. history' \in History
    BY <1>1, <2>1 DEF History
  <2> QED BY <1>1, <2>1, <2>2
<1>13. CASE UNCHANGED vars
  BY <1>1, <1>13 DEF vars, databases
<1> QED BY <1>0, <1>1, <1>2, <1>3, <1>4, <1>5, <1>6, <1>7, <1>8, <1>9, <1>10, <1>11, <1>12, <1>13,
           StepKinds

Blocks == [txns : Seq(Txn), made : SUBSET Instance, children : SUBSET Made, hashes : Seq(AnyHash)]

(* The nonces that are used only grow.                                     *)
LEMMA AddUsedType ==
    ASSUME NEW u \in Amounts, NEW v \in Amounts PROVE AddUsed(u, v) \in Amounts
BY DEF AddUsed, Amounts

(* The empty tables.                                                       *)
LEMMA NothingFacts ==
    /\ Nothing \in Amounts /\ NoChildren.hashes = <<>> /\ NoChildren.nonces \in Amounts
    /\ EmptyBlock \in Blocks /\ [t \in Txn |-> Nothing] \in Records
<1>1. Nothing \in Amounts
  BY DEF Nothing, Amounts
<1>2. NoChildren.hashes = <<>> /\ NoChildren.nonces \in Amounts
  BY <1>1 DEF NoChildren, Nothing
<1>3. EmptyBlock \in Blocks
  BY DEF EmptyBlock, Blocks
<1>4. [t \in Txn |-> Nothing] \in Records
  BY <1>1 DEF Records, Amounts
<1> QED BY <1>1, <1>2, <1>3, <1>4

(* The block after a success, a failure and a settlement.                  *)
LEMMA SucceedBlock ==
    ASSUME Typing, Succeed
    PROVE  /\ block' \in Blocks /\ used' \in Amounts
           /\ block'.hashes = block.hashes \o sc.hashes
           /\ block'.children = block.children \cup children /\ block'.txns = block.txns
<1>1. block \in Blocks /\ children \in SUBSET Made /\ sc.hashes \in Seq(Outcome)
      /\ sc.nonces \in Amounts /\ used \in Amounts
  BY DEF Typing, BlockTyping, MachineTyping, Blocks
<1>2. block.hashes \in Seq(AnyHash) /\ sc.hashes \in Seq(AnyHash)
  BY <1>1 DEF Blocks, AnyHash
<1>3. block.hashes \o sc.hashes \in Seq(AnyHash)
  BY <1>2
<1>4. block' = [block EXCEPT !.hashes = @ \o sc.hashes, !.children = @ \cup children]
      /\ used' = AddUsed(used, sc.nonces)
  BY DEF Succeed
<1>5. block' \in Blocks
  BY <1>1, <1>3, <1>4 DEF Blocks
<1>6. /\ block'.hashes = block.hashes \o sc.hashes
      /\ block'.children = block.children \cup children /\ block'.txns = block.txns
  BY <1>1, <1>4 DEF Blocks
<1> QED BY <1>1, <1>4, <1>5, <1>6, AddUsedType

(* A failure leaves the block as it was.                                   *)
LEMMA FailBlock ==
    ASSUME Typing, Fail
    PROVE  block' = block /\ used' \in Amounts
<1>1. block \in Blocks /\ used \in Amounts
  BY DEF Typing, BlockTyping, Blocks
<1>2. block' = [block EXCEPT !.hashes = @ \o NoChildren.hashes]
      /\ used' = AddUsed(used, NoChildren.nonces)
  BY DEF Fail, Forgotten
<1>3. block.hashes \in Seq(AnyHash)
  BY <1>1 DEF Blocks
<1>4. block.hashes \o <<>> = block.hashes
  BY <1>3
<1>5. block' = block
  BY <1>1, <1>2, <1>4, NothingFacts DEF Blocks
<1> QED BY <1>1, <1>2, <1>5, NothingFacts, AddUsedType

(* A settlement appends the transaction.                                   *)
LEMMA SettleBlock ==
    ASSUME Typing, Settle
    PROVE  /\ txn \in Txn /\ block' \in Blocks
           /\ block'.hashes = Append(block.hashes, txn) /\ block'.txns = Append(block.txns, txn)
           /\ block'.children = block.children
<1>1. block \in Blocks /\ txn \in Txn
  BY DEF Typing, BlockTyping, MachineTyping, Blocks, Settle
<1>2. txn.to \in Instance
  BY <1>1, Constants
<1> DEFINE made == IF phase = "settled" THEN {txn.to} ELSE {}
<1>3. made \in SUBSET Instance
  BY <1>2
<1>4. block' = [block EXCEPT !.txns = Append(@, txn), !.hashes = Append(@, txn), !.made = @ \cup made]
  BY DEF Settle
<1>5. Append(block.txns, txn) \in Seq(Txn) /\ Append(block.hashes, txn) \in Seq(AnyHash)
  BY <1>1 DEF Blocks, AnyHash
<1> HIDE DEF made
<1>6. block' \in Blocks
  BY <1>1, <1>3, <1>4, <1>5 DEF Blocks
<1>7. /\ block'.hashes = Append(block.hashes, txn) /\ block'.txns = Append(block.txns, txn)
      /\ block'.children = block.children
  BY <1>1, <1>4 DEF Blocks
<1> QED BY <1>1, <1>6, <1>7

(* The balances, the nonces and the block.                                 *)
LEMMA BlockTyped ==
    ASSUME Typing, GasInv, StackInv, [Next]_vars
    PROVE  BlockTyping'
<1>0. MachineTyping /\ BlockTyping /\ StateTyping
  BY DEF Typing
<1>1. /\ running \in Amounts /\ balance \in Amounts /\ nonce \in Amounts /\ used \in Amounts
      /\ stored \in Amounts /\ waiting \in SUBSET Txn /\ block \in Blocks /\ record \in Records
      /\ restarts \in 0..MaxRestarts
  BY DEF Typing, BlockTyping, Blocks, Records
<1> SUFFICES /\ running' \in Amounts /\ balance' \in Amounts /\ nonce' \in Amounts
             /\ used' \in Amounts /\ stored' \in Amounts /\ waiting' \in SUBSET Txn
             /\ block' \in Blocks /\ record' \in Records /\ restarts' \in 0..MaxRestarts
  BY DEF BlockTyping, Blocks, Records
<1>2. CASE Works /\ (Writes \/ \E h \in Outcome : Creates(h))
  <2>1. phase = "running" /\ UNCHANGED <<balance, stored, waiting, used, block, restarts>>
    BY <1>2 DEF Works, MaySpend
  <2>2. txn \in Txn
    BY <1>0, <2>1, AuthorityHas
  <2>3. CASE Writes
    <3>1. running' \in Amounts /\ record' \in Records /\ nonce' = nonce
      BY <1>1, <2>2, <2>3, ChargesFacts DEF Writes
    <3> QED BY <1>1, <2>1, <3>1
  <2>4. ASSUME NEW h \in Outcome, Creates(h)
        PROVE  running' \in Amounts /\ record' \in Records /\ nonce' \in Amounts
    <3>1. h.child.nonce \in Nat
      BY DEF Outcome, ChildRec
    <3>2. nonce' \in Amounts
      BY <1>1, <2>4, <3>1 DEF Creates, Amounts
    <3> QED BY <1>0, <1>1, <2>4, <3>2, CreatesMoney DEF Creates
  <2> QED BY <1>1, <1>2, <2>1, <2>3, <2>4
<1>3. ASSUME NEW i \in Instance, Call(i) \/ DelegateCall(i)
      PROVE  UNCHANGED <<running, balance, nonce, used, stored, waiting, block, record, restarts>>
  BY <1>3 DEF Call, DelegateCall, databases
<1>4. CASE Return \/ Trap
  <2>1. UNCHANGED <<running, balance, nonce, used, stored, waiting, block, record, restarts>>
    BY <1>4 DEF Return, Trap, databases
  <2> QED BY <1>1, <2>1
<1>5. CASE Succeed
  <2>1. UNCHANGED <<running, balance, nonce, stored, waiting, record, restarts>>
    BY <1>5 DEF Succeed
  <2> QED BY <1>1, <1>5, <2>1, SucceedBlock
<1>6. CASE Fail
  <2>1. UNCHANGED <<running, balance, nonce, stored, waiting, record, restarts>>
    BY <1>6 DEF Fail
  <2> QED BY <1>1, <1>6, <2>1, FailBlock
<1>7. CASE Settle
  <2>1. txn \in Txn /\ txn.nonce \in Nat /\ txn.user \in Wallet
    BY <1>7, SettleFacts, Constants
  <2>2. /\ UNCHANGED <<balance, stored, restarts>> /\ waiting' = waiting \ {txn}
        /\ nonce' = [nonce EXCEPT ![txn.user] = txn.nonce]
        /\ used' = AddUsed(used, [Nothing EXCEPT ![txn.user] = txn.nonce])
    BY <1>7 DEF Settle
  <2>3. nonce' \in Amounts
    BY <1>1, <2>1, <2>2 DEF Amounts
  <2>4. [Nothing EXCEPT ![txn.user] = txn.nonce] \in Amounts
    BY <2>1, NothingFacts DEF Amounts
  <2>5. used' \in Amounts
    BY <1>1, <2>2, <2>4, AddUsedType
  <2>6. waiting' \in SUBSET Txn /\ balance' \in Amounts /\ stored' \in Amounts
        /\ restarts' \in 0..MaxRestarts
    BY <1>1, <2>2
  <2>7. running' \in Amounts /\ record' \in Records
    BY <1>7, SettleFacts
  <2> QED BY <1>7, <2>3, <2>5, <2>6, <2>7, SettleBlock
<1>8. ASSUME NEW t \in Txn, Refuse(t)
      PROVE  /\ waiting' = waiting \ {t}
             /\ UNCHANGED <<running, balance, nonce, used, stored, block, record, restarts>>
  BY <1>8 DEF Refuse
<1>9. ASSUME NEW t \in Txn, Begin(t)
      PROVE  /\ running' \in Amounts /\ record' \in Records
             /\ UNCHANGED <<balance, nonce, used, stored, waiting, block, restarts>>
  <2>1. UNCHANGED <<balance, nonce, used, stored, waiting, block, restarts>>
    BY <1>9 DEF Begin, databases
  <2> QED BY <1>9, <2>1, BeginFacts
<1>10. CASE StoreBlock
  <2>1. /\ UNCHANGED <<running, nonce, waiting, restarts>> /\ used' = Nothing /\ block' = EmptyBlock
        /\ balance' = add_temp_wallet_balance(record, balance, block.hashes)
        /\ stored' = [w \in Wallet |-> IF used[w] = 0 THEN stored[w] ELSE used[w]]
        /\ record' = [t \in Txn |-> Nothing]
    BY <1>10 DEF StoreBlock
  <2>2. balance' \in Amounts
    <3>1. block.hashes \in Seq(AnyHash)
      BY <1>1 DEF Blocks
    <3> QED BY <1>1, <2>1, <3>1, ReplayType
  <2>3. stored' \in Amounts
    BY <1>1, <2>1 DEF Amounts
  <2> QED BY <1>1, <2>1, <2>2, <2>3, NothingFacts
<1>11. CASE Restart
  <2>1. /\ UNCHANGED <<balance, stored, waiting>> /\ restarts < MaxRestarts
        /\ restarts' = restarts + 1
        /\ running' = balance /\ nonce' = stored /\ used' = Nothing
        /\ block' = EmptyBlock /\ record' = [t \in Txn |-> Nothing]
    BY <1>11 DEF Restart
  <2>2. restarts' \in 0..MaxRestarts
    BY <1>1, <2>1, Constants
  <2> QED BY <1>1, <2>1, <2>2, NothingFacts
<1>12. CASE UNCHANGED vars
  BY <1>1, <1>12 DEF vars, databases
<1> QED BY <1>0, <1>1, <1>2, <1>3, <1>4, <1>5, <1>6, <1>7, <1>8, <1>9, <1>10, <1>11, <1>12,
           StepKinds

-----------------------------------------------------------------------------
(* Gas. *)

(* A unit more on the frame on top.                                        *)
LEMMA SpentCost ==
    ASSUME frames \in Seq(Frame), frames # <<>>
    PROVE  /\ Cost(Front(Spent)) = Cost(Front(frames)) /\ Cost(Front(frames)) \in Nat
           /\ Cost(frames) = Cost(Front(frames)) + frames[Top].cost /\ frames[Top].cost \in Nat
           /\ Cost(Spent) = Cost(Front(frames)) + frames[Top].cost + 1
<1>1. /\ Top \in Nat /\ Top >= 1 /\ Spent \in Seq(Frame) /\ Len(Spent) = Top
      /\ Spent[Top].cost = frames[Top].cost + 1 /\ frames[Top] \in Frame
      /\ \A k \in 1..(Top - 1) : Spent[k] = frames[k]
  BY SpentFacts
<1>2. /\ Front(frames) \in Seq(Frame) /\ Len(Front(frames)) = Top - 1
      /\ \A k \in 1..(Top - 1) : Front(frames)[k] = frames[k]
  BY FrontFacts DEF Top
<1>3. Spent # <<>>
  BY <1>1
<1>4. /\ Front(Spent) \in Seq(Frame) /\ Len(Front(Spent)) = Top - 1
      /\ \A k \in 1..(Top - 1) : Front(Spent)[k] = Spent[k]
  BY <1>1, <1>3, FrontFacts
<1>5. Cost(Front(Spent)) = Cost(Front(frames))
  BY <1>1, <1>2, <1>4, CostSame
<1>6. Cost(Front(frames)) \in Nat /\ frames[Top].cost \in Nat
  BY <1>1, <1>2, CostFacts, FrameFields
<1>7. Cost(frames) = Cost(Front(frames)) + frames[Top].cost
  BY CostFacts DEF Top
<1>8. Cost(Spent) = Cost(Front(Spent)) + Spent[Top].cost
  BY <1>1, <1>3, CostFacts
<1> QED BY <1>1, <1>5, <1>6, <1>7, <1>8

(* A call: gas is passed on to the callee, and none is made.               *)
LEMMA CallGas ==
    ASSUME MachineTyping, GasInv, NEW i \in Instance, Call(i) \/ DelegateCall(i)
    PROVE  /\ MaySpend /\ phase = "running" /\ UNCHANGED <<phase, txn, history>>
           /\ frames \in Seq(Frame) /\ frames # <<>> /\ sender \in Context
           /\ \E f \in Frame :
                 /\ frames' = Append(Spent, f) /\ f.cost = 0 /\ f.code = i
                 /\ f.limit = sender'.available
                 /\ \/ Call(i) /\ f.how = "call" /\ f.back = [sender EXCEPT !.depth = @ + 1]
                    \/ DelegateCall(i) /\ f.how = "delegate" /\ f.back = sender
           /\ sender'.available = sender.available - (frames[Top].cost + 1)
           /\ sender'.used = sender.used
<1>1. MaySpend /\ phase = "running" /\ UNCHANGED <<phase, txn, history>>
  BY DEF Call, DelegateCall, CallableFrom, MaySpend
<1>2. /\ frames \in Seq(Frame) /\ frames # <<>> /\ sender \in Context
      /\ frames[Top].limit = sender.available
  BY <1>1 DEF MachineTyping, GasInv
<1> DEFINE n == sender.available - (frames[Top].cost + 1)
           how == IF Call(i) THEN "call" ELSE "delegate"
           back == IF Call(i) THEN [sender EXCEPT !.depth = @ + 1] ELSE sender
           f == [code |-> i, how |-> how, cost |-> 0, back |-> back, limit |-> n]
<1>3. /\ how \in {"call", "delegate"} /\ back \in Context
      /\ \/ Call(i) /\ how = "call" /\ back = [sender EXCEPT !.depth = @ + 1]
         \/ DelegateCall(i) /\ how = "delegate" /\ back = sender
  BY <1>2, ContextChanges
<1>4. Spent[Top].cost = frames[Top].cost + 1
  BY <1>2, SpentFacts
<1>5. frames' = runCall(i, how, back)
  BY DEF Call, DelegateCall
<1>6. sender'.available = n /\ sender'.used = sender.used
  <2>1. CASE Call(i)
    BY <1>2, <1>4, <2>1 DEF Call, CallContext, Context
  <2>2. CASE DelegateCall(i)
    BY <1>2, <1>4, <2>2 DEF DelegateCall, Context
  <2> QED BY <2>1, <2>2
<1> HIDE DEF how, back
<1>7. f \in Frame /\ frames' = Append(Spent, f)
  BY <1>1, <1>2, <1>3, <1>5, CallFacts
<1>8. f.cost = 0 /\ f.code = i /\ f.limit = n /\ f.how = how /\ f.back = back
  OBVIOUS
<1> HIDE DEF f
<1> QED BY <1>1, <1>2, <1>3, <1>6, <1>7, <1>8

(* What a return does to the gas.                                          *)
LEMMA ReturnGas ==
    ASSUME MachineTyping, GasInv, StackInv, Return, Top # 1
    PROVE  /\ frames' \in Seq(Frame) /\ frames' # <<>> /\ Len(frames') = Top - 1
           /\ frames'[Len(frames')].limit = sender'.available
           /\ Cost(frames') = Cost(Front(frames))
           /\ Cost(Front(frames')) \in Nat /\ Cost(Front(frames')) <= Cost(Front(frames))
           /\ frames[Top].cost \in Nat
           /\ sender'.available = sender.available - frames[Top].cost
           /\ sender'.used = sender.used + frames[Top].cost
<1> DEFINE n == sender.available - frames[Top].cost
<1>1. /\ frames \in Seq(Frame) /\ frames # <<>> /\ Top \in Nat /\ Top >= 2 /\ n \in Nat
      /\ frames' = Popped(n)
      /\ sender'.available = n /\ sender'.used = sender.used + frames[Top].cost
  BY Returned
<1> HIDE DEF n
<1>2. /\ frames' \in Seq(Frame) /\ Len(frames') = Top - 1 /\ frames' # <<>>
      /\ frames'[Top - 1].limit = n /\ Top - 1 \in Nat /\ Top - 1 >= 1
      /\ \A k \in 1..(Top - 1) : frames'[k].cost = frames[k].cost
  <2>1. PICK m \in Nat : m = n
    BY <1>1
  <2>2. PICK gs : gs = frames'
    OBVIOUS
  <2>3. gs = Popped(m)
    BY <1>1, <2>1, <2>2
  <2>4. /\ gs \in Seq(Frame) /\ Len(gs) = Top - 1 /\ gs # <<>>
        /\ gs[Top - 1].limit = m /\ Top - 1 \in Nat /\ Top - 1 >= 1
        /\ \A k \in 1..(Top - 1) : gs[k].cost = frames[k].cost
    <3>1. frames \in Seq(Frame) /\ frames # <<>>
      BY <1>1
    <3> QED BY <2>3, <3>1, ReturnFacts
  <2> QED BY <2>1, <2>2, <2>4
<1>3. /\ Front(frames) \in Seq(Frame) /\ Len(Front(frames)) = Top - 1
      /\ \A k \in 1..(Top - 1) : Front(frames)[k] = frames[k]
  BY <1>1, FrontFacts DEF Top
<1>4. Cost(frames') = Cost(Front(frames))
  <2>1. \A k \in 1..(Top - 1) : frames'[k].cost = Front(frames)[k].cost
    BY <1>2, <1>3
  <2> QED BY <1>2, <1>3, <2>1, CostSame
<1>5. Cost(frames') = Cost(Front(frames')) + frames'[Top - 1].cost
      /\ Cost(Front(frames')) \in Nat /\ frames'[Top - 1].cost \in Nat
  <2>1. Front(frames') \in Seq(Frame)
    BY <1>2, FrontFacts
  <2>2. frames'[Top - 1] \in Frame
    BY <1>2
  <2> QED BY <1>2, <2>1, <2>2, CostFacts, FrameFields
<1>6. frames[Top].cost \in Nat
  BY <1>1, SpentCost
<1> QED BY <1>1, <1>2, <1>4, <1>5, <1>6 DEF n

(* The gas is accounted for at every step.                                 *)
LEMMA GasKept ==
    ASSUME Typing, GasInv, StackInv, [Next]_vars
    PROVE  GasInv'
<1>0. MachineTyping /\ BlockTyping /\ StateTyping
  BY DEF Typing
<1>1. /\ frames \in Seq(Frame) /\ sender \in Context /\ history.gas \in Nat
      /\ history \in History
  BY <1>0 DEF MachineTyping, StateTyping, History
<1>2. sender.available \in Nat /\ sender.used \in Nat
  BY <1>1, ContextFields
<1>3. phase = "running" => txn \in Txn /\ fee_left(txn) \in Nat
  BY <1>0, Constants DEF MachineTyping
<1>4. ASSUME Works PROVE GasInv'
  <2>1. /\ phase = "running" /\ frames' = Spent /\ frames # <<>>
        /\ UNCHANGED <<phase, txn, sender, history>>
    BY <1>4 DEF Works, MaySpend, GasInv
  <2>2. /\ Spent # <<>> /\ Len(Spent) = Top /\ Spent[Top].limit = frames[Top].limit
    BY <1>1, <2>1, SpentFacts
  <2>3. Cost(Front(Spent)) = Cost(Front(frames))
    BY <1>1, <2>1, SpentCost
  <2> QED BY <2>1, <2>2, <2>3 DEF GasInv, Top
<1>5. ASSUME NEW i \in Instance, Call(i) \/ DelegateCall(i)
      PROVE  GasInv'
  <2>1. /\ phase = "running" /\ UNCHANGED <<phase, txn, history>> /\ frames # <<>>
        /\ sender'.available = sender.available - (frames[Top].cost + 1)
        /\ sender'.used = sender.used
    BY <1>0, <1>5, CallGas
  <2>2. PICK f \in Frame : frames' = Append(Spent, f) /\ f.limit = sender'.available
    BY <1>0, <1>5, CallGas
  <2>3. Spent \in Seq(Frame) /\ Len(Spent) = Top
    BY <1>1, <2>1, SpentFacts
  <2>4. /\ frames' # <<>> /\ frames'[Len(frames')].limit = sender'.available
        /\ Front(frames') = Spent
    BY <2>2, <2>3, AppendFacts
  <2>5. /\ Cost(Spent) = Cost(Front(frames)) + frames[Top].cost + 1
        /\ Cost(Front(frames)) \in Nat /\ frames[Top].cost \in Nat
    BY <1>1, <2>1, SpentCost
  <2>6. sender'.used + sender'.available + Cost(Front(frames')) <= fee_left(txn')
    <3>1. /\ sender'.used + sender'.available + Cost(Front(frames'))
                = sender.used + (sender.available - (frames[Top].cost + 1)) + Cost(Spent)
          /\ fee_left(txn') = fee_left(txn)
      BY <2>1, <2>4
    <3>2. sender.used + sender.available + Cost(Front(frames)) <= fee_left(txn)
      BY <2>1 DEF GasInv
    <3>3. sender.used \in Nat /\ sender.available \in Nat /\ fee_left(txn) \in Nat
      BY <1>2, <1>3, <2>1
    <3> QED BY <2>5, <3>1, <3>2, <3>3
  <2> QED BY <2>1, <2>4, <2>6 DEF GasInv, Top
<1>6. ASSUME Return PROVE GasInv'
  <2>1. phase = "running" /\ UNCHANGED txn /\ frames # <<>>
    BY <1>6 DEF Return, GasInv
  <2>2. /\ Cost(Front(frames)) \in Nat /\ frames[Top].cost \in Nat /\ frames[Top].limit = sender.available
        /\ frames[Top].cost <= frames[Top].limit
        /\ sender.used + sender.available + Cost(Front(frames)) <= fee_left(txn)
    BY <1>1, <1>6, <2>1, SpentCost DEF GasInv, Return
  <2>3. CASE Top = 1
    <3>1. frames[Top].how = "first"
      BY <2>1, <2>3 DEF StackInv
    <3>2. phase' = "done" /\ history' = [history EXCEPT !.gas = frames[Top].cost + sender.used]
          /\ UNCHANGED frames
      BY <1>6, <3>1 DEF Return
    <3>3. history'.gas <= fee_left(txn) /\ history'.unpaid = history.unpaid
      BY <1>1, <1>2, <1>3, <2>1, <2>2, <3>2 DEF History
    <3> QED BY <2>1, <3>2, <3>3 DEF GasInv
  <2>4. CASE Top # 1
    <3>1. UNCHANGED <<phase, history>>
      BY <1>0, <1>6, <2>4, Returned
    <3>2. /\ frames' # <<>> /\ frames'[Len(frames')].limit = sender'.available
          /\ Cost(Front(frames')) \in Nat /\ Cost(Front(frames')) <= Cost(Front(frames))
          /\ sender'.available = sender.available - frames[Top].cost
          /\ sender'.used = sender.used + frames[Top].cost
      BY <1>0, <1>6, <2>4, ReturnGas
    <3>3. sender'.used + sender'.available + Cost(Front(frames')) <= fee_left(txn')
      BY <1>2, <1>3, <2>1, <2>2, <3>2
    <3> QED BY <2>1, <3>1, <3>2, <3>3 DEF GasInv, Top
  <2> QED BY <2>3, <2>4
<1>7. ASSUME Trap PROVE GasInv'
  <2> DEFINE last == IF MaySpend THEN frames[Top].cost ELSE frames[Top].limit
             g == sender.used + last + Cost(Front(frames))
  <2>1. /\ phase = "running" /\ phase' = "failed" /\ UNCHANGED <<txn, frames>> /\ frames # <<>>
        /\ history' = [history EXCEPT !.gas = g]
    BY <1>7 DEF Trap, GasInv, machine
  <2>2. /\ Cost(Front(frames)) \in Nat /\ frames[Top].cost \in Nat /\ frames[Top].limit = sender.available
        /\ sender.used + sender.available + Cost(Front(frames)) <= fee_left(txn)
    BY <1>1, <2>1, SpentCost DEF GasInv
  <2>3. last <= sender.available /\ last \in Nat
    BY <1>2, <2>2 DEF MaySpend
  <2>4. g <= fee_left(txn)
    <3> HIDE DEF last
    <3> QED BY <1>2, <1>3, <2>1, <2>2, <2>3
  <2> HIDE DEF g
  <2>5. history'.gas = g /\ history'.unpaid = history.unpaid
    BY <1>1, <2>1 DEF History
  <2> QED BY <2>1, <2>4, <2>5 DEF GasInv
<1>8. ASSUME Succeed \/ Fail PROVE GasInv'
  <2>1. /\ phase \in {"done", "failed"} /\ phase' \in {"settled", "undone"} /\ UNCHANGED <<txn, frames>>
        /\ history'.gas = history.gas /\ history'.unpaid = history.unpaid
    BY <1>1, <1>8 DEF Succeed, Fail, History
  <2> QED BY <2>1 DEF GasInv
<1>9. ASSUME Settle PROVE GasInv'
  <2>1. phase' = "idle" /\ frames' = <<>> /\ history'.unpaid = history.unpaid
    BY <1>9, SettleFacts DEF Settle
  <2> QED BY <2>1 DEF GasInv
<1>10. ASSUME NEW t \in Txn, Refuse(t) PROVE GasInv'
  BY <1>10 DEF Refuse, machine, GasInv
<1>11. ASSUME NEW t \in Txn, Begin(t) PROVE GasInv'
  <2>1. /\ phase' \in {"running", "undone"} /\ txn' = t
        /\ phase' = "undone" => frames' = <<>>
        /\ phase' = "running" => eval(t)
    BY <1>11, BeginFacts
  <2>2. history'.gas = 0 /\ history'.unpaid = history.unpaid
    BY <1>1, <1>11 DEF Begin, History
  <2>3. fee_left(t) \in Nat
    BY Constants
  <2>4. CASE phase' = "undone"
    BY <2>1, <2>2, <2>3, <2>4 DEF GasInv
  <2>5. CASE phase' = "running"
    <3> DEFINE f == [code |-> t.to, how |-> "first", cost |-> 0, limit |-> fee_left(t), back |-> Nobody]
    <3>1. frames' = <<f>> /\ sender'.available = fee_left(t) /\ sender'.used = 0
      BY <2>1, <2>5 DEF eval
    <3>2. f \in Frame /\ f.limit = fee_left(t)
      <4>1. t.to \in Instance /\ Nobody \in Context
        BY Constants DEF Nobody, Context, Address
      <4> QED BY <2>3, <4>1 DEF Frame
    <3> HIDE DEF f
    <3>3. /\ frames' = Append(<<>>, f) /\ <<>> \in Seq(Frame) /\ Len(<<>>) = 0
      BY <3>1
    <3>4. /\ frames' # <<>> /\ frames'[Len(frames')].limit = fee_left(t) /\ Front(frames') = <<>>
      <4>1. PICK e \in Seq(Frame) : e = <<>>
        <5>1. <<>> \in Seq(Frame)
          OBVIOUS
        <5> QED BY <5>1, Zenon
      <4>2. frames' = Append(e, f) /\ Len(e) = 0
        BY <3>3, <4>1
      <4>3. /\ frames' # <<>> /\ Len(frames') = Len(e) + 1 /\ frames'[Len(e) + 1] = f
            /\ Front(frames') = e
        BY <3>2, <4>2, AppendFacts
      <4> QED BY <3>2, <4>1, <4>2, <4>3
    <3>5. Cost(<<>>) = 0
      <4>1. DOMAIN <<>> = {}
        OBVIOUS
      <4>2. Cost(<<>>) = SumFunctionOnSet([k \in DOMAIN <<>> |-> <<>>[k].cost], {})
        BY <4>1 DEF Cost, SumFunction
      <4> QED BY <4>2, SumEmpty
    <3>6. sender'.used + sender'.available + Cost(Front(frames')) <= fee_left(txn')
      BY <2>1, <2>3, <3>1, <3>4, <3>5
    <3> QED BY <2>1, <2>2, <2>5, <3>1, <3>4, <3>6 DEF GasInv, Top
  <2> QED BY <2>1, <2>4, <2>5
<1>12. ASSUME StoreBlock PROVE GasInv'
  <2>1. phase = "idle" /\ UNCHANGED <<phase, txn, sender, frames>> /\ history'.unpaid = history.unpaid
    BY <1>1, <1>12 DEF StoreBlock, machine, History
  <2> QED BY <2>1 DEF GasInv
<1>13. ASSUME Restart PROVE GasInv'
  <2>1. phase' = "idle" /\ frames' = <<>> /\ history'.unpaid = history.unpaid
    BY <1>1, <1>13 DEF Restart, History
  <2> QED BY <2>1 DEF GasInv
<1>14. ASSUME UNCHANGED vars PROVE GasInv'
  BY <1>14 DEF vars, machine, GasInv, Top
<1> QED BY <1>0, <1>4, <1>5, <1>6, <1>7, <1>8, <1>9, <1>10, <1>11, <1>12, <1>13, <1>14, StepKinds

-----------------------------------------------------------------------------
(* On whose behalf the code runs, after every step. *)

(* Only what the frames run, and how they were called, counts.             *)
LEMMA MatchesSame ==
    ASSUME NEW t, NEW c, NEW d, NEW fs, NEW gs, NEW k \in Nat, Matches(t, c, fs, k),
           \A l \in 1..k : gs[l].code = fs[l].code /\ gs[l].how = fs[l].how,
           d.current = c.current, d.called = c.called, d.payer = c.payer, d.chain = c.chain,
           d.wallet = c.wallet
    PROVE  Matches(t, d, gs, k)
<1>1. PICK b \in 1..k :
        /\ OnBehalf(fs, k, b)
        /\ c.current = fs[k].code /\ c.called = fs[b].code /\ c.payer = t.to
        /\ Len(c.chain) = k - b + 1
        /\ \A l \in 1 .. k - b + 1 : c.chain[l] = fs[b + l - 1].code
        /\ c.wallet = IF b = 1 THEN t.user ELSE NoWallet
  BY DEF Matches
<1>2. OnBehalf(gs, k, b)
  <2>1. b \in 1..k /\ gs[b].how # "delegate"
    BY <1>1 DEF OnBehalf
  <2>2. ASSUME NEW l \in b + 1 .. k PROVE gs[l].how = "delegate"
    <3>1. l \in 1..k
      BY <2>1
    <3> QED BY <1>1, <3>1 DEF OnBehalf
  <2> QED BY <2>1, <2>2 DEF OnBehalf
<1>3. d.current = gs[k].code /\ d.called = gs[b].code
  <2>1. k \in 1..k /\ b \in 1..k
    BY <1>1
  <2> QED BY <1>1, <2>1
<1>4. \A l \in 1 .. k - b + 1 : d.chain[l] = gs[b + l - 1].code
  <2> SUFFICES ASSUME NEW l \in 1 .. k - b + 1 PROVE d.chain[l] = gs[b + l - 1].code
    OBVIOUS
  <2>1. b + l - 1 \in 1..k
    BY <1>1
  <2> QED BY <1>1, <2>1
<1> QED BY <1>1, <1>2, <1>3, <1>4 DEF Matches

(* A contract is called.                                                   *)
LEMMA CalledMatches ==
    ASSUME NEW t, NEW c, NEW gs \in Seq(Frame), NEW n \in Nat, Len(gs) = n + 1, n >= 1,
           NEW i, gs[n + 1].how = "call", gs[n + 1].code = i,
           c.current = i, c.called = i, c.payer = t.to, c.chain = <<i>>, c.wallet = NoWallet
    PROVE  Matches(t, c, gs, n + 1)
<1>1. n + 1 \in 1..(n + 1) /\ n + 1 # 1 /\ (n + 1) - (n + 1) + 1 = 1
  OBVIOUS
<1>2. OnBehalf(gs, n + 1, n + 1)
  BY <1>1 DEF OnBehalf
<1>3. Len(c.chain) = 1 /\ \A l \in 1..1 : c.chain[l] = i /\ (n + 1) + l - 1 = n + 1
  OBVIOUS
<1> QED BY <1>1, <1>2, <1>3 DEF Matches

(* A contract joins those that its caller acts for.                        *)
LEMMA DelegatedMatches ==
    ASSUME NEW t, NEW c, NEW d, NEW gs, NEW n \in Nat, n >= 1, NEW i \in Instance,
           gs[n + 1].how = "delegate", gs[n + 1].code = i, Matches(t, c, gs, n),
           c.chain \in Seq(Instance), d.chain = Append(c.chain, i),
           d.current = i, d.called = c.called, d.payer = c.payer, d.wallet = c.wallet
    PROVE  Matches(t, d, gs, n + 1)
<1>1. PICK b \in 1..n :
        /\ OnBehalf(gs, n, b)
        /\ c.current = gs[n].code /\ c.called = gs[b].code /\ c.payer = t.to
        /\ Len(c.chain) = n - b + 1
        /\ \A l \in 1 .. n - b + 1 : c.chain[l] = gs[b + l - 1].code
        /\ c.wallet = IF b = 1 THEN t.user ELSE NoWallet
  BY DEF Matches
<1>2. OnBehalf(gs, n + 1, b) /\ b \in 1..(n + 1)
  <2>1. b \in 1..(n + 1) /\ gs[b].how # "delegate"
    BY <1>1 DEF OnBehalf
  <2>2. ASSUME NEW l \in b + 1 .. n + 1 PROVE gs[l].how = "delegate"
    <3>1. l \in b + 1 .. n \/ l = n + 1
      BY <2>1
    <3> QED BY <1>1, <3>1 DEF OnBehalf
  <2> QED BY <2>1, <2>2 DEF OnBehalf
<1>3. Len(d.chain) = (n + 1) - b + 1
  <2>1. Len(d.chain) = Len(c.chain) + 1
    <3>1. \A s \in Seq(Instance) : Len(Append(s, i)) = Len(s) + 1
      OBVIOUS
    <3> QED BY <3>1
  <2> QED BY <1>1, <2>1
<1>4. ASSUME NEW l \in 1 .. (n + 1) - b + 1 PROVE d.chain[l] = gs[b + l - 1].code
  <2>1. CASE l <= n - b + 1
    <3>1. l \in 1..Len(c.chain) /\ l \in 1 .. n - b + 1
      BY <1>1, <2>1
    <3>2. d.chain[l] = c.chain[l]
      BY <3>1
    <3> QED BY <1>1, <3>1, <3>2
  <2>2. CASE l = n - b + 2
    <3>1. l = Len(c.chain) + 1 /\ b + l - 1 = n + 1
      BY <1>1, <2>2
    <3>2. d.chain[l] = i
      BY <3>1
    <3> QED BY <3>1, <3>2
  <2> QED BY <1>1, <2>1, <2>2
<1> QED BY <1>1, <1>2, <1>3, <1>4 DEF Matches

(* And leaves them again.                                                  *)
LEMMA LeftMatches ==
    ASSUME NEW t, NEW c, NEW d, NEW e, NEW fs, NEW gs, NEW n \in Nat, n >= 1,
           fs[n + 1].how = "delegate", Matches(t, c, fs, n + 1), Matches(t, e, fs, n),
           \A l \in 1..n : gs[l].code = fs[l].code /\ gs[l].how = fs[l].how,
           c.chain \in Seq(Instance), Len(c.chain) >= 1, d.chain = Front(c.chain),
           d.current = e.current, d.called = c.called, d.payer = c.payer, d.wallet = c.wallet
    PROVE  Matches(t, d, gs, n)
<1>1. PICK b \in 1..(n + 1) :
        /\ OnBehalf(fs, n + 1, b)
        /\ c.called = fs[b].code /\ c.payer = t.to
        /\ Len(c.chain) = (n + 1) - b + 1
        /\ \A l \in 1 .. (n + 1) - b + 1 : c.chain[l] = fs[b + l - 1].code
        /\ c.wallet = IF b = 1 THEN t.user ELSE NoWallet
  BY DEF Matches
<1>2. b \in 1..n
  <2>1. fs[b].how # "delegate"
    BY <1>1 DEF OnBehalf
  <2>2. b # n + 1
    BY <2>1
  <2> QED BY <1>1, <2>2
<1>3. OnBehalf(gs, n, b)
  <2>1. gs[b].how # "delegate"
    BY <1>1, <1>2 DEF OnBehalf
  <2>2. ASSUME NEW l \in b + 1 .. n PROVE gs[l].how = "delegate"
    <3>1. l \in 1..n /\ l \in b + 1 .. n + 1
      BY <1>2
    <3> QED BY <1>1, <3>1 DEF OnBehalf
  <2> QED BY <1>2, <2>1, <2>2 DEF OnBehalf
<1>4. d.current = gs[n].code
  <2>1. e.current = fs[n].code
    BY DEF Matches
  <2>2. n \in 1..n
    OBVIOUS
  <2> QED BY <2>1, <2>2
<1>5. d.called = gs[b].code
  BY <1>1, <1>2
<1>6. Len(d.chain) = n - b + 1 /\ \A l \in 1..(Len(c.chain) - 1) : d.chain[l] = c.chain[l]
  <2>1. PICK s \in Seq(Instance) : s = c.chain
    OBVIOUS
  <2>2. Len(Front(s)) = Len(s) - 1 /\ \A l \in 1..(Len(s) - 1) : Front(s)[l] = s[l]
    BY <2>1, FrontSeq
  <2> QED BY <1>1, <1>2, <2>1, <2>2
<1>7. ASSUME NEW l \in 1 .. n - b + 1 PROVE d.chain[l] = gs[b + l - 1].code
  <2>1. l \in 1..(Len(c.chain) - 1) /\ l \in 1 .. (n + 1) - b + 1 /\ b + l - 1 \in 1..n
    BY <1>1, <1>2
  <2> QED BY <1>1, <1>6, <2>1
<1> QED BY <1>1, <1>2, <1>3, <1>4, <1>5, <1>6, <1>7 DEF Matches

(* The stack of a list of frames, in an execution of t.                    *)
Stacked(t, c, fs) ==
    /\ fs[1].how = "first" /\ \A k \in 2..Len(fs) : fs[k].how # "first"
    /\ Matches(t, c, fs, Len(fs))
    /\ \A k \in 2..Len(fs) : Matches(t, fs[k].back, fs, k - 1)
(* Which is what the invariant says of the running frames.                 *)
LEMMA StackedIs == StackInv <=> (phase = "running" => Stacked(txn, sender, frames))
BY DEF StackInv, Stacked, Top

(* Frames that only differ in what they cost and may cost.                 *)
LEMMA StackedSame ==
    ASSUME NEW t, NEW c, NEW fs \in Seq(Frame), NEW gs \in Seq(Frame), Stacked(t, c, fs),
           fs # <<>>, Len(gs) = Len(fs),
           \A l \in 1..Len(fs) : /\ gs[l].code = fs[l].code /\ gs[l].how = fs[l].how
                                 /\ gs[l].back = fs[l].back
    PROVE  Stacked(t, c, gs)
<1>1. PICK n \in Nat : n = Len(fs) /\ n >= 1
  <2>1. Len(fs) \in Nat /\ Len(fs) >= 1
    OBVIOUS
  <2> QED BY <2>1
<1>2. /\ fs[1].how = "first" /\ \A k \in 2..n : fs[k].how # "first"
      /\ Matches(t, c, fs, n) /\ \A k \in 2..n : Matches(t, fs[k].back, fs, k - 1)
  BY <1>1 DEF Stacked
<1>3. \A l \in 1..n : gs[l].code = fs[l].code /\ gs[l].how = fs[l].how /\ gs[l].back = fs[l].back
  BY <1>1
<1>4. gs[1].how = "first" /\ \A k \in 2..n : gs[k].how # "first"
  BY <1>1, <1>2, <1>3
<1>5. Matches(t, c, gs, n)
  BY <1>2, <1>3, MatchesSame
<1>6. ASSUME NEW k \in 2..n PROVE Matches(t, gs[k].back, gs, k - 1)
  <2>1. PICK m \in Nat : m = k - 1
    OBVIOUS
  <2>2. \A l \in 1..m : gs[l].code = fs[l].code /\ gs[l].how = fs[l].how
    BY <1>3, <2>1
  <2>3. Matches(t, fs[k].back, fs, m) /\ gs[k].back = fs[k].back
    BY <1>2, <1>3, <2>1
  <2>4. Matches(t, gs[k].back, gs, m)
    BY <2>2, <2>3, MatchesSame
  <2> QED BY <2>1, <2>4
<1> QED BY <1>1, <1>4, <1>5, <1>6 DEF Stacked

(* A frame more, whose context and whose caller's are right.               *)
LEMMA StackedMore ==
    ASSUME NEW t, NEW c, NEW d, NEW fs \in Seq(Frame), fs # <<>>, Stacked(t, c, fs),
           NEW f \in Frame, NEW gs, gs = Append(fs, f), f.how # "first",
           Matches(t, d, gs, Len(gs)), Matches(t, f.back, fs, Len(fs))
    PROVE  Stacked(t, d, gs)
<1>1. PICK n \in Nat : n = Len(fs) /\ n >= 1
  <2>1. Len(fs) \in Nat /\ Len(fs) >= 1
    OBVIOUS
  <2> QED BY <2>1
<1>2. /\ gs \in Seq(Frame) /\ Len(gs) = n + 1 /\ gs[n + 1] = f
      /\ \A l \in 1..n : gs[l] = fs[l]
  BY <1>1, AppendFacts
<1>3. /\ fs[1].how = "first" /\ \A k \in 2..n : fs[k].how # "first"
      /\ \A k \in 2..n : Matches(t, fs[k].back, fs, k - 1)
      /\ Matches(t, f.back, fs, n)
  BY <1>1 DEF Stacked
<1>4. gs[1].how = "first" /\ \A k \in 2..(n + 1) : gs[k].how # "first"
  <2>1. gs[1] = fs[1]
    BY <1>1, <1>2
  <2>2. ASSUME NEW k \in 2..(n + 1) PROVE gs[k].how # "first"
    <3>1. CASE k = n + 1
      BY <1>2, <3>1
    <3>2. CASE k # n + 1
      <4>1. k \in 1..n /\ k \in 2..n
        BY <3>2
      <4> QED BY <1>2, <1>3, <4>1
    <3> QED BY <3>1, <3>2
  <2> QED BY <1>3, <2>1, <2>2
<1>5. ASSUME NEW k \in 2..(n + 1) PROVE Matches(t, gs[k].back, gs, k - 1)
  <2>1. PICK m \in Nat : m = k - 1 /\ m <= n
    <3>1. k - 1 \in Nat /\ k - 1 <= n
      OBVIOUS
    <3> QED BY <3>1
  <2>2. \A l \in 1..m : gs[l].code = fs[l].code /\ gs[l].how = fs[l].how
    <3> SUFFICES ASSUME NEW l \in 1..m PROVE gs[l] = fs[l]
      OBVIOUS
    <3>1. l \in 1..n
      BY <2>1
    <3> QED BY <1>2, <3>1
  <2>3. Matches(t, gs[k].back, fs, m)
    <3>1. CASE k = n + 1
      BY <1>2, <1>3, <2>1, <3>1
    <3>2. CASE k # n + 1
      <4>1. k \in 1..n /\ k \in 2..n
        BY <3>2
      <4> QED BY <1>2, <1>3, <2>1, <4>1
    <3> QED BY <3>1, <3>2
  <2>4. PICK e : e = gs[k].back
    OBVIOUS
  <2>5. Matches(t, e, fs, m)
    BY <2>3, <2>4
  <2>6. Matches(t, e, gs, m)
    BY <2>2, <2>5, MatchesSame
  <2> QED BY <2>1, <2>4, <2>6
<1>6. Matches(t, d, gs, n + 1)
  BY <1>2
<1> QED BY <1>2, <1>4, <1>5, <1>6 DEF Stacked

(* After a call the context is that of the callee.                         *)
LEMMA CallStacks ==
    ASSUME MachineTyping, GasInv, StackInv, NEW i \in Instance, Call(i) \/ DelegateCall(i)
    PROVE  Stacked(txn, sender', frames')
<1>1. /\ phase = "running" /\ frames \in Seq(Frame) /\ frames # <<>> /\ sender \in Context
  BY CallGas
<1>2. PICK f \in Frame :
         /\ frames' = Append(Spent, f) /\ f.code = i
         /\ \/ Call(i) /\ f.how = "call" /\ f.back = [sender EXCEPT !.depth = @ + 1]
            \/ DelegateCall(i) /\ f.how = "delegate" /\ f.back = sender
  BY CallGas
<1>3. PICK n \in Nat : n = Top /\ n >= 1
  <2>1. Top \in Nat /\ Top >= 1
    BY <1>1, SpentFacts
  <2> QED BY <2>1
<1>4. PICK s : s = Spent
  OBVIOUS
<1>5. PICK gs : gs = frames'
  OBVIOUS
<1>6. PICK d : d = sender'
  OBVIOUS
<1>7. /\ s \in Seq(Frame) /\ Len(s) = n /\ s # <<>>
      /\ \A k \in 1..n : /\ s[k].code = frames[k].code /\ s[k].how = frames[k].how
                         /\ s[k].back = frames[k].back
  BY <1>1, <1>3, <1>4, SpentFacts
<1>8. Stacked(txn, sender, frames)
  BY <1>1, StackedIs
<1>9. Stacked(txn, sender, s)
  <2>1. Len(s) = Len(frames) /\ Len(frames) = n
    BY <1>3, <1>7 DEF Top
  <2> QED BY <1>1, <1>7, <1>8, <2>1, StackedSame
<1>10. gs = Append(s, f) /\ gs \in Seq(Frame) /\ Len(gs) = n + 1 /\ gs[n + 1] = f
       /\ \A k \in 1..n : gs[k] = s[k]
  BY <1>2, <1>4, <1>5, <1>7, AppendFacts
<1>11. Matches(txn, sender, s, n)
  BY <1>7, <1>9 DEF Stacked
<1>12. CASE Call(i) /\ f.how = "call" /\ f.back = [sender EXCEPT !.depth = @ + 1]
  <2>1. /\ f.back.current = sender.current /\ f.back.called = sender.called
        /\ f.back.payer = sender.payer /\ f.back.chain = sender.chain
        /\ f.back.wallet = sender.wallet
    BY <1>1, <1>12 DEF Context
  <2>2. Matches(txn, f.back, s, n)
    BY <1>7, <1>11, <2>1, MatchesSame
  <2>3. /\ d.current = i /\ d.called = i /\ d.payer = sender.payer /\ d.chain = <<i>>
        /\ d.wallet = NoWallet
    BY <1>1, <1>6, <1>12 DEF Call, CallContext, Context
  <2>4. sender.payer = txn.to
    BY <1>11 DEF Matches
  <2>5. Matches(txn, d, gs, n + 1)
    BY <1>2, <1>3, <1>10, <1>12, <2>3, <2>4, CalledMatches
  <2>6. Stacked(txn, d, gs)
    BY <1>7, <1>9, <1>10, <1>12, <2>2, <2>5, StackedMore
  <2> QED BY <1>5, <1>6, <2>6
<1>13. CASE DelegateCall(i) /\ f.how = "delegate" /\ f.back = sender
  <2>1. /\ d.current = i /\ d.called = sender.called /\ d.payer = sender.payer
        /\ d.chain = Append(sender.chain, i) /\ d.wallet = sender.wallet
    BY <1>1, <1>6, <1>13 DEF DelegateCall, Context
  <2>2. sender.chain \in Seq(Instance)
    BY <1>1, ContextFields
  <2>3. Matches(txn, sender, gs, n)
    BY <1>10, <1>11, MatchesSame
  <2>4. Matches(txn, d, gs, n + 1)
    BY <1>2, <1>3, <1>10, <1>13, <2>1, <2>2, <2>3, DelegatedMatches
  <2>5. Stacked(txn, d, gs)
    BY <1>7, <1>9, <1>10, <1>11, <1>13, <2>4, StackedMore
  <2> QED BY <1>5, <1>6, <2>5
<1> QED BY <1>2, <1>12, <1>13

(* After a return it is the caller's again.                                *)
LEMMA ReturnStacks ==
    ASSUME MachineTyping, GasInv, StackInv, Return, Top # 1
    PROVE  Stacked(txn, sender', frames')
<1>1. /\ phase = "running" /\ frames \in Seq(Frame) /\ frames # <<>> /\ Top \in Nat /\ Top >= 2
      /\ sender.available - frames[Top].cost \in Nat
      /\ frames' = Popped(sender.available - frames[Top].cost)
  BY Returned
<1>2. PICK n \in Nat : n + 1 = Top /\ n >= 1
  <2>1. Top - 1 \in Nat /\ (Top - 1) + 1 = Top /\ Top - 1 >= 1
    BY <1>1
  <2> QED BY <2>1
<1>3. PICK fs, gs, c, d : fs = frames /\ gs = frames' /\ c = sender /\ d = sender'
  OBVIOUS
<1>4. PICK m \in Nat : frames' = Popped(m)
  BY <1>1
<1>5. /\ gs \in Seq(Frame) /\ Len(gs) = n
      /\ \A k \in 1..n : /\ gs[k].code = fs[k].code /\ gs[k].how = fs[k].how
                         /\ gs[k].back = fs[k].back
  <2>1. Top - 1 = n /\ Top # 1
    BY <1>2
  <2>2. gs = Popped(m)
    BY <1>3, <1>4
  <2>3. /\ gs \in Seq(Frame) /\ Len(gs) = Top - 1
        /\ \A k \in 1..(Top - 1) : /\ gs[k].code = frames[k].code /\ gs[k].how = frames[k].how
                                   /\ gs[k].back = frames[k].back
    <3>1. frames \in Seq(Frame) /\ frames # <<>>
      BY <1>1
    <3> QED BY <2>2, <3>1, ReturnFacts
  <2> QED BY <1>3, <2>1, <2>3
<1>6. Stacked(txn, c, fs) /\ Len(fs) = n + 1
  BY <1>1, <1>2, <1>3, StackedIs DEF Top
<1>7. /\ fs[1].how = "first" /\ \A k \in 2..(n + 1) : fs[k].how # "first"
      /\ Matches(txn, c, fs, n + 1)
      /\ \A k \in 2..(n + 1) : Matches(txn, fs[k].back, fs, k - 1)
  BY <1>6 DEF Stacked
<1>8. gs[1].how = "first" /\ \A k \in 2..n : gs[k].how # "first"
  <2>1. gs[1].how = fs[1].how
    BY <1>2, <1>5
  <2>2. ASSUME NEW k \in 2..n PROVE gs[k].how # "first"
    <3>1. k \in 1..n /\ k \in 2..(n + 1)
      OBVIOUS
    <3> QED BY <1>5, <1>7, <3>1
  <2> QED BY <1>7, <2>1, <2>2
<1>9. ASSUME NEW k \in 2..n PROVE Matches(txn, gs[k].back, gs, k - 1)
  <2>1. PICK j \in Nat : j = k - 1 /\ j < n
    <3>1. k - 1 \in Nat /\ k - 1 < n
      OBVIOUS
    <3> QED BY <3>1
  <2>2. \A l \in 1..j : gs[l].code = fs[l].code /\ gs[l].how = fs[l].how
    <3> SUFFICES ASSUME NEW l \in 1..j
                 PROVE  gs[l].code = fs[l].code /\ gs[l].how = fs[l].how
      OBVIOUS
    <3>1. l \in 1..n
      BY <2>1
    <3> QED BY <1>5, <3>1
  <2>3. Matches(txn, fs[k].back, fs, j) /\ gs[k].back = fs[k].back
    <3>1. k \in 1..n /\ k \in 2..(n + 1)
      OBVIOUS
    <3> QED BY <1>5, <1>7, <2>1, <3>1
  <2>4. Matches(txn, gs[k].back, gs, j)
    BY <2>2, <2>3, MatchesSame
  <2> QED BY <2>1, <2>4
<1>10. PICK e : e = fs[n + 1].back /\ Matches(txn, e, fs, n)
  <2>1. n + 1 \in 2..(n + 1) /\ (n + 1) - 1 = n
    BY <1>2
  <2>2. Matches(txn, fs[n + 1].back, fs, n)
    BY <1>7, <2>1
  <2> QED BY <2>2
<1>11. fs[n + 1] = frames[Top]
  BY <1>2, <1>3
<1>12. e \in Context /\ c \in Context
  <2>1. frames[Top] \in Frame
    BY Returned
  <2>2. sender \in Context
    BY DEF MachineTyping
  <2> QED BY <1>3, <1>10, <1>11, <2>1, <2>2, FrameFields
<1>13. CASE frames[Top].how = "call"
  <2>1. sender' = [frames[Top].back EXCEPT !.depth = sender.depth,
                                           !.available = sender.available - frames[Top].cost,
                                           !.used = sender.used + frames[Top].cost]
    BY <1>13, Returned
  <2>2. /\ d.current = e.current /\ d.called = e.called /\ d.payer = e.payer
        /\ d.chain = e.chain /\ d.wallet = e.wallet
    BY <1>3, <1>10, <1>11, <1>12, <2>1 DEF Context
  <2>3. Matches(txn, d, gs, n)
    BY <1>5, <1>10, <2>2, MatchesSame
  <2> QED BY <1>3, <1>5, <1>8, <1>9, <2>3 DEF Stacked
<1>14. CASE frames[Top].how = "delegate"
  <2>1. /\ Len(sender.chain) >= 1
        /\ sender' = [sender EXCEPT !.chain = Front(@), !.current = frames[Top].back.current,
                                    !.available = sender.available - frames[Top].cost,
                                    !.used = sender.used + frames[Top].cost]
    BY <1>14, Returned
  <2>2. /\ d.current = e.current /\ d.called = c.called /\ d.payer = c.payer
        /\ d.chain = Front(c.chain) /\ d.wallet = c.wallet
    BY <1>3, <1>10, <1>11, <1>12, <2>1 DEF Context
  <2>3. c.chain \in Seq(Instance) /\ Len(c.chain) >= 1
    BY <1>3, <1>12, <2>1, ContextFields
  <2>4. Matches(txn, d, gs, n)
    BY <1>2, <1>5, <1>7, <1>10, <1>11, <1>14, <2>2, <2>3, LeftMatches
  <2> QED BY <1>3, <1>5, <1>8, <1>9, <2>4 DEF Stacked
<1>15. frames[Top].how \in {"call", "delegate"}
  BY Returned
<1> QED BY <1>13, <1>14, <1>15

(* The context is right after every step.                                  *)
LEMMA StackKept ==
    ASSUME Typing, GasInv, StackInv, [Next]_vars
    PROVE  StackInv'
<1>0. MachineTyping /\ BlockTyping /\ frames \in Seq(Frame)
  BY DEF Typing, MachineTyping
<1>1. ASSUME phase' = "running" => Stacked(txn', sender', frames') PROVE StackInv'
  BY <1>1 DEF StackInv, Stacked, Top
<1>2. phase = "running" => Stacked(txn, sender, frames) /\ frames # <<>>
  BY StackedIs DEF GasInv
<1>3. CASE Works
  <2>1. phase = "running" /\ frames' = Spent /\ UNCHANGED <<txn, sender>>
    BY <1>3 DEF Works, MaySpend
  <2>2. /\ Spent \in Seq(Frame) /\ Len(Spent) = Len(frames)
        /\ \A k \in 1..Len(frames) : /\ Spent[k].code = frames[k].code
                                     /\ Spent[k].how = frames[k].how
                                     /\ Spent[k].back = frames[k].back
    BY <1>0, <1>2, <2>1, SpentFacts DEF Top
  <2>3. Stacked(txn, sender, Spent)
    BY <1>0, <1>2, <2>1, <2>2, StackedSame
  <2> QED BY <1>1, <2>1, <2>3
<1>4. ASSUME NEW i \in Instance, Call(i) \/ DelegateCall(i) PROVE StackInv'
  <2>1. txn' = txn
    BY <1>0, <1>4, CallGas
  <2> QED BY <1>0, <1>1, <1>4, <2>1, CallStacks
<1>5. CASE Return
  <2>1. phase = "running" /\ txn' = txn
    BY <1>5 DEF Return
  <2>2. CASE Top = 1
    <3>1. frames[Top].how = "first"
      BY <2>1, <2>2 DEF StackInv
    <3>2. phase' = "done"
      BY <1>5, <3>1 DEF Return
    <3> QED BY <1>1, <3>2
  <2>3. CASE Top # 1
    BY <1>0, <1>1, <1>5, <2>1, <2>3, ReturnStacks
  <2> QED BY <2>2, <2>3
<1>6. CASE Trap \/ Succeed \/ Fail \/ Settle \/ Restart
  <2>1. phase' # "running"
    BY <1>6 DEF Trap, Succeed, Fail, Settle, Restart
  <2> QED BY <1>1, <2>1
<1>7. ASSUME NEW t \in Txn, Refuse(t) PROVE StackInv'
  <2>1. phase' # "running"
    BY <1>7 DEF Refuse
  <2> QED BY <1>1, <2>1
<1>8. ASSUME NEW t \in Txn, Begin(t) PROVE StackInv'
  <2>1. txn' = t /\ (phase' = "running" => eval(t))
    BY <1>8, BeginFacts
  <2>2. ASSUME phase' = "running" PROVE Stacked(txn', sender', frames')
    <3>1. PICK fs, s : fs = frames' /\ s = sender'
      OBVIOUS
    <3>2. /\ s.current = t.to /\ s.called = t.to /\ s.payer = t.to /\ s.wallet = t.user
          /\ s.chain = <<t.to>> /\ Len(fs) = 1
          /\ fs[1].code = t.to /\ fs[1].how = "first"
      BY <2>1, <2>2, <3>1 DEF eval
    <3>3. OnBehalf(fs, 1, 1)
      BY <3>2 DEF OnBehalf
    <3>4. Len(s.chain) = 1 - 1 + 1 /\ \A l \in 1 .. 1 - 1 + 1 : s.chain[l] = fs[1 + l - 1].code
      BY <3>2
    <3>5. Matches(t, s, fs, 1)
      <4>1. 1 \in 1..1
        OBVIOUS
      <4> QED BY <3>2, <3>3, <3>4, <4>1 DEF Matches
    <3>6. Stacked(t, s, fs)
      BY <3>2, <3>5 DEF Stacked
    <3> QED BY <2>1, <3>1, <3>6
  <2> QED BY <1>1, <2>2
<1>9. CASE StoreBlock
  <2>1. phase' # "running"
    BY <1>9 DEF StoreBlock
  <2> QED BY <1>1, <2>1
<1>10. CASE UNCHANGED vars
  <2>1. UNCHANGED <<phase, txn, sender, frames>>
    BY <1>10 DEF vars, machine
  <2> QED BY <1>1, <1>2, <2>1
<1> QED BY <1>0, <1>3, <1>4, <1>5, <1>6, <1>7, <1>8, <1>9, <1>10, StepKinds

-----------------------------------------------------------------------------
(* State, hashes and nonces, after every step. *)

(* With nothing saved, what would be restored is the state.                *)
LEMMA RestoredNow ==
    ASSUME store \in [Instance -> Stored], saved = Unsaved
    PROVE  Restored = store
BY DEF Restored, Unsaved

(* A failure would restore what the last success left.                     *)
LEMMA SavedKept ==
    ASSUME Typing, GasInv, StackInv, SavedInv, [Next]_vars
    PROVE  SavedInv'
<1>0. MachineTyping /\ BlockTyping /\ StateTyping
  BY DEF Typing
<1>1. store \in [Instance -> Stored] /\ history \in History
  BY <1>0 DEF StateTyping, History
<1>2. ASSUME store' \in [Instance -> Stored], saved' = Unsaved PROVE Restored' = store'
  BY <1>2 DEF Restored, Unsaved
<1>3. ASSUME UNCHANGED <<store, saved>> PROVE Restored' = Restored
  BY <1>3 DEF Restored
<1>4. CASE Works /\ (Writes \/ \E h \in Outcome : Creates(h))
  <2>1. phase = "running" /\ UNCHANGED <<phase, history>>
    BY <1>4 DEF Works, MaySpend
  <2>2. Restored' = Restored
    <3>1. CASE Writes
      <4>1. sender.current \in Instance
        BY <1>0, <2>1, AuthorityHas
      <4> QED BY <1>0, <1>3, <3>1, <4>1, SavesFacts DEF Writes
    <3>2. ASSUME NEW h \in Outcome, Creates(h) PROVE Restored' = Restored
      BY <1>3, <3>2 DEF Creates
    <3> QED BY <1>4, <3>1, <3>2
  <2> QED BY <2>1, <2>2 DEF SavedInv
<1>5. ASSUME NEW i \in Instance, Call(i) \/ DelegateCall(i) PROVE SavedInv'
  <2>1. phase = "running" /\ UNCHANGED <<phase, history, store, saved>>
    BY <1>0, <1>5, CallGas DEF Call, DelegateCall, databases
  <2> QED BY <1>3, <2>1 DEF SavedInv
<1>6. CASE Return \/ Trap
  <2>1. UNCHANGED <<store, saved>> /\ phase' \in {"running", "done", "failed"}
        /\ history'.torn = history.torn /\ history'.good = history.good
    BY <1>1, <1>6 DEF Return, Trap, databases, History
  <2> QED BY <1>3, <2>1 DEF SavedInv
<1>7. CASE Succeed
  <2>1. saved' = Unsaved /\ store' = store /\ history'.good = store
    BY <1>1, <1>7 DEF Succeed, History
  <2> QED BY <1>1, <1>2, <2>1 DEF SavedInv
<1>8. CASE Fail
  <2>1. saved' = Unsaved /\ store' = Restored
        /\ history'.torn = history.torn /\ history'.good = history.good
    BY <1>1, <1>8 DEF Fail, History
  <2>2. Restored \in [Instance -> Stored]
    BY <1>0, RestoredType
  <2> QED BY <1>2, <2>1, <2>2 DEF SavedInv
<1>9. CASE Settle
  <2>1. phase \in {"settled", "undone"} /\ UNCHANGED <<store, saved>>
        /\ history'.torn = history.torn /\ history'.good = history.good
    BY <1>1, <1>9 DEF Settle, History
  <2> QED BY <1>3, <2>1 DEF SavedInv
<1>10. ASSUME NEW t \in Txn, Refuse(t) \/ Begin(t) PROVE SavedInv'
  <2>1. phase = "idle" /\ UNCHANGED <<store, saved>>
        /\ history'.torn = history.torn /\ history'.good = history.good
    BY <1>1, <1>10 DEF Refuse, Begin, databases, History
  <2> QED BY <1>3, <2>1 DEF SavedInv
<1>11. CASE StoreBlock
  <2>1. phase = "idle" /\ UNCHANGED <<store, saved>>
        /\ history'.torn = history.torn /\ history'.good = history.good
    BY <1>1, <1>11 DEF StoreBlock, History
  <2> QED BY <1>3, <2>1 DEF SavedInv
<1>12. CASE Restart
  <2>1. saved' = Unsaved /\ store' = store /\ history'.good = history.good
        /\ (~ history'.torn => ~ history.torn /\ phase = "idle")
    BY <1>1, <1>12 DEF Restart, History
  <2>2. ~ history'.torn => Restored = store /\ ~ history.torn
    BY <1>1, <2>1, RestoredNow DEF SavedInv
  <2> QED BY <1>1, <1>2, <2>1, <2>2 DEF SavedInv
<1>13. CASE UNCHANGED vars
  <2>1. UNCHANGED <<phase, store, saved, history>>
    BY <1>13 DEF vars, databases
  <2> QED BY <1>3, <2>1 DEF SavedInv
<1> QED BY <1>0, <1>4, <1>5, <1>6, <1>7, <1>8, <1>9, <1>10, <1>11, <1>12, <1>13, StepKinds

(* A child, and its outcome.                                               *)
LEMMA ChildOutcome ==
    ASSUME NEW h \in Outcome, NEW a, NEW m, m = [child |-> h.child, ok |-> h.ok, authority |-> a]
    PROVE  OutcomeOf(m) = h /\ m.child = h.child /\ m.authority = a
BY DEF OutcomeOf, Outcome

(* The hashes are those of what is in the block and in the execution.      *)
LEMMA HashKept ==
    ASSUME Typing, GasInv, StackInv, HashInv, [Next]_vars
    PROVE  HashInv'
<1>0. MachineTyping /\ BlockTyping /\ StateTyping
  BY DEF Typing
<1>1. block \in Blocks /\ sc.hashes \in Seq(Outcome) /\ block.hashes \in Seq(AnyHash)
      /\ block.txns \in Seq(Txn)
  BY <1>0 DEF BlockTyping, MachineTyping, Blocks
<1>2. ToSet(<<>>) = {} /\ Outcomes({}) = {}
  BY DEF ToSet, Outcomes
<1>3. CASE Works /\ (Writes \/ \E h \in Outcome : Creates(h))
  <2>1. phase = "running" /\ UNCHANGED <<phase, txn, block, waiting>>
    BY <1>3 DEF Works, MaySpend
  <2>2. ToSet(sc'.hashes) = Outcomes(children')
    <3>1. CASE Writes
      BY <2>1, <3>1 DEF Writes, HashInv
    <3>2. ASSUME NEW h \in Outcome, Creates(h) PROVE ToSet(sc'.hashes) = Outcomes(children')
      <4>1. PICK m : m = [child |-> h.child, ok |-> h.ok, authority |-> Authority]
        OBVIOUS
      <4>2. children' = children \cup {m} /\ sc'.hashes = Append(sc.hashes, h)
        BY <3>2, <4>1 DEF Creates
      <4>3. OutcomeOf(m) = h
        BY <4>1, ChildOutcome
      <4>4. Outcomes(children') = Outcomes(children) \cup {h}
        BY <4>2, <4>3 DEF Outcomes
      <4>5. ToSet(sc'.hashes) = ToSet(sc.hashes) \cup {h}
        BY <1>1, <4>2, SetAppend
      <4> QED BY <2>1, <4>4, <4>5 DEF HashInv
    <3> QED BY <1>3, <3>1, <3>2
  <2> QED BY <2>1, <2>2 DEF HashInv
<1>4. ASSUME NEW i \in Instance, Call(i) \/ DelegateCall(i) PROVE HashInv'
  BY <1>4 DEF Call, DelegateCall, databases, HashInv
<1>5. CASE Return \/ Trap
  <2>1. phase = "running" /\ phase' \in {"running", "done", "failed"}
        /\ UNCHANGED <<txn, block, waiting, sc, children>>
    BY <1>5 DEF Return, Trap, databases, machine
  <2> QED BY <2>1 DEF HashInv
<1>6. CASE Succeed
  <2>1. phase = "done" /\ phase' = "settled" /\ sc' = NoChildren /\ UNCHANGED <<txn, waiting>>
    BY <1>6 DEF Succeed
  <2>2. /\ block'.hashes = block.hashes \o sc.hashes
        /\ block'.children = block.children \cup children /\ block'.txns = block.txns
    BY <1>6, SucceedBlock
  <2>3. ToSet(block'.hashes) = ToSet(block.hashes) \cup ToSet(sc.hashes)
    BY <1>1, <2>2, HashesJoin
  <2>4. Outcomes(block'.children) = Outcomes(block.children) \cup Outcomes(children)
    BY <2>2 DEF Outcomes
  <2> QED BY <2>1, <2>2, <2>3, <2>4 DEF HashInv
<1>7. CASE Fail
  <2>1. phase = "failed" /\ phase' = "undone" /\ sc' = NoChildren /\ UNCHANGED <<txn, waiting>>
    BY <1>7 DEF Fail
  <2>2. block' = block
    BY <1>7, FailBlock
  <2> QED BY <2>1, <2>2 DEF HashInv
<1>8. CASE Settle
  <2>1. /\ phase \in {"settled", "undone"} /\ phase' = "idle" /\ sc' = sc
        /\ waiting' = waiting \ {txn}
    BY <1>8 DEF Settle
  <2>2. /\ txn \in Txn /\ block'.hashes = Append(block.hashes, txn)
        /\ block'.txns = Append(block.txns, txn) /\ block'.children = block.children
    BY <1>8, SettleBlock
  <2>3. txn \in AnyHash
    BY <2>2 DEF AnyHash
  <2>4. ToSet(block'.hashes) = ToSet(block.hashes) \cup {txn}
    BY <1>1, <2>2, <2>3, SetAppend
  <2>5. ToSet(block'.txns) = ToSet(block.txns) \cup {txn}
    BY <1>1, <2>2, SetAppend
  <2> QED BY <2>1, <2>2, <2>4, <2>5 DEF HashInv
<1>9. ASSUME NEW t \in Txn, Refuse(t) PROVE HashInv'
  <2>1. phase = "idle" /\ waiting' = waiting \ {t} /\ UNCHANGED <<phase, block, sc>>
    BY <1>9 DEF Refuse, machine
  <2> QED BY <2>1 DEF HashInv
<1>10. ASSUME NEW t \in Txn, Begin(t) PROVE HashInv'
  <2>1. /\ phase = "idle" /\ phase' \in {"running", "undone"} /\ txn' = t /\ t \in waiting
        /\ children' = {} /\ UNCHANGED <<waiting, block, sc>>
    BY <1>10 DEF Begin, databases
  <2>2. sc = NoChildren /\ ToSet(sc.hashes) = {}
    BY <1>2, <2>1, NothingFacts DEF HashInv
  <2> QED BY <1>2, <2>1, <2>2 DEF HashInv
<1>11. CASE StoreBlock
  <2>1. phase = "idle" /\ UNCHANGED <<phase, txn, waiting, sc, children>> /\ block' = EmptyBlock
    BY <1>11 DEF StoreBlock, machine
  <2>2. /\ ToSet(block'.hashes) = {} /\ ToSet(block'.txns) = {} /\ Outcomes(block'.children) = {}
    BY <1>2, <2>1 DEF EmptyBlock
  <2> QED BY <2>1, <2>2 DEF HashInv
<1>12. CASE Restart
  <2>1. phase' = "idle" /\ sc' = NoChildren /\ block' = EmptyBlock
    BY <1>12 DEF Restart
  <2>2. /\ ToSet(block'.hashes) = {} /\ ToSet(block'.txns) = {} /\ Outcomes(block'.children) = {}
    BY <1>2, <2>1 DEF EmptyBlock
  <2> QED BY <2>1, <2>2 DEF HashInv
<1>13. CASE UNCHANGED vars
  BY <1>13 DEF vars, databases, machine, HashInv
<1> QED BY <1>0, <1>3, <1>4, <1>5, <1>6, <1>7, <1>8, <1>9, <1>10, <1>11, <1>12, <1>13, StepKinds

(* Where the children of an execution and of the block go: nowhere but     *)
(* into the block and the chain, and only a host function makes one.       *)
LEMMA ChildrenGo ==
    ASSUME Typing, GasInv, StackInv, [Next]_vars
    PROVE  \/ \E h \in Outcome :
                 /\ Works /\ Creates(h)
                 /\ UNCHANGED <<block, history>>
           \/ /\ children' \cup block'.children \subseteq children \cup block.children
              /\ Kept' \subseteq Kept
              /\ restarts' = 0 => restarts = 0 /\ \A w \in Instance : nonce'[w] = nonce[w]
<1>0. MachineTyping /\ BlockTyping /\ StateTyping
  BY DEF Typing
<1>1. history \in History /\ nonce \in Amounts /\ \A w \in Instance : w \in Wallet
  BY <1>0, Constants DEF StateTyping, BlockTyping, History
<1>2. ASSUME children' \subseteq children, UNCHANGED <<block, restarts>>,
             history'.chain = history.chain, \A w \in Instance : nonce'[w] = nonce[w]
      PROVE  /\ children' \cup block'.children \subseteq children \cup block.children
             /\ Kept' \subseteq Kept
             /\ restarts' = 0 => restarts = 0 /\ \A w \in Instance : nonce'[w] = nonce[w]
  <2>1. Kept' = history'.chain \cup {m.child : m \in block'.children} \cup {m.child : m \in children'}
    BY DEF Kept
  <2>2. Kept' \subseteq Kept
    BY <1>2, <2>1 DEF Kept
  <2> QED BY <1>2, <2>2
<1>3. CASE Works /\ Writes
  <2>1. UNCHANGED <<children, block, restarts, history, nonce>>
    BY <1>3 DEF Works, Writes
  <2> QED BY <1>2, <2>1
<1>4. ASSUME NEW i \in Instance, Call(i) \/ DelegateCall(i)
      PROVE  UNCHANGED <<children, block, restarts, history, nonce>>
  BY <1>4 DEF Call, DelegateCall
<1>5. CASE Return \/ Trap
  <2>1. UNCHANGED <<children, block, restarts, nonce>> /\ history'.chain = history.chain
    BY <1>1, <1>5 DEF Return, Trap, machine, History
  <2> QED BY <1>2, <2>1
<1>6. CASE Succeed
  <2>1. UNCHANGED <<children, restarts, nonce>> /\ history'.chain = history.chain
    BY <1>1, <1>6 DEF Succeed, History
  <2>2. block'.children = block.children \cup children
    BY <1>6, SucceedBlock
  <2>3. Kept' = history'.chain \cup {m.child : m \in block'.children} \cup {m.child : m \in children'}
    BY DEF Kept
  <2>4. Kept' \subseteq Kept
    BY <2>1, <2>2, <2>3 DEF Kept
  <2> QED BY <2>1, <2>2, <2>4
<1>7. CASE Fail
  <2>1. children' = {} /\ UNCHANGED <<restarts, nonce>> /\ history'.chain = history.chain
    BY <1>1, <1>7 DEF Fail, History
  <2>2. block' = block
    BY <1>7, FailBlock
  <2> QED BY <1>2, <2>1, <2>2
<1>8. CASE Settle
  <2>1. /\ children' = {} /\ UNCHANGED restarts /\ history'.chain = history.chain
        /\ nonce' = [nonce EXCEPT ![txn.user] = txn.nonce]
    BY <1>1, <1>8 DEF Settle, History
  <2>2. txn \in Txn /\ block'.children = block.children
    BY <1>8, SettleBlock
  <2>3. \A w \in Instance : nonce'[w] = nonce[w]
    <3>1. txn.user \notin Instance
      BY <2>2, Constants
    <3> QED BY <1>1, <2>1, <3>1 DEF Amounts
  <2>4. Kept' = history'.chain \cup {m.child : m \in block'.children} \cup {m.child : m \in children'}
    BY DEF Kept
  <2>5. Kept' \subseteq Kept
    BY <2>1, <2>2, <2>4 DEF Kept
  <2> QED BY <2>1, <2>2, <2>3, <2>5
<1>9. ASSUME NEW t \in Txn, Refuse(t)
      PROVE  UNCHANGED <<children, block, restarts, history, nonce>>
  BY <1>9 DEF Refuse, machine
<1>10. ASSUME NEW t \in Txn, Begin(t)
       PROVE  children' = {} /\ UNCHANGED <<block, restarts, nonce>> /\ history'.chain = history.chain
  BY <1>1, <1>10 DEF Begin, History
<1>11. CASE StoreBlock
  <2>1. /\ UNCHANGED <<children, restarts, nonce>> /\ block' = EmptyBlock
        /\ history'.chain = history.chain \cup {c.child : c \in block.children}
    BY <1>1, <1>11 DEF StoreBlock, machine, History
  <2>2. block'.children = {}
    BY <2>1 DEF EmptyBlock
  <2>3. Kept' = history'.chain \cup {m.child : m \in block'.children} \cup {m.child : m \in children'}
    BY DEF Kept
  <2>4. Kept' \subseteq Kept
    BY <2>1, <2>2, <2>3 DEF Kept
  <2> QED BY <2>1, <2>2, <2>4
<1>12. CASE Restart
  <2>1. /\ children' = {} /\ block' = EmptyBlock /\ restarts' = restarts + 1
        /\ history'.chain = history.chain
    BY <1>1, <1>12 DEF Restart, History
  <2>2. block'.children = {}
    BY <2>1 DEF EmptyBlock
  <2>3. Kept' = history'.chain \cup {m.child : m \in block'.children} \cup {m.child : m \in children'}
    BY DEF Kept
  <2>4. Kept' \subseteq Kept
    BY <2>1, <2>2, <2>3 DEF Kept
  <2>5. restarts \in Nat
    BY <1>0 DEF BlockTyping
  <2>6. restarts' # 0
    BY <2>1, <2>5
  <2> QED BY <2>1, <2>2, <2>4, <2>6
<1>13. CASE UNCHANGED vars
  <2>1. UNCHANGED <<children, block, restarts, history, nonce>>
    BY <1>13 DEF vars, machine
  <2> QED BY <1>2, <2>1
<1>14. ASSUME NEW h \in Outcome, Works, Creates(h)
       PROVE  UNCHANGED <<block, history>>
  BY <1>14 DEF Works
<1> QED BY <1>0, <1>2, <1>3, <1>4, <1>5, <1>6, <1>7, <1>8, <1>9, <1>10, <1>11, <1>12, <1>13, <1>14,
           StepKinds

(* A child is paid by one its creator acts for.                            *)
LEMMA AuthorityKept ==
    ASSUME Typing, GasInv, StackInv, ChildAuthorised, [Next]_vars
    PROVE  ChildAuthorised'
<1>1. ASSUME children' \cup block'.children \subseteq children \cup block.children
      PROVE  ChildAuthorised'
  BY <1>1 DEF ChildAuthorised
<1>2. ASSUME NEW h \in Outcome, Creates(h), UNCHANGED block PROVE ChildAuthorised'
  <2>1. PICK m : m = [child |-> h.child, ok |-> h.ok, authority |-> Authority]
    OBVIOUS
  <2>2. children' = children \cup {m} /\ h.child.payer \in Authority
    BY <1>2, <2>1 DEF Creates
  <2>3. m.child = h.child /\ m.authority = Authority
    BY <2>1, ChildOutcome
  <2>4. \A c \in children' \cup block'.children : c \in children \cup block.children \/ c = m
    BY <1>2, <2>2
  <2>5. ASSUME NEW c \in children' \cup block'.children PROVE c.child.payer \in c.authority
    BY <2>2, <2>3, <2>4 DEF ChildAuthorised
  <2> QED BY <2>5 DEF ChildAuthorised
<1> QED BY <1>1, <1>2, ChildrenGo

(* No nonce is used twice.                                                 *)
LEMMA NonceKept ==
    ASSUME Typing, GasInv, StackInv, NonceInv, [Next]_vars
    PROVE  NonceInv'
<1>1. Kept \subseteq ChildRec /\ nonce \in Amounts
  BY DEF Typing, StateTyping, BlockTyping, MachineTyping, Kept, Made
<1>2. ASSUME Kept' \subseteq Kept,
             restarts' = 0 => restarts = 0 /\ \A w \in Instance : nonce'[w] = nonce[w]
      PROVE  NonceInv'
  <2>1. PICK K : K = Kept'
    OBVIOUS
  <2>2. ASSUME restarts' = 0
        PROVE  /\ \A c \in K : c.payer \in Instance => c.nonce <= nonce'[c.payer]
               /\ \A c, d \in K :
                     c.payer \in Instance /\ c.payer = d.payer /\ c.nonce = d.nonce => c = d
    BY <1>2, <2>1, <2>2 DEF NonceInv
  <2> QED BY <2>1, <2>2 DEF NonceInv
<1>3. ASSUME NEW h \in Outcome, Works, Creates(h), UNCHANGED <<block, history>> PROVE NonceInv'
  <2>1. PICK m : m = [child |-> h.child, ok |-> h.ok, authority |-> Authority]
    OBVIOUS
  <2>2. children' = children \cup {m} /\ m.child = h.child
    BY <1>3, <2>1, ChildOutcome DEF Creates
  <2>3. Kept' = Kept \cup {h.child}
    <3>1. Kept' = history'.chain \cup {e.child : e \in block'.children} \cup {e.child : e \in children'}
      BY DEF Kept
    <3>2. {e.child : e \in children'} = {e.child : e \in children} \cup {h.child}
      BY <2>2
    <3> QED BY <1>3, <3>1, <3>2 DEF Kept
  <2>4. /\ h.child.payer \in Wallet /\ h.child.nonce = nonce[h.child.payer] + 1
        /\ nonce' = [nonce EXCEPT ![h.child.payer] = h.child.nonce] /\ restarts' = restarts
    BY <1>3 DEF Creates, Fits, Works
  <2>5. /\ nonce'[h.child.payer] = h.child.nonce
        /\ \A w \in Wallet : nonce[w] \in Nat /\ (w # h.child.payer => nonce'[w] = nonce[w])
    BY <1>1, <2>4 DEF Amounts
  <2>6. \A c \in Kept : c.nonce \in Nat
    BY <1>1 DEF ChildRec
  <2>7. ASSUME restarts = 0, NEW c \in Kept, c.payer \in Instance
        PROVE  c.nonce <= nonce[c.payer] /\ c.nonce <= nonce'[c.payer]
               /\ (c.payer = h.child.payer => c.nonce # h.child.nonce)
    <3>1. c.nonce <= nonce[c.payer] /\ c.payer \in Wallet
      BY <2>7, Constants DEF NonceInv
    <3> QED BY <2>4, <2>5, <2>6, <3>1
  <2>8. ASSUME restarts = 0
        PROVE  /\ \A c \in Kept' : c.payer \in Instance => c.nonce <= nonce'[c.payer]
               /\ \A c, d \in Kept' :
                     c.payer \in Instance /\ c.payer = d.payer /\ c.nonce = d.nonce => c = d
    <3>1. \A c \in Kept' : c.payer \in Instance => c.nonce <= nonce'[c.payer]
      <4>1. h.child.nonce <= nonce'[h.child.payer]
        BY <2>4, <2>5
      <4> QED BY <2>3, <2>7, <2>8, <4>1
    <3>2. \A c, d \in Kept :
             c.payer \in Instance /\ c.payer = d.payer /\ c.nonce = d.nonce => c = d
      BY <2>8 DEF NonceInv
    <3>3. ASSUME NEW c \in Kept', NEW d \in Kept',
                 c.payer \in Instance /\ c.payer = d.payer /\ c.nonce = d.nonce
          PROVE  c = d
      <4>1. CASE c \in Kept /\ d \in Kept
        BY <3>2, <3>3, <4>1
      <4>2. CASE c \in Kept /\ d = h.child
        BY <2>7, <2>8, <3>3, <4>2
      <4>3. CASE c = h.child /\ d \in Kept
        BY <2>7, <2>8, <3>3, <4>3
      <4> QED BY <2>3, <4>1, <4>2, <4>3
    <3> QED BY <3>1, <3>3
  <2> QED BY <2>4, <2>8 DEF NonceInv
<1> QED BY <1>2, <1>3, ChildrenGo

(* The beginning.                                                          *)
LEMMA InitIInv == Init => IInv
<1> SUFFICES ASSUME Init PROVE IInv
  OBVIOUS
<1>1. Typing
  BY InitTyping
<1>2. GasInv /\ StackInv
  BY DEF Init, GasInv, StackInv
<1>3. SavedInv
  <2>1. store \in [Instance -> Stored] /\ saved = Unsaved /\ history.good = store
    BY DEF Init, Stored
  <2> QED BY <2>1, RestoredNow DEF SavedInv
<1>4. HashInv
  BY DEF Init, HashInv, EmptyBlock, ToSet, Outcomes
<1>5. ChildAuthorised
  BY DEF Init, ChildAuthorised, EmptyBlock
<1>6. NonceInv
  <2>1. Kept = {}
    BY DEF Init, Kept, EmptyBlock
  <2> QED BY <2>1 DEF NonceInv
<1> QED BY <1>1, <1>2, <1>3, <1>4, <1>5, <1>6 DEF IInv

(* Every step.                                                             *)
LEMMA NextIInv == IInv /\ [Next]_vars => IInv'
<1> SUFFICES ASSUME IInv, [Next]_vars PROVE IInv'
  OBVIOUS
<1>1. Typing /\ GasInv /\ StackInv /\ SavedInv /\ HashInv /\ ChildAuthorised /\ NonceInv
  BY DEF IInv
<1>2. Typing'
  BY <1>1, MachineTyped, StateTyped, BlockTyped DEF Typing
<1> QED BY <1>1, <1>2, GasKept, StackKept, SavedKept, HashKept, AuthorityKept, NonceKept DEF IInv

-----------------------------------------------------------------------------
(* The tokens, after every step. *)

(* The wallets to sum over are finitely many.                              *)
LEMMA FiniteWallets == IsFiniteSet(Wallet) /\ IsFiniteSet(Instance)
<1>1. IsFiniteSet(Wallet) /\ Instance \subseteq Wallet
  BY DistinctAssumption, Constants
<1> QED BY <1>1, FS_Subset

(* A wallet that gets n has n more in the sum.                             *)
LEMMA WhenSum ==
    ASSUME NEW S, IsFiniteSet(S), NEW f \in [S -> Int], NEW g \in [S -> Int], NEW a \in S,
           NEW n \in Int, \A w \in S : g[w] = f[w] + When(w, a, n)
    PROVE  SumFunctionOnSet(g, S) = SumFunctionOnSet(f, S) + n
<1>1. g[a] = f[a] + n /\ \A w \in S \ {a} : g[w] = f[w]
  BY DEF When
<1>2. SumFunctionOnSet(g, S) = SumFunctionOnSet(f, S) + g[a] - f[a]
  BY <1>1, SumChange
<1>3. SumFunctionOnSet(f, S) \in Int
  BY SumInt
<1> QED BY <1>1, <1>2, <1>3

(* Moving tokens between wallets keeps the sum.                            *)
LEMMA ShiftSum ==
    ASSUME NEW f \in [Wallet -> Int], NEW a \in Wallet, NEW b \in Wallet, NEW n \in Int
    PROVE  SumFunctionOnSet(Shift(f, a, b, n), Wallet) = SumFunctionOnSet(f, Wallet)
<1>1. /\ Shift(f, a, b, n) \in [Wallet -> Int]
      /\ \A w \in Wallet : Shift(f, a, b, n)[w] = f[w] - When(w, a, n) + When(w, b, n)
  BY ShiftFacts
<1>2. PICK h : h = Shift(f, a, b, n)
  OBVIOUS
<1>3. PICK g : g = [w \in Wallet |-> f[w] - When(w, a, n)]
  OBVIOUS
<1>4. g \in [Wallet -> Int] /\ \A w \in Wallet : g[w] = f[w] - When(w, a, n)
  BY <1>3, WhenInt
<1>5. \A w \in Wallet : h[w] = g[w] + When(w, b, n)
  BY <1>1, <1>2, <1>4, WhenInt
<1>6. \A w \in Wallet : f[w] = g[w] + When(w, a, n)
  BY <1>4, WhenInt
<1>7. SumFunctionOnSet(h, Wallet) = SumFunctionOnSet(g, Wallet) + n
  BY <1>1, <1>2, <1>4, <1>5, FiniteWallets, WhenSum
<1>8. SumFunctionOnSet(f, Wallet) = SumFunctionOnSet(g, Wallet) + n
  BY <1>4, <1>6, FiniteWallets, WhenSum
<1> QED BY <1>2, <1>7, <1>8

(* A child keeps the sum.                                                  *)
LEMMA CreatesSum ==
    ASSUME BlockTyping, NEW h \in Outcome, Creates(h)
    PROVE  SumFunctionOnSet(running', Wallet) = SumFunctionOnSet(running, Wallet)
<1> DEFINE c == h.child
           first == Shift(running, c.payer, Fees, ChildFee)
           second == Shift(first, c.payer, c.to, c.amount)
<1>1. /\ c.payer \in Wallet /\ Fees \in Wallet /\ ChildFee \in Int
      /\ running \in [Wallet -> Int]
      /\ running' = IF h.ok /\ c.amount > 0 THEN second ELSE first
  BY Constants, AmountsInt DEF Creates, BlockTyping, Move
<1>2. h.ok => c.amount \in Nat /\ (c.to \in Wallet \/ c.amount = 0)
  BY DEF Outcome, Covered, Goes
<1>3. /\ first \in [Wallet -> Int]
      /\ SumFunctionOnSet(first, Wallet) = SumFunctionOnSet(running, Wallet)
  BY <1>1, ShiftFacts, ShiftSum
<1> HIDE DEF first
<1>4. CASE h.ok /\ c.amount > 0
  <2>1. c.amount \in Int /\ c.to \in Wallet
    BY <1>2, <1>4
  <2>2. SumFunctionOnSet(second, Wallet) = SumFunctionOnSet(first, Wallet)
    BY <1>1, <1>3, <2>1, ShiftSum
  <2> QED BY <1>1, <1>3, <1>4, <2>2
<1>5. CASE ~ (h.ok /\ c.amount > 0)
  <2>1. running' = first
    BY <1>1, <1>5
  <2> QED BY <1>3, <2>1
<1> QED BY <1>4, <1>5

(* The transaction in execution, or one that waits, is not replayed.       *)
LEMMA NotReplayed ==
    ASSUME Typing, HashInv, NEW t \in waiting
    PROVE  /\ t \notin ToSet(block.hashes \o sc.hashes) /\ t \notin ToSet(block.hashes)
           /\ block.hashes \in Seq(AnyHash) /\ sc.hashes \in Seq(Outcome)
           /\ block.hashes \o sc.hashes \in Seq(AnyHash)
<1>1. block \in Blocks /\ sc.hashes \in Seq(Outcome) /\ block.hashes \in Seq(AnyHash) /\ t \in Txn
  BY DEF Typing, MachineTyping, BlockTyping, Blocks
<1>2. t \notin ToSet(block.txns)
  BY DEF HashInv
<1>3. ASSUME NEW m \in block.children PROVE OutcomeOf(m) # t
  <2>1. OutcomeOf(m) \in Outcome
    BY <1>1 DEF Blocks, Made, Outcome, OutcomeOf
  <2> QED BY <1>1, <2>1, HashKinds
<1>4. t \notin ToSet(block.hashes)
  BY <1>2, <1>3 DEF HashInv, Outcomes
<1>5. t \notin ToSet(sc.hashes)
  <2>1. ToSet(sc.hashes) \subseteq Outcome
    BY <1>1 DEF ToSet
  <2> QED BY <1>1, <2>1, HashKinds
<1> QED BY <1>1, <1>4, <1>5, HashesJoin

(* Contracts act for contracts and for the sender.                         *)
LEMMA AuthorityParts ==
    ASSUME MachineTyping, GasInv, StackInv, phase = "running"
    PROVE  Authority \subseteq Instance \cup User
<1>1. frames \in Seq(Frame) /\ frames # <<>> /\ txn \in Txn
  BY DEF MachineTyping, GasInv
<1>2. Top \in Nat /\ Top >= 1 /\ \A k \in 1..Top : frames[k] \in Frame /\ frames[k].code \in Instance
  BY <1>1, SpentFacts, FrameFields
<1>3. PICK b \in 1..Top : OnBehalf(frames, Top, b)
  BY DEF StackInv, Matches
<1>4. Behalf = b
  BY <1>1, <1>3, BehalfIs
<1>5. \A k \in b..Top : frames[k].code \in Instance
  BY <1>2
<1> QED BY <1>1, <1>4, <1>5, Constants DEF Authority

(* Two wallets get n and m.                                                *)
TwoGet(f, g, a, n, b, m) ==
    \A w \in Wallet : g[w] = f[w] + When(w, a, n) + When(w, b, m)
(* Have n and m more in the sum.                                           *)
LEMMA TwoSum ==
    ASSUME NEW f \in [Wallet -> Int], NEW g \in [Wallet -> Int], NEW a \in Wallet, NEW b \in Wallet,
           NEW n \in Int, NEW m \in Int, TwoGet(f, g, a, n, b, m)
    PROVE  SumFunctionOnSet(g, Wallet) = SumFunctionOnSet(f, Wallet) + n + m
<1>1. PICK h : h = [w \in Wallet |-> f[w] + When(w, a, n)]
  OBVIOUS
<1>2. h \in [Wallet -> Int] /\ \A w \in Wallet : h[w] = f[w] + When(w, a, n)
  BY <1>1, WhenInt
<1>3. \A w \in Wallet : g[w] = h[w] + When(w, b, m)
  BY <1>2 DEF TwoGet
<1>4. SumFunctionOnSet(h, Wallet) = SumFunctionOnSet(f, Wallet) + n
  BY <1>2, FiniteWallets, WhenSum
<1>5. SumFunctionOnSet(g, Wallet) = SumFunctionOnSet(h, Wallet) + m
  BY <1>2, <1>3, FiniteWallets, WhenSum
<1> QED BY <1>4, <1>5

(* What the block would store now are balances; and a record changed of a  *)
(* transaction that waits changes none of them.                            *)
LEMMA ReplayedFacts ==
    ASSUME Typing
    PROVE  /\ Replayed \in Amounts /\ record \in Records
           /\ block.hashes \in Seq(AnyHash) /\ sc.hashes \in Seq(Outcome)
           /\ block.hashes \o sc.hashes \in Seq(AnyHash)
<1>1. block \in Blocks /\ sc.hashes \in Seq(Outcome) /\ balance \in Amounts /\ record \in Records
  BY DEF Typing, MachineTyping, BlockTyping, Blocks, Records
<1>2. block.hashes \in Seq(AnyHash)
  BY <1>1 DEF Blocks
<1>3. block.hashes \o sc.hashes \in Seq(AnyHash)
  BY <1>1, <1>2, HashesJoin
<1> QED BY <1>1, <1>2, <1>3, ReplayType DEF Replayed

(* The transaction that waits may have any record.                         *)
LEMMA RecordReplay ==
    ASSUME Typing, HashInv, NEW t \in waiting, NEW r \in Records,
           \A s \in Txn \ {t} : r[s] = record[s]
    PROVE  add_temp_wallet_balance(r, balance, block.hashes \o sc.hashes) = Replayed
<1>1. PICK hs : hs = block.hashes \o sc.hashes
  OBVIOUS
<1>2. hs \in Seq(AnyHash) /\ record \in Records /\ balance \in Amounts
  BY <1>1, ReplayedFacts DEF Typing, BlockTyping
<1>3. \A s \in Txn \cap ToSet(hs) : record[s] = r[s]
  BY <1>1, NotReplayed
<1>4. add_temp_wallet_balance(record, balance, hs) = add_temp_wallet_balance(r, balance, hs)
  BY <1>2, <1>3, ReplaySame
<1> QED BY <1>1, <1>4 DEF Replayed

(* The record of the transaction in execution takes from all but the fee   *)
(* wallet, after every step.                                               *)
LEMMA DebitsKept ==
    ASSUME Typing, GasInv, StackInv, OwnDebits, [Next]_vars
    PROVE  OwnDebits'
<1>0. MachineTyping /\ BlockTyping /\ StateTyping
  BY DEF Typing
<1>1. ASSUME UNCHANGED <<txn, record>>, phase # "idle" PROVE OwnDebits'
  BY <1>1 DEF OwnDebits
<1>2. CASE Works /\ (Writes \/ \E h \in Outcome : Creates(h))
  <2>1. phase = "running" /\ UNCHANGED <<phase, txn>> /\ txn \in Txn
    BY <1>0, <1>2 DEF Works, MaySpend, MachineTyping
  <2>2. ASSUME NEW n \in Nat, Charges(n) PROVE OwnDebits'
    <3>1. \A w \in Wallet : record'[txn][w] = record[txn][w] - When(w, txn.to, n)
      BY <2>1, <2>2, ChargesFacts
    <3>2. ASSUME NEW w \in Wallet \ {Fees} PROVE record'[txn][w] <= 0
      <4>1. record[txn][w] \in Int /\ record[txn][w] <= 0
        BY <1>0, <2>1 DEF BlockTyping, OwnDebits
      <4> QED BY <3>1, <4>1 DEF When
    <3> QED BY <2>1, <3>2 DEF OwnDebits
  <2> QED BY <1>1, <1>2, <2>1, <2>2 DEF Writes, Creates
<1>3. ASSUME NEW i \in Instance, Call(i) \/ DelegateCall(i) PROVE OwnDebits'
  BY <1>1, <1>3 DEF Call, DelegateCall, CallableFrom, MaySpend
<1>4. CASE Return \/ Trap \/ Succeed \/ Fail
  BY <1>1, <1>4 DEF Return, Trap, Succeed, Fail
<1>5. CASE Settle \/ StoreBlock \/ Restart
  BY <1>5 DEF Settle, StoreBlock, Restart, OwnDebits
<1>6. ASSUME NEW t \in Txn, Refuse(t) PROVE OwnDebits'
  BY <1>6 DEF Refuse, OwnDebits
<1>7. ASSUME NEW t \in Txn, Begin(t) PROVE OwnDebits'
  <2>1. txn' = t
        /\ \A w \in Wallet : record'[t][w] = When(w, Fees, BaseFee) - When(w, t.user, BaseFee)
    BY <1>7, BeginFacts
  <2>2. BaseFee \in Nat
    BY Constants
  <2> QED BY <2>1, <2>2 DEF OwnDebits, When
<1>8. CASE UNCHANGED vars
  BY <1>8 DEF vars, OwnDebits
<1> QED BY <1>0, <1>2, <1>3, <1>4, <1>5, <1>6, <1>7, <1>8, StepKinds

(* The running balances and what the block would store, after every step.  *)
(* First, a step that touches neither.                                     *)
LEMMA BalancedSame ==
    ASSUME Balanced, phase # "idle", phase' # "idle", UNCHANGED <<running, balance, record, txn>>,
           block'.hashes \o sc'.hashes = block.hashes \o sc.hashes, Held' = Held,
           ~ history'.drift => ~ history.drift
    PROVE  Balanced'
<1>1. Replayed' = Replayed
  BY DEF Replayed
<1> QED BY <1>1 DEF Balanced

(* A host function that charges for storage.                               *)
LEMMA ChargesBalanced ==
    ASSUME Typing, HashInv, Balanced, phase = "running", phase' = "running", txn' = txn,
           Held' = Held, UNCHANGED <<balance, block, sc, history>>, NEW n \in Nat, Charges(n)
    PROVE  Balanced'
<1>1. txn \in Txn /\ txn \in waiting
  BY DEF HashInv, Typing, MachineTyping
<1>2. /\ \A w \in Wallet : /\ running'[w] = running[w] - When(w, txn.to, n)
                           /\ record'[txn][w] = record[txn][w] - When(w, txn.to, n)
      /\ record' \in Records /\ \A s \in Txn \ {txn} : record'[s] = record[s]
  BY <1>1, ChargesFacts
<1>3. Replayed' = Replayed
  <2>1. PICK r : r = record'
    OBVIOUS
  <2>2. add_temp_wallet_balance(r, balance, block.hashes \o sc.hashes) = Replayed
    BY <1>1, <1>2, <2>1, RecordReplay
  <2> QED BY <2>1, <2>2 DEF Replayed
<1>4. ASSUME NEW w \in Wallet, ~ history.drift
      PROVE  running'[w] = Replayed[w] + record'[txn][w] - When(w, txn.user, Held)
  <2>1. running[w] = Replayed[w] + record[txn][w] - When(w, txn.user, Held)
    BY <1>4 DEF Balanced
  <2>2. /\ Replayed[w] \in Int /\ record[txn][w] \in Int /\ running[w] \in Int
        /\ When(w, txn.to, n) \in Int
    <3>1. Replayed[w] \in Int /\ running[w] \in Int
      BY ReplayedFacts DEF Amounts, Typing, BlockTyping
    <3>2. record[txn][w] \in Int
      BY <1>1, ReplayedFacts DEF Records
    <3> QED BY <3>1, <3>2, WhenInt
  <2>3. When(w, txn.user, Held) \in Int
    <3>1. Held \in Int
      BY <1>1, Constants DEF Held
    <3> QED BY <3>1, WhenInt
  <2> QED BY <1>2, <2>1, <2>2, <2>3
<1> QED BY <1>3, <1>4 DEF Balanced

(* A child: its debits are covered by what the block would store, for the  *)
(* record of the transaction and the deposit only take from its payer.     *)
LEMMA CreatesBalanced ==
    ASSUME Fees \notin Instance \cup User, Typing, GasInv, StackInv, HashInv, Balanced, OwnDebits,
           phase = "running", phase' = "running", txn' = txn, Held' = Held,
           UNCHANGED <<balance, block, history>>, NEW h \in Outcome, Creates(h)
    PROVE  Balanced'
<1>1. txn \in Txn /\ Held \in Nat /\ \A w \in Wallet : When(w, txn.user, Held) \in Nat
  <2>1. txn \in Txn
    BY DEF Typing, MachineTyping
  <2> QED BY <2>1, Constants DEF Held, When
<1>2. h.child.payer \in Wallet \ {Fees} /\ record' = record /\ sc'.hashes = Append(sc.hashes, h)
  <2>1. h.child.payer \in Authority /\ h.child.payer \in Wallet
    BY DEF Creates
  <2>2. Authority \subseteq Instance \cup User
    BY AuthorityParts DEF Typing
  <2> QED BY <2>1, <2>2 DEF Creates
<1>3. \A w \in Wallet :
         /\ running'[w] = running[w] + Added(record, h, w) - Taken(record, h, w)
         /\ w = h.child.payer => running[w] >= Taken(record, h, w)
         /\ w # h.child.payer => Taken(record, h, w) = 0
  BY CreatesMoney DEF Typing
<1>4. PICK b \in Amounts : b = Replayed
  BY ReplayedFacts
<1>5. Replayed' = Replay(record, b, h)
  <2>1. PICK hs : hs = block.hashes \o sc.hashes
    OBVIOUS
  <2>2. hs \in Seq(AnyHash) /\ h \in AnyHash /\ block.hashes \o Append(sc.hashes, h) = Append(hs, h)
    <3>1. block.hashes \in Seq(AnyHash) /\ sc.hashes \in Seq(Outcome)
      BY ReplayedFacts
    <3>2. /\ block.hashes \o sc.hashes \in Seq(AnyHash) /\ h \in AnyHash
          /\ block.hashes \o Append(sc.hashes, h) = Append(block.hashes \o sc.hashes, h)
      BY <3>1, HashesAppend
    <3> QED BY <2>1, <3>2
  <2>3. add_temp_wallet_balance(record, balance, Append(hs, h))
           = Replay(record, add_temp_wallet_balance(record, balance, hs), h)
    BY <2>2, ReplayedFacts, ReplayAppend DEF Typing, BlockTyping
  <2> QED BY <1>2, <1>4, <2>1, <2>2, <2>3 DEF Replayed
<1>6. ASSUME NEW w \in Wallet, ~ history.drift
      PROVE  running'[w] = Replay(record, b, h)[w] + record[txn][w] - When(w, txn.user, Held)
  <2>1. running[w] = b[w] + record[txn][w] - When(w, txn.user, Held)
    BY <1>4, <1>6 DEF Balanced
  <2>2. /\ b[w] \in Nat /\ record[txn][w] \in Int /\ running[w] \in Nat
        /\ Added(record, h, w) \in Nat /\ Taken(record, h, w) \in Nat
    BY <1>1, OutcomeReplay DEF Amounts, Typing, BlockTyping
  <2>3. w = h.child.payer => record[txn][w] <= 0
    BY <1>2 DEF OwnDebits
  <2>4. b[w] + Added(record, h, w) >= Taken(record, h, w)
    BY <1>1, <1>3, <2>1, <2>2, <2>3
  <2>5. Replay(record, b, h)[w] = b[w] + Added(record, h, w) - Taken(record, h, w)
    <3>1. h \in AnyHash
      BY DEF AnyHash
    <3> QED BY <2>4, <3>1, ReplayedFacts, ReplayFacts
  <2> QED BY <1>1, <1>3, <2>1, <2>2, <2>5
<1> QED BY <1>2, <1>5, <1>6 DEF Balanced

(* The settlement: the transaction's own hash replays its record.          *)
LEMMA SettleBalanced ==
    ASSUME Typing, GasInv, HashInv, Balanced, Settle
    PROVE  Balanced'
<1>1. /\ txn \in Txn /\ txn \in waiting /\ phase # "idle" /\ phase' = "idle" /\ sc = NoChildren
      /\ sc' = sc /\ balance' = balance /\ history'.drift = history.drift
  BY DEF Settle, HashInv, Typing, MachineTyping, StateTyping
<1>2. /\ running' \in Amounts /\ record' \in Records /\ history.gas \in Nat
      /\ \A s \in Txn \ {txn} : record'[s] = record[s]
  BY SettleFacts
<1>3. PICK owed \in 0..due[txn.to] :
         \A w \in Wallet :
            /\ running'[w] = running[w] + When(w, txn.user, Held) + When(w, Fees, owed)
                                - When(w, txn.user, history.gas) + When(w, Fees, history.gas)
            /\ record'[txn][w] = record[txn][w] + When(w, Fees, owed)
                                    - When(w, txn.user, history.gas) + When(w, Fees, history.gas)
  BY SettleFacts
<1>4. PICK b \in Amounts : b = Replayed
  BY ReplayedFacts
<1>5. PICK r \in Records : r = record'
  BY <1>2
<1>6. Replayed' = Replay(r, b, txn)
  <2>1. PICK hs \in Seq(AnyHash) : hs = block.hashes
    BY ReplayedFacts
  <2>2. hs \o sc.hashes = hs /\ Append(hs, txn) \o sc.hashes = Append(hs, txn) /\ txn \in AnyHash
    <3>1. txn \in AnyHash
      BY <1>1 DEF AnyHash
    <3>2. sc.hashes = <<>>
      BY <1>1, NothingFacts
    <3> QED BY <2>1, <3>1, <3>2
  <2>3. block'.hashes = Append(hs, txn)
    BY <2>1, SettleBlock
  <2>4. add_temp_wallet_balance(r, balance, hs) = b
    <3>1. add_temp_wallet_balance(r, balance, block.hashes \o sc.hashes) = Replayed
      BY <1>1, <1>2, <1>5, RecordReplay
    <3> QED BY <1>4, <2>1, <2>2, <3>1
  <2>5. add_temp_wallet_balance(r, balance, Append(hs, txn))
           = Replay(r, add_temp_wallet_balance(r, balance, hs), txn)
    BY <2>2, ReplayAppend DEF Typing, BlockTyping
  <2> QED BY <1>1, <1>5, <2>2, <2>3, <2>4, <2>5 DEF Replayed
<1>7. ASSUME NEW w \in Wallet, ~ history.drift
      PROVE  running'[w] = Replay(r, b, txn)[w]
  <2>1. running[w] = b[w] + record[txn][w] - When(w, txn.user, Held)
    BY <1>1, <1>4, <1>7 DEF Balanced
  <2>2. /\ b[w] \in Nat /\ record[txn][w] \in Int /\ running[w] \in Nat /\ running'[w] \in Nat
        /\ due[txn.to] \in Nat /\ owed \in Nat /\ r[txn][w] \in Int
    <3>1. txn.to \in Instance
      BY <1>1, Constants
    <3>2. due[txn.to] \in Nat
      BY <3>1 DEF Typing, StateTyping
    <3> QED BY <1>1, <1>2, <1>5, <3>2 DEF Amounts, Typing, BlockTyping, Records
  <2>3. /\ When(w, txn.user, Held) \in Int /\ When(w, Fees, owed) \in Int
        /\ When(w, txn.user, history.gas) \in Int /\ When(w, Fees, history.gas) \in Int
    <3>1. Held \in Int
      BY <1>1, Constants DEF Held
    <3> QED BY <1>2, <2>2, <3>1, WhenInt
  <2>4. running'[w] = b[w] + r[txn][w]
    BY <1>3, <1>5, <2>1, <2>2, <2>3
  <2>5. /\ Added(r, txn, w) \in Nat /\ Taken(r, txn, w) \in Nat
        /\ Added(r, txn, w) - Taken(r, txn, w) = r[txn][w]
    BY <1>1, TxnReplay
  <2>6. b[w] + Added(r, txn, w) >= Taken(r, txn, w)
    BY <2>2, <2>4, <2>5
  <2>7. Replay(r, b, txn)[w] = b[w] + Added(r, txn, w) - Taken(r, txn, w)
    <3>1. txn \in AnyHash
      BY <1>1 DEF AnyHash
    <3> QED BY <2>6, <3>1, ReplayFacts
  <2> QED BY <2>2, <2>4, <2>5, <2>7
<1>8. ~ history.drift => running' = Replay(r, b, txn)
  <2>1. Replay(r, b, txn) \in Amounts
    <3>1. txn \in AnyHash
      BY <1>1 DEF AnyHash
    <3> QED BY <3>1, ReplayFacts
  <2> QED BY <1>2, <1>7, <2>1 DEF Amounts
<1> QED BY <1>1, <1>6, <1>8 DEF Balanced

(* A transaction begins: it is not among the hashes yet.                   *)
LEMMA BeginBalanced ==
    ASSUME Typing, GasInv, HashInv, Balanced, NEW t \in Txn, Begin(t)
    PROVE  Balanced'
<1>1. /\ t \in waiting /\ sc' = sc /\ block' = block /\ balance' = balance
      /\ history'.drift = history.drift
  BY DEF Begin, Typing, StateTyping, databases
<1> DEFINE held == IF phase' = "running" THEN fee_left(t) ELSE 0
<1>2. /\ phase = "idle" /\ phase' # "idle" /\ txn' = t /\ record' \in Records
      /\ \A w \in Wallet :
            /\ running'[w] = running[w] - When(w, t.user, BaseFee) + When(w, Fees, BaseFee)
                                - When(w, t.user, held)
            /\ record'[t][w] = When(w, Fees, BaseFee) - When(w, t.user, BaseFee)
      /\ \A s \in Txn \ {t} : record'[s] = record[s]
  BY BeginFacts
<1>3. Held' = held
  BY <1>2, BeginFacts DEF Held
<1>4. BaseFee \in Nat /\ held \in Nat
  BY Constants
<1> HIDE DEF held
<1>5. Replayed' = Replayed
  <2>1. PICK r \in Records : r = record'
    BY <1>2
  <2>2. add_temp_wallet_balance(r, balance, block.hashes \o sc.hashes) = Replayed
    BY <1>1, <1>2, <2>1, RecordReplay
  <2> QED BY <1>1, <2>1, <2>2 DEF Replayed
<1>6. ASSUME NEW w \in Wallet, ~ history.drift
      PROVE  running'[w] = Replayed[w] + record'[t][w] - When(w, t.user, held)
  <2>1. running[w] = Replayed[w] /\ running[w] \in Int
    BY <1>2, <1>6 DEF Balanced, Typing, BlockTyping, Amounts
  <2>2. /\ When(w, t.user, BaseFee) \in Int /\ When(w, Fees, BaseFee) \in Int
        /\ When(w, t.user, held) \in Int
    BY <1>4, WhenInt
  <2> QED BY <1>2, <2>1, <2>2
<1> QED BY <1>1, <1>2, <1>3, <1>5, <1>6 DEF Balanced

(* With nothing in the block and in the execution the stored balances stay.*)
LEMMA NothingReplayed ==
    ASSUME Typing', sc' = NoChildren, block' = EmptyBlock
    PROVE  Replayed' = balance'
<1>1. PICK r \in Records : r = record'
  BY DEF Typing, BlockTyping, Records
<1>2. PICK b \in Amounts : b = balance'
  BY DEF Typing, BlockTyping, Amounts
<1>3. block'.hashes \o sc'.hashes = <<>>
  BY NothingFacts DEF EmptyBlock
<1>4. PICK hs \in Seq(AnyHash) : hs = <<>>
  <2>1. <<>> \in Seq(AnyHash)
    OBVIOUS
  <2> QED BY <2>1, Zenon
<1>5. add_temp_wallet_balance(r, b, hs) = b
  BY <1>4, ReplayType
<1> QED BY <1>1, <1>2, <1>3, <1>4, <1>5 DEF Replayed

(* The block is stored between executions.                                 *)
LEMMA StoreStores ==
    ASSUME Typing, HashInv, StoreBlock
    PROVE  balance' = Replayed /\ sc = NoChildren
<1>1. sc = NoChildren /\ balance' = add_temp_wallet_balance(record, balance, block.hashes)
  BY DEF HashInv, StoreBlock
<1>2. block.hashes \o sc.hashes = block.hashes
  BY <1>1, NothingFacts, ReplayedFacts
<1> QED BY <1>1, <1>2 DEF Replayed

(* Every step.                                                             *)
LEMMA BalancedKept ==
    ASSUME Fees \notin Instance \cup User, Typing, GasInv, StackInv, HashInv, Balanced, OwnDebits,
           [Next]_vars
    PROVE  Balanced'
<1>0. MachineTyping /\ BlockTyping /\ StateTyping /\ GasInv'
  BY GasKept DEF Typing
<1>1. Typing'
  BY MachineTyped, StateTyped, BlockTyped DEF Typing
<1>2. phase = "running" => txn \in Txn /\ frames # <<>>
  BY <1>0 DEF MachineTyping, GasInv
<1>3. CASE Works /\ (Writes \/ \E h \in Outcome : Creates(h))
  <2>1. /\ phase = "running" /\ phase' = "running" /\ UNCHANGED <<txn, balance, block, history>>
        /\ frames # <<>> /\ frames' # <<>>
    BY <1>0, <1>3 DEF Works, MaySpend, GasInv
  <2>2. Held' = Held
    BY <2>1 DEF Held
  <2>3. ASSUME UNCHANGED <<running, record, sc>> PROVE Balanced'
    <3>1. block'.hashes \o sc'.hashes = block.hashes \o sc.hashes
      BY <2>1, <2>3
    <3> QED BY <2>1, <2>2, <2>3, <3>1, BalancedSame
  <2>4. CASE Writes
    <3>1. sc' = sc /\ (UNCHANGED <<running, record>> \/ \E n \in Nat : Charges(n))
      BY <2>4 DEF Writes
    <3> QED BY <2>1, <2>2, <2>3, <3>1, ChargesBalanced
  <2>5. ASSUME NEW h \in Outcome, Creates(h) PROVE Balanced'
    BY <2>1, <2>2, <2>5, CreatesBalanced
  <2> QED BY <1>3, <2>4, <2>5
<1>4. ASSUME NEW i \in Instance, Call(i) \/ DelegateCall(i) PROVE Balanced'
  <2>1. /\ phase = "running" /\ phase' = "running" /\ frames # <<>> /\ frames' # <<>>
        /\ UNCHANGED <<running, balance, record, txn, block, sc, history>>
    BY <1>0, <1>4 DEF Call, DelegateCall, CallableFrom, MaySpend, databases, GasInv
  <2>2. Held' = Held /\ block'.hashes \o sc'.hashes = block.hashes \o sc.hashes
    BY <2>1 DEF Held
  <2> QED BY <2>1, <2>2, BalancedSame
<1>5. CASE Return \/ Trap
  <2>1. /\ phase = "running" /\ phase' \in {"running", "done", "failed"}
        /\ frames # <<>> /\ frames' # <<>>
        /\ UNCHANGED <<running, balance, record, txn, block, sc>>
        /\ history'.drift = history.drift
    BY <1>0, <1>5 DEF Return, Trap, databases, machine, GasInv, StateTyping
  <2>2. Held' = Held /\ block'.hashes \o sc'.hashes = block.hashes \o sc.hashes
    BY <2>1 DEF Held
  <2> QED BY <2>1, <2>2, BalancedSame
<1>6. CASE Succeed
  <2>1. /\ phase = "done" /\ phase' = "settled" /\ sc' = NoChildren
        /\ UNCHANGED <<running, balance, record, txn, frames>> /\ history'.drift = history.drift
    BY <1>0, <1>6 DEF Succeed, StateTyping
  <2>2. block'.hashes = block.hashes \o sc.hashes /\ sc'.hashes = <<>>
    BY <1>6, <2>1, SucceedBlock, NothingFacts
  <2>3. block'.hashes \o sc'.hashes = block.hashes \o sc.hashes
    <3>1. PICK hs \in Seq(AnyHash) : hs = block.hashes \o sc.hashes
      BY ReplayedFacts
    <3>2. hs \o <<>> = hs
      OBVIOUS
    <3> QED BY <2>2, <3>1, <3>2
  <2>4. Held' = Held
    BY <2>1 DEF Held
  <2> QED BY <2>1, <2>3, <2>4, BalancedSame
<1>7. CASE Fail
  <2>1. /\ phase = "failed" /\ phase' = "undone" /\ sc' = NoChildren
        /\ UNCHANGED <<running, balance, record, txn, frames>>
        /\ history'.drift = (history.drift \/ children # {})
    BY <1>0, <1>7 DEF Fail, StateTyping
  <2>2. block' = block
    BY <1>7, FailBlock
  <2>3. Held' = Held
    BY <2>1 DEF Held
  <2>4. CASE children = {}
    <3>1. ToSet(sc.hashes) = {}
      BY <2>1, <2>4 DEF HashInv, Outcomes
    <3>2. sc.hashes \in Seq(Outcome)
      BY ReplayedFacts
    <3>3. sc.hashes = <<>>
      <4>1. DOMAIN sc.hashes = {}
        BY <3>1 DEF ToSet
      <4>2. Len(sc.hashes) \in Nat /\ DOMAIN sc.hashes = 1..Len(sc.hashes)
        BY <3>2
      <4>3. Len(sc.hashes) # 0 => 1 \in DOMAIN sc.hashes
        BY <4>2
      <4> QED BY <3>2, <4>1, <4>3
    <3>4. sc'.hashes = <<>>
      BY <2>1, NothingFacts
    <3> QED BY <2>1, <2>2, <2>3, <2>4, <3>3, <3>4, BalancedSame
  <2>5. CASE children # {}
    BY <2>1, <2>5 DEF Balanced
  <2> QED BY <2>4, <2>5
<1>8. CASE Settle
  BY <1>8, SettleBalanced
<1>9. ASSUME NEW t \in Txn, Refuse(t) PROVE Balanced'
  <2>1. phase = "idle" /\ UNCHANGED <<phase, running, balance, record, block, sc, history>>
    BY <1>9 DEF Refuse, machine
  <2> QED BY <2>1 DEF Balanced, Replayed
<1>10. ASSUME NEW t \in Txn, Begin(t) PROVE Balanced'
  BY <1>10, BeginBalanced
<1>11. CASE StoreBlock
  <2>1. /\ phase = "idle" /\ UNCHANGED <<phase, running, sc>> /\ block' = EmptyBlock
        /\ history'.drift = history.drift
    BY <1>0, <1>11 DEF StoreBlock, machine, StateTyping
  <2>2. balance' = Replayed /\ sc = NoChildren
    BY <1>11, StoreStores
  <2>3. Replayed' = balance'
    BY <1>1, <2>1, <2>2, NothingReplayed
  <2> QED BY <2>1, <2>2, <2>3 DEF Balanced
<1>12. CASE Restart
  <2>1. phase' = "idle" /\ running' = balance' /\ sc' = NoChildren /\ block' = EmptyBlock
    BY <1>12 DEF Restart
  <2>2. Replayed' = balance'
    BY <1>1, <2>1, NothingReplayed
  <2> QED BY <2>1, <2>2 DEF Balanced
<1>13. CASE UNCHANGED vars
  BY <1>13 DEF vars, databases, machine, Balanced, Replayed, Held
<1> QED BY <1>0, <1>3, <1>4, <1>5, <1>6, <1>7, <1>8, <1>9, <1>10, <1>11, <1>12, <1>13, StepKinds

(* The tokens are all there, after every step.  First, a step that moves   *)
(* none.                                                                   *)
LEMMA SupplySame ==
    ASSUME SupplyInv, UNCHANGED <<running, due, balance, txn>>,
           frames = <<>> <=> frames' = <<>>,
           ~ history'.torn => ~ history.torn, ~ history'.drift => ~ history.drift
    PROVE  SupplyInv'
<1>1. Held' = Held
  BY DEF Held
<1> QED BY <1>1 DEF SupplyInv, DueIsRunning

(* What is due, in all.                                                    *)
LEMMA DueSum ==
    ASSUME Typing, DueIsRunning
    PROVE  /\ SumFunctionOnSet(due, Instance) \in Int
           /\ frames = <<>> => SumFunctionOnSet(due, Instance) = 0
           /\ frames # <<>> /\ txn \in Txn => SumFunctionOnSet(due, Instance) = due[txn.to]
<1>1. due \in [Instance -> Nat] /\ \A i \in Instance : due[i] \in Int
  BY DEF Typing, StateTyping
<1>2. SumFunctionOnSet(due, Instance) \in Int
  BY <1>1, FiniteWallets, SumInt
<1>3. ASSUME frames = <<>> PROVE SumFunctionOnSet(due, Instance) = 0
  <2>1. \A i \in Instance : due[i] = 0
    BY <1>3 DEF DueIsRunning
  <2> QED BY <2>1, FiniteWallets, SumZero
<1>4. ASSUME frames # <<>>, txn \in Txn PROVE SumFunctionOnSet(due, Instance) = due[txn.to]
  <2>1. txn.to \in Instance
    BY <1>4, Constants
  <2>2. \A i \in Instance \ {txn.to} : due[i] = 0
    BY DEF DueIsRunning
  <2>3. IsFiniteSet(Instance \ {txn.to})
    BY FiniteWallets, FS_Subset
  <2>4. SumFunctionOnSet(due, Instance \ {txn.to}) = 0
    BY <2>2, <2>3, SumZero
  <2>5. SumFunctionOnSet(due, Instance) = due[txn.to] + SumFunctionOnSet(due, Instance \ {txn.to})
    BY <1>1, <2>1, FiniteWallets, SumTake
  <2> QED BY <1>1, <2>1, <2>4, <2>5
<1> QED BY <1>2, <1>3, <1>4

(* The settlement: the deposit and what is due come to the wallets.        *)
LEMMA SettleSupply ==
    ASSUME Typing, GasInv, SupplyInv, Settle
    PROVE  SupplyInv'
<1> SUFFICES ASSUME ~ history'.torn, ~ history'.drift PROVE SupplyInv'
  BY DEF SupplyInv
<1>1. /\ txn \in Txn /\ txn.to \in Instance /\ txn.user \in Wallet /\ Fees \in Wallet
      /\ frames' = <<>> /\ balance' = balance /\ ~ history.torn /\ ~ history.drift
  <2>1. txn \in Txn
    BY SettleFacts
  <2> QED BY <2>1, Constants DEF Settle, Typing, StateTyping
<1>2. /\ DueIsRunning /\ SumFunctionOnSet(balance, Wallet) = SumFunctionOnSet(FirstBalance, Wallet)
      /\ SumFunctionOnSet(running, Wallet) + Held + SumFunctionOnSet(due, Instance)
            = SumFunctionOnSet(FirstBalance, Wallet)
  BY <1>1 DEF SupplyInv
<1>3. PICK owed \in 0..due[txn.to] :
         /\ frames # <<>> => owed = due[txn.to]
         /\ due' = [due EXCEPT ![txn.to] = @ - owed]
         /\ \A w \in Wallet :
               running'[w] = running[w] + When(w, txn.user, Held) + When(w, Fees, owed)
                                - When(w, txn.user, history.gas) + When(w, Fees, history.gas)
  BY SettleFacts
<1>4. due \in [Instance -> Nat] /\ due[txn.to] \in Nat /\ history.gas \in Nat /\ Held \in Nat
      /\ running \in [Wallet -> Int] /\ running' \in [Wallet -> Int]
  BY <1>1, SettleFacts, Constants, AmountsInt DEF Typing, StateTyping, BlockTyping, Held
<1>5. owed = due[txn.to]
  <2>1. frames = <<>> => due[txn.to] = 0
    BY <1>1, <1>2 DEF DueIsRunning
  <2> QED BY <1>3, <1>4, <2>1
<1>6. SumFunctionOnSet(due, Instance) = owed
  BY <1>1, <1>2, <1>3, <1>4, <1>5, DueSum DEF DueIsRunning
<1>7. \A i \in Instance : due'[i] = 0
  BY <1>1, <1>2, <1>3, <1>4, <1>5 DEF DueIsRunning
<1>8. SumFunctionOnSet(due', Instance) = 0
  <2>1. PICK d : d = due'
    OBVIOUS
  <2> QED BY <1>7, <2>1, FiniteWallets, SumZero
<1>9. SumFunctionOnSet(running', Wallet) = SumFunctionOnSet(running, Wallet) + Held + owed
  <2>1. PICK g \in [Wallet -> Int] : g = running'
    BY <1>4
  <2>2. PICK n \in Int : n = Held - history.gas
    BY <1>4
  <2>3. PICK m \in Int : m = owed + history.gas
    BY <1>4, <1>5
  <2>4. ASSUME NEW w \in Wallet
        PROVE  g[w] = running[w] + When(w, txn.user, n) + When(w, Fees, m)
    <3>1. g[w] = running[w] + When(w, txn.user, Held) + When(w, Fees, owed)
                    - When(w, txn.user, history.gas) + When(w, Fees, history.gas)
      BY <1>3, <2>1
    <3>2. running[w] \in Int /\ Held \in Int /\ owed \in Int /\ history.gas \in Int
      BY <1>4, <1>5
    <3> HIDE DEF Held
    <3> QED BY <2>2, <2>3, <3>1, <3>2 DEF When
  <2>5. SumFunctionOnSet(g, Wallet) = SumFunctionOnSet(running, Wallet) + n + m
    <3>1. PICK f \in [Wallet -> Int] : f = running
      BY <1>4
    <3>2. PICK u \in Wallet : u = txn.user
      BY <1>1
    <3>3. TwoGet(f, g, u, n, Fees, m)
      BY <2>4, <3>1, <3>2 DEF TwoGet
    <3>4. SumFunctionOnSet(g, Wallet) = SumFunctionOnSet(f, Wallet) + n + m
      BY <1>1, <3>3, TwoSum
    <3> QED BY <3>1, <3>4
  <2>6. SumFunctionOnSet(running, Wallet) \in Int
    BY <1>4, FiniteWallets, SumInt
  <2> QED BY <1>4, <1>5, <2>1, <2>2, <2>3, <2>5, <2>6
<1>10. Held' = 0
  BY <1>1 DEF Held
<1>11. SumFunctionOnSet(running, Wallet) \in Int
  BY <1>4, FiniteWallets, SumInt
<1>12. SumFunctionOnSet(running', Wallet) + Held' + SumFunctionOnSet(due', Instance)
          = SumFunctionOnSet(FirstBalance, Wallet)
  BY <1>2, <1>4, <1>5, <1>6, <1>8, <1>9, <1>10, <1>11
<1> QED BY <1>1, <1>2, <1>7, <1>12 DEF SupplyInv, DueIsRunning

(* A transaction begins: the deposit leaves the sender's wallet.           *)
LEMMA BeginSupply ==
    ASSUME Typing, GasInv, SupplyInv, NEW t \in Txn, Begin(t)
    PROVE  SupplyInv'
<1> SUFFICES ASSUME ~ history'.torn, ~ history'.drift PROVE SupplyInv'
  BY DEF SupplyInv
<1>1. /\ due' = due /\ balance' = balance /\ ~ history.torn /\ ~ history.drift
      /\ t.user \in Wallet /\ Fees \in Wallet /\ BaseFee \in Nat /\ fee_left(t) \in Nat
  BY Constants DEF Begin, Typing, StateTyping, databases
<1> DEFINE held == IF phase' = "running" THEN fee_left(t) ELSE 0
<1>2. /\ phase = "idle" /\ txn' = t /\ frames = <<>>
      /\ \A w \in Wallet :
            running'[w] = running[w] - When(w, t.user, BaseFee) + When(w, Fees, BaseFee)
                             - When(w, t.user, held)
  BY BeginFacts
<1>3. Held = 0 /\ Held' = held /\ held \in Nat
  BY <1>1, <1>2, BeginFacts DEF Held
<1> HIDE DEF held
<1>4. running \in [Wallet -> Int] /\ running' \in [Wallet -> Int]
  BY BeginFacts, AmountsInt DEF Typing, BlockTyping
<1>5. \A i \in Instance : due[i] = 0
  BY <1>1, <1>2 DEF SupplyInv, DueIsRunning, Typing, StateTyping
<1>6. SumFunctionOnSet(running', Wallet) = SumFunctionOnSet(running, Wallet) - held
  <2>1. PICK g \in [Wallet -> Int] : g = running'
    BY <1>4
  <2>2. PICK n \in Int : n = 0 - (BaseFee + held)
    <3>1. 0 - (BaseFee + held) \in Int
      BY <1>1, <1>3
    <3> QED BY <3>1
  <2>3. ASSUME NEW w \in Wallet
        PROVE  g[w] = running[w] + When(w, t.user, n) + When(w, Fees, BaseFee)
    <3>1. g[w] = running[w] - When(w, t.user, BaseFee) + When(w, Fees, BaseFee)
                    - When(w, t.user, held)
      BY <1>2, <2>1
    <3>2. running[w] \in Int /\ held \in Int /\ BaseFee \in Int
      BY <1>1, <1>3, <1>4
    <3> QED BY <2>2, <3>1, <3>2 DEF When
  <2>4. BaseFee \in Int
    BY <1>1
  <2>5. SumFunctionOnSet(g, Wallet) = SumFunctionOnSet(running, Wallet) + n + BaseFee
    <3>1. PICK f \in [Wallet -> Int] : f = running
      BY <1>4
    <3>2. PICK u \in Wallet : u = t.user
      BY <1>1
    <3>3. TwoGet(f, g, u, n, Fees, BaseFee)
      BY <2>3, <3>1, <3>2 DEF TwoGet
    <3>4. SumFunctionOnSet(g, Wallet) = SumFunctionOnSet(f, Wallet) + n + BaseFee
      BY <1>1, <2>4, <3>3, TwoSum
    <3> QED BY <3>1, <3>4
  <2>6. SumFunctionOnSet(running, Wallet) \in Int
    BY <1>4, FiniteWallets, SumInt
  <2> QED BY <1>1, <1>3, <2>1, <2>2, <2>5, <2>6
<1>7. SumFunctionOnSet(running, Wallet) \in Int /\ SumFunctionOnSet(due, Instance) \in Int
  BY <1>1, <1>4, FiniteWallets, SumInt, DueSum DEF SupplyInv
<1>8. /\ SumFunctionOnSet(balance, Wallet) = SumFunctionOnSet(FirstBalance, Wallet)
      /\ SumFunctionOnSet(running, Wallet) + Held + SumFunctionOnSet(due, Instance)
            = SumFunctionOnSet(FirstBalance, Wallet)
  BY <1>1 DEF SupplyInv
<1>9. SumFunctionOnSet(running', Wallet) + Held' + SumFunctionOnSet(due', Instance)
         = SumFunctionOnSet(FirstBalance, Wallet)
  BY <1>1, <1>3, <1>6, <1>7, <1>8
<1> QED BY <1>1, <1>5, <1>8, <1>9 DEF SupplyInv, DueIsRunning

(* A charge for storage moves tokens from the contract to what is due.     *)
LEMMA ChargesSupply ==
    ASSUME Typing, SupplyInv, phase = "running", txn' = txn, Held' = Held, frames # <<>>,
           frames' # <<>>, UNCHANGED <<balance, history>>, NEW n \in Nat, Charges(n)
    PROVE  SupplyInv'
<1> SUFFICES ASSUME ~ history.torn, ~ history.drift PROVE SupplyInv'
  BY DEF SupplyInv
<1>1. txn \in Txn /\ txn.to \in Instance /\ txn.to \in Wallet
  <2>1. txn \in Txn
    BY DEF Typing, MachineTyping
  <2> QED BY <2>1, Constants
<1>2. /\ running' \in Amounts /\ due' \in [Instance -> Nat]
      /\ \A w \in Wallet : running'[w] = running[w] - When(w, txn.to, n)
      /\ \A i \in Instance : due'[i] = due[i] + When(i, txn.to, n)
  BY <1>1, ChargesFacts
<1>3. PICK m \in Int : m = 0 - n
  OBVIOUS
<1>4. /\ running \in [Wallet -> Int] /\ running' \in [Wallet -> Int]
      /\ due \in [Instance -> Int] /\ due' \in [Instance -> Int]
  BY <1>2, AmountsInt DEF Typing, BlockTyping, StateTyping
<1>5. SumFunctionOnSet(running', Wallet) = SumFunctionOnSet(running, Wallet) + m
  <2>1. PICK g \in [Wallet -> Int] : g = running'
    BY <1>4
  <2>2. PICK f \in [Wallet -> Int] : f = running
    BY <1>4
  <2>3. PICK a \in Wallet : a = txn.to
    BY <1>1
  <2>4. \A w \in Wallet : g[w] = f[w] + When(w, a, m)
    <3>1. \A w \in Wallet : running[w] \in Int
      BY <1>4
    <3> QED BY <1>2, <1>3, <2>1, <2>2, <2>3, <3>1 DEF When
  <2>5. SumFunctionOnSet(g, Wallet) = SumFunctionOnSet(f, Wallet) + m
    BY <1>3, <2>4, FiniteWallets, WhenSum
  <2> QED BY <2>1, <2>2, <2>5
<1>6. SumFunctionOnSet(due', Instance) = SumFunctionOnSet(due, Instance) + n
  <2>1. PICK d \in [Instance -> Int] : d = due'
    BY <1>4
  <2>2. \A i \in Instance : d[i] = due[i] + When(i, txn.to, n)
    BY <1>2, <2>1
  <2>3. due \in [Instance -> Int] /\ txn.to \in Instance /\ n \in Int
    BY <1>1, <1>4
  <2>4. SumFunctionOnSet(d, Instance) = SumFunctionOnSet(due, Instance) + n
    BY <2>2, <2>3, FiniteWallets, WhenSum
  <2> QED BY <2>1, <2>4
<1>7. SumFunctionOnSet(running, Wallet) \in Int /\ SumFunctionOnSet(due, Instance) \in Int
  BY <1>4, FiniteWallets, SumInt
<1>8. Held \in Int
  BY <1>1, Constants DEF Held
<1>9. DueIsRunning'
  <2>1. \A i \in Instance : i # txn.to => due'[i] = due[i]
    BY <1>2, <1>4 DEF When
  <2> QED BY <2>1 DEF SupplyInv, DueIsRunning
<1>10. SumFunctionOnSet(running', Wallet) + Held' + SumFunctionOnSet(due', Instance)
          = SumFunctionOnSet(FirstBalance, Wallet)
  BY <1>3, <1>5, <1>6, <1>7, <1>8 DEF SupplyInv
<1> QED BY <1>9, <1>10 DEF SupplyInv

(* Every step.                                                             *)
LEMMA SupplyKept ==
    ASSUME Typing, GasInv, StackInv, HashInv, Balanced, SupplyInv, [Next]_vars
    PROVE  SupplyInv'
<1>0. MachineTyping /\ BlockTyping /\ StateTyping /\ GasInv'
  BY GasKept DEF Typing
<1>1. Typing'
  BY MachineTyped, StateTyped, BlockTyped DEF Typing
<1>3. CASE Works /\ (Writes \/ \E h \in Outcome : Creates(h))
  <2>1. /\ phase = "running" /\ phase' = "running" /\ UNCHANGED <<txn, balance, history>>
        /\ frames # <<>> /\ frames' # <<>>
    BY <1>0, <1>3 DEF Works, MaySpend, GasInv
  <2>2. Held' = Held
    BY <2>1 DEF Held
  <2>3. CASE Writes
    <3>1. UNCHANGED <<running, due>> \/ \E n \in Nat : Charges(n)
      BY <2>3 DEF Writes
    <3> QED BY <2>1, <2>2, <3>1, SupplySame, ChargesSupply
  <2>4. ASSUME NEW h \in Outcome, Creates(h) PROVE SupplyInv'
    <3>1. SumFunctionOnSet(running', Wallet) = SumFunctionOnSet(running, Wallet)
      BY <1>0, <2>4, CreatesSum
    <3>2. due' = due
      BY <2>4 DEF Creates
    <3> QED BY <2>1, <2>2, <3>1, <3>2 DEF SupplyInv, DueIsRunning
  <2> QED BY <1>3, <2>3, <2>4
<1>4. ASSUME NEW i \in Instance, Call(i) \/ DelegateCall(i) PROVE SupplyInv'
  <2>1. /\ phase = "running" /\ phase' = "running" /\ frames # <<>> /\ frames' # <<>>
        /\ UNCHANGED <<running, due, balance, txn, history>>
    BY <1>0, <1>4 DEF Call, DelegateCall, CallableFrom, MaySpend, databases, GasInv
  <2> QED BY <2>1, SupplySame
<1>5. CASE Return \/ Trap
  <2>1. /\ frames # <<>> /\ frames' # <<>> /\ UNCHANGED <<running, due, balance, txn>>
        /\ history'.drift = history.drift /\ history'.torn = history.torn
    BY <1>0, <1>5 DEF Return, Trap, databases, machine, GasInv, StateTyping
  <2> QED BY <2>1, SupplySame
<1>6. CASE Succeed \/ Fail
  <2>1. /\ UNCHANGED <<running, due, balance, txn, frames>> /\ history'.torn = history.torn
        /\ history'.drift = history.drift \/ history'.drift = (history.drift \/ children # {})
    BY <1>0, <1>6 DEF Succeed, Fail, StateTyping
  <2> QED BY <2>1, SupplySame
<1>7. CASE Settle
  BY <1>7, SettleSupply
<1>8. ASSUME NEW t \in Txn, Refuse(t) PROVE SupplyInv'
  <2>1. UNCHANGED <<running, due, balance, txn, frames, history>>
    BY <1>8 DEF Refuse, machine
  <2> QED BY <2>1, SupplySame
<1>9. ASSUME NEW t \in Txn, Begin(t) PROVE SupplyInv'
  BY <1>9, BeginSupply
<1>10. CASE StoreBlock
  <2>1. /\ phase = "idle" /\ UNCHANGED <<running, due, txn, frames>>
        /\ history'.drift = history.drift /\ history'.torn = history.torn
    BY <1>0, <1>10 DEF StoreBlock, machine, StateTyping
  <2>2. ~ history.drift => balance' = running
    BY <1>10, <2>1, StoreStores DEF Balanced
  <2>3. frames = <<>> /\ Held = 0 /\ Held' = 0
    BY <1>0, <2>1 DEF GasInv, Held
  <2>4. running \in [Wallet -> Int] /\ SumFunctionOnSet(running, Wallet) \in Int
    <3>1. running \in [Wallet -> Int]
      BY <1>0, AmountsInt DEF BlockTyping
    <3> QED BY <3>1, FiniteWallets, SumInt
  <2>5. SupplyInv /\ ~ history.torn /\ ~ history.drift
           => SumFunctionOnSet(running, Wallet) = SumFunctionOnSet(FirstBalance, Wallet)
    BY <2>3, <2>4, DueSum DEF SupplyInv
  <2> QED BY <2>1, <2>2, <2>3, <2>5 DEF SupplyInv, DueIsRunning
<1>11. CASE Restart
  <2> SUFFICES ASSUME ~ history'.torn, ~ history'.drift PROVE SupplyInv'
    BY DEF SupplyInv
  <2>1. /\ running' = balance /\ UNCHANGED <<due, balance>> /\ frames' = <<>>
        /\ phase = "idle" /\ ~ history.torn /\ ~ history.drift
    BY <1>0, <1>11 DEF Restart, StateTyping
  <2>2. frames = <<>> /\ Held' = 0 /\ DueIsRunning
    BY <1>0, <2>1 DEF GasInv, Held, SupplyInv
  <2>3. SumFunctionOnSet(due, Instance) = 0
    BY <2>2, DueSum
  <2>4. SumFunctionOnSet(balance, Wallet) \in Int
    <3>1. \A w \in Wallet : balance[w] \in Int
      BY <1>0 DEF BlockTyping, Amounts
    <3> QED BY <3>1, FiniteWallets, SumInt
  <2> QED BY <2>1, <2>2, <2>3, <2>4 DEF SupplyInv, DueIsRunning
<1>12. CASE UNCHANGED vars
  <2>1. UNCHANGED <<running, due, balance, txn, frames, history>>
    BY <1>12 DEF vars, databases, machine
  <2> QED BY <2>1, SupplySame
<1> QED BY <1>0, <1>3, <1>4, <1>5, <1>6, <1>7, <1>8, <1>9, <1>10, <1>11, <1>12, StepKinds

-----------------------------------------------------------------------------
(* What follows for the properties. *)

(* The types that the model states.                                        *)
LEMMA TypesFollow == IInv => TypeOK
<1> SUFFICES ASSUME IInv PROVE TypeOK
  OBVIOUS
<1>1. MachineTyping /\ StateTyping /\ BlockTyping /\ HashInv
  BY DEF IInv, Typing
<1>2. /\ phase \in {"idle", "running", "done", "failed", "settled", "undone"}
      /\ txn \in Txn \union {NoKey}
  BY <1>1 DEF MachineTyping
<1>3. (txn = NoKey) = (phase = "idle")
  <2>1. txn = NoKey <=> phase = "idle"
    BY <1>1 DEF MachineTyping
  <2> QED BY <2>1
<1>4. instances \subseteq Instance /\ store \in [Instance -> Value \union {NoKey}]
      /\ due \in [Instance -> Nat]
  BY <1>1 DEF StateTyping, Stored
<1>5. ASSUME NEW i \in Instance PROVE Len(saved[i]) <= 1
  <2>1. CASE saved[i] = <<>>
    BY <2>1
  <2>2. CASE saved[i] # <<>>
    <3>1. PICK v \in Stored : saved[i] = <<v>>
      BY <1>1, <2>2 DEF StateTyping
    <3> QED BY <3>1
  <2> QED BY <2>1, <2>2
<1>6. /\ running \in [Wallet -> Nat] /\ balance \in [Wallet -> Nat]
      /\ nonce \in [Wallet -> Nat] /\ used \in [Wallet -> Nat] /\ stored \in [Wallet -> Nat]
      /\ waiting \subseteq Txn /\ restarts \in 0 .. MaxRestarts
  BY <1>1 DEF BlockTyping, Amounts
<1>7. ToSet(block.hashes) \subseteq Hash
  <2>1. ToSet(block.hashes) = ToSet(block.txns) \cup Outcomes(block.children)
    BY <1>1 DEF HashInv
  <2>2. ToSet(block.txns) \subseteq Txn
    <3>1. block.txns \in Seq(Txn)
      BY <1>1 DEF BlockTyping
    <3> QED BY <3>1 DEF ToSet
  <2>3. ASSUME NEW m \in block.children PROVE OutcomeOf(m) \in Hash
    <3>1. m.ok \in BOOLEAN
      BY <1>1 DEF BlockTyping, Made
    <3>2. m.child \in {c.child : c \in children \union block.children}
      OBVIOUS
    <3> QED BY <3>1, <3>2 DEF OutcomeOf, Hash
  <2> QED BY <2>1, <2>2, <2>3 DEF Hash, Outcomes
<1> QED BY <1>2, <1>3, <1>4, <1>5, <1>6, <1>7 DEF TypeOK

(* The context of the host's structure is what the frames say.             *)
LEMMA ContextFollows == IInv => ContextMatchesStack
<1> SUFFICES ASSUME IInv, phase = "running"
             PROVE  /\ sender.current = frames[Top].code
                    /\ sender.called = frames[Behalf].code
                    /\ sender.chain = [k \in 1 .. Top - Behalf + 1 |-> frames[Behalf + k - 1].code]
                    /\ sender.wallet = (IF Behalf = 1 THEN txn.user ELSE NoWallet)
  BY DEF ContextMatchesStack
<1>1. frames \in Seq(Frame) /\ frames # <<>> /\ sender \in Context
  BY DEF IInv, Typing, MachineTyping, GasInv
<1>2. PICK b \in 1..Top :
        /\ OnBehalf(frames, Top, b)
        /\ sender.current = frames[Top].code /\ sender.called = frames[b].code
        /\ Len(sender.chain) = Top - b + 1
        /\ \A l \in 1 .. Top - b + 1 : sender.chain[l] = frames[b + l - 1].code
        /\ sender.wallet = IF b = 1 THEN txn.user ELSE NoWallet
  BY DEF IInv, StackInv, Matches
<1>3. Behalf = b
  BY <1>1, <1>2, BehalfIs
<1>4. sender.chain = [k \in 1 .. Top - b + 1 |-> frames[b + k - 1].code]
  <2>1. sender.chain \in Seq(Instance)
    BY <1>1, ContextFields
  <2>2. sender.chain = [k \in 1..Len(sender.chain) |-> sender.chain[k]]
    BY <2>1
  <2> QED BY <1>2, <2>2
<1> QED BY <1>2, <1>3, <1>4

(* What is consumed grows, or a contract has returned.                     *)
LEMMA ConsumedGrows ==
    ASSUME IInv, [Next]_vars, ~ UNCHANGED vars, phase = "running", phase' = "running"
    PROVE  \/ Consumed' = Consumed + 1
           \/ Consumed' = Consumed /\ Len(frames') < Len(frames)
<1>0. MachineTyping /\ BlockTyping /\ GasInv /\ StackInv
  BY DEF IInv, Typing
<1>1. frames \in Seq(Frame) /\ frames # <<>> /\ sender \in Context /\ sender.used \in Nat
  BY <1>0, ContextFields DEF MachineTyping, GasInv
<1>2. /\ Cost(frames) = Cost(Front(frames)) + frames[Top].cost
      /\ Cost(Spent) = Cost(Front(frames)) + frames[Top].cost + 1
      /\ Cost(Front(frames)) \in Nat /\ frames[Top].cost \in Nat
  BY <1>1, SpentCost
<1>3. Consumed' = sender'.used + Cost(frames')
  BY DEF Consumed, Cost
<1>4. CASE Works
  <2>1. frames' = Spent /\ sender' = sender
    BY <1>4 DEF Works
  <2>2. Cost(frames') = Cost(Spent)
    BY <2>1
  <2>3. Consumed = sender.used + Cost(frames) /\ Consumed' = sender.used + Cost(Spent)
    BY <1>3, <2>1, <2>2 DEF Consumed
  <2> QED BY <1>1, <1>2, <2>3
<1>5. ASSUME NEW i \in Instance, Call(i) \/ DelegateCall(i)
      PROVE  Consumed' = Consumed + 1
  <2>1. PICK f \in Frame : frames' = Append(Spent, f) /\ f.cost = 0
    BY <1>0, <1>5, CallGas
  <2>2. sender'.used = sender.used
    BY <1>0, <1>5, CallGas
  <2>3. PICK s : s = Spent
    OBVIOUS
  <2>4. s \in Seq(Frame)
    BY <1>1, <2>3, SpentFacts
  <2>5. PICK gs : gs = frames'
    OBVIOUS
  <2>6. gs = Append(s, f)
    BY <2>1, <2>3, <2>5
  <2>7. /\ gs \in Seq(Frame) /\ gs # <<>> /\ Len(gs) = Len(s) + 1 /\ gs[Len(s) + 1] = f
        /\ Front(gs) = s
    BY <2>4, <2>6, AppendFacts
  <2>8. Cost(gs) = Cost(s) + 0
    BY <2>1, <2>7, CostFacts
  <2>9. Cost(frames') = Cost(Spent) + 0
    BY <2>3, <2>5, <2>8
  <2> QED BY <1>1, <1>2, <1>3, <2>2, <2>9 DEF Consumed
<1>6. CASE Return
  <2>1. Top # 1
    <3>1. Top = 1 => frames[Top].how = "first"
      BY <1>0 DEF StackInv
    <3>2. frames[Top].how # "first"
      BY <1>6 DEF Return
    <3> QED BY <3>1, <3>2
  <2>2. /\ Len(frames') = Top - 1 /\ Cost(frames') = Cost(Front(frames))
        /\ sender'.used = sender.used + frames[Top].cost
    BY <1>0, <1>6, <2>1, ReturnGas
  <2>3. Top = Len(frames) /\ Top \in Nat
    BY <1>1 DEF Top
  <2> QED BY <1>1, <1>2, <1>3, <2>2, <2>3 DEF Consumed
<1>7. ~ (Trap \/ Succeed \/ Fail \/ Settle \/ StoreBlock \/ Restart)
  BY DEF Trap, Succeed, Fail, Settle, StoreBlock, Restart
<1>8. ~ \E t \in Txn : Refuse(t) \/ Begin(t)
  BY DEF Refuse, Begin
<1> QED BY <1>0, <1>4, <1>5, <1>6, <1>7, <1>8, StepKinds

-----------------------------------------------------------------------------
(* The theorems. *)

(* The invariant holds throughout.                                         *)
THEOREM Invariant == Spec => []IInv
<1> USE InitIInv, NextIInv
<1> QED BY PTL DEF Spec

(* The state of contracts is that of the executions that succeeded: what a *)
(* failed one wrote, through any nesting of calls and any number of writes *)
(* to a key, is undone (check_execute, db_sc_temp).                        *)
THEOREM StateKept == Spec => []StateAllOrNothing
<1>1. IInv => StateAllOrNothing
  <2> SUFFICES ASSUME IInv PROVE StateAllOrNothing
    OBVIOUS
  <2>1. WrittenOrUndone
    <3> SUFFICES ASSUME phase \in {"idle", "settled", "undone"}, ~ history.torn
                 PROVE  store = history.good
      BY DEF WrittenOrUndone
    <3>1. saved = Unsaved /\ Restored = history.good
      BY DEF IInv, SavedInv
    <3>2. store \in [Instance -> Stored]
      BY DEF IInv, Typing, StateTyping
    <3> QED BY <3>1, <3>2, RestoredNow
  <2> QED BY <2>1, TypesFollow DEF StateAllOrNothing
<1> QED BY <1>1, Invariant, PTL

(* Gas never exceeds what the sender approved, through any nesting of      *)
(* calls, and can always be charged in full (runCall, gas_limit_calc).     *)
THEOREM GasAlwaysCovered == Spec => []GasPaid
<1>1. IInv => GasPaid
  BY DEF IInv, GasInv, GasPaid, GasWithinLimit, GasAlwaysPaid
<1> QED BY <1>1, Invariant, PTL

(* Through any nesting of calls, delegate calls and returns, the host's    *)
(* structure names the code in execution and those it acts for, and no     *)
(* child is paid by another wallet (Call, DelegateCall, process_txn).      *)
THEOREM ContractsActForCaller == Spec => []ActsForCaller
<1>1. IInv => ActsForCaller
  <2> SUFFICES ASSUME IInv PROVE ActsForCaller
    OBVIOUS
  <2>1. ChildAuthorised
    BY DEF IInv
  <2> QED BY <2>1, ContextFollows DEF ActsForCaller
<1> QED BY <1>1, Invariant, PTL

(* Whatever a contract does, its execution ends: each step uses up gas, or *)
(* returns to a caller and gives none back (runCall, the machine's gas).   *)
THEOREM ExecutionsEnd == Spec => ExecutionEnds
<1>1. IInv /\ [Next]_vars =>
         [phase = "running" /\ phase' = "running" =>
             \/ Consumed' = Consumed + 1
             \/ Consumed' = Consumed /\ Len(frames') < Len(frames)]_vars
  BY ConsumedGrows
<1> QED BY <1>1, Invariant, PTL DEF Spec, ExecutionEnds

(* Where the fees go to no contract and no user, the hashes a block        *)
(* commits its balances by are those of what is in it; between             *)
(* transactions the running balances are the stored ones and what the      *)
(* block will store; storing it neither makes nor destroys tokens; and a   *)
(* contract's wallet uses no nonce twice (check_execute, storage_fees,     *)
(* gas_fees, add_temp_wallet_balance).  The second and the third do not    *)
(* hold after an execution failed that had created children.               *)
THEOREM BlockBalanced ==
    ASSUME Fees \notin Instance \cup User
    PROVE  Spec => []BlockAccounted
<1>1. Init => IInv /\ MoneyInv
  <2> SUFFICES ASSUME Init PROVE MoneyInv
    BY InitIInv
  <2>1. Typing
    BY InitTyping
  <2>2. /\ phase = "idle" /\ frames = <<>> /\ running = balance /\ balance = FirstBalance
        /\ sc = NoChildren /\ block = EmptyBlock /\ \A i \in Instance : due[i] = 0
    BY DEF Init
  <2>3. Replayed = balance
    <3>1. record \in Records /\ balance \in Amounts
      BY <2>1, ReplayedFacts DEF Typing, BlockTyping
    <3>2. PICK hs \in Seq(AnyHash) : hs = <<>>
      <4>1. <<>> \in Seq(AnyHash)
        OBVIOUS
      <4> QED BY <4>1, Zenon
    <3>3. block.hashes \o sc.hashes = hs
      BY <2>2, <3>2, NothingFacts DEF EmptyBlock
    <3>4. add_temp_wallet_balance(record, balance, hs) = balance
      BY <3>1, <3>2, ReplayType
    <3> QED BY <3>3, <3>4 DEF Replayed
  <2>4. Balanced /\ OwnDebits
    BY <2>2, <2>3 DEF Balanced, OwnDebits
  <2>5. SupplyInv
    <3>1. DueIsRunning /\ Held = 0
      BY <2>2 DEF DueIsRunning, Held
    <3>2. SumFunctionOnSet(due, Instance) = 0
      BY <2>1, <2>2, <3>1, DueSum
    <3>3. SumFunctionOnSet(running, Wallet) \in Int
      <4>1. \A w \in Wallet : running[w] \in Int
        BY <2>1 DEF Typing, BlockTyping, Amounts
      <4> QED BY <4>1, FiniteWallets, SumInt
    <3> QED BY <2>2, <3>1, <3>2, <3>3 DEF SupplyInv
  <2> QED BY <2>4, <2>5 DEF MoneyInv
<1>2. IInv /\ MoneyInv /\ [Next]_vars => (IInv /\ MoneyInv)'
  <2> SUFFICES ASSUME IInv, MoneyInv, [Next]_vars PROVE MoneyInv'
    BY NextIInv
  <2>1. Typing /\ GasInv /\ StackInv /\ HashInv /\ Balanced /\ OwnDebits /\ SupplyInv
    BY DEF IInv, MoneyInv
  <2> QED BY <2>1, BalancedKept, DebitsKept, SupplyKept DEF MoneyInv
<1>3. IInv /\ MoneyInv => BlockAccounted
  <2> SUFFICES ASSUME IInv, MoneyInv PROVE BlockAccounted
    OBVIOUS
  <2>1. Typing /\ HashInv /\ NonceInv /\ Balanced /\ SupplyInv
    BY DEF IInv, MoneyInv
  <2>2. HashesMatchBlock
    BY <2>1 DEF HashInv, HashesMatchBlock, Outcomes, OutcomeOf
  <2>3. BalancesBacked
    <3> SUFFICES ASSUME phase = "idle", ~ history.drift
                 PROVE  running = add_temp_wallet_balance(record, balance, block.hashes)
      BY DEF BalancesBacked
    <3>1. block.hashes \o sc.hashes = block.hashes
      <4>1. sc = NoChildren
        BY <2>1 DEF HashInv
      <4> QED BY <2>1, <4>1, NothingFacts, ReplayedFacts
    <3> QED BY <2>1, <3>1 DEF Balanced, Replayed
  <2>4. SupplyConserved
    BY <2>1 DEF SupplyInv, SupplyConserved
  <2>5. ContractNonceOnce
    BY <2>1 DEF NonceInv, Kept, ContractNonceOnce
  <2> QED BY <2>2, <2>3, <2>4, <2>5 DEF BlockAccounted
<1> QED BY <1>1, <1>2, <1>3, PTL DEF Spec

=============================================================================
