---------------------------- MODULE LedgerProofs ----------------------------
(***************************************************************************)
(* Proofs about Ledger and the fee arithmetic it rests on, for any         *)
(* transactions, wallets, amounts and jobs.                                *)
(***************************************************************************)
EXTENDS Ledger, FoldProofs

-----------------------------------------------------------------------------
(* Splits and shares. *)

(* Numbers within the width are not changed by it.                         *)
LEMMA WrapSmall ==
    ASSUME NEW n \in Nat, n < Modulus
    PROVE  Wrap(n) = n
BY ModulusAssumption DEF Wrap

(* Wrapping never makes a number larger.                                   *)
LEMMA WrapBounds ==
    ASSUME NEW n \in Nat
    PROVE  Wrap(n) \in Nat /\ Wrap(n) <= n
BY ModulusAssumption DEF Wrap

(* A percentage of an amount is rounded down, and when the product wraps   *)
(* it comes out smaller still.                                             *)
LEMMA PercentBounds ==
    ASSUME NEW p \in 0 .. 100, NEW fee \in Nat
    PROVE  /\ Percent(p, fee) \in Nat
           /\ 100 * Percent(p, fee) <= p * fee
<1> DEFINE n == Wrap(p * fee)
<1>1. p * fee \in Nat
  OBVIOUS
<1>2. n \in Nat /\ n <= p * fee
  BY <1>1, WrapBounds
<1>3. Percent(p, fee) = n \div 100
  BY DEF Percent
<1> HIDE DEF n
<1>4. n \div 100 \in Nat /\ 100 * (n \div 100) <= n
  BY <1>2
<1> DEFINE m == p * fee
<1>5. m \in Nat /\ n <= m
  BY <1>1, <1>2
<1> HIDE DEF m
<1>6. 100 * (n \div 100) <= m
  BY <1>2, <1>4, <1>5
<1> QED BY <1>3, <1>4, <1>6 DEF m

(* The base fee of a transaction goes to its three recipients to the last  *)
(* unit, whatever the amount.                                              *)
THEOREM BaseSplitConserves ==
    ASSUME NEW fee \in Nat, fee < Modulus
    PROVE  Distributed(BaseSplit(fee)) = fee
<1> DEFINE v == Percent(ValidatorPercentage, fee)
           f == Percent(FoundationPercentage, fee)
<1>1. v \in Nat /\ 100 * v <= 50 * fee
  BY PercentBounds DEF ValidatorPercentage
<1>2. f \in Nat /\ 100 * f <= 25 * fee
  BY PercentBounds DEF FoundationPercentage
<1> HIDE DEF v, f
<1>3. fee - v - f \in Nat /\ fee - v - f < Modulus
  BY <1>1, <1>2, ModulusAssumption
<1>4. Wrap(fee - v - f) = fee - v - f
  BY <1>3, WrapSmall
<1> USE DEF v, f
<1>5. Distributed(BaseSplit(fee)) = v + f + (fee - v - f) + 0
  BY <1>4 DEF Distributed, BaseSplit, Split
<1> HIDE DEF v, f
<1> QED
  BY <1>1, <1>2, <1>5

(* A contract fee of which the contract gets a percentage goes to its      *)
(* three recipients to the last unit, whatever the amount.                 *)
THEOREM ContractSplitConserves ==
    ASSUME NEW fee \in Nat, fee < Modulus,
           NEW burn \in 0 .. 100, NEW validator \in 0 .. 100, burn + validator < 100
    PROVE  Distributed(ContractSplit(fee, burn, validator)) = fee
<1> DEFINE v == Percent(validator, fee)
           b == Percent(burn, fee)
<1>1. v \in Nat /\ 100 * v <= validator * fee
  BY PercentBounds
<1>2. b \in Nat /\ 100 * b <= burn * fee
  BY PercentBounds
<1>3. validator * fee + burn * fee <= 100 * fee
  <2>1. validator * fee + burn * fee = (validator + burn) * fee
    OBVIOUS
  <2>2. (validator + burn) * fee <= 100 * fee
    OBVIOUS
  <2> QED
    BY <2>1, <2>2
<1>4. Wrap(100 - burn - validator) = 100 - burn - validator
  BY WrapSmall, ModulusAssumption
<1>4a. validator * fee \in Nat /\ burn * fee \in Nat
  OBVIOUS
<1> HIDE DEF v, b
<1>5. fee - v - b \in Nat /\ fee - v - b < Modulus
  <2> DEFINE x == validator * fee
             y == burn * fee
  <2>1. x \in Nat /\ y \in Nat /\ x + y <= 100 * fee /\ 100 * v <= x /\ 100 * b <= y
    BY <1>1, <1>2, <1>3, <1>4a
  <2> HIDE DEF x, y
  <2> QED
    BY <2>1, <1>1, <1>2, ModulusAssumption
<1>6. Wrap(fee - v - b) = fee - v - b
  BY <1>5, WrapSmall
<1>7. 100 - burn - validator > 0
  OBVIOUS
<1> USE DEF v, b
<1>8. Distributed(ContractSplit(fee, burn, validator)) = v + 0 + b + (fee - v - b)
  BY <1>4, <1>6, <1>7 DEF Distributed, ContractSplit, Split
<1> HIDE DEF v, b
<1> QED
  BY <1>1, <1>2, <1>8

(* Coin transactions compare the fee with the authorised amount signer by  *)
(* signer: whoever authorises the fee has authorised every share of it.    *)
THEOREM AuthorisedShares ==
    ASSUME NEW fee \in Nat, NEW authorised \in Nat, fee <= authorised, NEW part \in Nat
    PROVE  Share(fee, part) <= Share(authorised, part)
<1>1. fee * part \in Nat /\ authorised * part \in Nat /\ fee * part <= authorised * part
  OBVIOUS
<1> DEFINE x == fee * part
           y == authorised * part
<1>2. x \in Nat /\ y \in Nat /\ x <= y
  BY <1>1
<1> HIDE DEF x, y
<1>3. x \div Whole <= y \div Whole
  BY <1>2, WholeAssumption
<1> QED
  BY <1>3 DEF Share, x, y

-----------------------------------------------------------------------------
(* Amounts per wallet, and their totals. *)

Amounts == [Wallet -> Nat]

(* The total of amounts is an amount.                                      *)
LEMMA TotalNat == ASSUME NEW f \in Amounts PROVE Total(f) \in Nat
BY SumNat, WalletAssumption DEF Total, Amounts

(* Totals are added wallet by wallet.                                      *)
LEMMA TotalPlus ==
    ASSUME NEW f \in Amounts, NEW g \in Amounts, NEW h,
           \A w \in Wallet : h[w] = f[w] + g[w]
    PROVE  Total(h) = Total(f) + Total(g)
BY SumPlus, WalletAssumption DEF Total, Amounts

(* Equal amounts have equal totals.                                        *)
LEMMA TotalSame ==
    ASSUME NEW f, NEW g, \A w \in Wallet : f[w] = g[w]
    PROVE  Total(f) = Total(g)
BY SumSame, WalletAssumption DEF Total

(* Nothing adds up to nothing.                                             *)
LEMMA TotalZero == Total([w \in Wallet |-> 0]) = 0
<1> DEFINE z == [w \in Wallet |-> 0]
<1>1. \A w \in Wallet : z[w] = 0
  OBVIOUS
<1> HIDE DEF z
<1>2. Total(z) = 0
  BY <1>1, SumZero, WalletAssumption DEF Total
<1> QED BY <1>2 DEF z

(* A change of one wallet changes the total by as much.                    *)
LEMMA TotalChange ==
    ASSUME NEW f \in Amounts, NEW g \in Amounts, NEW v \in Wallet,
           \A w \in Wallet \ {v} : g[w] = f[w]
    PROVE  Total(g) = Total(f) + g[v] - f[v]
<1>1. \A w \in Wallet : f[w] \in Int /\ g[w] \in Int
  BY DEF Amounts
<1> QED BY <1>1, SumChange, WalletAssumption DEF Total

(* An amount for one wallet only.                                          *)
LEMMA TotalOne ==
    ASSUME NEW v \in Wallet, NEW n \in Nat
    PROVE  Total([w \in Wallet |-> IF w = v THEN n ELSE 0]) = n
<1> DEFINE z == [w \in Wallet |-> 0]
           g == [w \in Wallet |-> IF w = v THEN n ELSE 0]
<1>1. z \in Amounts /\ g \in Amounts /\ g[v] = n /\ z[v] = 0
  BY DEF Amounts
<1>2. \A w \in Wallet \ {v} : g[w] = z[w]
  OBVIOUS
<1> HIDE DEF z, g
<1>3. Total(g) = Total(z) + g[v] - z[v]
  BY <1>1, <1>2, TotalChange
<1>4. Total(z) = 0
  BY TotalZero DEF z
<1> QED BY <1>1, <1>3, <1>4 DEF g

(* The three parts of a base fee make it up.                               *)
LEMMA FeeCreditsTotal ==
    ASSUME NEW fee \in Amount
    PROVE  FeeCredits(fee) \in Amounts /\ Total(FeeCredits(fee)) = fee
<1> DEFINE s == BaseSplit(fee)
           f == [w \in Wallet |-> IF w = Placeholder THEN s.validator ELSE 0]
           g == [w \in Wallet |-> IF w = Foundation THEN s.foundation ELSE 0]
           h == [w \in Wallet |-> IF w = Burn THEN s.burn ELSE 0]
           k == [w \in Wallet |-> f[w] + g[w]]
<1>1. fee \in Nat /\ fee < Modulus
  BY ModulusAssumption DEF Amount
<1>2. s.validator \in Nat /\ s.foundation \in Nat /\ s.burn \in Nat /\ s.contract = 0
  <2>1. Percent(ValidatorPercentage, fee) \in Nat /\ Percent(FoundationPercentage, fee) \in Nat
    BY <1>1, PercentBounds DEF ValidatorPercentage, FoundationPercentage
  <2>2. \A n \in Int : Wrap(n) \in Nat
    BY ModulusAssumption DEF Wrap
  <2> QED BY <1>1, <2>1, <2>2 DEF BaseSplit, Split
<1>3. s.validator + s.foundation + s.burn + 0 = fee
  BY <1>1, <1>2, BaseSplitConserves DEF Distributed
<1>3a. FeeCredits(fee) = [w \in Wallet |-> CASE w = Placeholder -> s.validator
                            [] w = Foundation -> s.foundation
                            [] w = Burn -> s.burn
                            [] OTHER -> 0]
  BY DEF FeeCredits
<1> HIDE DEF s
<1>4. f \in Amounts /\ g \in Amounts /\ h \in Amounts /\ k \in Amounts
  BY <1>2 DEF Amounts
<1>5. \A w \in Wallet : FeeCredits(fee)[w] = k[w] + h[w]
  BY <1>2, <1>3a, WalletAssumption
<1>6. FeeCredits(fee) \in Amounts
  BY <1>2, <1>3a DEF Amounts
<1>7. Total(f) = s.validator /\ Total(g) = s.foundation /\ Total(h) = s.burn
  BY <1>2, TotalOne, WalletAssumption
<1> HIDE DEF h
<1>8. Total(FeeCredits(fee)) = Total(k) + Total(h)
  BY <1>4, <1>5, TotalPlus
<1>8a. \A w \in Wallet : k[w] = f[w] + g[w]
  OBVIOUS
<1> HIDE DEF f, g, k
<1>9. Total(k) = Total(f) + Total(g)
  BY <1>4, <1>8a, TotalPlus
<1> QED BY <1>2, <1>3, <1>6, <1>7, <1>8, <1>9

(* The signers of a transaction.                                           *)
LEMMA SignerFacts ==
    ASSUME NEW t \in Txn
    PROVE  /\ Inputs[t] \in Seq(Signer) /\ Len(Inputs[t]) \in Nat /\ Len(Inputs[t]) >= 1
           /\ DOMAIN Inputs[t] = 1 .. Len(Inputs[t])
           /\ IsFiniteSet(DOMAIN Inputs[t])
           /\ \A i \in DOMAIN Inputs[t] :
                 /\ Inputs[t][i].wallet \in Wallet \ {Placeholder}
                 /\ Inputs[t][i].fee \in Amount /\ Inputs[t][i].fee \in Nat
                 /\ Inputs[t][i].amount \in Nat
<1>1. Inputs[t] \in Seq(Signer) /\ Inputs[t] # <<>>
  BY InputsAssumption
<1>2. Len(Inputs[t]) \in Nat /\ Len(Inputs[t]) >= 1 /\ DOMAIN Inputs[t] = 1 .. Len(Inputs[t])
  BY <1>1
<1>3. IsFiniteSet(DOMAIN Inputs[t])
  BY <1>2, FS_Interval
<1>4. ASSUME NEW i \in DOMAIN Inputs[t]
      PROVE  /\ Inputs[t][i].wallet \in Wallet \ {Placeholder}
             /\ Inputs[t][i].fee \in Amount /\ Inputs[t][i].amount \in Amount
  <2>1. Inputs[t][i] \in Signer
    BY <1>1, <1>2
  <2> QED BY <2>1 DEF Signer
<1>5. Amount \subseteq Nat
  BY ModulusAssumption DEF Amount
<1> QED BY <1>1, <1>2, <1>3, <1>4, <1>5

(* The inputs of a transaction are an amount per wallet.                   *)
LEMMA InputAmountsType == ASSUME NEW t \in Txn PROVE InputAmounts(t) \in Amounts
<1> SUFFICES ASSUME NEW w \in Wallet
             PROVE  SumFunction([i \in DOMAIN Inputs[t] |->
                        IF Inputs[t][i].wallet = w THEN Inputs[t][i].amount ELSE 0]) \in Nat
  BY DEF InputAmounts, Amounts
<1> DEFINE f == [i \in DOMAIN Inputs[t] |->
                    IF Inputs[t][i].wallet = w THEN Inputs[t][i].amount ELSE 0]
<1>1. IsFiniteSet(DOMAIN f) /\ \A i \in DOMAIN f : f[i] \in Nat
  BY SignerFacts
<1> HIDE DEF f
<1>2. SumFunctionOnSet(f, DOMAIN f) \in Nat
  BY <1>1, SumNat
<1> QED BY <1>2 DEF SumFunction, f

(* What a transaction takes as an input it takes from a signer.            *)
LEMMA InputAmountsOfSigners ==
    ASSUME NEW t \in Txn, NEW w \in Wallet, InputAmounts(t)[w] > 0
    PROVE  \E i \in DOMAIN Inputs[t] : Inputs[t][i].wallet = w
<1> SUFFICES ASSUME \A i \in DOMAIN Inputs[t] : Inputs[t][i].wallet # w PROVE FALSE
  OBVIOUS
<1> DEFINE f == [i \in DOMAIN Inputs[t] |->
                    IF Inputs[t][i].wallet = w THEN Inputs[t][i].amount ELSE 0]
<1>1. DOMAIN f = DOMAIN Inputs[t] /\ \A i \in DOMAIN f : f[i] = 0
  OBVIOUS
<1>2. InputAmounts(t)[w] = SumFunctionOnSet(f, DOMAIN f)
  BY DEF InputAmounts, SumFunction
<1> HIDE DEF f
<1>3. SumFunctionOnSet(f, DOMAIN f) = 0
  BY <1>1, SignerFacts, SumZero
<1> QED BY <1>2, <1>3

-----------------------------------------------------------------------------
(* The records of a transaction, and the sums over all transactions.       *)

Records == [Txn -> [Wallet -> Nat]]

(* What the records of all transactions come to for a wallet is an amount. *)
LEMMA TotalForNat ==
    ASSUME NEW f \in Records, NEW w \in Wallet
    PROVE  TotalFor(w, f) \in Nat
<1> DEFINE c == [t \in Txn |-> f[t][w]]
<1>1. \A t \in Txn : c[t] \in Nat
  BY DEF Records
<1> HIDE DEF c
<1>2. SumFunctionOnSet(c, Txn) \in Nat
  BY <1>1, SumNat, TxnAssumption
<1> QED BY <1>2 DEF TotalFor, c

(* A change of one record changes the sum by as much.                      *)
LEMMA TotalForChange ==
    ASSUME NEW f \in Records, NEW g \in Records, NEW w \in Wallet, NEW t \in Txn,
           \A u \in Txn \ {t} : g[u][w] = f[u][w]
    PROVE  TotalFor(w, g) = TotalFor(w, f) + g[t][w] - f[t][w]
<1> DEFINE c == [u \in Txn |-> f[u][w]]
           d == [u \in Txn |-> g[u][w]]
<1>1. \A u \in Txn : c[u] \in Int /\ d[u] \in Int
  BY DEF Records
<1>2. \A u \in Txn \ {t} : d[u] = c[u]
  OBVIOUS
<1>3. c[t] = f[t][w] /\ d[t] = g[t][w]
  OBVIOUS
<1> HIDE DEF c, d
<1>4. SumFunctionOnSet(d, Txn) = SumFunctionOnSet(c, Txn) + d[t] - c[t]
  BY <1>1, <1>2, SumChange, TxnAssumption
<1> QED BY <1>3, <1>4 DEF TotalFor, c, d

(* Empty records come to nothing.                                          *)
LEMMA TotalForZero ==
    ASSUME NEW f \in Records, NEW w \in Wallet, \A t \in Txn : f[t][w] = 0
    PROVE  TotalFor(w, f) = 0
<1> DEFINE c == [t \in Txn |-> f[t][w]]
<1>1. \A t \in Txn : c[t] = 0
  OBVIOUS
<1> HIDE DEF c
<1>2. SumFunctionOnSet(c, Txn) = 0
  BY <1>1, SumZero, TxnAssumption
<1> QED BY <1>2 DEF TotalFor, c

(* Where a sum is positive, one of its numbers is.                         *)
LEMMA TotalForPositive ==
    ASSUME NEW f \in Records, NEW w \in Wallet, TotalFor(w, f) > 0
    PROVE  \E t \in Txn : f[t][w] > 0
<1> SUFFICES ASSUME \A t \in Txn : ~(f[t][w] > 0) PROVE FALSE
  OBVIOUS
<1>1. \A t \in Txn : f[t][w] = 0
  BY DEF Records
<1> QED BY <1>1, TotalForZero

(* Removing a transaction's record.                                        *)
LEMMA TotalForRemove ==
    ASSUME NEW f \in Records, NEW w \in Wallet, NEW t \in Txn
    PROVE  /\ [f EXCEPT ![t] = NoRecord[t]] \in Records
           /\ TotalFor(w, [f EXCEPT ![t] = NoRecord[t]]) = TotalFor(w, f) - f[t][w]
<1> DEFINE g == [f EXCEPT ![t] = NoRecord[t]]
<1>1. /\ g \in Records /\ g[t][w] = 0
      /\ \A u \in Txn \ {t} : g[u][w] = f[u][w]
  BY DEF Records, NoRecord
<1>2. f[t][w] \in Nat
  BY DEF Records
<1> HIDE DEF g
<1>3. TotalFor(w, g) = TotalFor(w, f) + g[t][w] - f[t][w]
  BY <1>1, TotalForChange
<1>4. TotalFor(w, f) \in Nat
  BY TotalForNat
<1> QED BY <1>1, <1>2, <1>3, <1>4 DEF g

-----------------------------------------------------------------------------
(* The inductive invariant. *)

(* A transaction is in the hands of one job, and of none once it has been  *)
(* admitted.  What passes the check of the funds is well-formed.           *)
JobInv ==
    /\ \A j \in Job : step[j] = "idle" <=> doing[j] = None
    /\ \A i, j \in Job : doing[i] = doing[j] /\ doing[i] # None => i = j
    /\ \A j \in Job : doing[j] \notin marked
    /\ \A j \in Job : step[j] \in {"take", "pay"} => WellFormed(doing[j])

(* Where a transaction can be, and which balances the producer has at each *)
(* point of its work.                                                      *)
PhaseInv ==
    /\ ready \cup block \cup chain \subseteq marked
    /\ ready \cap (block \cup chain) = {} /\ todo \cap chain = {}
    /\ phase \in {"replay", "write"} => block \cap chain = {}
    /\ phase = "wallets" => block \subseteq chain
    /\ phase = "idle" => block = {}
    /\ phase # "replay" => todo = {} /\ blockBal = NoEntry
    /\ phase \in {"idle", "replay"} => tempBal = NoEntry

(* What a job has taken and not yet paid.                                  *)
InHand(j) ==
    CASE step[j] = "credit" -> FeeOf(j)
      [] step[j] = "pay" -> Total(InputAmounts(doing[j]))
      [] OTHER -> 0

(* Only signers are charged, a replayed transaction has no records, and    *)
(* those of a transaction are balanced but for what a job has in hand.     *)
RecordsInv ==
    /\ \A t \in block \ todo, w \in Wallet : added[t][w] = 0 /\ taken[t][w] = 0
    /\ \A t \in Txn, w \in Wallet :
          taken[t][w] > 0 => \E i \in DOMAIN Inputs[t] : Inputs[t][i].wallet = w
    /\ \A t \in Txn : (\A j \in Job : doing[j] # t) => Total(taken[t]) = Total(added[t])
    /\ \A j \in Job : step[j] # "idle" =>
          Total(taken[doing[j]]) = Total(added[doing[j]]) + InHand(j)

(* A wallet without a running balance has no records, and the producer has *)
(* not touched it, unless it is the one that gets the proposer's income.   *)
BackedInv ==
    /\ \A w \in Wallet : running[w] = None =>
          /\ \A t \in Txn : added[t][w] = 0 /\ taken[t][w] = 0
          /\ w # FeeAddress => blockBal[w] = None /\ tempBal[w] = None
    /\ RunningBacked
    /\ dropped = {} =>
          \A w \in Wallet \ {FeeAddress, Placeholder} :
             Running(w) + TotalFor(w, taken) = Latest(w) + TotalFor(w, added)

(* Neither the stored balances nor the ones the producer is working on     *)
(* have gained or lost anything.                                           *)
SupplyInv ==
    dropped = {} =>
        /\ Total(wallets) = Total(Genesis)
        /\ Total([w \in Wallet |-> Latest(w)]) = Total(Genesis)

IInv == TypeOK /\ JobInv /\ PhaseInv /\ RecordsInv /\ BackedInv /\ SupplyInv

(* Who has been charged, until the node restarts.                          *)
Counted == chain \cup (block \ todo)

FeeOwed(t, w) == SumFunction(FeeShare(t, w))
FeePaid(t, w, n) == SumFunctionOnSet(FeeShare(t, w), 1 .. n)

(* Pre-processed transactions have their records, and one that no job has  *)
(* got through has not been paid.                                          *)
QueueCharged ==
    \A t \in ready \cup todo, w \in Client :
       taken[t][w] >= FeeOwed(t, w) /\ added[t][w] <= Outputs[t][w]
NotPaidYet ==
    \A t \in Txn \ marked, w \in Client :
       (\A j \in Job : doing[j] = t => step[j] # "admit") => added[t][w] = 0

JobCharged ==
    \A j \in Job, w \in Client :
       /\ step[j] = "fee" => taken[doing[j]][w] >= FeePaid(doing[j], w, signer[j] - 1)
       /\ step[j] = "credit" => taken[doing[j]][w] >= FeePaid(doing[j], w, signer[j])
       /\ step[j] \in {"check", "take", "pay", "admit"} =>
             taken[doing[j]][w] >= FeeOwed(doing[j], w)
       /\ step[j] = "admit" => added[doing[j]][w] <= Outputs[doing[j]][w]

CountedCharged ==
    /\ dropped \subseteq Counted
    /\ \A w \in Client :
          Latest(w) + FeesOwed(w, Counted \ dropped) <= Genesis[w] + Received(w, Counted)

ChargeInv ==
    restarts = 0 => QueueCharged /\ NotPaidYet /\ JobCharged /\ CountedCharged

-----------------------------------------------------------------------------
(* What the two changes of balances and records do. *)

(* A running balance is a natural number.                                  *)
LEMMA RunningNat == ASSUME TypeOK, NEW w \in Wallet PROVE Running(w) \in Nat
BY DEF TypeOK, Running

(* So is the balance the producer has.                                     *)
LEMMA LatestNat == ASSUME TypeOK, NEW w \in Wallet PROVE Latest(w) \in Nat
BY DEF TypeOK, Latest

(* A debit the balances cover: balance and record change by the same       *)
(* amount.                                                                 *)
LEMMA TakeAllFacts ==
    ASSUME TypeOK, NEW t \in Txn, NEW amount \in Amounts, Affordable(amount),
           TakeAll(t, amount), UNCHANGED wallets
    PROVE  /\ running' \in [Wallet -> Nat \cup {None}] /\ taken' \in Records /\ added' = added
           /\ \A u \in Txn \ {t} : taken'[u] = taken[u]
           /\ Total(taken'[t]) = Total(taken[t]) + Total(amount)
           /\ \A w \in Wallet :
                 /\ taken'[t][w] = taken[t][w] + amount[w]
                 /\ running'[w] = None => running[w] = None /\ amount[w] = 0
                 /\ Running(w)' = Running(w) - amount[w]
                 /\ TotalFor(w, taken') = TotalFor(w, taken) + amount[w]
<1>1. taken \in Records /\ taken[t] \in Amounts
  BY DEF TypeOK, Records, Amounts
<1>2. \A w \in Wallet : Running(w) \in Nat /\ amount[w] \in Nat /\ amount[w] <= Running(w)
  BY RunningNat DEF Affordable, Amounts
<1>3. taken' = [taken EXCEPT ![t] = [w \in Wallet |-> taken[t][w] + amount[w]]]
  BY DEF TakeAll
<1>4. /\ \A u \in Txn \ {t} : taken'[u] = taken[u]
      /\ \A w \in Wallet : taken'[t][w] = taken[t][w] + amount[w]
  BY <1>1, <1>3 DEF Records
<1>5. taken' \in Records
  BY <1>1, <1>2, <1>3 DEF Records
<1>6. \A w \in Wallet :
         running'[w] = IF amount[w] = 0 THEN running[w] ELSE Running(w) - amount[w]
  BY DEF TakeAll
<1>7. running' \in [Wallet -> Nat \cup {None}]
  BY <1>2 DEF TakeAll, TypeOK
<1>8. \A w \in Wallet :
         /\ running'[w] = None => running[w] = None /\ amount[w] = 0
         /\ Running(w)' = Running(w) - amount[w]
  BY <1>2, <1>6, NoneAssumption DEF Running, TypeOK
<1>9. Total(taken'[t]) = Total(taken[t]) + Total(amount)
  BY <1>1, <1>4, TotalPlus
<1>10. ASSUME NEW w \in Wallet
       PROVE  TotalFor(w, taken') = TotalFor(w, taken) + amount[w]
  <2>1. TotalFor(w, taken') = TotalFor(w, taken) + taken'[t][w] - taken[t][w]
    BY <1>1, <1>4, <1>5, TotalForChange
  <2>2. TotalFor(w, taken) \in Nat /\ taken[t][w] \in Nat
    BY <1>1, TotalForNat DEF Amounts
  <2> QED BY <1>2, <1>4, <2>1, <2>2
<1> QED BY <1>4, <1>5, <1>7, <1>8, <1>9, <1>10 DEF TakeAll

(* A credit: balance and record change by the same amount.                 *)
LEMMA AddAllFacts ==
    ASSUME TypeOK, NEW t \in Txn, NEW amount \in Amounts,
           AddAll(t, amount), UNCHANGED wallets
    PROVE  /\ running' \in [Wallet -> Nat \cup {None}] /\ added' \in Records /\ taken' = taken
           /\ \A u \in Txn \ {t} : added'[u] = added[u]
           /\ Total(added'[t]) = Total(added[t]) + Total(amount)
           /\ \A w \in Wallet :
                 /\ added'[t][w] = added[t][w] + amount[w]
                 /\ running'[w] = None => running[w] = None /\ amount[w] = 0
                 /\ Running(w)' = Running(w) + amount[w]
                 /\ TotalFor(w, added') = TotalFor(w, added) + amount[w]
<1>1. added \in Records /\ added[t] \in Amounts
  BY DEF TypeOK, Records, Amounts
<1>2. \A w \in Wallet : Running(w) \in Nat /\ amount[w] \in Nat
  BY RunningNat DEF Amounts
<1>3. added' = [added EXCEPT ![t] = [w \in Wallet |-> added[t][w] + amount[w]]]
  BY DEF AddAll
<1>4. /\ \A u \in Txn \ {t} : added'[u] = added[u]
      /\ \A w \in Wallet : added'[t][w] = added[t][w] + amount[w]
  BY <1>1, <1>3 DEF Records
<1>5. added' \in Records
  BY <1>1, <1>2, <1>3 DEF Records
<1>6. \A w \in Wallet :
         running'[w] = IF amount[w] = 0 THEN running[w] ELSE Running(w) + amount[w]
  BY DEF AddAll
<1>7. running' \in [Wallet -> Nat \cup {None}]
  BY <1>2 DEF AddAll, TypeOK
<1>8. \A w \in Wallet :
         /\ running'[w] = None => running[w] = None /\ amount[w] = 0
         /\ Running(w)' = Running(w) + amount[w]
  BY <1>2, <1>6, NoneAssumption DEF Running, TypeOK
<1>9. Total(added'[t]) = Total(added[t]) + Total(amount)
  BY <1>1, <1>4, TotalPlus
<1>10. ASSUME NEW w \in Wallet
       PROVE  TotalFor(w, added') = TotalFor(w, added) + amount[w]
  <2>1. TotalFor(w, added') = TotalFor(w, added) + added'[t][w] - added[t][w]
    BY <1>1, <1>4, <1>5, TotalForChange
  <2>2. TotalFor(w, added) \in Nat /\ added[t][w] \in Nat
    BY <1>1, TotalForNat DEF Amounts
  <2> QED BY <1>2, <1>4, <2>1, <2>2
<1> QED BY <1>4, <1>5, <1>7, <1>8, <1>9, <1>10 DEF AddAll

(* The fee a job takes next, and the credits it makes of it.               *)
LEMMA FeeFacts ==
    ASSUME TypeOK, NEW j \in Job, step[j] \in {"fee", "credit"}
    PROVE  /\ doing[j] \in Txn /\ FeeOf(j) \in Nat
           /\ FeeDebit(j) \in Amounts /\ Total(FeeDebit(j)) = FeeOf(j)
           /\ FeeCredits(FeeOf(j)) \in Amounts /\ Total(FeeCredits(FeeOf(j))) = FeeOf(j)
           /\ \A w \in Wallet : FeeDebit(j)[w] > 0 =>
                 \E i \in DOMAIN Inputs[doing[j]] : Inputs[doing[j]][i].wallet = w
<1>1. doing[j] \in Txn /\ signer[j] \in DOMAIN Inputs[doing[j]]
  BY DEF TypeOK
<1>2. /\ FeeOf(j) \in Amount /\ FeeOf(j) \in Nat
      /\ Inputs[doing[j]][signer[j]].wallet \in Wallet
  BY <1>1, SignerFacts DEF FeeOf
<1>3. FeeDebit(j) \in Amounts
  BY <1>2 DEF FeeDebit, Amounts
<1>4. Total(FeeDebit(j)) = FeeOf(j)
  BY <1>2, TotalOne DEF FeeDebit
<1>5. FeeCredits(FeeOf(j)) \in Amounts /\ Total(FeeCredits(FeeOf(j))) = FeeOf(j)
  BY <1>2, FeeCreditsTotal
<1>6. \A w \in Wallet : FeeDebit(j)[w] > 0 => w = Inputs[doing[j]][signer[j]].wallet
  BY <1>2 DEF FeeDebit
<1> QED BY <1>1, <1>2, <1>3, <1>4, <1>5, <1>6

-----------------------------------------------------------------------------
(* Types. *)

(* The first state has the right types.                                    *)
LEMMA InitType == Init => TypeOK
<1> SUFFICES ASSUME Init PROVE TypeOK
  OBVIOUS
<1>1. NoEntry \in [Wallet -> Nat \cup {None}] /\ NoRecord \in [Txn -> [Wallet -> Nat]]
  BY DEF NoEntry, NoRecord
<1> QED BY <1>1, GenesisAssumption DEF Init, TypeOK, Steps, Phases

(* Every step keeps the types; no subtraction goes below zero.             *)
LEMMA TypeStep == ASSUME TypeOK, PhaseInv, [Next]_vars PROVE TypeOK'
<1> USE DEF jobVars, recordVars, blockVars, Steps, Phases
<1>1. ASSUME NEW j \in Job, NEW t \in Txn, Submit(j, t) PROVE TypeOK'
  <2>1. 1 \in DOMAIN Inputs[t]
    BY SignerFacts
  <2> QED BY <1>1, <2>1 DEF Submit, TypeOK
<1>2. ASSUME NEW j \in Job, TakeFee(j) PROVE TypeOK'
  <2>1. doing[j] \in Txn /\ FeeDebit(j) \in Amounts
    BY <1>2, FeeFacts DEF TakeFee
  <2>2. running' \in [Wallet -> Nat \cup {None}] /\ taken' \in Records /\ added' = added
    BY <1>2, <2>1, TakeAllFacts DEF TakeFee
  <2> QED BY <1>2, <2>2 DEF TakeFee, Goto, TypeOK, Records
<1>3. ASSUME NEW j \in Job, RefuseFee(j) PROVE TypeOK'
  BY <1>3 DEF RefuseFee, Leave, TypeOK
<1>4. ASSUME NEW j \in Job, CreditFee(j) PROVE TypeOK'
  <2>1. doing[j] \in Txn /\ FeeCredits(FeeOf(j)) \in Amounts
    BY <1>4, FeeFacts DEF CreditFee
  <2>2. running' \in [Wallet -> Nat \cup {None}] /\ added' \in Records /\ taken' = taken
    BY <1>4, <2>1, AddAllFacts DEF CreditFee
  <2>3. CASE signer[j] < Len(Inputs[doing[j]])
    <3>1. signer[j] + 1 \in DOMAIN Inputs[doing[j]]
      BY <1>4, <2>1, <2>3, SignerFacts DEF CreditFee, TypeOK
    <3>2. /\ signer' = [signer EXCEPT ![j] = signer[j] + 1]
          /\ step' = [step EXCEPT ![j] = "fee"] /\ doing' = doing
      BY <1>4, <2>3 DEF CreditFee
    <3>3. \A i \in Job : step'[i] # "idle" => doing'[i] \in Txn
      BY <2>1, <3>2 DEF TypeOK
    <3>4. \A i \in Job : step'[i] \in {"fee", "credit"} => signer'[i] \in DOMAIN Inputs[doing'[i]]
      BY <3>1, <3>2 DEF TypeOK
    <3>5. step' \in [Job -> Steps] /\ doing' \in [Job -> Txn \cup {None}] /\ signer' \in [Job -> Nat]
      BY <3>2 DEF TypeOK
    <3> QED BY <1>4, <2>2, <3>3, <3>4, <3>5 DEF CreditFee, TypeOK, Records
  <2>4. CASE ~(signer[j] < Len(Inputs[doing[j]]))
    BY <1>4, <2>2, <2>4 DEF CreditFee, Goto, TypeOK, Records
  <2> QED BY <2>3, <2>4
<1>5. ASSUME NEW j \in Job, CheckFunds(j) PROVE TypeOK'
  BY <1>5 DEF CheckFunds, Goto, TypeOK
<1>6. ASSUME NEW j \in Job, TakeInputs(j) PROVE TypeOK'
  <2>1. doing[j] \in Txn
    BY <1>6 DEF TakeInputs, TypeOK
  <2>2. InputAmounts(doing[j]) \in Amounts
    BY <2>1, InputAmountsType
  <2>3. CASE Affordable(InputAmounts(doing[j]))
    <3>1. running' \in [Wallet -> Nat \cup {None}] /\ taken' \in Records /\ added' = added
      BY <1>6, <2>1, <2>2, <2>3, TakeAllFacts DEF TakeInputs
    <3> QED BY <1>6, <2>3, <3>1 DEF TakeInputs, Goto, TypeOK, Records
  <2>4. CASE ~Affordable(InputAmounts(doing[j]))
    BY <1>6, <2>4 DEF TakeInputs, Goto, TypeOK
  <2> QED BY <2>3, <2>4
<1>7. ASSUME NEW j \in Job, PayOutputs(j) PROVE TypeOK'
  <2>1. doing[j] \in Txn /\ Outputs[doing[j]] \in Amounts
    BY <1>7, OutputsAssumption DEF PayOutputs, TypeOK, Amounts
  <2>2. running' \in [Wallet -> Nat \cup {None}] /\ added' \in Records /\ taken' = taken
    BY <1>7, <2>1, AddAllFacts DEF PayOutputs
  <2> QED BY <1>7, <2>2 DEF PayOutputs, Goto, TypeOK, Records
<1>8. ASSUME NEW j \in Job, Admit(j) PROVE TypeOK'
  BY <1>8 DEF Admit, Leave, TypeOK
<1>9. ASSUME StartBlock PROVE TypeOK'
  BY <1>9 DEF StartBlock, TypeOK
<1>10. ASSUME Replay PROVE TypeOK'
  <2>1. PICK t \in todo :
           /\ todo' = todo \ {t}
           /\ blockBal' = Replayed(t)
           /\ dropped' = IF \A w \in Wallet : Covered(t, w) THEN dropped ELSE dropped \cup {t}
           /\ added' = [added EXCEPT ![t] = NoRecord[t]]
           /\ taken' = [taken EXCEPT ![t] = NoRecord[t]]
    BY <1>10 DEF Replay
  <2>2. t \in Txn
    BY DEF TypeOK
  <2>3. added' \in Records /\ taken' \in Records
    BY <2>1, <2>2, TotalForRemove, WalletAssumption DEF TypeOK, Records, NoRecord
  <2>4. ASSUME NEW w \in Wallet PROVE Replayed(t)[w] \in Nat \cup {None}
    <3>1. Credit(t, w) \in Nat /\ taken[t][w] \in Nat /\ Latest(w) \in Nat
      BY <2>2, LatestNat, WalletAssumption DEF Credit, TypeOK
    <3> QED BY <3>1 DEF Replayed, Covered, TypeOK
  <2>5. Replayed(t) \in [Wallet -> Nat \cup {None}]
    BY <2>4 DEF Replayed
  <2> QED BY <1>10, <2>1, <2>2, <2>3, <2>5 DEF Replay, TypeOK, Records
<1>11. ASSUME StoreTemp PROVE TypeOK'
  BY <1>11 DEF StoreTemp, TypeOK, NoEntry
<1>12. ASSUME WriteBlock PROVE TypeOK'
  BY <1>12 DEF WriteBlock, TypeOK
<1>13. ASSUME StoreWallets PROVE TypeOK'
  <2>1. wallets' \in [Wallet -> Nat]
    BY <1>13, NoneAssumption DEF StoreWallets, TypeOK
  <2>2. todo = {}
    BY <1>13 DEF StoreWallets, PhaseInv
  <2> QED BY <1>13, <2>1, <2>2 DEF StoreWallets, TypeOK, NoEntry
<1>14. ASSUME Restart PROVE TypeOK'
  BY <1>14 DEF Restart, TypeOK, NoEntry, NoRecord
<1>15. CASE UNCHANGED vars
  BY <1>15 DEF vars, TypeOK
<1> QED BY <1>1, <1>2, <1>3, <1>4, <1>5, <1>6, <1>7, <1>8, <1>9, <1>10, <1>11, <1>12,
           <1>13, <1>14, <1>15 DEF Next, JobStep, MakeBlock, Done

-----------------------------------------------------------------------------
(* Jobs and the producer's phases. *)

(* Every step keeps the jobs apart.                                        *)
LEMMA JobStepInv == ASSUME TypeOK, JobInv, [Next]_vars PROVE JobInv'
<1> USE DEF jobVars, recordVars, blockVars
<1>1. ASSUME NEW j \in Job, NEW t \in Txn, Submit(j, t) PROVE JobInv'
  BY <1>1, NoneAssumption DEF Submit, TypeOK, JobInv
<1>2. ASSUME NEW j \in Job, TakeFee(j) PROVE JobInv'
  BY <1>2 DEF TakeFee, Goto, TypeOK, JobInv
<1>3. ASSUME NEW j \in Job, Leave(j), marked' = marked PROVE JobInv'
  BY <1>3, NoneAssumption DEF Leave, TypeOK, JobInv
<1>4. ASSUME NEW j \in Job, CreditFee(j) PROVE JobInv'
  BY <1>4 DEF CreditFee, Goto, TypeOK, JobInv
<1>5. ASSUME NEW j \in Job, CheckFunds(j) PROVE JobInv'
  BY <1>5 DEF CheckFunds, Goto, TypeOK, JobInv
<1>6. ASSUME NEW j \in Job, TakeInputs(j) PROVE JobInv'
  BY <1>6 DEF TakeInputs, Goto, TypeOK, JobInv
<1>7. ASSUME NEW j \in Job, PayOutputs(j) PROVE JobInv'
  BY <1>7 DEF PayOutputs, Goto, TypeOK, JobInv
<1>8. ASSUME NEW j \in Job, Admit(j) PROVE JobInv'
  BY <1>8, NoneAssumption DEF Admit, Leave, TypeOK, JobInv
<1>9. ASSUME MakeBlock PROVE JobInv'
  BY <1>9 DEF MakeBlock, StartBlock, Replay, StoreTemp, WriteBlock, StoreWallets, JobInv
<1>10. ASSUME Restart PROVE JobInv'
  BY <1>10, NoneAssumption DEF Restart, TypeOK, JobInv
<1>11. CASE UNCHANGED vars
  BY <1>11 DEF vars, JobInv
<1> QED BY <1>1, <1>2, <1>3, <1>4, <1>5, <1>6, <1>7, <1>8, <1>9, <1>10, <1>11
        DEF Next, JobStep, RefuseFee, Done

(* Every step keeps queue, block and chain apart, and the tables of the    *)
(* producer empty outside the phases that fill them.                       *)
LEMMA PhaseStepInv == ASSUME TypeOK, JobInv, PhaseInv, [Next]_vars PROVE PhaseInv'
<1> USE DEF jobVars, recordVars, blockVars
<1>1. ASSUME UNCHANGED <<blockVars, marked, ready>> PROVE PhaseInv'
  BY <1>1 DEF PhaseInv
<1>2. ASSUME NEW j \in Job, Admit(j) PROVE PhaseInv'
  <2>1. doing[j] \notin marked
    BY DEF JobInv
  <2> QED BY <1>2, <2>1 DEF Admit, PhaseInv
<1>3. ASSUME StartBlock PROVE PhaseInv'
  BY <1>3 DEF StartBlock, PhaseInv
<1>4. ASSUME Replay PROVE PhaseInv'
  BY <1>4 DEF Replay, PhaseInv
<1>5. ASSUME StoreTemp PROVE PhaseInv'
  BY <1>5 DEF StoreTemp, PhaseInv
<1>6. ASSUME WriteBlock PROVE PhaseInv'
  BY <1>6 DEF WriteBlock, PhaseInv
<1>7. ASSUME StoreWallets PROVE PhaseInv'
  BY <1>7 DEF StoreWallets, PhaseInv
<1>8. ASSUME Restart PROVE PhaseInv'
  BY <1>8 DEF Restart, PhaseInv
<1> QED BY <1>1, <1>2, <1>3, <1>4, <1>5, <1>6, <1>7, <1>8
        DEF Next, JobStep, MakeBlock, Submit, TakeFee, RefuseFee, CreditFee, CheckFunds,
            TakeInputs, PayOutputs, Done, vars

-----------------------------------------------------------------------------
(* Records. *)

(* The records that no job is working on are balanced.                     *)
LEMMA BalancedRecords ==
    ASSUME TypeOK, JobInv, RecordsInv
    PROVE  RecordsBalanced
<1> SUFFICES ASSUME NEW t \in Txn,
                    \A j \in Job : doing[j] = t => step[j] \notin {"credit", "pay"}
             PROVE  Total(added[t]) = Total(taken[t])
  BY DEF RecordsBalanced
<1>1. CASE \A j \in Job : doing[j] # t
  BY <1>1 DEF RecordsInv
<1>2. ASSUME NEW j \in Job, doing[j] = t PROVE Total(added[t]) = Total(taken[t])
  <2>1. step[j] # "idle"
    BY <1>2, NoneAssumption DEF JobInv
  <2>2. InHand(j) = 0
    BY <1>2 DEF InHand
  <2>3. Total(added[t]) \in Nat
    BY TotalNat DEF TypeOK, Amounts
  <2> QED BY <1>2, <2>1, <2>2, <2>3 DEF RecordsInv
<1> QED BY <1>1, <1>2

(* A step of a job that changes the records of its own transaction only.   *)
LEMMA JobRecords ==
    ASSUME TypeOK, JobInv, PhaseInv, RecordsInv, NEW j \in Job, doing[j] \in Txn,
           \A i \in Job \ {j} : step'[i] = step[i] /\ doing'[i] = doing[i] /\ signer'[i] = signer[i],
           \/ /\ doing'[j] = doing[j]
              /\ Total(taken'[doing[j]]) = Total(added'[doing[j]]) + InHand(j)'
           \/ /\ step'[j] = "idle" /\ doing'[j] = None /\ InHand(j) = 0
              /\ UNCHANGED <<added, taken>>,
           \A u \in Txn \ {doing[j]} : taken'[u] = taken[u] /\ added'[u] = added[u],
           \A w \in Wallet : taken'[doing[j]][w] > 0 =>
              \E i \in DOMAIN Inputs[doing[j]] : Inputs[doing[j]][i].wallet = w,
           block' = block, todo' = todo
    PROVE  RecordsInv'
<1> DEFINE d == doing[j]
<1>1. \A t \in block : t # d
  BY DEF JobInv, PhaseInv
<1>2. \A i \in Job \ {j} : doing[i] # d
  BY NoneAssumption DEF JobInv
<1>3. Total(added[d]) \in Nat
  BY TotalNat DEF TypeOK, Amounts
<1>4. \A t \in block' \ todo', w \in Wallet : added'[t][w] = 0 /\ taken'[t][w] = 0
  BY <1>1 DEF RecordsInv, TypeOK
<1>5. \A t \in Txn, w \in Wallet :
         taken'[t][w] > 0 => \E i \in DOMAIN Inputs[t] : Inputs[t][i].wallet = w
  BY DEF RecordsInv
<1>6. ASSUME NEW t \in Txn, \A i \in Job : doing'[i] # t
      PROVE  Total(taken'[t]) = Total(added'[t])
  <2>1. CASE t = d
    <3>1. step[j] # "idle" /\ InHand(j) = 0 /\ UNCHANGED <<added, taken>>
      BY <1>6, <2>1, NoneAssumption DEF JobInv
    <3> QED BY <1>3, <2>1, <3>1 DEF RecordsInv
  <2>2. CASE t # d
    <3>1. \A i \in Job : doing[i] # t
      BY <1>6, <2>2
    <3> QED BY <2>2, <3>1 DEF RecordsInv
  <2> QED BY <2>1, <2>2
<1>7. ASSUME NEW i \in Job, step'[i] # "idle"
      PROVE  Total(taken'[doing'[i]]) = Total(added'[doing'[i]]) + InHand(i)'
  <2>1. CASE i = j
    BY <1>7, <2>1, NoneAssumption
  <2>2. CASE i # j
    <3>1. doing'[i] = doing[i] /\ doing[i] \in Txn \ {d} /\ step[i] # "idle"
      BY <1>2, <1>7, <2>2 DEF TypeOK
    <3>2. InHand(i)' = InHand(i)
      BY <2>2 DEF InHand, FeeOf
    <3> QED BY <3>1, <3>2 DEF RecordsInv
  <2> QED BY <2>1, <2>2
<1> QED BY <1>4, <1>5, <1>6, <1>7 DEF RecordsInv

(* Every step keeps what the records say of signers and of what jobs have  *)
(* in hand.                                                                *)
LEMMA RecordsStep ==
    ASSUME TypeOK, JobInv, PhaseInv, RecordsInv, [Next]_vars
    PROVE  RecordsInv'
<1> USE DEF jobVars, recordVars, blockVars
<1>0. \A t \in Txn : Total(added[t]) \in Nat /\ Total(taken[t]) \in Nat
  BY TotalNat DEF TypeOK, Amounts
<1>1. ASSUME NEW j \in Job, NEW t \in Txn, Submit(j, t) PROVE RecordsInv'
  <2>1. /\ step[j] = "idle" /\ \A i \in Job : doing[i] # t
        /\ step' = [step EXCEPT ![j] = "fee"] /\ doing' = [doing EXCEPT ![j] = t]
        /\ signer' = [signer EXCEPT ![j] = 1]
        /\ UNCHANGED <<added, taken, block, todo>>
    BY <1>1 DEF Submit
  <2>2. \A u \in Txn : (\A i \in Job : doing'[i] # u) => \A i \in Job : doing[i] # u
    BY <2>1, NoneAssumption DEF JobInv, TypeOK
  <2>3. \A u \in Txn : (\A i \in Job : doing'[i] # u) => Total(taken[u]) = Total(added[u])
    BY <2>2 DEF RecordsInv
  <2>4. ASSUME NEW i \in Job, step'[i] # "idle"
        PROVE  Total(taken[doing'[i]]) = Total(added[doing'[i]]) + InHand(i)'
    <3>1. CASE i = j
      <4>1. doing'[i] = t /\ InHand(i)' = 0
        BY <2>1, <3>1 DEF InHand, TypeOK
      <4>2. Total(taken[t]) = Total(added[t])
        BY <2>1 DEF RecordsInv
      <4> QED BY <1>0, <4>1, <4>2
    <3>2. CASE i # j
      <4>1. InHand(i)' = InHand(i) /\ doing'[i] = doing[i] /\ step'[i] = step[i]
        BY <2>1, <3>2 DEF InHand, FeeOf, TypeOK
      <4> QED BY <2>4, <4>1 DEF RecordsInv
    <3> QED BY <3>1, <3>2
  <2> QED BY <2>1, <2>3, <2>4 DEF RecordsInv
<1>2. ASSUME NEW j \in Job, TakeFee(j) PROVE RecordsInv'
  <2>1. /\ doing[j] \in Txn /\ FeeDebit(j) \in Amounts /\ Total(FeeDebit(j)) = FeeOf(j)
        /\ FeeOf(j) \in Nat
        /\ \A w \in Wallet : FeeDebit(j)[w] > 0 =>
              \E i \in DOMAIN Inputs[doing[j]] : Inputs[doing[j]][i].wallet = w
    BY <1>2, FeeFacts DEF TakeFee
  <2>2. /\ added' = added /\ \A u \in Txn \ {doing[j]} : taken'[u] = taken[u]
        /\ Total(taken'[doing[j]]) = Total(taken[doing[j]]) + FeeOf(j)
        /\ \A w \in Wallet : taken'[doing[j]][w] = taken[doing[j]][w] + FeeDebit(j)[w]
    BY <1>2, <2>1, TakeAllFacts DEF TakeFee
  <2>3. InHand(j) = 0 /\ InHand(j)' = FeeOf(j)
    BY <1>2 DEF TakeFee, Goto, InHand, FeeOf, TypeOK
  <2>4. Total(taken'[doing[j]]) = Total(added'[doing[j]]) + InHand(j)'
    BY <1>0, <1>2, <2>1, <2>2, <2>3 DEF TakeFee, RecordsInv
  <2>5. \A w \in Wallet : taken'[doing[j]][w] > 0 =>
           \E i \in DOMAIN Inputs[doing[j]] : Inputs[doing[j]][i].wallet = w
    <3>1. \A w \in Wallet : taken[doing[j]][w] \in Nat /\ FeeDebit(j)[w] \in Nat
      BY <2>1 DEF TypeOK, Amounts
    <3> QED BY <2>1, <2>2, <3>1 DEF RecordsInv
  <2>6. /\ \A i \in Job \ {j} : step'[i] = step[i] /\ doing'[i] = doing[i] /\ signer'[i] = signer[i]
        /\ doing'[j] = doing[j] /\ block' = block /\ todo' = todo
    BY <1>2 DEF TakeFee, Goto, TypeOK
  <2> QED BY <2>1, <2>2, <2>4, <2>5, <2>6, JobRecords
<1>3. ASSUME NEW j \in Job, Leave(j), step[j] \in {"fee", "admit"},
             UNCHANGED <<added, taken, block, todo>>
      PROVE  RecordsInv'
  <2>1. doing[j] \in Txn /\ InHand(j) = 0
    BY <1>3 DEF TypeOK, InHand
  <2>2. /\ \A i \in Job \ {j} : step'[i] = step[i] /\ doing'[i] = doing[i] /\ signer'[i] = signer[i]
        /\ step'[j] = "idle" /\ doing'[j] = None
    BY <1>3 DEF Leave, TypeOK
  <2>3. \A w \in Wallet : taken'[doing[j]][w] > 0 =>
           \E i \in DOMAIN Inputs[doing[j]] : Inputs[doing[j]][i].wallet = w
    BY <1>3, <2>1 DEF RecordsInv
  <2> QED BY <1>3, <2>1, <2>2, <2>3, JobRecords
<1>4. ASSUME NEW j \in Job, CreditFee(j) PROVE RecordsInv'
  <2>1. /\ doing[j] \in Txn /\ FeeOf(j) \in Nat
        /\ FeeCredits(FeeOf(j)) \in Amounts /\ Total(FeeCredits(FeeOf(j))) = FeeOf(j)
    BY <1>4, FeeFacts DEF CreditFee
  <2>2. /\ taken' = taken /\ \A u \in Txn \ {doing[j]} : added'[u] = added[u]
        /\ Total(added'[doing[j]]) = Total(added[doing[j]]) + FeeOf(j)
    BY <1>4, <2>1, AddAllFacts DEF CreditFee
  <2>3. /\ doing' = doing /\ step'[j] \in {"fee", "check"} /\ block' = block /\ todo' = todo
        /\ \A i \in Job \ {j} : step'[i] = step[i] /\ signer'[i] = signer[i]
    BY <1>4 DEF CreditFee, Goto, TypeOK
  <2>4. InHand(j) = FeeOf(j) /\ InHand(j)' = 0
    BY <1>4, <2>3 DEF CreditFee, InHand
  <2>5. Total(taken'[doing[j]]) = Total(added'[doing[j]]) + InHand(j)'
    BY <1>0, <1>4, <2>1, <2>2, <2>4 DEF CreditFee, RecordsInv
  <2>6. \A w \in Wallet : taken'[doing[j]][w] > 0 =>
           \E i \in DOMAIN Inputs[doing[j]] : Inputs[doing[j]][i].wallet = w
    BY <2>1, <2>2 DEF RecordsInv
  <2> QED BY <2>1, <2>2, <2>3, <2>5, <2>6, JobRecords
<1>5. ASSUME NEW j \in Job, step[j] \in {"check", "take"}, \E s \in {"take", "admit"} : Goto(j, s),
             UNCHANGED <<added, taken, block, todo>>
      PROVE  RecordsInv'
  <2>1. doing[j] \in Txn
    BY <1>5 DEF TypeOK
  <2>2. /\ doing' = doing /\ step'[j] \in {"take", "admit"}
        /\ \A i \in Job \ {j} : step'[i] = step[i] /\ signer'[i] = signer[i]
    BY <1>5 DEF Goto, TypeOK
  <2>3. InHand(j) = 0 /\ InHand(j)' = 0
    BY <1>5, <2>2 DEF InHand
  <2>4. Total(taken'[doing[j]]) = Total(added'[doing[j]]) + InHand(j)'
    BY <1>0, <1>5, <2>1, <2>3 DEF RecordsInv
  <2>5. \A w \in Wallet : taken'[doing[j]][w] > 0 =>
           \E i \in DOMAIN Inputs[doing[j]] : Inputs[doing[j]][i].wallet = w
    BY <1>5, <2>1 DEF RecordsInv
  <2> QED BY <1>5, <2>1, <2>2, <2>4, <2>5, JobRecords
<1>6. ASSUME NEW j \in Job, TakeInputs(j), Affordable(InputAmounts(doing[j])) PROVE RecordsInv'
  <2>1. doing[j] \in Txn
    BY <1>6 DEF TakeInputs, TypeOK
  <2>2. InputAmounts(doing[j]) \in Amounts /\ Total(InputAmounts(doing[j])) \in Nat
    BY <2>1, InputAmountsType, TotalNat
  <2>3. /\ added' = added /\ \A u \in Txn \ {doing[j]} : taken'[u] = taken[u]
        /\ Total(taken'[doing[j]]) = Total(taken[doing[j]]) + Total(InputAmounts(doing[j]))
        /\ \A w \in Wallet :
              taken'[doing[j]][w] = taken[doing[j]][w] + InputAmounts(doing[j])[w]
    BY <1>6, <2>1, <2>2, TakeAllFacts DEF TakeInputs
  <2>4. /\ doing' = doing /\ step'[j] = "pay" /\ block' = block /\ todo' = todo
        /\ \A i \in Job \ {j} : step'[i] = step[i] /\ signer'[i] = signer[i]
    BY <1>6 DEF TakeInputs, Goto, TypeOK
  <2>5. InHand(j) = 0 /\ InHand(j)' = Total(InputAmounts(doing[j]))
    BY <1>6, <2>4 DEF TakeInputs, InHand, InputAmounts
  <2>6. Total(taken'[doing[j]]) = Total(added'[doing[j]]) + InHand(j)'
    BY <1>0, <1>6, <2>1, <2>2, <2>3, <2>5 DEF TakeInputs, RecordsInv
  <2>7. \A w \in Wallet : taken'[doing[j]][w] > 0 =>
           \E i \in DOMAIN Inputs[doing[j]] : Inputs[doing[j]][i].wallet = w
    <3>1. \A w \in Wallet : taken[doing[j]][w] \in Nat /\ InputAmounts(doing[j])[w] \in Nat
      BY <2>1, <2>2 DEF TypeOK, Amounts
    <3> QED BY <2>1, <2>3, <3>1, InputAmountsOfSigners DEF RecordsInv
  <2> QED BY <2>1, <2>3, <2>4, <2>6, <2>7, JobRecords
<1>7. ASSUME NEW j \in Job, PayOutputs(j) PROVE RecordsInv'
  <2>1. /\ doing[j] \in Txn /\ Outputs[doing[j]] \in Amounts
        /\ Total(Outputs[doing[j]]) = Total(InputAmounts(doing[j]))
    BY <1>7, OutputsAssumption DEF PayOutputs, TypeOK, Amounts, JobInv, WellFormed
  <2>2. /\ taken' = taken /\ \A u \in Txn \ {doing[j]} : added'[u] = added[u]
        /\ Total(added'[doing[j]]) = Total(added[doing[j]]) + Total(InputAmounts(doing[j]))
    BY <1>7, <2>1, AddAllFacts DEF PayOutputs
  <2>3. /\ doing' = doing /\ step'[j] = "admit" /\ block' = block /\ todo' = todo
        /\ \A i \in Job \ {j} : step'[i] = step[i] /\ signer'[i] = signer[i]
    BY <1>7 DEF PayOutputs, Goto, TypeOK
  <2>4. InHand(j) = Total(InputAmounts(doing[j])) /\ InHand(j)' = 0
    BY <1>7, <2>3 DEF PayOutputs, InHand
  <2>5. Total(InputAmounts(doing[j])) \in Nat
    BY <2>1, InputAmountsType, TotalNat
  <2>6. Total(taken'[doing[j]]) = Total(added'[doing[j]]) + InHand(j)'
    BY <1>0, <1>7, <2>1, <2>2, <2>4, <2>5 DEF PayOutputs, RecordsInv
  <2>7. \A w \in Wallet : taken'[doing[j]][w] > 0 =>
           \E i \in DOMAIN Inputs[doing[j]] : Inputs[doing[j]][i].wallet = w
    BY <2>1, <2>2 DEF RecordsInv
  <2> QED BY <2>1, <2>2, <2>3, <2>6, <2>7, JobRecords
<1>8. ASSUME UNCHANGED <<recordVars, jobVars>>, block' \ todo' \subseteq block \ todo
      PROVE  RecordsInv'
  <2>1. \A j \in Job : InHand(j)' = InHand(j)
    BY <1>8 DEF InHand, FeeOf
  <2> QED BY <1>8, <2>1 DEF RecordsInv
<1>9. ASSUME Replay PROVE RecordsInv'
  <2>1. PICK t \in todo :
           /\ todo' = todo \ {t}
           /\ added' = [added EXCEPT ![t] = NoRecord[t]]
           /\ taken' = [taken EXCEPT ![t] = NoRecord[t]]
    BY <1>9 DEF Replay
  <2>2. t \in Txn /\ t \in marked /\ UNCHANGED <<jobVars, block>>
    BY <1>9 DEF Replay, TypeOK, PhaseInv
  <2>3. \A j \in Job : doing[j] # t
    BY <2>2 DEF JobInv
  <2>4. \A u \in Txn \ {t} : added'[u] = added[u] /\ taken'[u] = taken[u]
    BY <2>1 DEF TypeOK
  <2>5. added'[t] = NoRecord[t] /\ taken'[t] = NoRecord[t] /\ \A w \in Wallet : NoRecord[t][w] = 0
    BY <2>1, <2>2 DEF TypeOK, NoRecord
  <2>6. \A j \in Job : InHand(j)' = InHand(j) /\ step'[j] = step[j] /\ doing'[j] = doing[j]
    BY <2>2 DEF InHand, FeeOf
  <2>7. \A u \in block' \ todo', w \in Wallet : added'[u][w] = 0 /\ taken'[u][w] = 0
    BY <2>1, <2>2, <2>4, <2>5 DEF RecordsInv, TypeOK
  <2>8. \A u \in Txn, w \in Wallet :
           taken'[u][w] > 0 => \E i \in DOMAIN Inputs[u] : Inputs[u][i].wallet = w
    BY <2>4, <2>5 DEF RecordsInv
  <2>9. \A u \in Txn : (\A j \in Job : doing'[j] # u) => Total(taken'[u]) = Total(added'[u])
    BY <2>4, <2>5, <2>6 DEF RecordsInv
  <2>10. \A j \in Job : step'[j] # "idle" =>
            Total(taken'[doing'[j]]) = Total(added'[doing'[j]]) + InHand(j)'
    BY <2>3, <2>4, <2>6 DEF RecordsInv, TypeOK
  <2> QED BY <2>7, <2>8, <2>9, <2>10 DEF RecordsInv
<1>10. ASSUME Restart PROVE RecordsInv'
  <2>1. \A t \in Txn : added'[t] = taken'[t] /\ \A w \in Wallet : taken'[t][w] = 0
    BY <1>10 DEF Restart, NoRecord
  <2>2. \A j \in Job : step'[j] = "idle"
    BY <1>10 DEF Restart
  <2> QED BY <1>10, <2>1, <2>2 DEF Restart, RecordsInv
<1> QED
  <2>1. ASSUME NEW j \in Job, JobStep(j) PROVE RecordsInv'
    BY <1>1, <1>2, <1>3, <1>4, <1>5, <1>6, <1>7, <2>1
    DEF JobStep, RefuseFee, CheckFunds, TakeInputs, Admit
  <2>2. ASSUME MakeBlock PROVE RecordsInv'
    BY <1>8, <1>9, <2>2 DEF MakeBlock, StartBlock, StoreTemp, WriteBlock, StoreWallets
  <2>3. CASE UNCHANGED vars
    BY <1>8, <2>3 DEF vars
  <2> QED BY <1>10, <2>1, <2>2, <2>3 DEF Next, Done

-----------------------------------------------------------------------------
(* What the producer does to its balances. *)

(* What a replay credits, against the record.                              *)
LEMMA CreditNat ==
    ASSUME TypeOK, NEW t \in Txn, NEW w \in Wallet
    PROVE  /\ Credit(t, w) \in Nat /\ added[t][w] \in Nat /\ taken[t][w] \in Nat
           /\ w # Placeholder => Credit(t, w) >= added[t][w]
           /\ w \notin {Placeholder, FeeAddress} => Credit(t, w) = added[t][w]
BY WalletAssumption DEF Credit, TypeOK

(* A replay changes balance and records by the same, but for a dropped     *)
(* debit.                                                                  *)
LEMMA ReplayFacts ==
    ASSUME TypeOK, NEW t \in Txn, blockBal' = Replayed(t), UNCHANGED <<tempBal, wallets>>,
           added' = [added EXCEPT ![t] = NoRecord[t]], taken' = [taken EXCEPT ![t] = NoRecord[t]],
           NEW w \in Wallet
    PROVE  /\ Latest(w)' = Latest(w) + Credit(t, w) - (IF Covered(t, w) THEN taken[t][w] ELSE 0)
           /\ TotalFor(w, added') = TotalFor(w, added) - added[t][w]
           /\ TotalFor(w, taken') = TotalFor(w, taken) - taken[t][w]
           /\ blockBal'[w] = None => blockBal[w] = None
           /\ blockBal'[w] # None => blockBal[w] # None \/ Credit(t, w) > 0 \/ taken[t][w] > 0
<1>1. Credit(t, w) \in Nat /\ taken[t][w] \in Nat /\ Latest(w) \in Nat
  BY CreditNat, LatestNat
<1>2. blockBal'[w] = IF Credit(t, w) = 0 /\ taken[t][w] = 0 THEN blockBal[w]
          ELSE Latest(w) + Credit(t, w) - (IF Covered(t, w) THEN taken[t][w] ELSE 0)
  BY DEF Replayed
<1>3. TotalFor(w, added') = TotalFor(w, added) - added[t][w]
  BY TotalForRemove DEF TypeOK, Records
<1>4. TotalFor(w, taken') = TotalFor(w, taken) - taken[t][w]
  BY TotalForRemove DEF TypeOK, Records
<1>5. CASE Credit(t, w) = 0 /\ taken[t][w] = 0
  <2>1. Latest(w)' = Latest(w)
    BY <1>2, <1>5 DEF Latest
  <2> QED BY <1>1, <1>2, <1>3, <1>4, <1>5, <2>1
<1>6. CASE ~(Credit(t, w) = 0 /\ taken[t][w] = 0)
  <2>1. blockBal'[w] \in Nat
    BY <1>1, <1>2, <1>6 DEF Covered
  <2>2. Latest(w)' = blockBal'[w]
    BY <2>1, NoneAssumption DEF Latest
  <2> QED BY <1>1, <1>2, <1>3, <1>4, <1>6, <2>1, <2>2, NoneAssumption
<1> QED BY <1>5, <1>6

(* Storing temporary balances changes no balance.                          *)
LEMMA StoreTempFacts ==
    ASSUME TypeOK, StoreTemp, NEW w \in Wallet
    PROVE  /\ Latest(w)' = Latest(w)
           /\ tempBal'[w] # None => tempBal[w] # None \/ blockBal[w] # None
<1>1. /\ tempBal'[w] = IF blockBal[w] = None THEN tempBal[w] ELSE blockBal[w]
      /\ blockBal'[w] = None /\ wallets' = wallets
  BY DEF StoreTemp, NoEntry, blockVars
<1> QED BY <1>1 DEF Latest

(* Storing the balances changes none either.                               *)
LEMMA StoreWalletsFacts ==
    ASSUME TypeOK, PhaseInv, StoreWallets, NEW w \in Wallet
    PROVE  /\ Latest(w)' = Latest(w) /\ wallets'[w] = Latest(w)
           /\ tempBal[w] = None => wallets'[w] = wallets[w]
<1>1. /\ wallets'[w] = IF tempBal[w] = None THEN wallets[w] ELSE tempBal[w]
      /\ tempBal'[w] = None /\ blockBal' = blockBal /\ blockBal[w] = None
  BY DEF StoreWallets, NoEntry, PhaseInv
<1> QED BY <1>1 DEF Latest

-----------------------------------------------------------------------------
(* Running and stored balances. *)

(* The sums of the records are amounts.                                    *)
LEMMA SumsNat ==
    ASSUME TypeOK, NEW w \in Wallet
    PROVE  TotalFor(w, added) \in Nat /\ TotalFor(w, taken) \in Nat
BY TotalForNat DEF TypeOK, Records

(* A step of a job that takes or adds an amount.                           *)
LEMMA JobBacked ==
    ASSUME TypeOK, BackedInv, NEW t \in Txn, NEW amount \in Amounts,
           UNCHANGED <<wallets, blockBal, tempBal, dropped>>,
           (Affordable(amount) /\ TakeAll(t, amount)) \/ AddAll(t, amount)
    PROVE  BackedInv'
<1>1. /\ \A w \in Wallet : Running(w) \in Nat /\ Latest(w) \in Nat /\ amount[w] \in Nat
      /\ \A w \in Wallet : TotalFor(w, added) \in Nat /\ TotalFor(w, taken) \in Nat
  BY RunningNat, LatestNat, SumsNat DEF Amounts
<1>2. \A w \in Wallet : Latest(w)' = Latest(w)
  BY DEF Latest
<1>3. CASE Affordable(amount) /\ TakeAll(t, amount)
  <2>1. /\ added' = added /\ \A u \in Txn \ {t} : taken'[u] = taken[u]
        /\ \A w \in Wallet :
                 /\ taken'[t][w] = taken[t][w] + amount[w]
                 /\ running'[w] = None => running[w] = None /\ amount[w] = 0
                 /\ Running(w)' = Running(w) - amount[w]
                 /\ TotalFor(w, taken') = TotalFor(w, taken) + amount[w]
    BY <1>3, TakeAllFacts
  <2>2. \A w \in Wallet : TotalFor(w, taken)' = TotalFor(w, taken) + amount[w]
                        /\ TotalFor(w, added)' = TotalFor(w, added)
    BY <2>1 DEF TotalFor
  <2>3. ASSUME NEW w \in Wallet, running'[w] = None
        PROVE  \A u \in Txn : added'[u][w] = 0 /\ taken'[u][w] = 0
    BY <2>1, <2>3 DEF BackedInv
  <2> QED BY <1>1, <1>2, <2>1, <2>2, <2>3 DEF BackedInv, RunningBacked
<1>4. CASE AddAll(t, amount)
  <2>1. /\ taken' = taken /\ \A u \in Txn \ {t} : added'[u] = added[u]
        /\ \A w \in Wallet :
                 /\ added'[t][w] = added[t][w] + amount[w]
                 /\ running'[w] = None => running[w] = None /\ amount[w] = 0
                 /\ Running(w)' = Running(w) + amount[w]
                 /\ TotalFor(w, added') = TotalFor(w, added) + amount[w]
    BY <1>4, AddAllFacts
  <2>2. \A w \in Wallet : TotalFor(w, added)' = TotalFor(w, added) + amount[w]
                        /\ TotalFor(w, taken)' = TotalFor(w, taken)
    BY <2>1 DEF TotalFor
  <2>3. ASSUME NEW w \in Wallet, running'[w] = None
        PROVE  \A u \in Txn : added'[u][w] = 0 /\ taken'[u][w] = 0
    BY <2>1, <2>3 DEF BackedInv
  <2> QED BY <1>1, <1>2, <2>1, <2>2, <2>3 DEF BackedInv, RunningBacked
<1> QED BY <1>3, <1>4

(* Every step keeps running balances and records within what the producer  *)
(* has and what is promised.                                               *)
LEMMA BackedStep ==
    ASSUME TypeOK, PhaseInv, BackedInv, [Next]_vars
    PROVE  BackedInv'
<1> USE DEF jobVars, recordVars, blockVars
<1>1. ASSUME NEW j \in Job, TakeFee(j) PROVE BackedInv'
  BY <1>1, FeeFacts, JobBacked DEF TakeFee
<1>2. ASSUME NEW j \in Job, CreditFee(j) PROVE BackedInv'
  BY <1>2, FeeFacts, JobBacked DEF CreditFee
<1>3. ASSUME NEW j \in Job, TakeInputs(j), Affordable(InputAmounts(doing[j])) PROVE BackedInv'
  <2>1. doing[j] \in Txn
    BY <1>3 DEF TakeInputs, TypeOK
  <2> QED BY <1>3, <2>1, InputAmountsType, JobBacked DEF TakeInputs
<1>4. ASSUME NEW j \in Job, PayOutputs(j) PROVE BackedInv'
  <2>1. doing[j] \in Txn /\ Outputs[doing[j]] \in Amounts
    BY <1>4, OutputsAssumption DEF PayOutputs, TypeOK, Amounts
  <2> QED BY <1>4, <2>1, JobBacked DEF PayOutputs
<1>5. ASSUME UNCHANGED <<recordVars, wallets, blockBal, tempBal, dropped>> PROVE BackedInv'
  BY <1>5 DEF BackedInv, RunningBacked, Running, Latest, TotalFor
<1>6. ASSUME Replay PROVE BackedInv'
  <2>1. PICK t \in todo :
           /\ blockBal' = Replayed(t)
           /\ dropped' = IF \A w \in Wallet : Covered(t, w) THEN dropped ELSE dropped \cup {t}
           /\ added' = [added EXCEPT ![t] = NoRecord[t]]
           /\ taken' = [taken EXCEPT ![t] = NoRecord[t]]
    BY <1>6 DEF Replay
  <2>2. t \in Txn /\ UNCHANGED <<running, tempBal, wallets>>
    BY <1>6 DEF Replay, TypeOK
  <2>3. ASSUME NEW w \in Wallet
        PROVE  /\ Running(w)' = Running(w)
               /\ Latest(w)' = Latest(w) + Credit(t, w) - (IF Covered(t, w) THEN taken[t][w] ELSE 0)
               /\ TotalFor(w, added)' = TotalFor(w, added) - added[t][w]
               /\ TotalFor(w, taken)' = TotalFor(w, taken) - taken[t][w]
               /\ blockBal'[w] # None => blockBal[w] # None \/ Credit(t, w) > 0 \/ taken[t][w] > 0
    <3>1. TotalFor(w, added)' = TotalFor(w, added') /\ TotalFor(w, taken)' = TotalFor(w, taken')
      BY DEF TotalFor
    <3> QED BY <2>1, <2>2, <3>1, ReplayFacts DEF Running
  <2>4. \A w \in Wallet :
           /\ Running(w) \in Nat /\ Latest(w) \in Nat
           /\ TotalFor(w, added) \in Nat /\ TotalFor(w, taken) \in Nat
           /\ Credit(t, w) \in Nat /\ added[t][w] \in Nat /\ taken[t][w] \in Nat
           /\ w # Placeholder => Credit(t, w) >= added[t][w]
           /\ w \notin {Placeholder, FeeAddress} => Credit(t, w) = added[t][w]
    BY <2>2, RunningNat, LatestNat, SumsNat, CreditNat
  <2>5. ASSUME NEW w \in Wallet, running'[w] = None
        PROVE  /\ \A u \in Txn : added'[u][w] = 0 /\ taken'[u][w] = 0
               /\ w # FeeAddress => blockBal'[w] = None /\ tempBal'[w] = None
    <3>1. /\ \A u \in Txn : added[u][w] = 0 /\ taken[u][w] = 0
          /\ w # FeeAddress => blockBal[w] = None /\ tempBal[w] = None
      BY <2>2, <2>5 DEF BackedInv
    <3>2. \A u \in Txn : added'[u][w] = 0 /\ taken'[u][w] = 0
      BY <2>1, <2>2, <3>1 DEF NoRecord, TypeOK
    <3>3. w # FeeAddress => Credit(t, w) = 0
      BY <2>2, <3>1 DEF Credit
    <3> QED BY <2>2, <2>3, <2>4, <3>1, <3>2, <3>3
  <2>6. RunningBacked'
    BY <2>3, <2>4 DEF BackedInv, RunningBacked, Covered
  <2>7. ASSUME dropped' = {}, NEW w \in Wallet \ {FeeAddress, Placeholder}
        PROVE  Running(w)' + TotalFor(w, taken)' = Latest(w)' + TotalFor(w, added)'
    <3>1. dropped = {} /\ Covered(t, w)
      BY <2>1, <2>7
    <3>2. Running(w) + TotalFor(w, taken) = Latest(w) + TotalFor(w, added)
      BY <3>1 DEF BackedInv
    <3> QED BY <2>3, <2>4, <3>1, <3>2
  <2> QED BY <2>5, <2>6, <2>7 DEF BackedInv
<1>7. ASSUME StoreTemp PROVE BackedInv'
  <2>1. \A w \in Wallet :
           /\ Latest(w)' = Latest(w) /\ Running(w)' = Running(w)
           /\ TotalFor(w, added)' = TotalFor(w, added) /\ TotalFor(w, taken)' = TotalFor(w, taken)
    BY <1>7, StoreTempFacts DEF StoreTemp, Running, TotalFor
  <2>2. \A w \in Wallet : running'[w] = None =>
           /\ \A t \in Txn : added'[t][w] = 0 /\ taken'[t][w] = 0
           /\ w # FeeAddress => blockBal'[w] = None /\ tempBal'[w] = None
    BY <1>7, StoreTempFacts DEF StoreTemp, BackedInv, NoEntry
  <2>3. dropped' = dropped
    BY <1>7 DEF StoreTemp
  <2> QED BY <2>1, <2>2, <2>3 DEF BackedInv, RunningBacked
<1>8. ASSUME StoreWallets PROVE BackedInv'
  <2>1. \A w \in Wallet :
           /\ Latest(w)' = Latest(w) /\ wallets'[w] = Latest(w)
           /\ tempBal[w] = None => wallets'[w] = wallets[w]
           /\ TotalFor(w, added)' = TotalFor(w, added) /\ TotalFor(w, taken)' = TotalFor(w, taken)
           /\ Latest(w) \in Nat /\ TotalFor(w, added) \in Nat /\ TotalFor(w, taken) \in Nat
    BY <1>8, StoreWalletsFacts, LatestNat, SumsNat DEF StoreWallets, TotalFor
  <2>2. UNCHANGED <<running, added, taken, blockBal, dropped>> /\ tempBal' = NoEntry
    BY <1>8 DEF StoreWallets
  <2>3. ASSUME NEW w \in Wallet, running[w] = None
        PROVE  /\ TotalFor(w, added) = 0 /\ TotalFor(w, taken) = 0
               /\ w # FeeAddress => Running(w)' = Running(w)
               /\ Running(w)' = Latest(w)
    <3>1. TotalFor(w, added) = 0 /\ TotalFor(w, taken) = 0
      BY <2>3, TotalForZero DEF BackedInv, TypeOK, Records
    <3> QED BY <2>1, <2>2, <2>3, <3>1 DEF BackedInv, Running
  <2>4. \A w \in Wallet : running[w] # None => Running(w)' = Running(w)
    BY <2>2 DEF Running
  <2>5. RunningBacked'
    BY <2>1, <2>3, <2>4 DEF BackedInv, RunningBacked
  <2>6. dropped' = {} =>
           \A w \in Wallet \ {FeeAddress, Placeholder} :
              Running(w)' + TotalFor(w, taken)' = Latest(w)' + TotalFor(w, added)'
    BY <2>1, <2>2, <2>3, <2>4 DEF BackedInv
  <2> QED BY <2>2, <2>5, <2>6 DEF BackedInv, NoEntry
<1>9. ASSUME Restart PROVE BackedInv'
  <2>1. /\ \A w \in Wallet : running'[w] = None /\ blockBal'[w] = None /\ tempBal'[w] = None
        /\ \A t \in Txn, w \in Wallet : added'[t][w] = 0 /\ taken'[t][w] = 0
        /\ wallets' = wallets
    BY <1>9 DEF Restart, NoEntry, NoRecord
  <2>2. added' \in Records /\ taken' \in Records
    BY <1>9 DEF Restart, NoRecord, Records
  <2>3. ASSUME NEW w \in Wallet
        PROVE  /\ Running(w)' = wallets[w] /\ Latest(w)' = wallets[w] /\ wallets[w] \in Nat
               /\ TotalFor(w, added)' = 0 /\ TotalFor(w, taken)' = 0
    <3>1. TotalFor(w, added') = 0 /\ TotalFor(w, taken') = 0
      BY <2>1, <2>2, TotalForZero
    <3> QED BY <2>1, <3>1 DEF Running, Latest, TypeOK, TotalFor
  <2> QED BY <2>1, <2>3 DEF BackedInv, RunningBacked
<1> QED
  <2>1. ASSUME NEW j \in Job, JobStep(j) PROVE BackedInv'
    BY <1>1, <1>2, <1>3, <1>4, <1>5, <2>1
    DEF JobStep, Submit, RefuseFee, CheckFunds, TakeInputs, Admit
  <2>2. ASSUME MakeBlock PROVE BackedInv'
    BY <1>5, <1>6, <1>7, <1>8, <2>2 DEF MakeBlock, StartBlock, WriteBlock
  <2>3. CASE UNCHANGED vars
    BY <1>5, <2>3 DEF vars
  <2> QED BY <1>9, <2>1, <2>2, <2>3 DEF Next, Done

-----------------------------------------------------------------------------
(* The supply. *)

LatestAll == [w \in Wallet |-> Latest(w)]
Credits(t) == [w \in Wallet |-> Credit(t, w)]

(* The fees kept at the placeholder go to the fee address, all of them.    *)
LEMMA CreditsTotal ==
    ASSUME TypeOK, NEW t \in Txn
    PROVE  Credits(t) \in Amounts /\ Total(Credits(t)) = Total(added[t])
<1> DEFINE g == [w \in Wallet |-> IF w = Placeholder THEN 0 ELSE added[t][w]]
<1>1. added[t] \in Amounts /\ Credits(t) \in Amounts /\ g \in Amounts
  BY CreditNat DEF TypeOK, Amounts, Credits
<1>2. g[Placeholder] = 0 /\ g[FeeAddress] = added[t][FeeAddress]
  BY WalletAssumption
<1>3. \A w \in Wallet \ {Placeholder} : g[w] = added[t][w]
  OBVIOUS
<1>4. \A w \in Wallet \ {FeeAddress} : Credits(t)[w] = g[w]
  BY WalletAssumption DEF Credits, Credit
<1>5. Credits(t)[FeeAddress] = added[t][FeeAddress] + added[t][Placeholder]
  BY WalletAssumption DEF Credits, Credit
<1> HIDE DEF g
<1>6. Total(g) = Total(added[t]) + g[Placeholder] - added[t][Placeholder]
  BY <1>1, <1>3, TotalChange, WalletAssumption
<1>7. Total(Credits(t)) = Total(g) + Credits(t)[FeeAddress] - g[FeeAddress]
  BY <1>1, <1>4, TotalChange, WalletAssumption
<1>8. /\ Total(g) \in Nat /\ Total(added[t]) \in Nat
      /\ added[t][FeeAddress] \in Nat /\ added[t][Placeholder] \in Nat
  BY <1>1, TotalNat, WalletAssumption DEF TypeOK
<1> QED BY <1>1, <1>2, <1>5, <1>6, <1>7, <1>8

(* Every step keeps the supply, unless it drops a debit.                   *)
LEMMA SupplyStep ==
    ASSUME TypeOK, JobInv, PhaseInv, RecordsInv, SupplyInv, [Next]_vars
    PROVE  SupplyInv'
<1> USE DEF jobVars, recordVars, blockVars
<1>0. SupplyInv <=> (dropped = {} =>
         Total(wallets) = Total(Genesis) /\ Total(LatestAll) = Total(Genesis))
  BY DEF SupplyInv, LatestAll
<1>1. ASSUME UNCHANGED <<wallets, blockBal, tempBal, dropped>> PROVE SupplyInv'
  BY <1>1 DEF SupplyInv, Latest
<1>2. ASSUME Replay PROVE SupplyInv'
  <2>1. PICK t \in todo :
           /\ blockBal' = Replayed(t)
           /\ dropped' = IF \A w \in Wallet : Covered(t, w) THEN dropped ELSE dropped \cup {t}
           /\ added' = [added EXCEPT ![t] = NoRecord[t]]
           /\ taken' = [taken EXCEPT ![t] = NoRecord[t]]
    BY <1>2 DEF Replay
  <2>2. t \in Txn /\ t \in marked /\ UNCHANGED <<tempBal, wallets>>
    BY <1>2 DEF Replay, TypeOK, PhaseInv
  <2> SUFFICES ASSUME dropped' = {}
               PROVE  Total(LatestAll') = Total(Genesis) /\ Total(wallets) = Total(Genesis)
    BY <2>2 DEF SupplyInv, LatestAll
  <2>3. dropped = {} /\ \A w \in Wallet : Covered(t, w)
    BY <2>1
  <2>4. Total(taken[t]) = Total(added[t])
    BY <2>2 DEF RecordsInv, JobInv
  <2> DEFINE f == LatestAll
             g == LatestAll'
             h == [w \in Wallet |-> Latest(w) + Credits(t)[w]]
  <2>5. \A w \in Wallet : g[w] = Latest(w) + Credits(t)[w] - taken[t][w]
    BY <2>1, <2>2, <2>3, ReplayFacts DEF LatestAll, Credits
  <2>6. /\ \A w \in Wallet : Latest(w) \in Nat /\ Credits(t)[w] \in Nat /\ taken[t][w] \in Nat
        /\ \A w \in Wallet : taken[t][w] <= Latest(w) + Credits(t)[w]
    BY <2>2, <2>3, LatestNat, CreditNat DEF Credits, Covered
  <2>7. /\ f \in Amounts /\ h \in Amounts /\ Credits(t) \in Amounts /\ taken[t] \in Amounts
        /\ \A w \in Wallet : h[w] = f[w] + Credits(t)[w]
    BY <2>2, <2>6, CreditsTotal DEF Amounts, LatestAll, TypeOK
  <2>8. g \in Amounts /\ \A w \in Wallet : h[w] = g[w] + taken[t][w]
    <3>1. g = [w \in Wallet |-> Latest(w)']
      BY DEF LatestAll
    <3> QED BY <2>5, <2>6, <3>1 DEF Amounts
  <2> HIDE DEF f, g, h
  <2>9. Total(h) = Total(f) + Total(Credits(t)) /\ Total(h) = Total(g) + Total(taken[t])
    BY <2>7, <2>8, TotalPlus
  <2>10. Total(Credits(t)) = Total(taken[t])
    BY <2>2, <2>4, CreditsTotal
  <2>11. Total(f) \in Nat /\ Total(g) \in Nat /\ Total(taken[t]) \in Nat
    BY <2>7, <2>8, TotalNat
  <2>12. Total(f) = Total(Genesis) /\ Total(wallets) = Total(Genesis)
    BY <1>0, <2>3 DEF f
  <2> QED BY <2>9, <2>10, <2>11, <2>12 DEF g
<1>3. ASSUME StoreTemp PROVE SupplyInv'
  <2>1. wallets' = wallets /\ dropped' = dropped /\ \A w \in Wallet : Latest(w)' = Latest(w)
    BY <1>3, StoreTempFacts DEF StoreTemp
  <2> QED BY <2>1 DEF SupplyInv
<1>4. ASSUME StoreWallets PROVE SupplyInv'
  <2>1. dropped' = dropped /\ \A w \in Wallet : Latest(w)' = Latest(w) /\ wallets'[w] = Latest(w)
    BY <1>4, StoreWalletsFacts DEF StoreWallets
  <2>2. wallets' = [w \in Wallet |-> Latest(w)]
    BY <1>4, <2>1 DEF StoreWallets
  <2> QED BY <2>1, <2>2 DEF SupplyInv
<1>5. ASSUME Restart PROVE SupplyInv'
  <2>1. wallets' = wallets /\ dropped' = dropped /\ \A w \in Wallet : Latest(w)' = wallets[w]
    BY <1>5 DEF Restart, Latest, NoEntry
  <2>2. [w \in Wallet |-> Latest(w)'] = wallets
    BY <2>1 DEF TypeOK
  <2> QED BY <2>1, <2>2 DEF SupplyInv
<1> QED
  <2>1. ASSUME NEW j \in Job, JobStep(j) PROVE SupplyInv'
    BY <1>1, <2>1
    DEF JobStep, Submit, TakeFee, RefuseFee, CreditFee, CheckFunds, TakeInputs, PayOutputs, Admit
  <2>2. ASSUME MakeBlock PROVE SupplyInv'
    BY <1>1, <1>2, <1>3, <1>4, <2>2 DEF MakeBlock, StartBlock, WriteBlock
  <2>3. CASE UNCHANGED vars
    BY <1>1, <2>3 DEF vars
  <2> QED BY <1>5, <2>1, <2>2, <2>3 DEF Next, Done

-----------------------------------------------------------------------------
(* The invariant. *)

(* The invariant holds at the beginning.                                   *)
LEMMA InitInv == Init => IInv
<1> SUFFICES ASSUME Init PROVE IInv
  OBVIOUS
<1>1. TypeOK
  BY InitType
<1>2. /\ \A w \in Wallet : running[w] = None /\ blockBal[w] = None /\ tempBal[w] = None
      /\ \A t \in Txn, w \in Wallet : added[t][w] = 0 /\ taken[t][w] = 0
      /\ \A t \in Txn : added[t] = taken[t]
  BY DEF Init, NoEntry, NoRecord
<1>3. JobInv /\ PhaseInv
  BY NoneAssumption DEF Init, JobInv, PhaseInv
<1>4. RecordsInv
  BY <1>2 DEF Init, RecordsInv
<1>5. \A w \in Wallet :
         /\ Running(w) = wallets[w] /\ Latest(w) = wallets[w] /\ wallets[w] \in Nat
         /\ TotalFor(w, added) = 0 /\ TotalFor(w, taken) = 0
  BY <1>1, <1>2, TotalForZero DEF Running, Latest, TypeOK, Records
<1>6. BackedInv
  BY <1>2, <1>5 DEF BackedInv, RunningBacked
<1>7. [w \in Wallet |-> Latest(w)] = Genesis
  BY <1>5, GenesisAssumption DEF Init
<1>8. SupplyInv
  BY <1>7 DEF Init, SupplyInv
<1> QED BY <1>1, <1>3, <1>4, <1>6, <1>8 DEF IInv

(* The invariant is inductive.                                             *)
LEMMA StepInv == ASSUME IInv, [Next]_vars PROVE IInv'
BY TypeStep, JobStepInv, PhaseStepInv, RecordsStep, BackedStep, SupplyStep DEF IInv

(* The invariant says that the balances agree.                             *)
LEMMA AgreeingBalances == ASSUME IInv PROVE BalancesAgree
<1>1. TypeOK /\ RecordsBalanced /\ RunningBacked
  BY BalancedRecords DEF IInv, BackedInv
<1>2. RunningUpToDate
  <2> SUFFICES ASSUME phase = "idle", dropped = {}, NEW w \in Wallet \ {FeeAddress, Placeholder}
               PROVE  Running(w) + TotalFor(w, taken) = wallets[w] + TotalFor(w, added)
    BY DEF RunningUpToDate
  <2>1. Latest(w) = wallets[w]
    BY DEF IInv, PhaseInv, Latest, NoEntry
  <2> QED BY <2>1 DEF IInv, BackedInv
<1> QED BY <1>1, <1>2 DEF BalancesAgree

(* The records, the running balances and the stored ones tell the same     *)
(* story whatever the jobs and the producer are doing: a transaction's     *)
(* records move money and make none, and no wallet can spend what it has   *)
(* not got in the blocks and the records.                                  *)
THEOREM BalancesAlwaysAgree == Spec => []BalancesAgree
<1>1. Init => IInv
  BY InitInv
<1>2. IInv /\ [Next]_vars => IInv'
  BY StepInv
<1>3. IInv => BalancesAgree
  BY AgreeingBalances
<1> QED BY <1>1, <1>2, <1>3, PTL DEF Spec

(* A debit that pre-processing has accepted is dropped only if another     *)
(* transaction has been promised to the wallet and is not replayed yet.    *)
LEMMA DroppedStep ==
    ASSUME IInv, Next, NEW t \in dropped' \ dropped
    PROVE  \E u \in Txn \ {t}, i \in DOMAIN Inputs[t] :
              /\ added[u][Inputs[t][i].wallet] > 0
              /\ u \in block => KeyRank[u] > KeyRank[t]
<1> USE DEF jobVars, recordVars, blockVars
<1>1. Replay
  BY DEF Next, JobStep, MakeBlock, Submit, TakeFee, RefuseFee, CreditFee, CheckFunds, TakeInputs,
         PayOutputs, Admit, StartBlock, StoreTemp, WriteBlock, StoreWallets, Restart, Done, vars
<1>2. /\ t \in todo /\ \A u \in todo : KeyRank[t] <= KeyRank[u]
      /\ ~(\A w \in Wallet : Covered(t, w))
  BY <1>1 DEF Replay
<1>3. PICK w \in Wallet : ~Covered(t, w)
  BY <1>2
<1>4. t \in Txn /\ TypeOK
  BY <1>2 DEF IInv, TypeOK
<1>5. /\ Latest(w) \in Nat /\ Running(w) \in Nat
      /\ Credit(t, w) \in Nat /\ added[t][w] \in Nat /\ taken[t][w] \in Nat
      /\ w # Placeholder => Credit(t, w) >= added[t][w]
      /\ TotalFor(w, added) \in Nat /\ TotalFor(w, taken) \in Nat
  BY <1>4, LatestNat, RunningNat, CreditNat, SumsNat
<1>6. taken[t][w] > Latest(w) + Credit(t, w)
  BY <1>3, <1>5 DEF Covered
<1>7. PICK i \in DOMAIN Inputs[t] : Inputs[t][i].wallet = w
  BY <1>4, <1>5, <1>6 DEF IInv, RecordsInv
<1>8. w # Placeholder
  BY <1>4, <1>7, SignerFacts
<1>9. Running(w) + TotalFor(w, taken) <= Latest(w) + TotalFor(w, added)
  BY <1>8 DEF IInv, BackedInv, RunningBacked
<1>10. TotalFor(w, taken) >= taken[t][w]
  <2>1. [taken EXCEPT ![t] = NoRecord[t]] \in Records
    BY <1>4, TotalForRemove DEF TypeOK, Records
  <2>2. TotalFor(w, [taken EXCEPT ![t] = NoRecord[t]]) = TotalFor(w, taken) - taken[t][w]
    BY <1>4, TotalForRemove DEF TypeOK, Records
  <2>3. TotalFor(w, [taken EXCEPT ![t] = NoRecord[t]]) \in Nat
    BY <2>1, TotalForNat
  <2> QED BY <1>5, <2>2, <2>3
<1> DEFINE rest == [added EXCEPT ![t] = NoRecord[t]]
<1>11. rest \in Records /\ TotalFor(w, rest) = TotalFor(w, added) - added[t][w]
  BY <1>4, TotalForRemove DEF TypeOK, Records
<1>12. /\ \A u \in Txn \ {t} : rest[u] = added[u]
       /\ rest[t][w] = 0
  BY <1>4 DEF TypeOK, NoRecord
<1> HIDE DEF rest
<1>13. TotalFor(w, rest) > 0
  BY <1>5, <1>6, <1>8, <1>9, <1>10, <1>11
<1>14. PICK u \in Txn : rest[u][w] > 0
  BY <1>11, <1>13, TotalForPositive
<1>15. u # t /\ added[u][w] > 0
  BY <1>12, <1>14
<1>16. ASSUME u \in block PROVE KeyRank[u] > KeyRank[t]
  <2>1. u \in todo
    BY <1>15, <1>16 DEF IInv, RecordsInv
  <2>2. KeyRank[t] <= KeyRank[u] /\ KeyRank[t] # KeyRank[u]
    BY <1>2, <1>4, <1>15, <2>1, KeyRankAssumption
  <2>3. KeyRank[t] \in Nat /\ KeyRank[u] \in Nat
    BY <1>4, KeyRankAssumption
  <2> QED BY <2>2, <2>3
<1> QED BY <1>7, <1>14, <1>15, <1>16

(* Money is neither made nor lost, whatever the jobs, the producer and a   *)
(* restart do, but for debits of transactions whose wallet has been        *)
(* promised more by another transaction that is not in the block yet, or   *)
(* comes later in it.                                                      *)
THEOREM SupplyIsConserved == Spec => SupplyConserved
<1>1. Init => IInv
  BY InitInv
<1>2. IInv /\ [Next]_vars => IInv'
  BY StepInv
<1>3. IInv => SupplyConstant
  BY DEF IInv, SupplyInv, SupplyConstant
<1>4. IInv /\ [Next]_vars =>
         [\A t \in dropped' \ dropped :
            \E u \in Txn \ {t}, i \in DOMAIN Inputs[t] :
               /\ added[u][Inputs[t][i].wallet] > 0
               /\ u \in block => KeyRank[u] > KeyRank[t]]_vars
  BY DroppedStep
<1> QED BY <1>1, <1>2, <1>3, <1>4, PTL DEF Spec, SupplyConserved, DroppedIsOwed

-----------------------------------------------------------------------------
(* What clients are charged. *)

(* Clients are wallets that get no fees.                                   *)
LEMMA ClientFacts == ASSUME NEW w \in Client
                     PROVE  w \in Wallet /\ w \notin {Placeholder, FeeAddress, Foundation, Burn}
BY DEF Client

(* The shares a wallet has of a fee, and their sum.                        *)
LEMMA ShareFacts ==
    ASSUME NEW t \in Txn, NEW w \in Wallet
    PROVE  /\ DOMAIN FeeShare(t, w) = 1 .. Len(Inputs[t])
           /\ \A i \in 1 .. Len(Inputs[t]) :
                 /\ FeeShare(t, w)[i] \in Nat
                 /\ FeeShare(t, w)[i] = IF Inputs[t][i].wallet = w THEN Inputs[t][i].fee ELSE 0
           /\ FeeOwed(t, w) = FeePaid(t, w, Len(Inputs[t]))
           /\ FeeOwed(t, w) \in Nat
<1>1. /\ DOMAIN FeeShare(t, w) = 1 .. Len(Inputs[t]) /\ IsFiniteSet(1 .. Len(Inputs[t]))
      /\ \A i \in 1 .. Len(Inputs[t]) :
            /\ FeeShare(t, w)[i] \in Nat
            /\ FeeShare(t, w)[i] = IF Inputs[t][i].wallet = w THEN Inputs[t][i].fee ELSE 0
  BY SignerFacts DEF FeeShare
<1>2. FeeOwed(t, w) = SumFunctionOnSet(FeeShare(t, w), 1 .. Len(Inputs[t]))
  BY <1>1 DEF FeeOwed, SumFunction
<1>3. FeeOwed(t, w) \in Nat
  BY <1>1, <1>2, SumNat
<1> QED BY <1>1, <1>2, <1>3 DEF FeePaid

(* One more signer.                                                        *)
LEMMA PaidNext ==
    ASSUME NEW t \in Txn, NEW w \in Wallet, NEW n \in DOMAIN Inputs[t]
    PROVE  /\ FeePaid(t, w, n) = FeePaid(t, w, n - 1) + FeeShare(t, w)[n]
           /\ FeePaid(t, w, n - 1) \in Nat
<1>1. n \in Nat /\ n >= 1 /\ n <= Len(Inputs[t]) /\ Len(Inputs[t]) \in Nat
  BY SignerFacts
<1>2. IsFiniteSet(1 .. n) /\ IsFiniteSet(1 .. (n - 1)) /\ (1 .. n) \ {n} = 1 .. (n - 1)
  <2>1. (1 .. n) \ {n} = 1 .. (n - 1)
    BY <1>1
  <2>2. n - 1 \in Int /\ n \in Int /\ 1 \in Int
    BY <1>1
  <2> QED BY <2>1, <2>2, FS_Interval
<1>3. /\ \A i \in 1 .. n : FeeShare(t, w)[i] \in Int
      /\ \A i \in 1 .. (n - 1) : FeeShare(t, w)[i] \in Nat
      /\ FeeShare(t, w)[n] \in Nat
  BY <1>1, ShareFacts
<1>4. FeePaid(t, w, n) = FeeShare(t, w)[n] + FeePaid(t, w, n - 1)
  <2>1. n \in 1 .. n
    BY <1>1
  <2>2. SumFunctionOnSet(FeeShare(t, w), 1 .. n)
            = FeeShare(t, w)[n] + SumFunctionOnSet(FeeShare(t, w), (1 .. n) \ {n})
    BY <1>2, <1>3, <2>1, SumTake
  <2> QED BY <1>2, <2>2 DEF FeePaid
<1>5. FeePaid(t, w, n - 1) \in Nat
  BY <1>2, <1>3, SumNat DEF FeePaid
<1> QED BY <1>3, <1>4, <1>5

(* No signer.                                                              *)
LEMMA PaidNothing == ASSUME NEW t, NEW w PROVE FeePaid(t, w, 0) = 0
<1>1. 1 .. 0 = {}
  OBVIOUS
<1> QED BY <1>1, SumEmpty DEF FeePaid

(* One more transaction.                                                   *)
LEMMA OwedMore ==
    ASSUME NEW S \in SUBSET Txn, NEW t \in Txn \ S, NEW w \in Wallet
    PROVE  /\ FeesOwed(w, S \cup {t}) = FeesOwed(w, S) + FeeOwed(t, w)
           /\ Received(w, S \cup {t}) = Received(w, S) + Outputs[t][w]
           /\ FeesOwed(w, S) \in Nat /\ Received(w, S) \in Nat
<1> DEFINE f == [u \in Txn |-> FeeOwed(u, w)]
           g == [u \in Txn |-> Outputs[u][w]]
<1>1. \A u \in Txn : f[u] \in Nat /\ g[u] \in Nat
  BY ShareFacts, OutputsAssumption
<1>2. f[t] = FeeOwed(t, w) /\ g[t] = Outputs[t][w]
  OBVIOUS
<1>3. \A R : FeesOwed(w, R) = SumFunctionOnSet(f, R) /\ Received(w, R) = SumFunctionOnSet(g, R)
  BY DEF FeesOwed, Received, FeeOwed
<1> HIDE DEF f, g
<1>4. IsFiniteSet(S) /\ IsFiniteSet(S \cup {t}) /\ (S \cup {t}) \ {t} = S
  BY FS_Subset, TxnAssumption
<1>5. \A u \in S \cup {t} : f[u] \in Int /\ g[u] \in Int
  BY <1>1
<1>6. SumFunctionOnSet(f, S \cup {t}) = f[t] + SumFunctionOnSet(f, (S \cup {t}) \ {t})
  BY <1>4, <1>5, SumTake
<1>7. SumFunctionOnSet(g, S \cup {t}) = g[t] + SumFunctionOnSet(g, (S \cup {t}) \ {t})
  BY <1>4, <1>5, SumTake
<1>8. SumFunctionOnSet(f, S) \in Nat /\ SumFunctionOnSet(g, S) \in Nat
  BY <1>1, <1>4, SumNat
<1>9. f[t] \in Nat /\ g[t] \in Nat
  BY <1>1
<1> QED BY <1>2, <1>3, <1>4, <1>6, <1>7, <1>8, <1>9

(* A step of a job that leaves the waiting transactions and the producer   *)
(* alone: it changes its own transaction's records only, and neither       *)
(* decreases what has been taken.                                          *)
LEMMA JobCharges ==
    ASSUME IInv, ChargeInv, restarts = 0, UNCHANGED <<blockVars, marked, ready>>,
           NEW j \in Job, NEW d \in Txn \ marked, doing[j] \in {d, None}, doing'[j] \in {d, None},
           doing'[j] = None => step'[j] = "idle",
           \A i \in Job \ {j} : /\ step'[i] = step[i] /\ doing'[i] = doing[i]
                               /\ signer'[i] = signer[i] /\ doing[i] # d,
           \A u \in Txn \ {d} : taken'[u] = taken[u] /\ added'[u] = added[u],
           \A w \in Client :
              /\ doing'[j] = d =>
                    /\ step'[j] = "fee" => taken'[d][w] >= FeePaid(d, w, signer'[j] - 1)
                    /\ step'[j] = "credit" => taken'[d][w] >= FeePaid(d, w, signer'[j])
                    /\ step'[j] \in {"check", "take", "pay", "admit"} => taken'[d][w] >= FeeOwed(d, w)
              /\ IF step'[j] = "admit" THEN added'[d][w] <= Outputs[d][w] ELSE added'[d][w] = 0
    PROVE  QueueCharged' /\ NotPaidYet' /\ JobCharged' /\ CountedCharged'
<1> USE DEF blockVars
<1>1. ready \cup todo \subseteq marked /\ ready \cup todo \subseteq Txn
  BY DEF IInv, PhaseInv, TypeOK
<1>2. QueueCharged'
  BY <1>1 DEF ChargeInv, QueueCharged, FeeOwed, FeeShare
<1>3. NotPaidYet'
  <2> SUFFICES ASSUME NEW t \in Txn \ marked, NEW w \in Client,
                      \A i \in Job : doing'[i] = t => step'[i] # "admit"
               PROVE  added'[t][w] = 0
    BY DEF NotPaidYet
  <2>1. CASE t = d
    <3>1. step'[j] # "admit"
      BY <2>1
    <3> QED BY <2>1, <3>1
  <2>2. CASE t # d
    <3>1. \A i \in Job : doing[i] = t => step[i] # "admit"
      BY <2>2, NoneAssumption
    <3> QED BY <2>2, <3>1 DEF ChargeInv, NotPaidYet
  <2> QED BY <2>1, <2>2
<1>4. JobCharged'
  <2> SUFFICES ASSUME NEW i \in Job, NEW w \in Client
      PROVE /\ step'[i] = "fee" => taken'[doing'[i]][w] >= FeePaid(doing'[i], w, signer'[i] - 1)
            /\ step'[i] = "credit" => taken'[doing'[i]][w] >= FeePaid(doing'[i], w, signer'[i])
            /\ step'[i] \in {"check", "take", "pay", "admit"} =>
                  taken'[doing'[i]][w] >= FeeOwed(doing'[i], w)
            /\ step'[i] = "admit" => added'[doing'[i]][w] <= Outputs[doing'[i]][w]
    BY DEF JobCharged, FeeOwed, FeeShare, FeePaid
  <2>1. CASE i = j
    BY <2>1
  <2>2. CASE i # j
    <3>1. step[i] # "idle" => doing[i] \in Txn \ {d}
      BY <2>2 DEF IInv, TypeOK
    <3> QED BY <2>2, <3>1 DEF ChargeInv, JobCharged
  <2> QED BY <2>1, <2>2
<1>5. CountedCharged'
  BY DEF ChargeInv, CountedCharged, Counted, Latest
<1> QED BY <1>2, <1>3, <1>4, <1>5

(* What is known of a job before it takes a step.                          *)
LEMMA BusyJob ==
    ASSUME IInv, ChargeInv, restarts = 0, NEW j \in Job, step[j] # "idle"
    PROVE  /\ doing[j] \in Txn \ marked
           /\ \A i \in Job \ {j} : doing[i] # doing[j]
           /\ \A w \in Client :
                 /\ step[j] # "admit" => added[doing[j]][w] = 0
                 /\ taken[doing[j]][w] \in Nat /\ Outputs[doing[j]][w] \in Nat
<1>1. doing[j] \in Txn \ marked
  BY DEF IInv, TypeOK, JobInv
<1>2. \A i \in Job \ {j} : doing[i] # doing[j]
  BY <1>1, NoneAssumption DEF IInv, JobInv
<1>3. \A w \in Client : taken[doing[j]][w] \in Nat /\ Outputs[doing[j]][w] \in Nat
  BY <1>1, ClientFacts, OutputsAssumption DEF IInv, TypeOK
<1>4. ASSUME NEW w \in Client, step[j] # "admit" PROVE added[doing[j]][w] = 0
  BY <1>1, <1>2, <1>4 DEF ChargeInv, NotPaidYet
<1> QED BY <1>1, <1>2, <1>3, <1>4

(* A job charges its transaction for the signers it has passed.            *)
LEMMA JobChargeStep ==
    ASSUME IInv, ChargeInv, restarts = 0, NEW j \in Job, JobStep(j), ~Admit(j)
    PROVE  QueueCharged' /\ NotPaidYet' /\ JobCharged' /\ CountedCharged'
<1> USE DEF jobVars, recordVars, blockVars
<1> DEFINE Goal == QueueCharged' /\ NotPaidYet' /\ JobCharged' /\ CountedCharged'
<1>0. TypeOK
  BY DEF IInv
<1>1. ASSUME NEW t \in Txn, Submit(j, t) PROVE Goal
  <2>1. /\ step[j] = "idle" /\ t \notin marked /\ \A i \in Job : doing[i] # t
        /\ step'[j] = "fee" /\ doing'[j] = t /\ signer'[j] = 1
        /\ \A i \in Job \ {j} : step'[i] = step[i] /\ doing'[i] = doing[i] /\ signer'[i] = signer[i]
        /\ UNCHANGED <<added, taken, blockVars, marked, ready>>
    BY <1>1 DEF Submit, IInv, TypeOK
  <2>2. doing[j] = None
    BY <2>1 DEF IInv, JobInv
  <2>3. \A w \in Client : added'[t][w] = 0 /\ taken'[t][w] \in Nat
    BY <2>1, ClientFacts DEF ChargeInv, NotPaidYet, IInv, TypeOK
  <2>4. \A w \in Client : FeePaid(t, w, signer'[j] - 1) = 0
    BY <2>1, PaidNothing
  <2>5. \A w \in Client : taken'[t][w] >= FeePaid(t, w, signer'[j] - 1)
    BY <2>3, <2>4
  <2> QED BY <2>1, <2>2, <2>3, <2>5, NoneAssumption, JobCharges
<1>2. ASSUME TakeFee(j) PROVE Goal
  <2> DEFINE d == doing[j]
  <2>1. /\ step[j] = "fee" /\ step'[j] = "credit" /\ doing' = doing /\ signer' = signer
        /\ \A i \in Job \ {j} : step'[i] = step[i]
        /\ UNCHANGED <<blockVars, marked, ready>>
    BY <1>2 DEF TakeFee, Goto, IInv, TypeOK
  <2>2. /\ d \in Txn \ marked /\ \A i \in Job \ {j} : doing[i] # d
        /\ \A w \in Client : added[d][w] = 0 /\ taken[d][w] \in Nat
    BY <2>1, BusyJob
  <2>3. /\ added' = added /\ \A u \in Txn \ {d} : taken'[u] = taken[u]
        /\ \A w \in Wallet : taken'[d][w] = taken[d][w] + FeeDebit(j)[w]
    BY <1>0, <1>2, <2>1, <2>2, FeeFacts, TakeAllFacts DEF TakeFee
  <2>4. ASSUME NEW w \in Client PROVE taken'[d][w] >= FeePaid(d, w, signer'[j])
    <3>1. signer[j] \in DOMAIN Inputs[d] /\ w \in Wallet
      BY <1>0, <2>1, ClientFacts DEF TypeOK
    <3>2. FeeDebit(j)[w] = FeeShare(d, w)[signer[j]] /\ FeeShare(d, w)[signer[j]] \in Nat
      BY <2>2, <3>1, SignerFacts DEF FeeDebit, FeeOf, FeeShare
    <3>3. /\ FeePaid(d, w, signer[j]) = FeePaid(d, w, signer[j] - 1) + FeeShare(d, w)[signer[j]]
          /\ FeePaid(d, w, signer[j] - 1) \in Nat
      BY <2>2, <3>1, PaidNext
    <3>4. taken[d][w] >= FeePaid(d, w, signer[j] - 1)
      BY <2>1 DEF ChargeInv, JobCharged
    <3> QED BY <2>1, <2>2, <2>3, <3>1, <3>2, <3>3, <3>4
  <2> QED BY <2>1, <2>2, <2>3, <2>4, NoneAssumption, JobCharges
<1>3. ASSUME RefuseFee(j) PROVE Goal
  <2>1. /\ step[j] = "fee" /\ step'[j] = "idle" /\ doing'[j] = None
        /\ \A i \in Job \ {j} : step'[i] = step[i] /\ doing'[i] = doing[i] /\ signer'[i] = signer[i]
        /\ UNCHANGED <<added, taken, blockVars, marked, ready>>
    BY <1>3 DEF RefuseFee, Leave, IInv, TypeOK
  <2>2. /\ doing[j] \in Txn \ marked /\ \A i \in Job \ {j} : doing[i] # doing[j]
        /\ \A w \in Client : added[doing[j]][w] = 0
    BY <2>1, BusyJob
  <2> QED BY <2>1, <2>2, NoneAssumption, JobCharges
<1>4. ASSUME CreditFee(j) PROVE Goal
  <2> DEFINE d == doing[j]
  <2>1. /\ step[j] = "credit" /\ doing' = doing
        /\ \A i \in Job \ {j} : step'[i] = step[i] /\ signer'[i] = signer[i]
        /\ UNCHANGED <<blockVars, marked, ready>>
    BY <1>4 DEF CreditFee, Goto, IInv, TypeOK
  <2>2. /\ d \in Txn \ marked /\ \A i \in Job \ {j} : doing[i] # d
        /\ \A w \in Client : added[d][w] = 0 /\ taken[d][w] \in Nat
    BY <2>1, BusyJob
  <2>3. /\ taken' = taken /\ \A u \in Txn \ {d} : added'[u] = added[u]
        /\ \A w \in Wallet : added'[d][w] = added[d][w] + FeeCredits(FeeOf(j))[w]
    BY <1>0, <1>4, <2>1, <2>2, FeeFacts, AddAllFacts DEF CreditFee
  <2>4. \A w \in Client : added'[d][w] = 0
    BY <2>2, <2>3, ClientFacts DEF FeeCredits
  <2>5. signer[j] \in Nat /\ signer[j] \in 1 .. Len(Inputs[d]) /\ Len(Inputs[d]) \in Nat
    BY <1>0, <2>1, <2>2, SignerFacts DEF TypeOK
  <2>6. \A w \in Client : taken'[d][w] >= FeePaid(d, w, signer[j])
    BY <2>1, <2>3 DEF ChargeInv, JobCharged
  <2>7. CASE signer[j] < Len(Inputs[d])
    <3>1. step'[j] = "fee" /\ signer'[j] - 1 = signer[j]
      BY <1>0, <1>4, <2>5, <2>7 DEF CreditFee, TypeOK
    <3> QED BY <2>1, <2>2, <2>3, <2>4, <2>6, <3>1, NoneAssumption, JobCharges
  <2>8. CASE ~(signer[j] < Len(Inputs[d]))
    <3>1. step'[j] = "check" /\ signer[j] = Len(Inputs[d])
      BY <1>0, <1>4, <2>5, <2>8 DEF CreditFee, Goto, TypeOK
    <3>2. \A w \in Client : taken'[d][w] >= FeeOwed(d, w)
      BY <2>2, <2>6, <3>1, ClientFacts, ShareFacts
    <3> QED BY <2>1, <2>2, <2>3, <2>4, <3>1, <3>2, NoneAssumption, JobCharges
  <2> QED BY <2>7, <2>8
<1>5. ASSUME step[j] \in {"check", "take"}, \E s \in {"take", "admit"} : Goto(j, s),
             UNCHANGED <<recordVars, blockVars, marked, ready>>
      PROVE  Goal
  <2>1. /\ doing' = doing /\ step'[j] \in {"take", "admit"}
        /\ \A i \in Job \ {j} : step'[i] = step[i] /\ signer'[i] = signer[i]
    BY <1>5 DEF Goto, IInv, TypeOK
  <2>2. /\ doing[j] \in Txn \ marked /\ \A i \in Job \ {j} : doing[i] # doing[j]
        /\ \A w \in Client : added[doing[j]][w] = 0 /\ Outputs[doing[j]][w] >= 0
    BY <1>5, BusyJob
  <2>3. \A w \in Client : taken'[doing[j]][w] >= FeeOwed(doing[j], w)
    BY <1>5 DEF ChargeInv, JobCharged
  <2> QED BY <1>5, <2>1, <2>2, <2>3, NoneAssumption, JobCharges
<1>6. ASSUME TakeInputs(j), Affordable(InputAmounts(doing[j])) PROVE Goal
  <2> DEFINE d == doing[j]
  <2>1. /\ step[j] = "take" /\ step'[j] = "pay" /\ doing' = doing
        /\ \A i \in Job \ {j} : step'[i] = step[i] /\ signer'[i] = signer[i]
        /\ UNCHANGED <<blockVars, marked, ready>>
    BY <1>6 DEF TakeInputs, Goto, IInv, TypeOK
  <2>2. /\ d \in Txn \ marked /\ \A i \in Job \ {j} : doing[i] # d
        /\ \A w \in Client : added[d][w] = 0 /\ taken[d][w] \in Nat
    BY <2>1, BusyJob
  <2>3. InputAmounts(d) \in Amounts
    BY <2>2, InputAmountsType
  <2>4. /\ added' = added /\ \A u \in Txn \ {d} : taken'[u] = taken[u]
        /\ \A w \in Wallet : taken'[d][w] = taken[d][w] + InputAmounts(d)[w]
    BY <1>0, <1>6, <2>1, <2>2, <2>3, TakeAllFacts DEF TakeInputs
  <2>5. ASSUME NEW w \in Client PROVE taken'[d][w] >= FeeOwed(d, w)
    <3>1. taken[d][w] >= FeeOwed(d, w)
      BY <2>1 DEF ChargeInv, JobCharged
    <3>2. InputAmounts(d)[w] \in Nat /\ FeeOwed(d, w) \in Nat /\ w \in Wallet
      BY <2>2, <2>3, ClientFacts, ShareFacts DEF Amounts
    <3> QED BY <2>2, <2>4, <3>1, <3>2
  <2> QED BY <2>1, <2>2, <2>4, <2>5, NoneAssumption, JobCharges
<1>7. ASSUME PayOutputs(j) PROVE Goal
  <2> DEFINE d == doing[j]
  <2>1. /\ step[j] = "pay" /\ step'[j] = "admit" /\ doing' = doing
        /\ \A i \in Job \ {j} : step'[i] = step[i] /\ signer'[i] = signer[i]
        /\ UNCHANGED <<blockVars, marked, ready>>
    BY <1>7 DEF PayOutputs, Goto, IInv, TypeOK
  <2>2. /\ d \in Txn \ marked /\ \A i \in Job \ {j} : doing[i] # d
        /\ \A w \in Client : added[d][w] = 0 /\ Outputs[d][w] \in Nat
    BY <2>1, BusyJob
  <2>3. Outputs[d] \in Amounts
    BY <2>2, OutputsAssumption DEF Amounts
  <2>4. /\ taken' = taken /\ \A u \in Txn \ {d} : added'[u] = added[u]
        /\ \A w \in Wallet : added'[d][w] = added[d][w] + Outputs[d][w]
    BY <1>0, <1>7, <2>1, <2>2, <2>3, AddAllFacts DEF PayOutputs
  <2>5. \A w \in Client : added'[d][w] <= Outputs[d][w]
    BY <2>2, <2>4, ClientFacts
  <2>6. \A w \in Client : taken'[d][w] >= FeeOwed(d, w)
    BY <2>1, <2>4 DEF ChargeInv, JobCharged
  <2> QED BY <2>1, <2>2, <2>4, <2>5, <2>6, NoneAssumption, JobCharges
<1> QED BY <1>1, <1>2, <1>3, <1>4, <1>5, <1>6, <1>7 DEF JobStep, CheckFunds, TakeInputs

(* Every step keeps the charges, until a restart.                          *)
LEMMA ChargeStep == ASSUME IInv, ChargeInv, [Next]_vars PROVE ChargeInv'
<1> USE DEF jobVars, recordVars, blockVars
<1> DEFINE Goal == QueueCharged' /\ NotPaidYet' /\ JobCharged' /\ CountedCharged'
<1> SUFFICES ASSUME restarts' = 0 PROVE Goal
  BY DEF ChargeInv
<1>0. TypeOK /\ PhaseInv
  BY DEF IInv
<1>1. CASE Restart
  BY <1>0, <1>1 DEF Restart, TypeOK
<1>2. restarts = 0 \/ Restart
  BY DEF Next, JobStep, MakeBlock, Submit, TakeFee, RefuseFee, CreditFee, CheckFunds, TakeInputs,
         PayOutputs, Admit, StartBlock, Replay, StoreTemp, WriteBlock, StoreWallets, Done, vars
<1>3. SUFFICES ASSUME restarts = 0 PROVE Goal
  BY <1>1, <1>2
<1>4. QueueCharged /\ NotPaidYet /\ JobCharged /\ CountedCharged
  BY <1>3 DEF ChargeInv
(* Nothing but the state of the producer changes, and nothing is newly     *)
(* counted or queued.                                                      *)
<1>5. ASSUME UNCHANGED <<recordVars, jobVars, marked, dropped>>,
             ready' \cup todo' \subseteq ready \cup todo, Counted' = Counted,
             \A w \in Wallet : Latest(w)' = Latest(w)
      PROVE  Goal
  <2>1. QueueCharged'
    BY <1>4, <1>5 DEF QueueCharged, FeeOwed, FeeShare
  <2>2. NotPaidYet'
    BY <1>4, <1>5 DEF NotPaidYet
  <2>3. JobCharged'
    BY <1>4, <1>5 DEF JobCharged, FeeOwed, FeePaid, FeeShare
  <2>4. \A w \in Client : /\ FeesOwed(w, Counted \ dropped)' = FeesOwed(w, Counted \ dropped)
                         /\ Received(w, Counted)' = Received(w, Counted)
    BY <1>5 DEF FeesOwed, FeeShare, Received
  <2>5. CountedCharged'
    BY <1>4, <1>5, <2>4, ClientFacts DEF CountedCharged
  <2> QED BY <2>1, <2>2, <2>3, <2>5
<1>6. ASSUME NEW j \in Job, Admit(j) PROVE Goal
  <2> DEFINE d == doing[j]
  <2>1. /\ step[j] = "admit" /\ step' = [step EXCEPT ![j] = "idle"]
        /\ doing' = [doing EXCEPT ![j] = None] /\ signer' = [signer EXCEPT ![j] = 0]
        /\ ready' = ready \cup {d} /\ marked' = marked \cup {d}
        /\ UNCHANGED <<recordVars, blockVars>>
    BY <1>6 DEF Admit, Leave
  <2>2. d \in Txn \ marked /\ \A i \in Job \ {j} : doing[i] # d
    BY <1>3, <2>1, BusyJob
  <2>3. \A w \in Client : taken[d][w] >= FeeOwed(d, w) /\ added[d][w] <= Outputs[d][w]
    BY <1>4, <2>1 DEF JobCharged
  <2>4. QueueCharged'
    BY <1>4, <2>1, <2>3 DEF QueueCharged, FeeOwed, FeeShare
  <2>5. NotPaidYet'
    <3> SUFFICES ASSUME NEW t \in Txn \ marked', NEW w \in Client,
                        \A i \in Job : doing'[i] = t => step'[i] # "admit"
                 PROVE  added[t][w] = 0
      BY <2>1 DEF NotPaidYet
    <3>1. t \in Txn \ marked /\ t # d
      BY <2>1
    <3>2. \A i \in Job : doing[i] = t => step[i] # "admit"
      BY <1>0, <2>1, <3>1 DEF TypeOK
    <3> QED BY <1>4, <3>1, <3>2 DEF NotPaidYet
  <2>6. JobCharged'
    <3> SUFFICES ASSUME NEW i \in Job, NEW w \in Client
        PROVE /\ step'[i] = "fee" => taken'[doing'[i]][w] >= FeePaid(doing'[i], w, signer'[i] - 1)
              /\ step'[i] = "credit" => taken'[doing'[i]][w] >= FeePaid(doing'[i], w, signer'[i])
              /\ step'[i] \in {"check", "take", "pay", "admit"} =>
                    taken'[doing'[i]][w] >= FeeOwed(doing'[i], w)
              /\ step'[i] = "admit" => added'[doing'[i]][w] <= Outputs[doing'[i]][w]
      BY DEF JobCharged, FeeOwed, FeeShare, FeePaid
    <3>1. CASE i = j
      BY <1>0, <2>1, <3>1 DEF TypeOK
    <3>2. CASE i # j
      BY <1>0, <1>4, <2>1, <3>2 DEF TypeOK, JobCharged
    <3> QED BY <3>1, <3>2
  <2>7. CountedCharged'
    BY <1>4, <2>1 DEF CountedCharged, Counted, Latest, FeesOwed, FeeShare, Received
  <2> QED BY <2>4, <2>5, <2>6, <2>7
<1>7. ASSUME Replay PROVE Goal
  <2>1. PICK t \in todo :
           /\ todo' = todo \ {t}
           /\ blockBal' = Replayed(t)
           /\ dropped' = IF \A w \in Wallet : Covered(t, w) THEN dropped ELSE dropped \cup {t}
           /\ added' = [added EXCEPT ![t] = NoRecord[t]]
           /\ taken' = [taken EXCEPT ![t] = NoRecord[t]]
    BY <1>7 DEF Replay
  <2>2. /\ t \in Txn /\ t \in marked /\ t \notin ready /\ phase = "replay" /\ t \notin Counted
        /\ UNCHANGED <<jobVars, marked, ready, block, chain, tempBal, wallets>>
    BY <1>0, <1>7 DEF Replay, TypeOK, PhaseInv, Counted
  <2>3. /\ \A u \in Txn \ {t} : added'[u] = added[u] /\ taken'[u] = taken[u]
        /\ \A w \in Wallet : added'[t][w] = 0
    BY <1>0, <2>1, <2>2 DEF TypeOK, NoRecord
  <2>4. QueueCharged'
    <3>1. ready' \cup todo' \subseteq (ready \cup todo) \ {t} /\ ready \cup todo \subseteq Txn
      BY <1>0, <2>1, <2>2 DEF TypeOK
    <3> QED BY <1>4, <2>3, <3>1 DEF QueueCharged, FeeOwed, FeeShare
  <2>5. NotPaidYet'
    BY <1>4, <2>2, <2>3 DEF NotPaidYet
  <2>6. \A j \in Job : step[j] # "idle" => doing[j] \in Txn \ {t}
    BY <1>0, <2>2 DEF TypeOK, IInv, JobInv
  <2>7. JobCharged'
    <3> SUFFICES ASSUME NEW i \in Job, NEW w \in Client
        PROVE /\ step[i] = "fee" => taken'[doing[i]][w] >= FeePaid(doing[i], w, signer[i] - 1)
              /\ step[i] = "credit" => taken'[doing[i]][w] >= FeePaid(doing[i], w, signer[i])
              /\ step[i] \in {"check", "take", "pay", "admit"} =>
                    taken'[doing[i]][w] >= FeeOwed(doing[i], w)
              /\ step[i] = "admit" => added'[doing[i]][w] <= Outputs[doing[i]][w]
      BY <2>2 DEF JobCharged, FeeOwed, FeeShare, FeePaid
    <3> QED BY <1>4, <2>3, <2>6 DEF JobCharged
  <2>8. Counted' = Counted \cup {t} /\ Counted \in SUBSET Txn /\ dropped \subseteq Counted
    BY <1>0, <1>4, <2>1, <2>2 DEF Counted, TypeOK, CountedCharged
  <2>9. ASSUME NEW w \in Client
        PROVE  Latest(w)' + FeesOwed(w, Counted' \ dropped') <= Genesis[w] + Received(w, Counted')
    <3>1. /\ Latest(w)' = Latest(w) + added[t][w] - (IF Covered(t, w) THEN taken[t][w] ELSE 0)
          /\ Latest(w) \in Nat /\ added[t][w] \in Nat /\ taken[t][w] \in Nat
      BY <1>0, <2>1, <2>2, ClientFacts, ReplayFacts, CreditNat, LatestNat
    <3>2. /\ taken[t][w] >= FeeOwed(t, w) /\ added[t][w] <= Outputs[t][w]
          /\ Latest(w) + FeesOwed(w, Counted \ dropped) <= Genesis[w] + Received(w, Counted)
      BY <1>4 DEF QueueCharged, CountedCharged
    <3>3. /\ Received(w, Counted') = Received(w, Counted) + Outputs[t][w]
          /\ Received(w, Counted) \in Nat /\ Outputs[t][w] \in Nat /\ Genesis[w] \in Nat
      BY <2>2, <2>8, ClientFacts, OwedMore, OutputsAssumption, GenesisAssumption
    <3>4. /\ Counted \ dropped \in SUBSET Txn /\ t \in Txn \ (Counted \ dropped)
          /\ FeeOwed(t, w) \in Nat /\ FeesOwed(w, Counted \ dropped) \in Nat
          /\ FeesOwed(w, (Counted \ dropped) \cup {t}) = FeesOwed(w, Counted \ dropped) + FeeOwed(t, w)
      <4> DEFINE S == Counted \ dropped
      <4>1. S \in SUBSET Txn /\ t \in Txn \ S
        BY <2>2, <2>8
      <4> HIDE DEF S
      <4>2. FeeOwed(t, w) \in Nat /\ FeesOwed(w, S) \in Nat
        BY <2>2, <4>1, ClientFacts, ShareFacts, OwedMore
      <4>3. FeesOwed(w, S \cup {t}) = FeesOwed(w, S) + FeeOwed(t, w)
        BY <4>1, ClientFacts, OwedMore
      <4> QED BY <4>1, <4>2, <4>3 DEF S
    <3>5. CASE \A v \in Wallet : Covered(t, v)
      <4>1. Counted' \ dropped' = (Counted \ dropped) \cup {t} /\ Covered(t, w)
        BY <2>1, <2>2, <2>8, <3>5, ClientFacts
      <4>2. FeesOwed(w, Counted' \ dropped') = FeesOwed(w, Counted \ dropped) + FeeOwed(t, w)
        BY <3>4, <4>1
      <4>3. Latest(w)' = Latest(w) + added[t][w] - taken[t][w]
        BY <3>1, <4>1
      <4> QED BY <3>1, <3>2, <3>3, <3>4, <4>2, <4>3
    <3>6. CASE ~(\A v \in Wallet : Covered(t, v))
      <4>1. Counted' \ dropped' = Counted \ dropped
        BY <2>1, <2>2, <2>8, <3>6
      <4>2. FeesOwed(w, Counted' \ dropped') = FeesOwed(w, Counted \ dropped)
        BY <4>1
      <4>3. Latest(w)' <= Latest(w) + added[t][w] /\ Latest(w)' \in Int
        BY <3>1
      <4> QED BY <3>1, <3>2, <3>3, <3>4, <4>2, <4>3
    <3> QED BY <3>5, <3>6
  <2>10. dropped' \subseteq Counted'
    BY <2>1, <2>8
  <2>11. CountedCharged'
    <3>1. \A w \in Client : /\ FeesOwed(w, Counted \ dropped)' = FeesOwed(w, Counted' \ dropped')
                           /\ Received(w, Counted)' = Received(w, Counted')
      BY DEF FeesOwed, FeeShare, Received
    <3> QED BY <2>9, <2>10, <3>1 DEF CountedCharged
  <2> QED BY <2>4, <2>5, <2>7, <2>11
<1>8. ASSUME StartBlock PROVE Goal
  <2>1. ready' \cup todo' \subseteq ready \cup todo /\ Counted' = Counted
    BY <1>0, <1>8 DEF StartBlock, PhaseInv, Counted
  <2> QED BY <1>5, <1>8, <2>1 DEF StartBlock, Latest
<1>9. ASSUME StoreTemp PROVE Goal
  <2>1. ready' \cup todo' \subseteq ready \cup todo /\ Counted' = Counted
    BY <1>9 DEF StoreTemp, Counted
  <2> QED BY <1>0, <1>5, <1>9, <2>1, StoreTempFacts DEF StoreTemp
<1>10. ASSUME WriteBlock PROVE Goal
  <2>1. ready' \cup todo' \subseteq ready \cup todo /\ Counted' = Counted
    BY <1>0, <1>10 DEF WriteBlock, PhaseInv, Counted
  <2> QED BY <1>5, <1>10, <2>1 DEF WriteBlock, Latest
<1>11. ASSUME StoreWallets PROVE Goal
  <2>1. ready' \cup todo' \subseteq ready \cup todo /\ Counted' = Counted
    BY <1>0, <1>11 DEF StoreWallets, PhaseInv, Counted
  <2> QED BY <1>0, <1>5, <1>11, <2>1, StoreWalletsFacts DEF StoreWallets
<1>12. CASE UNCHANGED vars
  BY <1>5, <1>12 DEF vars, Counted, Latest
<1> QED
  <2>1. ASSUME NEW j \in Job, JobStep(j) PROVE Goal
    BY <1>3, <1>6, <2>1, JobChargeStep
  <2> QED BY <1>1, <1>7, <1>8, <1>9, <1>10, <1>11, <1>12, <2>1 DEF Next, MakeBlock, Done

(* Nobody is charged for anything at the beginning.                        *)
LEMMA InitCharge == Init => ChargeInv
<1> SUFFICES ASSUME Init PROVE QueueCharged /\ NotPaidYet /\ JobCharged /\ CountedCharged
  BY DEF ChargeInv
<1>1. QueueCharged /\ NotPaidYet /\ JobCharged
  BY ClientFacts DEF Init, QueueCharged, NotPaidYet, JobCharged, NoRecord
<1>2. Counted = {} /\ dropped = {} /\ Counted \ dropped = {}
  BY DEF Init, Counted
<1>3. \A w \in Client : FeesOwed(w, {}) = 0 /\ Received(w, {}) = 0
  BY SumEmpty DEF FeesOwed, Received
<1>4. \A w \in Client : Latest(w) = Genesis[w] /\ Genesis[w] \in Nat
  BY ClientFacts, GenesisAssumption DEF Init, Latest, NoEntry
<1>5. CountedCharged
  BY <1>2, <1>3, <1>4 DEF CountedCharged
<1> QED BY <1>1, <1>5

(* A client has paid for every stored transaction that it signed: the fees *)
(* are in the stored balances, whatever jobs and producer do at the same   *)
(* time and whichever transactions failed, but for debits that a replay    *)
(* has dropped, until the node restarts.                                   *)
THEOREM ClientsCharged == Spec => []ChainCharged
<1>1. Init => IInv /\ ChargeInv
  BY InitInv, InitCharge
<1>2. IInv /\ ChargeInv /\ [Next]_vars => IInv' /\ ChargeInv'
  BY StepInv, ChargeStep
<1>3. ASSUME IInv, ChargeInv PROVE ChainCharged
  <2> SUFFICES ASSUME phase = "idle", restarts = 0, NEW w \in Client
               PROVE  wallets[w] + FeesOwed(w, chain \ dropped) <= Genesis[w] + Received(w, chain)
    BY DEF ChainCharged
  <2>1. Counted = chain /\ Latest(w) = wallets[w]
    <3>1. block = {} /\ blockBal = NoEntry /\ tempBal = NoEntry
      BY <1>3 DEF IInv, PhaseInv
    <3> QED BY <3>1, ClientFacts DEF Counted, Latest, NoEntry
  <2> QED BY <1>3, <2>1 DEF ChargeInv, CountedCharged
<1> QED BY <1>1, <1>2, <1>3, PTL DEF Spec
=============================================================================
