------------------------------ MODULE Ledger ------------------------------
(***************************************************************************)
(* The balances of a validator.  Coin transactions are pre-processed by    *)
(* concurrent jobs against running balances: every signer pays its share   *)
(* of the base fee, then the inputs are taken and the outputs paid, each   *)
(* change also recorded under the transaction's hash.  The block producer  *)
(* later replays the records of a block's transactions, in the order of    *)
(* their keys, on the stored balances.                                     *)
(*                                                                         *)
(* The balance tracker holds a mutex in each of its calls, so a call is a  *)
(* step; a job's step names the next call.  Nonces and the pool's other    *)
(* databases are the subject of TxnPool; interface fees, contract fees,    *)
(* allowances and the other transaction types are left out.                *)
(*                                                                         *)
(* A definition whose name ends in "Faulty" is a variant with a plausible  *)
(* mistake, not part of the model.                                         *)
(***************************************************************************)
EXTENDS Fees, FiniteSets, Functions

CONSTANTS
    Txn,          \* coin transactions, each named by its hash
    Wallet,       \* wallets of the base currency, those below included
    Placeholder,  \* where a proposer's part of the fees is kept until there is one
    FeeAddress,   \* where this node, as proposer, gets it
    Foundation,   \* the treasury wallet
    Burn,         \* the burn wallet
    Inputs,       \* Inputs[t]: the signers in order, each with its wallet, share of
                  \* the fee and amount
    Outputs,      \* Outputs[t][w]: what t pays to w
    KeyRank,      \* the order of the transactions' keys
    Genesis,      \* the first balances
    Job,          \* requests the node can be handling at the same time
    None,         \* no transaction, no entry
    MaxRestarts   \* bound: how often the node restarts

Amount == 0 .. Modulus - 1

(* The placeholder is no address: no key signs for it.                     *)
Signer == [wallet : Wallet \ {Placeholder}, fee : Amount, amount : Amount]

ASSUME TxnAssumption == IsFiniteSet(Txn)
ASSUME WalletAssumption ==
    /\ IsFiniteSet(Wallet)
    /\ {Placeholder, FeeAddress, Foundation, Burn} \subseteq Wallet
    /\ Placeholder \notin {FeeAddress, Foundation, Burn} /\ Foundation # Burn
ASSUME InputsAssumption == Inputs \in [Txn -> Seq(Signer)] /\ \A t \in Txn : Inputs[t] # <<>>
ASSUME OutputsAssumption == Outputs \in [Txn -> [Wallet -> Nat]]
ASSUME KeyRankAssumption ==
    /\ KeyRank \in [Txn -> Nat]
    /\ \A t, u \in Txn : KeyRank[t] = KeyRank[u] => t = u
ASSUME GenesisAssumption == Genesis \in [Wallet -> Nat]
ASSUME NoneAssumption == None \notin Txn /\ None \notin Nat
ASSUME MaxRestartsAssumption == MaxRestarts \in Nat

VARIABLES
    wallets,   \* db_wallets: the balances after the last stored block
    running,   \* db_processed_wallets: running balances, None for no entry
    added,     \* added[t][w]: the ADD_BALANCE_ record of t
    taken,     \* taken[t][w]: the SUB_BALANCE_ record of t
    step,      \* step[j]: what the job does next
    doing,     \* doing[j]: the transaction of the job
    signer,    \* signer[j]: the signer whose fee is next
    marked,    \* db_block_txns: transactions that must not be taken again
    ready,     \* db_processed_txns: pre-processed, waiting for a block
    phase,     \* where the block producer is
    block,     \* the transactions of the block being built
    todo,      \* those whose records it has not replayed yet
    blockBal,  \* balance_tracker::block_balances, None for no entry
    tempBal,   \* db_wallets_temp, None for no entry
    chain,     \* transactions in stored blocks
    dropped,   \* history: transactions with a debit that a replay has dropped
    restarts   \* how often the node has restarted

jobVars == <<step, doing, signer>>
recordVars == <<running, added, taken>>
blockVars == <<phase, block, todo, blockBal, tempBal, chain, wallets, dropped>>
vars == <<wallets, running, added, taken, step, doing, signer, marked, ready,
          phase, block, todo, blockBal, tempBal, chain, dropped, restarts>>

Steps == {"idle", "fee", "credit", "check", "take", "pay", "admit"}
Phases == {"idle", "replay", "write", "wallets"}

NoEntry == [w \in Wallet |-> None]
NoRecord == [t \in Txn |-> [w \in Wallet |-> 0]]

TypeOK ==
    /\ wallets \in [Wallet -> Nat]
    /\ running \in [Wallet -> Nat \cup {None}]
    /\ added \in [Txn -> [Wallet -> Nat]]
    /\ taken \in [Txn -> [Wallet -> Nat]]
    /\ step \in [Job -> Steps]
    /\ doing \in [Job -> Txn \cup {None}]
    /\ signer \in [Job -> Nat]
    /\ \A j \in Job : step[j] # "idle" => doing[j] \in Txn
    /\ \A j \in Job : step[j] \in {"fee", "credit"} => signer[j] \in DOMAIN Inputs[doing[j]]
    /\ marked \subseteq Txn
    /\ ready \subseteq Txn
    /\ phase \in Phases
    /\ block \subseteq Txn
    /\ todo \subseteq block
    /\ blockBal \in [Wallet -> Nat \cup {None}]
    /\ tempBal \in [Wallet -> Nat \cup {None}]
    /\ chain \subseteq Txn
    /\ dropped \subseteq Txn
    /\ restarts \in Nat

Init ==
    /\ wallets = Genesis
    /\ running = NoEntry
    /\ added = NoRecord
    /\ taken = NoRecord
    /\ step = [j \in Job |-> "idle"]
    /\ doing = [j \in Job |-> None]
    /\ signer = [j \in Job |-> 0]
    /\ marked = {}
    /\ ready = {}
    /\ phase = "idle"
    /\ block = {}
    /\ todo = {}
    /\ blockBal = NoEntry
    /\ tempBal = NoEntry
    /\ chain = {}
    /\ dropped = {}
    /\ restarts = 0

-----------------------------------------------------------------------------
(* Balances. *)

Total(f) == SumFunctionOnSet(f, Wallet)

(* What a wallet can spend: its running balance, else the stored one.      *)
Running(w) == IF running[w] = None THEN wallets[w] ELSE running[w]

LatestFaulty(w) == IF tempBal[w] # None THEN tempBal[w] ELSE wallets[w]

(* What the block producer has for a wallet so far.                        *)
Latest(w) ==
    IF blockBal[w] # None THEN blockBal[w]
    ELSE IF tempBal[w] # None THEN tempBal[w] ELSE wallets[w]

(* Debits and credits of a transaction: balances and records change alike. *)
TakeAll(t, amount) ==
    /\ running' = [w \in Wallet |->
                      IF amount[w] = 0 THEN running[w] ELSE Running(w) - amount[w]]
    /\ taken' = [taken EXCEPT ![t] = [w \in Wallet |-> @[w] + amount[w]]]
    /\ UNCHANGED added

AddAllFaulty(t, amount) ==
    /\ running' = [w \in Wallet |->
                      IF amount[w] = 0 THEN running[w] ELSE Running(w) + amount[w]]
    /\ added' = [added EXCEPT ![t] = amount]
    /\ UNCHANGED taken

AddAll(t, amount) ==
    /\ running' = [w \in Wallet |->
                      IF amount[w] = 0 THEN running[w] ELSE Running(w) + amount[w]]
    /\ added' = [added EXCEPT ![t] = [w \in Wallet |-> @[w] + amount[w]]]
    /\ UNCHANGED taken

(* Who gets the base fee of a pre-processed transaction.                   *)
FeeCredits(fee) ==
    LET s == BaseSplit(fee)
    IN  [w \in Wallet |-> CASE w = Placeholder -> s.validator
                            [] w = Foundation -> s.foundation
                            [] w = Burn -> s.burn
                            [] OTHER -> 0]

(* What t takes from each wallet as an input.                              *)
InputAmounts(t) ==
    [w \in Wallet |->
        SumFunction([i \in DOMAIN Inputs[t] |->
                        IF Inputs[t][i].wallet = w THEN Inputs[t][i].amount ELSE 0])]

Affordable(amount) == \A w \in Wallet : amount[w] <= Running(w)

WellFormedFaulty(t) ==
    \A i, k \in DOMAIN Inputs[t] : Inputs[t][i].wallet = Inputs[t][k].wallet => i = k

(* No wallet is an input twice, and the outputs are what the inputs are.   *)
WellFormed(t) ==
    /\ \A i, k \in DOMAIN Inputs[t] : Inputs[t][i].wallet = Inputs[t][k].wallet => i = k
    /\ Total(Outputs[t]) = Total(InputAmounts(t))

-----------------------------------------------------------------------------
(* Pre-processing. *)

Goto(j, s) == step' = [step EXCEPT ![j] = s] /\ UNCHANGED <<doing, signer>>

Leave(j) ==
    /\ step' = [step EXCEPT ![j] = "idle"]
    /\ doing' = [doing EXCEPT ![j] = None]
    /\ signer' = [signer EXCEPT ![j] = 0]

(* A transaction that has been refused may come again.                     *)
Submit(j, t) ==
    /\ step[j] = "idle"
    /\ t \notin marked
    /\ \A i \in Job : doing[i] # t
    /\ step' = [step EXCEPT ![j] = "fee"]
    /\ doing' = [doing EXCEPT ![j] = t]
    /\ signer' = [signer EXCEPT ![j] = 1]
    /\ UNCHANGED <<recordVars, blockVars, marked, ready, restarts>>

FeeOf(j) == Inputs[doing[j]][signer[j]].fee

(* The fee of the next signer as an amount per wallet.                     *)
FeeDebit(j) ==
    [w \in Wallet |-> IF w = Inputs[doing[j]][signer[j]].wallet THEN FeeOf(j) ELSE 0]

TakeFee(j) ==
    /\ step[j] = "fee"
    /\ Affordable(FeeDebit(j))
    /\ TakeAll(doing[j], FeeDebit(j))
    /\ Goto(j, "credit")
    /\ UNCHANGED <<blockVars, marked, ready, restarts>>

(* The signer cannot pay: the transaction is refused.  What was taken from *)
(* the signers before it, and recorded, stays.                             *)
RefuseFee(j) ==
    /\ step[j] = "fee"
    /\ ~Affordable(FeeDebit(j))
    /\ Leave(j)
    /\ UNCHANGED <<recordVars, blockVars, marked, ready, restarts>>

(* The recipients' credits are three calls; they commute with every other  *)
(* call, since no signer's balance is among them.                          *)
CreditFee(j) ==
    /\ step[j] = "credit"
    /\ AddAll(doing[j], FeeCredits(FeeOf(j)))
    /\ IF signer[j] < Len(Inputs[doing[j]])
       THEN /\ signer' = [signer EXCEPT ![j] = @ + 1]
            /\ step' = [step EXCEPT ![j] = "fee"]
            /\ UNCHANGED doing
       ELSE Goto(j, "check")
    /\ UNCHANGED <<blockVars, marked, ready, restarts>>

(* validate_wallets looks at the inputs' balances without the mutex.  A    *)
(* transaction that fails from here on is admitted with a failed status.   *)
CheckFunds(j) ==
    /\ step[j] = "check"
    /\ Goto(j, IF WellFormed(doing[j]) /\ Affordable(InputAmounts(doing[j]))
               THEN "take" ELSE "admit")
    /\ UNCHANGED <<recordVars, blockVars, marked, ready, restarts>>

TakeInputsFaulty(j) ==
    /\ step[j] = "take"
    /\ TakeAll(doing[j], InputAmounts(doing[j]))
    /\ Goto(j, "pay")
    /\ UNCHANGED <<blockVars, marked, ready, restarts>>

(* subtract_txn_balance_transfer checks them again, and takes all or none. *)
TakeInputs(j) ==
    /\ step[j] = "take"
    /\ IF Affordable(InputAmounts(doing[j]))
       THEN TakeAll(doing[j], InputAmounts(doing[j])) /\ Goto(j, "pay")
       ELSE UNCHANGED recordVars /\ Goto(j, "admit")
    /\ UNCHANGED <<blockVars, marked, ready, restarts>>

PayOutputs(j) ==
    /\ step[j] = "pay"
    /\ AddAll(doing[j], Outputs[doing[j]])
    /\ Goto(j, "admit")
    /\ UNCHANGED <<blockVars, marked, ready, restarts>>

Admit(j) ==
    /\ step[j] = "admit"
    /\ ready' = ready \cup {doing[j]}
    /\ marked' = marked \cup {doing[j]}
    /\ Leave(j)
    /\ UNCHANGED <<recordVars, blockVars, restarts>>

-----------------------------------------------------------------------------
(* Making a block. *)

(* The walk through the pre-processed transactions takes the first ones in *)
(* key order, all of them unless its time is up.                           *)
StartBlock ==
    /\ phase = "idle"
    /\ \E txns \in SUBSET ready \ {{}} :
          /\ \A t \in txns, u \in ready \ txns : KeyRank[t] <= KeyRank[u]
          /\ block' = txns
          /\ todo' = txns
          /\ ready' = ready \ txns
    /\ phase' = "replay"
    /\ UNCHANGED <<recordVars, jobVars, marked, blockBal, tempBal, chain, wallets,
                   dropped, restarts>>

CreditFaulty(t, w) == IF w = Placeholder THEN 0 ELSE added[t][w]

(* The proposer's part of the fees goes to the node's fee address.         *)
Credit(t, w) ==
    CASE w = Placeholder -> 0
      [] w = FeeAddress -> added[t][w] + added[t][Placeholder]
      [] OTHER -> added[t][w]

CoveredFaulty(t, w) == taken[t][w] < Latest(w) + Credit(t, w)
Covered(t, w) == taken[t][w] <= Latest(w) + Credit(t, w)

Replayed(t) ==
    [w \in Wallet |->
        IF Credit(t, w) = 0 /\ taken[t][w] = 0 THEN blockBal[w]
        ELSE Latest(w) + Credit(t, w) - (IF Covered(t, w) THEN taken[t][w] ELSE 0)]

(* add_temp_wallet_balance: a transaction's credits, then its debits.  A   *)
(* debit that the balance does not cover is dropped.  The records go.      *)
Replay ==
    /\ phase = "replay"
    /\ \E t \in todo :
          /\ \A u \in todo : KeyRank[t] <= KeyRank[u]
          /\ todo' = todo \ {t}
          /\ blockBal' = Replayed(t)
          /\ dropped' = IF \A w \in Wallet : Covered(t, w) THEN dropped ELSE dropped \cup {t}
          /\ added' = [added EXCEPT ![t] = NoRecord[t]]
          /\ taken' = [taken EXCEPT ![t] = NoRecord[t]]
    /\ UNCHANGED <<running, jobVars, marked, ready, phase, block, tempBal, chain,
                   wallets, restarts>>

StoreTemp ==
    /\ phase = "replay"
    /\ todo = {}
    /\ tempBal' = [w \in Wallet |-> IF blockBal[w] = None THEN tempBal[w] ELSE blockBal[w]]
    /\ blockBal' = NoEntry
    /\ phase' = "write"
    /\ UNCHANGED <<recordVars, jobVars, marked, ready, block, todo, chain, wallets, dropped,
                   restarts>>

WriteBlock ==
    /\ phase = "write"
    /\ chain' = chain \cup block
    /\ phase' = "wallets"
    /\ UNCHANGED <<recordVars, jobVars, marked, ready, block, todo, blockBal, tempBal,
                   wallets, dropped, restarts>>

StoreWalletsFaulty ==
    /\ phase = "wallets"
    /\ wallets' = [w \in Wallet |-> IF tempBal[w] = None THEN wallets[w] ELSE tempBal[w]]
    /\ running' = NoEntry
    /\ tempBal' = NoEntry
    /\ block' = {}
    /\ phase' = "idle"
    /\ UNCHANGED <<added, taken, jobVars, marked, ready, todo, blockBal, chain, dropped,
                   restarts>>

StoreWallets ==
    /\ phase = "wallets"
    /\ wallets' = [w \in Wallet |-> IF tempBal[w] = None THEN wallets[w] ELSE tempBal[w]]
    /\ tempBal' = NoEntry
    /\ block' = {}
    /\ phase' = "idle"
    /\ UNCHANGED <<recordVars, jobVars, marked, ready, todo, blockBal, chain, dropped,
                   restarts>>

RestartFaulty ==
    /\ restarts < MaxRestarts
    /\ restarts' = restarts + 1
    /\ step' = [j \in Job |-> "idle"]
    /\ doing' = [j \in Job |-> None]
    /\ signer' = [j \in Job |-> 0]
    /\ ready' = {}
    /\ phase' = "idle"
    /\ block' = {}
    /\ todo' = {}
    /\ blockBal' = NoEntry
    /\ tempBal' = NoEntry
    /\ UNCHANGED <<recordVars, wallets, marked, chain, dropped>>

(* open_dbs empties the databases of running balances, records, ready      *)
(* transactions and temporary balances.                                    *)
Restart ==
    /\ restarts < MaxRestarts
    /\ restarts' = restarts + 1
    /\ running' = NoEntry
    /\ added' = NoRecord
    /\ taken' = NoRecord
    /\ step' = [j \in Job |-> "idle"]
    /\ doing' = [j \in Job |-> None]
    /\ signer' = [j \in Job |-> 0]
    /\ ready' = {}
    /\ phase' = "idle"
    /\ block' = {}
    /\ todo' = {}
    /\ blockBal' = NoEntry
    /\ tempBal' = NoEntry
    /\ UNCHANGED <<wallets, marked, chain, dropped>>

-----------------------------------------------------------------------------
JobStep(j) ==
    \/ \E t \in Txn : Submit(j, t)
    \/ TakeFee(j) \/ RefuseFee(j) \/ CreditFee(j) \/ CheckFunds(j)
    \/ TakeInputs(j) \/ PayOutputs(j) \/ Admit(j)

MakeBlock == StartBlock \/ Replay \/ StoreTemp \/ WriteBlock \/ StoreWallets

(* Everything has been sent and stored.                                    *)
Quiet ==
    /\ phase = "idle"
    /\ ready = {}
    /\ marked = Txn
    /\ \A j \in Job : step[j] = "idle"

Done == Quiet /\ UNCHANGED vars

Next == (\E j \in Job : JobStep(j)) \/ MakeBlock \/ Restart \/ Done

Spec == Init /\ [][Next]_vars

-----------------------------------------------------------------------------
(* Properties. *)

(* What the records of all transactions, or the outputs of some, come to   *)
(* for a wallet.                                                           *)
TotalFor(w, f) == SumFunctionOnSet([t \in Txn |-> f[t][w]], Txn)
Received(w, txns) == SumFunctionOnSet([t \in Txn |-> Outputs[t][w]], txns)

(* The fees that a wallet owes for the given transactions.                 *)
FeeShare(t, w) ==
    [i \in DOMAIN Inputs[t] |-> IF Inputs[t][i].wallet = w THEN Inputs[t][i].fee ELSE 0]
FeesOwed(w, txns) == SumFunctionOnSet([t \in Txn |-> SumFunction(FeeShare(t, w))], txns)

(* Wallets that get no fees.                                               *)
Client == Wallet \ {Placeholder, FeeAddress, Foundation, Burn}

(* The records of a transaction that no job is changing move money and     *)
(* make none: what was taken from its signers went to somebody, also when  *)
(* the transaction failed or was refused after some signers had paid.      *)
RecordsBalanced ==
    \A t \in Txn :
        (\A j \in Job : doing[j] = t => step[j] \notin {"credit", "pay"}) =>
            Total(added[t]) = Total(taken[t])

(* No wallet can spend more than it has in the blocks so far and in the    *)
(* records that are still to be replayed: the running balances, which jobs *)
(* change, and the stored ones, which the block producer changes, do not   *)
(* drift apart in the spender's favour.                                    *)
RunningBacked ==
    \A w \in Wallet \ {Placeholder} :
        Running(w) + TotalFor(w, taken) <= Latest(w) + TotalFor(w, added)

(* When nothing is under way a wallet's running balance is its balance,    *)
(* but for what refused transactions have taken and left in their records, *)
(* and for debits that a replay has dropped.                               *)
(* The fee address is the exception: a proposer's income is credited to    *)
(* its stored balance and the running one is not told.                     *)
RunningUpToDate ==
    phase = "idle" /\ ready = {} /\ dropped = {} /\ (\A j \in Job : step[j] = "idle") =>
        \A w \in Wallet \ {FeeAddress, Placeholder} :
            Running(w) + TotalFor(w, taken) = wallets[w] + TotalFor(w, added)

(* A client has paid the fees of all transactions of stored blocks that it *)
(* signed, also of those that failed, and got no more than the others pay: *)
(* replaying one does not undo another, and the stored balances belong to  *)
(* the chain.  A restart between the two writes loses the debits, and so   *)
(* does a replay that drops them.                                          *)
ChainCharged ==
    phase = "idle" /\ restarts = 0 =>
        \A w \in Client :
            wallets[w] + FeesOwed(w, chain \ dropped) <= Genesis[w] + Received(w, chain)

(* Blocks move money between wallets and make none, unless a debit has     *)
(* been dropped.                                                           *)
SupplyConstant == dropped = {} => Total(wallets) = Total(Genesis)

(* A replay drops a debit only if what it takes has been paid to the       *)
(* wallet by another transaction whose records are still to be replayed:   *)
(* one with a later key in the block, or one that a job had paid but not   *)
(* admitted when the block was started.  Nothing else makes a debit fail   *)
(* that pre-processing has accepted.                                       *)
DroppedIsOwed ==
    [][\A t \in dropped' \ dropped :
          \E u \in Txn \ {t}, i \in DOMAIN Inputs[t] :
             /\ added[u][Inputs[t][i].wallet] > 0
             /\ u \in block => KeyRank[u] > KeyRank[t]]_vars

(* Money is made by one hole only.                                         *)
SupplyConserved == []SupplyConstant /\ DroppedIsOwed

(* The records of a transaction, the running balances and the stored ones, *)
(* which jobs and block producer write one by one and without a common     *)
(* lock, tell the same story whenever they are looked at.                  *)
BalancesAgree == TypeOK /\ RecordsBalanced /\ RunningBacked /\ RunningUpToDate
=============================================================================
