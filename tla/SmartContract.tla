---------------------------- MODULE SmartContract ----------------------------
(***************************************************************************)
(* Execution of smart contracts.                                           *)
(*                                                                         *)
(* The block's maker executes the waiting transactions one after another.  *)
(* A contract runs in a virtual machine that counts its gas; the host      *)
(* functions it calls read and write the contracts' state, call other      *)
(* contracts and create transactions of their own ("children").  What a    *)
(* contract does is its own affair: at each step it may call any host      *)
(* function, return or trap.  The host keeps who is running on whose       *)
(* behalf in one global structure, sender.                                 *)
(*                                                                         *)
(* State is written in db_smart_contracts at once; db_sc_temp keeps the    *)
(* first original of each key, to be put back when the execution fails.    *)
(* Each contract has one key of state, there is one token, and a process   *)
(* that dies starts again with what the databases hold.  A definition      *)
(* whose name ends in "Faulty" is a variant with a plausible mistake.      *)
(***************************************************************************)
EXTENDS Integers, FiniteSetsExt, SequencesExt

CONSTANTS
    Instance,     \* contract instances, each with a wallet of its own
    Missing,      \* instances that do not exist until a transaction makes them
    User,
    Fees,         \* the wallet fees go to
    Txn,          \* records id, user, to, init, nonce, approved
    Payee,        \* wallets contracts pay to
    Value,        \* what a key of state may hold
    NoKey,
    NoWallet,     \* the empty wallet address of a nested call
    FirstBalance, \* FirstBalance[w]
    BaseFee, StorageFee, ChildFee, \* fees, in the token; a unit of gas costs one
    MaxDepth,     \* nested calls of one execution (50 in the code)
    MaxRestarts   \* bound on restarts

Wallet == Instance \union User \union {Fees}

ASSUME ContractAssumption ==
    /\ Missing \subseteq Instance /\ Instance \intersect User = {}
    /\ Payee \subseteq Wallet \ {Fees} /\ NoKey \notin Value
    /\ \A t \in Txn : t.user \in User /\ t.to \in Instance /\ t.init \in BOOLEAN
    /\ \A t \in Txn : t.nonce \in Nat \ {0} /\ t.approved \in Nat /\ t.approved >= BaseFee
    /\ FirstBalance \in [Wallet -> Nat]
    /\ {BaseFee, StorageFee, ChildFee, MaxDepth, MaxRestarts} \subseteq Nat

(* Sums are over finitely many wallets, and nothing is taken for a         *)
(* transaction that is none.                                               *)
ASSUME DistinctAssumption ==
    /\ IsFiniteSet(Wallet)
    /\ \A t \in Txn : DOMAIN t = {"id", "user", "to", "init", "nonce", "approved"}
    /\ NoKey \notin Txn

VARIABLES
    phase,      \* idle, running, how the contract ended: done, failed; then settled, undone
    txn,        \* the transaction in execution
    sender,     \* the host's global structure
    frames,     \* contracts that have called each other, with the machine's gas counters
    children,   \* under the key BLOCK_TXNS_ + hash: children of this execution
    sc,         \* hashes and nonces of children, until the execution ends
    instances,  \* db_smart_contracts: the instances
    store,      \* db_smart_contracts: the contracts' state
    saved,      \* db_sc_temp: originals of the keys written
    due,        \* db_smart_contracts: STORAGE_FEE_ + instance
    running,    \* db_processed_wallets
    nonce,      \* db_preprocessed_nonce
    balance,    \* db_wallets
    used,       \* used_nonce: nonces of the block's transactions
    stored,     \* db_wallet_nonce
    waiting,    \* db_transactions
    marks,      \* db_block_txns
    block,      \* the block being made: its transactions, new instances, children, hashes
    record,     \* a transaction's own debits and credits, by its hash
    restarts,
    history     \* what the properties compare with; no step depends on it

databases == <<instances, store, saved, due, balance, stored, waiting, marks>>
machine == <<sender, frames, children, sc>>
vars == <<phase, txn, machine, databases, running, nonce, used, block, record, restarts, history>>

Unsaved == [i \in Instance |-> <<>>]       \* otherwise a sequence of one value
Nothing == [w \in Wallet |-> 0]
NoChildren == [hashes |-> <<>>, nonces |-> [w \in Wallet |-> 0]]
EmptyBlock == [txns |-> <<>>, made |-> {}, children |-> {}, hashes |-> <<>>]
Nobody == [wallet |-> NoWallet, called |-> NoWallet, current |-> NoWallet, payer |-> NoWallet,
           chain |-> <<>>, depth |-> 0, available |-> 0, used |-> 0]

Init ==
    /\ phase = "idle" /\ txn = NoKey
    /\ sender = Nobody /\ frames = <<>> /\ children = {} /\ sc = NoChildren
    /\ instances = Instance \ Missing
    /\ store = [i \in Instance |-> NoKey] /\ saved = Unsaved
    /\ due = [i \in Instance |-> 0]
    /\ running = FirstBalance /\ balance = FirstBalance
    /\ nonce = Nothing /\ stored = Nothing /\ used = Nothing
    /\ waiting = Txn /\ marks = {}
    /\ block = EmptyBlock
    /\ record = [t \in Txn |-> Nothing]
    /\ restarts = 0
    /\ history = [good |-> store, gas |-> 0, torn |-> FALSE, drift |-> FALSE,
                  unpaid |-> FALSE, chain |-> {}]

Top == Len(frames)
Cost(fs) == SumFunction([k \in DOMAIN fs |-> fs[k].cost])
Shift(f, from, to, n) == [[f EXCEPT ![from] = @ - n] EXCEPT ![to] = @ + n]
-----------------------------------------------------------------------------
(* The start of a transaction.                                             *)

(* Base fee and gas deposit: what the sender has approved beyond the fee   *)
(* is kept back while the contract runs, and limits its gas.               *)
fee_left(t) == t.approved - BaseFee
gas_limit_calcFaulty(t) == 0
gas_limit_calc(t) == fee_left(t)

Refused(t) ==
    \/ t \in marks
    \/ t.nonce # nonce[t.user] + 1
    \/ running[t.user] < BaseFee

Refuse(t) ==
    /\ phase = "idle" /\ t \in waiting /\ Refused(t)
    /\ waiting' = waiting \ {t}
    /\ UNCHANGED <<phase, txn, machine, instances, store, saved, due, balance, stored, marks,
                   running, nonce, used, block, record, restarts, history>>

Executable(t) == t.init # (t.to \in instances)

(* eval: the host's structure and the machine of the first contract.       *)
eval(t) ==
    /\ sender' = [wallet |-> t.user, called |-> t.to, current |-> t.to, payer |-> t.to,
                  chain |-> <<t.to>>, depth |-> 0, available |-> fee_left(t), used |-> 0]
    /\ frames' = <<[code |-> t.to, how |-> "first", cost |-> 0, limit |-> fee_left(t),
                    back |-> Nobody]>>

(* A transaction begins.  When its instance or the deposit is missing it   *)
(* has failed; only the base fee is due.                                   *)
Begin(t) ==
    LET charged == Shift(running, t.user, Fees, BaseFee)
        deposit == charged[t.user] >= fee_left(t)
    IN
    /\ phase = "idle" /\ t \in waiting /\ ~ Refused(t)
    /\ txn' = t
    /\ children' = {}
    /\ record' = [record EXCEPT ![t] = Shift(Nothing, t.user, Fees, BaseFee)]
    /\ IF deposit /\ Executable(t)
       THEN /\ phase' = "running"
            /\ running' = [charged EXCEPT ![t.user] = @ - gas_limit_calc(t)]
            /\ eval(t)
       ELSE /\ phase' = "undone"
            /\ running' = charged
            /\ UNCHANGED <<sender, frames>>
    /\ history' = [history EXCEPT !.gas = 0]
    /\ UNCHANGED <<sc, databases, nonce, used, block, restarts>>
-----------------------------------------------------------------------------
(* The machine.  Whatever a contract does costs it a unit of gas.          *)

SpentFaulty == frames
Spent == [frames EXCEPT ![Top].cost = @ + 1]
MaySpend == phase = "running" /\ frames[Top].cost < frames[Top].limit

(* A host function that changes neither state, balances nor nonces: reads  *)
(* of state, wallets, contracts and levels of compliance.                  *)
Query ==
    /\ MaySpend
    /\ frames' = Spent
    /\ UNCHANGED <<phase, txn, sender, children, sc, databases, running, nonce, used, block, record,
                   restarts, history>>

(* Storage is charged to the wallet of the contract first called; what is  *)
(* due adds up under a key of that instance.                               *)
storage_feesUnchecked(n) ==
    /\ running' = [running EXCEPT ![sender.payer] = @ - n]
    /\ due' = [due EXCEPT ![sender.payer] = @ + n]
    /\ record' = [record EXCEPT ![txn][sender.payer] = @ - n]
storage_feesFaulty(n) ==
    /\ running[sender.payer] >= n
    /\ running' = [running EXCEPT ![sender.payer] = @ - n]
    /\ due' = [due EXCEPT ![sender.current] = @ + n]
    /\ record' = [record EXCEPT ![txn][sender.payer] = @ - n]
storage_fees(n) ==
    /\ running[sender.payer] >= n
    /\ running' = [running EXCEPT ![sender.payer] = @ - n]
    /\ due' = [due EXCEPT ![sender.payer] = @ + n]
    /\ record' = [record EXCEPT ![txn][sender.payer] = @ - n]

SaveFaulty(i) == [saved EXCEPT ![i] = <<store[i]>>]
Save(i) == IF saved[i] = <<>> THEN [saved EXCEPT ![i] = <<store[i]>>] ELSE saved

StoreState(v) ==
    /\ MaySpend
    /\ frames' = Spent
    /\ storage_fees(IF store[sender.current] = NoKey THEN StorageFee ELSE 0)
    /\ saved' = Save(sender.current)
    /\ store' = [store EXCEPT ![sender.current] = v]
    /\ UNCHANGED <<phase, txn, sender, children, sc, instances, balance, stored, waiting, marks,
                   nonce, used, block, restarts, history>>

ClearState ==
    /\ MaySpend
    /\ frames' = Spent
    /\ saved' = Save(sender.current)
    /\ store' = [store EXCEPT ![sender.current] = NoKey]
    /\ UNCHANGED <<phase, txn, sender, children, sc, instances, due, balance, stored, waiting, marks,
                   running, nonce, used, block, record, restarts, history>>

Emit ==
    /\ MaySpend
    /\ frames' = Spent
    /\ storage_fees(StorageFee)
    /\ UNCHANGED <<phase, txn, sender, children, sc, instances, store, saved, balance, stored,
                   waiting, marks, nonce, used, block, restarts, history>>

(* The machine of a called contract may use what is left after the cost of *)
(* the caller, and the caller afterwards what is left after that.          *)
runCallFaulty(i, how, back) ==
    Append(Spent, [code |-> i, how |-> how, cost |-> 0, limit |-> sender.available, back |-> back])
runCall(i, how, back) ==
    Append(Spent, [code |-> i, how |-> how, cost |-> 0, back |-> back,
                   limit |-> sender.available - Spent[Top].cost])

CallableFrom(i) == MaySpend /\ sender.depth < MaxDepth /\ i \in instances

(* Call: the callee runs on its own behalf, without the sender.            *)
CallContextFaulty(s, i) == [s EXCEPT !.called = i, !.current = i, !.chain = <<i>>]
CallContext(s, i) == [s EXCEPT !.wallet = NoWallet, !.called = i, !.current = i, !.chain = <<i>>]

Call(i) ==
    LET deeper == [sender EXCEPT !.depth = @ + 1] IN
    /\ CallableFrom(i)
    /\ frames' = runCall(i, "call", deeper)
    /\ sender' = [CallContext(deeper, i) EXCEPT !.available = @ - Spent[Top].cost]
    /\ UNCHANGED <<phase, txn, children, sc, databases, running, nonce, used, block, record,
                   restarts, history>>

(* DelegateCall: the callee joins those the caller runs on behalf of.      *)
DelegateCall(i) ==
    /\ CallableFrom(i)
    /\ frames' = runCall(i, "delegate", sender)
    /\ sender' = [sender EXCEPT !.depth = @ + 1, !.available = @ - Spent[Top].cost,
                                !.chain = Append(@, i), !.current = i]
    /\ UNCHANGED <<phase, txn, children, sc, databases, running, nonce, used, block, record,
                   restarts, history>>

(* The context after a nested call: a copy from before it, but for gas and *)
(* depth; or, of a delegate call, what it changed is changed back.         *)
CallReturnsFaulty(f) == sender
CallReturns(f) == [f.back EXCEPT !.depth = sender.depth]
DelegateCallReturns(f) == [sender EXCEPT !.chain = Front(@), !.current = f.back.current]

Return ==
    LET f == frames[Top] IN
    /\ phase = "running" /\ f.cost <= f.limit
    /\ IF f.how = "first"
       THEN /\ phase' = "done"
            /\ history' = [history EXCEPT !.gas = f.cost + sender.used]
            /\ UNCHANGED <<sender, frames>>
       ELSE LET s == IF f.how = "call" THEN CallReturns(f) ELSE DelegateCallReturns(f)
                left == sender.available - f.cost
            IN
            /\ sender' = [s EXCEPT !.available = left, !.used = sender.used + f.cost]
            /\ frames' = [Front(frames) EXCEPT ![Top - 1].limit = left]
            /\ UNCHANGED <<phase, history>>
    /\ UNCHANGED <<txn, children, sc, databases, running, nonce, used, block, record, restarts>>

(* A trap, or a host function that fails, ends the machine and through its *)
(* callers the whole execution.  A machine out of gas has used its limit.  *)
Trap ==
    LET last == IF MaySpend THEN frames[Top].cost ELSE frames[Top].limit IN
    /\ phase = "running"
    /\ phase' = "failed"
    /\ history' = [history EXCEPT !.gas = sender.used + last + Cost(Front(frames))]
    /\ UNCHANGED <<txn, machine, databases, running, nonce, used, block, record, restarts>>
-----------------------------------------------------------------------------
(* Children.  A child has a type, a payer, a nonce, a recipient and an     *)
(* amount, and the hash of these; "note" is the nonce that is noted for    *)
(* the wallet of the called contract.  A child is refused, or charged the  *)
(* fee and has failed, or does what it says.                               *)

Child(type, payer, n, to, a) ==
    [type |-> type, payer |-> payer, nonce |-> n, to |-> to, amount |-> a]

Fits(c) ==
    /\ c.payer # NoWallet /\ c \notin marks
    /\ c.nonce = nonce[c.payer] + 1
    /\ running[c.payer] >= ChildFee

Move(f, c, ok) ==
    LET charged == Shift(f, c.payer, Fees, ChildFee)
    IN  IF ok /\ c.amount > 0 THEN Shift(charged, c.payer, c.to, c.amount) ELSE charged

(* Who may be paid for by this code, from the frames alone: the contracts  *)
(* since the last call, and the user if there was none.                    *)
Behalf == CHOOSE k \in 1 .. Top : frames[k].how # "delegate"
                                 /\ \A l \in k + 1 .. Top : frames[l].how = "delegate"
Authority == {frames[k].code : k \in Behalf .. Top}
                \union (IF Behalf = 1 THEN {txn.user} ELSE {})

(* process_txn and unpack_process_wrapper: an outcome, and what is noted.  *)
note_nonceFaulty(c) == nonce
note_nonce(c) == [nonce EXCEPT ![c.payer] = c.nonce]

Process(c, willing, note) ==
    LET ok == willing /\ running[c.payer] >= ChildFee + c.amount IN
    /\ frames' = Spent
    /\ IF Fits(c)
       THEN /\ running' = Move(running, c, ok)
            /\ nonce' = note_nonce(c)
            /\ marks' = marks \union {c}
            /\ children' = children \union {[child |-> c, ok |-> ok, authority |-> Authority]}
            /\ sc' = [hashes |-> Append(sc.hashes, [child |-> c, ok |-> ok]),
                      nonces |-> [sc.nonces EXCEPT ![sender.called] =
                                      IF @ < note THEN note ELSE @]]
       ELSE UNCHANGED <<running, nonce, marks, children, sc>>
    /\ UNCHANGED <<phase, txn, sender, instances, store, saved, due, balance, stored, waiting, used,
                   block, record, restarts, history>>

NextNonce(w) == IF w = NoWallet THEN 1 ELSE nonce[w] + 1

(* Payments of the called contract, of one in the chain, of the current    *)
(* one.  The last looks its nonce up under the instance's name, where none *)
(* is ever stored; with "all", those two take the fee off the input but    *)
(* not off the output, and fail.                                           *)
Send(to, a) == Process(Child("coin", sender.called, NextNonce(sender.called), to, a), TRUE, 0)
SendAll(to) ==
    LET w == sender.called
        a == running[w] - ChildFee
    IN  a > 0 /\ Process(Child("coin", w, NextNonce(w), to, a), TRUE, 0)
DelegateSend(to, a) ==
    \E w \in ToSet(sender.chain) : Process(Child("coin", w, NextNonce(w), to, a), TRUE, 0)
DelegateSendAll(to) ==
    \E w \in ToSet(sender.chain) :
        Process(Child("coin", w, NextNonce(w), to, running[w] - ChildFee), FALSE, 0)
CurrentSend(to, a) == Process(Child("coin", sender.current, 1, to, a), TRUE, 0)
CurrentSendAll(to) ==
    Process(Child("coin", sender.current, 1, to, running[sender.current] - ChildFee), FALSE, 0)

(* Payments of the sender: to anybody, to the called contract, to the      *)
(* current one.                                                            *)
Transfer(to, a) == Process(Child("coin", sender.wallet, NextNonce(sender.wallet), to, a), TRUE, 0)
Hold(a) == Transfer(sender.called, a)
CurrentHold(a) == Transfer(sender.current, a)

(* Children with a nonce of their own: mints, allowances, votes, expense   *)
(* ratios and rates, which may fail for reasons of theirs.  The nonce is   *)
(* noted for the called contract, whoever's it is.                         *)
Own(w, willing) == Process(Child("other", w, NextNonce(w), NoWallet, 0), willing, NextNonce(w))

Mint(willing) == Own(sender.called, willing)
DelegateMint(willing) == \E w \in ToSet(sender.chain) : Own(w, willing)
CurrentMint(willing) == Own(sender.current, willing)
Allowance(willing) == Own(sender.called, willing)
AllowanceSender(willing) == sender.wallet # NoWallet /\ Own(sender.wallet, willing)
Vote(willing) == Own(sender.called, willing)
ExpenseRatio == Own(sender.called, TRUE)
AuthorizedCurrencyEquiv(willing) == Own(sender.called, willing)

(* These two give their children no nonce.                                 *)
AllowanceCurrent == Process(Child("other", sender.current, 0, NoWallet, 0), TRUE, 0)
AllowanceDelegate ==
    \E w \in ToSet(sender.chain) : Process(Child("other", w, 0, NoWallet, 0), TRUE, 0)

Payment ==
    \/ \E to \in Payee : SendAll(to) \/ DelegateSendAll(to) \/ CurrentSendAll(to)
    \/ \E to \in Payee :
          Send(to, 1) \/ DelegateSend(to, 1) \/ CurrentSend(to, 1) \/ Transfer(to, 1)
    \/ Hold(1) \/ CurrentHold(1)

Authorised ==
    \/ \E b \in BOOLEAN :
          \/ Mint(b) \/ DelegateMint(b) \/ CurrentMint(b) \/ Vote(b)
          \/ Allowance(b) \/ AllowanceSender(b) \/ AuthorizedCurrencyEquiv(b)
    \/ AllowanceCurrent \/ AllowanceDelegate \/ ExpenseRatio
-----------------------------------------------------------------------------
(* The end of an execution.                                                *)

AddUsed(u, v) == [w \in Wallet |-> IF u[w] < v[w] THEN v[w] ELSE u[w]]

(* check_execute: the children's hashes and nonces join the block's.       *)
Succeed ==
    /\ phase = "done"
    /\ phase' = "settled"
    /\ block' = [block EXCEPT !.hashes = @ \o sc.hashes, !.children = @ \union children]
    /\ used' = AddUsed(used, sc.nonces)
    /\ sc' = NoChildren
    /\ saved' = Unsaved
    /\ history' = [history EXCEPT !.good = store]
    /\ UNCHANGED <<txn, sender, frames, children, instances, store, due, balance, stored, waiting,
                   marks, running, nonce, record, restarts>>

(* On failure the originals are put back and the children forgotten.  What *)
(* they did to the running balances stays: the list of their hashes is     *)
(* kept in copies of sender.                                               *)
Restored == [i \in Instance |-> IF saved[i] = <<>> THEN store[i] ELSE saved[i][1]]
ForgottenFaulty == sc
Forgotten == NoChildren

Fail ==
    /\ phase = "failed"
    /\ phase' = "undone"
    /\ store' = Restored
    /\ block' = [block EXCEPT !.hashes = @ \o Forgotten.hashes]
    /\ used' = AddUsed(used, Forgotten.nonces)
    /\ sc' = NoChildren
    /\ saved' = Unsaved
    /\ children' = {}
    /\ history' = [history EXCEPT !.drift = @ \/ children # {}]
    /\ UNCHANGED <<txn, sender, frames, instances, due, balance, stored, waiting, marks, running,
                   nonce, record, restarts>>

(* The deposit is given back, storage that is due goes to the fee wallet   *)
(* and the gas is charged; the transaction is in the block, failed or not. *)
(* Without a deposit nothing of this happens.                              *)
Settle ==
    LET ran     == frames # <<>>
        owed    == IF ran \/ running[txn.user] >= fee_left(txn) THEN due[txn.to] ELSE 0
        back    == IF ran THEN [running EXCEPT ![txn.user] = @ + gas_limit_calc(txn)] ELSE running
        stowed  == [back EXCEPT ![Fees] = @ + owed]
        noted   == [record[txn] EXCEPT ![Fees] = @ + owed]
        payable == stowed[txn.user] >= history.gas
        gas     == IF payable THEN history.gas ELSE 0
    IN
    /\ phase \in {"settled", "undone"}
    /\ phase' = "idle"
    /\ running' = Shift(stowed, txn.user, Fees, gas)
    /\ record' = [record EXCEPT ![txn] = Shift(noted, txn.user, Fees, gas)]
    /\ due' = [due EXCEPT ![txn.to] = @ - owed]
    /\ nonce' = [nonce EXCEPT ![txn.user] = txn.nonce]
    /\ used' = AddUsed(used, [Nothing EXCEPT ![txn.user] = txn.nonce])
    /\ marks' = marks \union {txn}
    /\ waiting' = waiting \ {txn}
    /\ block' = [block EXCEPT !.txns = Append(@, txn), !.hashes = Append(@, txn),
                              !.made = @ \union (IF phase = "settled" THEN {txn.to} ELSE {})]
    /\ txn' = NoKey /\ frames' = <<>> /\ sender' = Nobody
    /\ children' = {}
    /\ history' = [history EXCEPT !.unpaid = @ \/ ~ payable, !.gas = 0]
    /\ UNCHANGED <<sc, instances, store, saved, balance, stored, restarts>>
-----------------------------------------------------------------------------
(* Blocks and restarts.                                                    *)

(* What a hash adds to a wallet and what it takes, from the children's own *)
(* amounts and the records of the transactions.                            *)
Added(rec, h, w) ==
    IF h \in Txn THEN IF rec[h][w] > 0 THEN rec[h][w] ELSE 0
    ELSE (IF w = Fees THEN ChildFee ELSE 0) + (IF h.ok /\ w = h.child.to THEN h.child.amount ELSE 0)
TakenFaulty(rec, h, w) ==
    IF h \in Txn THEN IF rec[h][w] < 0 THEN 0 - rec[h][w] ELSE 0
    ELSE IF h.ok /\ w = h.child.payer THEN ChildFee + h.child.amount ELSE 0
Taken(rec, h, w) ==
    IF h \in Txn THEN IF rec[h][w] < 0 THEN 0 - rec[h][w] ELSE 0
    ELSE IF w = h.child.payer THEN ChildFee + (IF h.ok THEN h.child.amount ELSE 0) ELSE 0

(* In the order of the hashes, credits, then debits; a debit that the      *)
(* balance does not cover is dropped.                                      *)
Replay(rec, b, h) ==
    [w \in Wallet |->
        LET more == b[w] + Added(rec, h, w)
        IN  IF more < Taken(rec, h, w) THEN more ELSE more - Taken(rec, h, w)]

add_temp_wallet_balance(rec, b, hashes) == FoldLeft(LAMBDA x, h : Replay(rec, x, h), b, hashes)

StoreBlock ==
    /\ phase = "idle" /\ block # EmptyBlock
    /\ balance' = add_temp_wallet_balance(record, balance, block.hashes)
    /\ stored' = [w \in Wallet |-> IF used[w] = 0 THEN stored[w] ELSE used[w]]
    /\ used' = Nothing
    /\ instances' = instances \union block.made
    /\ block' = EmptyBlock
    /\ record' = [t \in Txn |-> Nothing]
    /\ history' = [history EXCEPT !.chain = @ \union {c.child : c \in block.children}]
    /\ UNCHANGED <<phase, txn, machine, store, saved, due, waiting, marks, running, nonce, restarts>>

(* The process dies, at any time, and starts again.                        *)
Restart ==
    /\ restarts < MaxRestarts
    /\ restarts' = restarts + 1
    /\ phase' = "idle" /\ txn' = NoKey
    /\ sender' = Nobody /\ frames' = <<>> /\ children' = {} /\ sc' = NoChildren
    /\ saved' = Unsaved
    /\ running' = balance /\ nonce' = stored /\ used' = Nothing
    /\ block' = EmptyBlock /\ record' = [t \in Txn |-> Nothing]
    /\ history' = [history EXCEPT !.torn = @ \/ phase # "idle", !.gas = 0]
    /\ UNCHANGED <<instances, store, due, balance, stored, waiting, marks>>

Step ==
    \/ Query \/ (\E v \in Value : StoreState(v)) \/ ClearState \/ Emit
    \/ (\E i \in Instance : Call(i) \/ DelegateCall(i))
    \/ Return \/ Trap \/ (MaySpend /\ (Payment \/ Authorised))
    \/ Succeed \/ Fail \/ Settle

Next == Step \/ (\E t \in Txn : Refuse(t) \/ Begin(t)) \/ StoreBlock \/ Restart

Spec == Init /\ [][Next]_vars
-----------------------------------------------------------------------------
(* Properties.                                                             *)

Hash == [child : {c.child : c \in children \union block.children}, ok : BOOLEAN] \union Txn

(* Every variable has its type; what is due and what is held never falls   *)
(* below nothing, and a key that was saved holds one original.             *)
TypeOK ==
    /\ phase \in {"idle", "running", "done", "failed", "settled", "undone"}
    /\ txn \in Txn \union {NoKey} /\ (txn = NoKey) = (phase = "idle")
    /\ instances \subseteq Instance
    /\ store \in [Instance -> Value \union {NoKey}]
    /\ \A i \in Instance : Len(saved[i]) <= 1
    /\ due \in [Instance -> Nat] /\ running \in [Wallet -> Nat] /\ balance \in [Wallet -> Nat]
    /\ nonce \in [Wallet -> Nat] /\ used \in [Wallet -> Nat] /\ stored \in [Wallet -> Nat]
    /\ waiting \subseteq Txn /\ ToSet(block.hashes) \subseteq Hash
    /\ restarts \in 0 .. MaxRestarts

(* What a failed execution wrote, through however many contracts and calls *)
(* and however often, is undone; what a successful one wrote stays.  A     *)
(* process that dies in the middle may leave half (check_execute,          *)
(* db_sc_temp).                                                            *)
WrittenOrUndone == phase \in {"idle", "settled", "undone"} /\ ~ history.torn => store = history.good

(* However the contracts call each other, the gas charged at the end is    *)
(* never more than the sender has approved for it (runCall, Call, run).    *)
GasWithinLimit == phase \notin {"idle", "running"} => history.gas <= fee_left(txn)

(* The gas can always be charged, whatever contracts took from the         *)
(* sender's wallet meanwhile: the deposit is for that (gas_limit_calc).    *)
GasAlwaysPaid == ~ history.unpaid

(* The host's global structure agrees with the contracts really running:   *)
(* after any nesting of calls and delegate calls and their returns, it     *)
(* names the code in execution, and those it acts for.                     *)
ContextMatchesStack ==
    phase = "running" =>
        /\ sender.current = frames[Top].code
        /\ sender.called = frames[Behalf].code
        /\ sender.chain = [k \in 1 .. Top - Behalf + 1 |-> frames[Behalf + k - 1].code]
        /\ sender.wallet = (IF Behalf = 1 THEN txn.user ELSE NoWallet)

(* No contract spends for a wallet it was not called on behalf of: a       *)
(* nested call does not reach the wallet of the sender.                    *)
ChildAuthorised == \A c \in children \union block.children : c.child.payer \in c.authority

(* The hashes a block commits its balances by are those of the             *)
(* transactions and children in it, none of a failed execution.            *)
HashesMatchBlock ==
    phase = "idle" =>
        ToSet(block.hashes)
            = ToSet(block.txns) \union {[child |-> c.child, ok |-> c.ok] : c \in block.children}

(* Between transactions the running balances are the stored ones and what  *)
(* the block will store, unless an execution failed after it had created   *)
(* children.                                                               *)
BalancesBacked ==
    phase = "idle" /\ ~ history.drift =>
        running = add_temp_wallet_balance(record, balance, block.hashes)

(* Storing a block neither makes nor destroys tokens: what contracts paid  *)
(* for storage reaches the fee wallet exactly once.  A process that dies   *)
(* between the two may leave the amount due, to be credited again; and     *)
(* what a failed execution's children moved is not in the chain, so that   *)
(* a debit that relies on it is dropped.                                   *)
SupplyConserved ==
    ~ history.torn /\ ~ history.drift =>
        SumFunctionOnSet(balance, Wallet) = SumFunctionOnSet(FirstBalance, Wallet)

(* No two children of one contract's wallet in the chain have the same     *)
(* nonce, while the process lives.                                         *)
ContractNonceOnce ==
    restarts = 0 =>
        \A c, d \in history.chain \union {e.child : e \in block.children} :
            c.payer \in Instance /\ c.payer = d.payer /\ c.nonce = d.nonce => c = d

(* Every execution ends, whatever the contract does: each step of a        *)
(* machine costs gas, of which there is no more than GasWithinLimit        *)
(* allows, or returns to a caller; and no return gives gas back.           *)
Consumed == sender.used + Cost(frames)
ExecutionEnds ==
    [][phase = "running" /\ phase' = "running" =>
          \/ Consumed' = Consumed + 1
          \/ Consumed' = Consumed /\ Len(frames') < Len(frames)]_vars

(* A contract's state is that of the executions that succeeded.            *)
StateAllOrNothing == TypeOK /\ WrittenOrUndone

(* Gas is charged in full and never beyond the sender's limit, whatever    *)
(* the calls did.                                                          *)
GasPaid == GasWithinLimit /\ GasAlwaysPaid

(* A contract acts for its caller and nobody else, through any nesting of  *)
(* calls, delegate calls and returns.                                      *)
ActsForCaller == ContextMatchesStack /\ ChildAuthorised

(* What executions leave behind in the block, in the running balances and  *)
(* in the stored ones is the same: the hashes, the money, the contracts'   *)
(* nonces.                                                                 *)
BlockAccounted == HashesMatchBlock /\ BalancesBacked /\ SupplyConserved /\ ContractNonceOnce
=============================================================================
