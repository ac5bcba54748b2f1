# A verification project for the ZERA network validator

These TLA+ modules model the core of the validator in `src/z_validator/z_validator/` (every path
below is relative to that directory): the transaction pool, the block producer, the balances and
fees, the takeover of other validators' blocks, their confirmation by attestation, the rotation of
proposers, governance and voting, smart contracts, transactions that wait for their delay, several
rules that are functions (calendar, weights of stakes, Merkle tree, compliance, allowances), and the
thread pool it all runs on. TLC checks the modules on small instances; TLAPS proves the most
important results for every instance. `PROJECT.json` lists the components, runs, mutants and
theorems, the source lines of each definition, and the hazards the properties are for.

To repeat a check, run `tlc -config X.cfg M` with the module and cfg of a run, or `tlapm M.tla`.

## 1. The system

A validator is one process. Its state is in some sixty RocksDB stores (`headers/db_base.h`) and in a
few process-wide tables (`temp_data/`). A put or a batch on one store is atomic; nothing spans two
stores. Three kinds of threads work on them.

- **Jobs.** gRPC handlers of clients and peers turn every transaction into a task of a thread pool.
  The task verifies it, executes it against the running state and queues it for a block.
- **The main thread** (`block_process/block_timer.cpp`) waits for its turn to propose, makes a block
  from the queue, stores it and applies its effects. It also synchronises with other nodes.
- **Broadcast and attestation tasks** take over other validators' blocks and count their support.

### Inventory

| Component | State | Operations | Talks to | What makes it correct |
|---|---|---|---|---|
| Transaction intake (`headers/*_network_service*.h`, `verify_process_txn.h`) | hashes under way (`recieved_txn_tracker`) | request of a client, request of a peer, verification | thread pool, pre-processing, gossip | a duplicate is refused, a valid transaction is not lost |
| Pre-processing (`block_process/pre_process.cpp`, `process_txn.cpp`, `temp_data/nonce_tracker.cpp`) | pending and processed transactions, marks, stored statuses, running nonces | duplicate test, nonce check, execution, four writes | balances, fees, block producer | a wallet's nonces are used once and in order; marked means on its way into a block |
| Block producer (`proposer/`, `headers/proposer.h`) | snapshot of the queue, the block, used nonces | snapshot, add processed, two passes over pending ones, store | pool, balances, store | everything marked gets into one block |
| Balances (`temp_data/balance_tracker.cpp`, `block_process/process_utils.cpp`) | running, block, temporary and stored balances, records by hash | debit, credit, replay, store | coin transactions, block producer | no overdraft, constant supply, running and stored balances agree |
| Fees (`block_process/fees.cpp`, `custom/process_new_coin.cpp`, `template/process_nft.cpp`) | none | price, shares, splits, accepted tokens | balances | a fee is neither made nor lost |
| Block validation (`util/validate_block.cpp`) | blocks, headers, hash index | receive, rebuild, compare, store | pool's stores, attestation | one chain, with exactly the effects of its transactions |
| Opening and restart (`db/db_config.cpp`) | – | `open_dbs` | every store | what survives is consistent |
| Thread pools (`util/threadpool.cpp`) | queue, condition variable | enqueue, take, finish | everything | no task is lost, everyone moves on |
| Main loop and rotation (`block_timer.cpp`, `select_validators.cpp`, `lottery.cpp`) | proposers of the height, failures, attempts | elect, wait, move on, mark offline | block producer, sync | one block per height, absent proposers are passed over |
| Attestation (`attestation/`, `grpc/p2p/*/attestation_*`) | support per height and hash, confirmed height | attest, count, confirm | block validation, reorganisation | what is confirmed stays confirmed and has a quorum |
| Reorganisation (`db/reorg.cpp`) | backups by height | back up, drop old ones, restore | attestation | a restore finds its backup, nothing confirmed is left |
| Gossip (`gossip_*.cpp`, `txn_tracker.cpp`) | recent hashes | resend, ask for missing | intake | transactions spread, once each |
| Rate limiter (`headers/rate_limiter.h`) | tokens per address | admit, refill | intake | the limit holds |
| Transaction types (`block_process/custom`, `template`, `supply_tracker.cpp`, `item_tracker.cpp`) | contracts, supply, items | mint, transfer, burn, update | pre-processing | supply and ownership limits |
| Allowances (`temp_data/allowance_tracker.cpp`, `txn_batch/batch_misc.cpp`) | grants, spent amounts | grant, use, renew, revoke | balances | no grantee exceeds a period's amount |
| Governance (`governance/`, `txn_batch/batch_gov.cpp`, `batch_contract.cpp`, `batch_proposals.cpp`) | proposals, ledgers, stages, purses, fast quorums | propose, end of a stage, cycle or proposal, update of a governance | block producer, balances | no proposal is forgotten, each ends once and is paid for |
| Voting (`template/process_votes.cpp`, `process_delegated_voting.cpp`, `balance_tracker.cpp`) | tallies, choices, priorities, delegations, funds | vote, delegate, pay, adjust | governance, balances | a vote counts once, with the balance the wallet has now |
| Restricted keys, quash ledger (`restricted/`, `quash_tracker.cpp`) | held transactions, votes against them | hold, quash, release | pre-processing, main thread | a held transaction runs after its delay, a quashed one never |
| Smart contracts (`smart_contract/`, `custom/process_smart_contract_*.cpp`) | contract state, undo store, caller context, child transactions | host functions, calls, settlement | all of the above | effects only of executions that succeed, gas and fees are paid |
| Stake weights (`proposer/validator_balances.cpp`) | none | scale stakes of several currencies | rotation | the first currency keeps half of the weight |
| Compliance, Merkle tree, calendar, encodings, signatures | none | pure functions | all of the above | agree with their definitions |
| Queries, configuration, logging, tests, vendored hash | – | – | – | no state of the protocol |

### What is hard here

- *No lock spans a check and what depends on it.* `check_nonce` and `add_nonce`, the duplicate test
  and the mark, the snapshot and the block are separate database accesses, and the jobs, the main
  thread and the broadcast tasks interleave between them.
- *Half-done work.* A block and its balances, nonces and batches are separate writes; a refused
  block or transaction has changed state before it is refused; a restart empties some stores only.
- *Agreement.* Validators store competing blocks, sign them and change their minds; support is
  collected on two sides, by jobs that read, decide and write at different times.
- *Delivery.* Requests and blocks arrive more than once, in any order, and from several threads;
  nonces arrive before their predecessors.
- *Waiting.* Tasks enqueue tasks on their own bounded pool; producers and workers share one
  condition variable.
- *What follows something else.* A vote follows balances, a ledger follows the governance of its
  contract, a proposer follows the stakes at an earlier height; each is a copy in another store.
- *Undoing.* A failed contract execution has written state, moved tokens, used nonces and named
  hashes, each of which is taken back in another place.
- *Arithmetic.* Unsigned integers of fixed width, shares that are rounded one by one, percentages
  that are not checked.

`PROJECT.json` names forty such places, at their lines.

## 2. The modules

| Module | Models | Extends |
|---|---|---|
| `TxnPool` | intake and pre-processing: the jobs | – |
| `BlockProducer` | the main thread as proposer, restarts | `TxnPool` |
| `BlockProducerProps` | what pool and producer promise together | `BlockProducer` |
| `BlockReplica` | the takeover of a peer's block, restarts | `TxnPool` |
| `Fees` | fee arithmetic, as operators | – |
| `Ledger` | balances: jobs, replay, stores, restarts | `Fees` |
| `Attestation` | confirmation of one height's block by several validators | – |
| `Confirmation` | what attestation promises, abstractly | – |
| `ThreadPool` | queue, workers, condition variable | – |
| `Rotation` | main loop: election, waiting in turn, registrations, restarts | – |
| `Tally` | the count of a proposal's votes, as operators | – |
| `Governance` | the life of proposals, ledgers, stages and cycles | `Tally` |
| `Voting` | votes, delegated votes, tallies that follow balances | – |
| `SmartContract` | execution: calls, host functions, gas, undo, settlement, restarts | – |
| `QuashLedger` | transactions with a delay, and votes to quash them | – |
| `Calendar`, `Stakes`, `Merkle`, `Compliance`, `Allowance` | rules that are functions, as operators | – |
| `MC…` | the instances TLC checks | the module of the name |
| `MCRules` | the rules above and the quash ledger, by topic | `MCFees` |
| `…Proofs` | theorems and their proofs; those on `Fees` are in `LedgerProofs` | the module of the name |
| `FoldProofs` | lemmas on sums over sets and folds over sequences, for the proofs | – |

`BlockProducer` and `BlockReplica` each compose a second thread with the jobs of `TxnPool`, on the
same stores. Definitions that end in `Faulty` are not part of the models: each is a variant with a
plausible mistake, put in the place of the definition after it to see a property fail.

**How state and actions correspond.** A store is a variable and a process-wide table is a variable.
An action is one handler between two accesses that another thread can see; `stage[j]` or `phase`
names the access that comes next. Data are abstract: a transaction is a model value named by its
hash, `NonceOf[t][w]` the nonce it carries for a signer, `Forged` the verdict of the identity
checks. Zero stands for "no nonce entry", so numbered transactions start at 1, as `check_nonce`
demands of a wallet without an entry.

### TxnPool

A job is a request from its acceptance to its end, queued or running. `ClientRequest` and
`PeerRequest` are the two services; a peer's request is tested against the tracker and enters it in
a second critical section (`Track`). `Verify` is `verify_txn`, `Check` the duplicate test of
`pre_process::process_txn`, `CheckNonce` the comparison with the running nonces. `Execute` takes the
fees and admits the nonces, or the transaction is refused (`Refuse`); then come the three writes
`StoreFee`, `StoreProcessed`, `MarkBlockTxn`. A transaction ahead of its nonce is put aside
(`HoldAhead`), and so are the types that wait for the block producer (`Hold`); that handler leaves
the tracker as it is. Several reads of stores in a row, after which nothing is written, are one
step.

### BlockProducer

`TakeSnapshot` reads the queue before the node knows whose turn it is (`MyTurn`, `NotMyTurn`).
`AddProcessed` walks through the pre-processed transactions in key order; the four-second limit can
end the walk after any of them but the first (`DeleteProcessed`). `CheckPending` and `ApplyPending`
are `process_txns`: the first pass in key order, the second by nonce (`StartPass2`), and then every
pending transaction of the snapshot is dropped, taken or not (`DropPending`). `StoreBlock` and
`StoreNonces` are two writes. `Restart` is `open_dbs` after a crash between any two steps.

### BlockReplica

A validator does not copy a peer's block: it builds one of its own from the block's transactions and
compares. `Receive` is the duplicate and link test, `Wrap` asks of each transaction whether the pool
has it. `AddKnown` moves those over with their stored statuses, `DropKey` deletes their keys (in
fact the first one only), `CheckFresh` and `ApplyFresh` execute the others, as the block producer
does. `CountFees`, `Replay` and `Forget` are `finish_process`. `SameBlock` compares fees, statuses,
the order of the transactions and the tip; then `Store`, `StoreWallets` and `StoreNonces` write, or
`RefuseBlock` returns and leaves everything as it is. `ValidateBlock`'s mutex makes this one thread.
`check_txn_processed` returns no value when a request takes longer than its wait
(`util/validate_block.cpp:38`): with `SlowRequests = TRUE` any answer is possible.

### Ledger and Fees

`Ledger` has one currency. A job takes each signer's share of the fee (`TakeFee`, `RefuseFee`),
credits the recipients (`CreditFee`), checks and takes the inputs and pays the outputs, each time
changing the running balance and the record under the transaction's hash; a transaction that is
not well-formed fails when the funds are checked (`CheckFunds`). The block producer replays
the records in key order (`Replay`), stores temporary balances, the block, and the balances. A debit
that finds too little is dropped: `remove_balance` returns an error that nobody reads. `Fees` is the
arithmetic, with unsigned integers that wrap at `Modulus`.

### Attestation and Confirmation

Several validators and the blocks that compete for one height. A validator that stores a broadcast
block signs it (`CreateAttestation`), asks the peers it has drawn (`Ask`, `StopAsking`), adds their
answers to its ledger (`ProcessBlockAttestationAsync`) and decides: `CheckAttestations` keeps the
hash with most support, `StoreConfirmed` records a confirmed one, `reorg_blockchain` follows when a
quorum supports another block than its own. A peer answers from its preference or its block
(`has_preference_response`, `no_preference_response`), and a job of its thread pool looks at request
and answer (`LookAt`): it confirms (`ConfirmAsked`) or writes a copy of the ledger (`StoreLedger`),
and then its preference (`StoreAttestation`). Connection and answer are one step; an answer can be
lost, which ends the round. A set of supporters stands for signatures, and `Stake` for the archive
of balances. Some of what the code does looks odd and is modelled as it is:

- A preference written by `set_attestation` is in base58 and one written elsewhere is not, so a
  validator whose preference has been decided answers a request for the same hash with "other", and
  one whose raw preference differs answers with none
  (`grpc/p2p/server/attestation_service.cpp:61-87`).
- `no_preference_response` compares the hash with a key of the header store, so it never supports.
- `remove_duplicate_validators` encodes a hash twice and `at` throws: once a validator is in the
  ledger for two blocks, no job of this height decides any more (`CheckFails`).
- `reorg_blockchain` removes the databases and restores them from a directory that nothing writes
  to; the validator starts again empty and synchronises.

`Confirmation` has two steps: a block is settled, and a validator confirms the settled block. The
refinement maps `settled` to the block that a quorum of stake has ever stored.

### ThreadPool

The mutex makes `enqueueTask` and the critical section of a worker one step each, up to a wait. A
notification is a step of its own, outside the mutex, and wakes any one thread that waits for
anything, as the condition variable is shared. Wakes without a cause are allowed.

### Rotation and Stakes

One node's main loop and the thread that stores peers' blocks. `ReadTip` and `Elect` are
`select_validators`: the archive of stakes that the last block left, of which the online validators
are drawn in an order (any order of those with a stake; the lottery is external). With transactions
at hand (`HaveTransactions`) the node waits for the proposer in turn (`Attempt`, `NextProposer`),
makes the block itself (`MyTurn`, `Make`) or takes note of a new one (`NewBlock`), whose maker it
then judges in two accesses (`JudgeUnknown`, `JudgeKnown`, `Strike`). A store writes unbonding,
lookup, records, the proposer's record and the archive one after the other (`StoreStep`), while jobs
check registrations, heartbeats and spends against what is there; what a block spends leaves the
wallets with the block (`Spends`). `left` is history: when a wallet that was registered last left.
`Stakes` has the weights of several currencies with their two scalings in integers.

### Governance, Tally, Voting and Calendar

`Governance` is about proposals as wholes: `Propose` takes the fee into the proposal's purse,
`MakeBlock` counts what the last block found due (`process_ledgers`, `process_fast_quorum`) and
carries out the transactions of proposals that have passed (`RunGovTxns`), `StoreBlock` applies
contract updates, proposals, votes and results in the code's order, puts adjusted copies on top
(`store_proposal_adjustment`) and turns stages and cycles (`update_staged_cycle`).
`UpdateGovernance` changes a contract's kind while its proposals are under way. The code often does
not look at whether a record was found before it changes and stores it: what it then stores is
`Nothing`, a record without contract, wallet, fee or votes (`Parsed`), and `Genuine` tells the
others from it. Two operators make such records, `StoreResult` (a governance update in the same
block has removed the proposal that goes to its next stage) and `Opened` (a fast quorum has ended a
proposal that was still pending). An empty record is counted like any other; it names no wallet, so
its result is not `funded`, has neither a hash nor a status, and `StoreBlock` cannot find it
(`Unfound`) unless an id of the same ledgers has no record at all (`gone`): then the empty hash is
among the statuses. A hash that is not found makes `map::at` throw, nobody up to `main` catches it,
and the program ends in the middle of storing: `StopStoring`, after any part of the results before
it. The model ends there too (`stopped`).

`Tally` has the count, with the code's two roundings. `Voting` is about who is counted with what:
`Vote` decides at pre-processing who follows the vote and pays (`process_delegated`; the recursion
of the code is a list of wallets to come to, `todo`, and `check_delegates` takes one off it), and
`StoreTxns` changes the tallies (`CountVote`), priorities and delegations, and writes the copies
that payments have adjusted (`adjust_proposal_votes`) last. `Calendar` adds days and months as
`mktime` does and has the test whether stages fit a cycle; in `Governance` a length is a number of
time units.

### SmartContract

`Begin` takes base fee and deposit and starts a contract; from there the contract may at each step
call any host function, return or trap. `Call` and `DelegateCall` push a frame and change the global
`sender` as `smart_contract_service.cpp` does, the `…Returns` operators restore it. `StoreState` and
`ClearState` write at once and keep the first original; the functions from `Send` to
`AllowanceDelegate` create child transactions, each with the payer, nonce and fee of its own file.
`Succeed` or `Fail` end the execution, `Settle` charges the gas and notes nonces and hashes,
`StoreBlock` replays the block's hashes on the stored balances and credits storage fees. `Restart`
may come between any two steps.

### QuashLedger

`Hold` reads the ledger entry of the second a transaction is due, `make_quash_ledger` writes it back
one longer. `get_timed_txns` is part of the main loop's snapshot: what is due leaves the ledger.
`Quash` is a quash transaction; its key is noted in the process and counted at the end of the next
block, `OwnBlock` or `OtherBlock` (`quash_result`). `NotMyTurn` drops a snapshot.

### Merkle, Compliance, Allowance

Operators with the source's names: the root of a block's hashes with a hash function free of
collisions; the levels a wallet has after compliance transactions and the test of a wallet; the two
records of an allowance, of its grant and of its uses, with the end of the period that reading
advances.

## 3. The runs

Every run passes. A run's property is often a conjunction of named parts, which stand before it in
the module with a comment each.

| Run | Question | Instance | States |
|---|---|---|---|
| `pool_race` | Is a marked transaction ever lost, or an included one unmarked? | three transactions of one wallet, two with one nonce, one forged; two jobs; a hash may be sent twice | 0.5 M |
| `pool_numbered` | Are nonces admitted once, in order, and covered by the stores, restart included? | three transactions, two wallets, one transaction of both; two jobs; one restart | 2.5 M |
| `pool_progress` | Does everything accepted get into a block, and nothing wait for ever? | the same transactions, one deferred; one job; fairness | 26 k |
| `rules` | Do the rules that need no other component do what they are for? | fees to 40, percentages in steps of 20; 430 days, cycles of up to three stages; up to three validators with three currencies; up to four hashes; four compliance transactions; four grants and uses; two held transactions, two keys, a restart | 0.65 M |
| `ledger_restart` | Do balances stay backed, consistent and constant in sum? | three clients, five transactions, one unaffordable, one refused after its first signer has paid, one that spends what a later key pays, one of all clients; two jobs; one restart | 1 M |
| `thread_pool` | Is every task in one place, and run? | two workers, two producers, tasks that enqueue tasks, a queue of two | 7 k |
| `replica` | Does a node that follows others keep one chain and all of its effects? | two proposers' blocks at one height and a successor, two transactions of one wallet; one job; one restart | 5.4 M |
| `attestation` | Do validators ever confirm different blocks, or count support that was not given? | two validators that attest, one that follows with three fifths of the stake; two blocks; crashes at any time | 0.7 M |
| `rotation` | Can the next election always be held, and does the main loop move on? | a node and a peer, two keys each, two blocks, two transactions, one restart | 1 M |
| `governance` | Does every proposal end once, in step with its ledger, and paid for? | a contract of two stages and one whose proposals have their own end, two proposals, one update or adjustment | 0.5 M |
| `voting` | Are tallies what the voters hold, and votes theirs or their delegates'? | three wallets, a chain of two delegations, two transactions in a block, one payment | 0.9 M |
| `smart_contract` | Is an execution all or nothing, paid for, and acting for its caller only? | two contracts, one made by a transaction, two transactions, calls to a depth of three, one restart | 3.8 M |

**Bounds, and why they are enough.** Two jobs are enough for every race on a pair of accesses, and
the block producer or the broadcast thread is a third party. Three transactions give each of the
cases a nonce check has (used, next, ahead) while another transaction is under way, a key order that
differs from the nonce order, and a second pass. One restart is enough for what a restart leaves
behind to meet new work. In `attestation` neither attesting validator is a quorum, nor are both:
each needs the follower, which can have stored either block, and a validator that reorganises takes
up the other block and is counted for both. A queue of two is full with producers and workers on
both sides of it. In `rotation` two attempts stand for five and a window of two blocks for five
hundred: both are reached and passed; two blocks let an election use an archive that a former one's
registrations have changed, and a second key is what a restart generates. In `governance` three
times (`MaxTime`) let a stage, its cycle and a proposal end together, early, or long before the next
block; one update or adjustment (`MaxRare`) can fall between any two steps, the block that carries
a stage's result included. Both ways to an empty record occur, and both to the end of the program,
before and after another result is stored; that an id without a record and a result without a hash
meet in one block takes two proposals in ledgers of stages and is left to the proofs. In `voting` a
chain of two delegations is the shortest in which a wallet is counted through another's delegate, and
two transactions in a block can be two votes, or a vote and the delegation it depends on; tallies wrap
at 16, which two tokens do not reach unless something is subtracted twice. In `smart_contract` a
depth of three nests a call in a call; gas of one and of three gives executions that run out and
such that do not. In `rules` 430 days start a cycle on every day of a year and of a February with 29
days; `Length` bounds the lists, `MaxVotes` the votes against a held transaction (three are one more
than needed).

The bounds in guards are `MaxRestarts`, `MaxFee`, `Length`, `MaxTime`, `MaxRare`, `MaxWaiting`,
`MaxPayments`, `MaxDepth` (of calls), `MaxHeight`, `MaxTxns` and `MaxVotes`; the sets of
transactions and blocks bound the rest, since marks end what can happen to a transaction; in
`Attestation`, `Attesting` bounds who receives broadcasts. Four runs turn deadlock checking off,
where the instance really comes to its end: `attestation`, when everybody has stored its block of
the height and asked; `smart_contract`, when all transactions are in a stored block; `rotation`,
when no transaction or block may come any more, or when the program has ended at an empty list of
proposers; `governance`, when the program has ended while storing a block. Elsewhere a job or a block can always arrive, and finished instances stutter explicitly
(`Done`). Two runs use symmetry: `voting` of the choices, `rules` of held transactions and of keys;
no property tells them apart, and neither has a liveness property.

**Fairness.** `pool_progress` assumes weak fairness of each job and of the main thread's steps,
which the operating system's scheduler justifies: these threads wait for nothing but each other's
database calls. It assumes strong fairness of `MyTurn`: the turn belongs to the election, and that a
node is elected again and again is an assumption on the other validators. `thread_pool` assumes weak
fairness of every thread, and none of spurious wakes. `rotation` assumes weak fairness of the main
loop and the storing thread together, as both run. `governance` assumes that blocks go on being made
and stored (`[]<>(block # NoBlock)` and the opposite, or a stop): one of `Make`, `StoreBlock` and
`StopStoring` is enabled at any time until the program ends, so this is weak fairness of them, and
heartbeats alone are enough for a block.
`ExecutionEnds` of `smart_contract` needs none: it says of every step that gas is used or a frame is
left. Nothing else is fair: requests, peers' blocks, time and restarts never have to come.

### What else the models say

Many restrictions in the properties are there because without them TLC finds a behaviour of the
code. Others are remarks that came with the reading. A careful reader of the code will want to know
them.

*Pool and producer*

- `NoTxnTwice` assumes that a hash is not sent while it is being handled (`OncePerHash`). Otherwise
  two jobs pass the duplicate test before either marks the hash, and the transaction can be in two
  blocks.
- The properties with `restarts = 0` fail in the window between two writes of a block. When the
  process dies after the block is written and before `store_used_nonce`
  (`block_process/store_txns.cpp:343`), the restarted node copies the old nonces into the running
  ones and admits a second transaction with a nonce that is in the chain. The marks of transactions
  that were queued survive `open_dbs` and the queue does not, so a restart loses them.
- `StoredNonceAdmitted` holds for numbered wallets only: with two transactions of one nonce, a later
  block can lower the stored nonce (`temp_data/nonce_tracker.cpp:103`).

*Balances and fees*

- Pre-processing accepts a chain of payments in the order of arrival; the replay goes by key
  (`proposer/proposer.cpp:97`). When an earlier key spends what a later one pays, its debit finds
  too little and is dropped, its credits are not, and the sum of the balances grows. The same
  happens to a transaction that spends what a job has paid out for another one, when the block is
  begun before that job has admitted the payer's transaction. `SupplyConserved` says that only these
  two drop a debit, and that without them the sum is constant; `RunningUpToDate` and `ChainCharged`
  leave them out (`dropped`).
- `RunningUpToDate` leaves the fee address out: the proposer's income does not reach its running
  balance (`proposer/proposer.cpp:71`).
- `ItemSplitAccounted` states what an item's split does: the recipients get the foundation's part on
  top of the fee, as it is not taken off the contract's (`template/process_nft.cpp:84`).

*Peers' blocks and attestation*

- `Undisturbed` asks that no running nonce is behind a marked transaction. A job that has passed its
  nonce check and executes after a peer's block with the wallet's next transaction was processed
  sets the nonce back (`nonce_tracker::add_nonce`, `temp_data/nonce_tracker.cpp:13`, stores whatever
  it is given). The next valid block is refused then: its nonces are ahead. This came out of the
  search for the invariant of `CleanTakeover`, with a third transaction in the instance.
- A proposer tries what was ahead once more, in the order of the sums of nonces
  (`proposer/reg_process.cpp:182`). With several signers that need not be an order in which the
  transactions of a block can be executed one after the other, and a node that does so in its first
  pass builds another block. `CleanTakeover` therefore asks that blocks are in the order of their
  nonces (`InNonceOrder`).
- `Undisturbed` asks that what the pool knows of a block is a beginning of it. If it knows only a
  later transaction, the node's block has another order than the peer's, hence another hash, and the
  valid block is refused. Its transactions are marked and their fees forgotten by then, so it is
  refused again at every later delivery.
- `add_processed_sync` deletes one key (`proposer/pre_process.cpp:200`). The other transactions of
  the peer's block stay in `db_processed_txns`, from which the node's own next block is filled.
- `ChainCharged` of `BlockReplica` assumes that no block has been refused before: a job that
  executes a transaction between `Replay` and `Forget` loses its effect, and a second attempt can
  then succeed. It also says nothing of other transactions: a refused block leaves its effects in
  `db_wallets_temp`, and the next block to be stored writes them to `db_wallets`.
- `ChainNonceStored` assumes the same: the nonces a refused block has used stay among the used ones,
  and when the next block is stored they can take the place of higher ones.
- `Agreement` is about hashes, and about one height. The flag `confirmed` of a stored attestation
  can go back: a delayed job on an answer overwrites a confirmed preference with an unconfirmed one
  (`grpc/p2p/server/attestation_service.cpp:396`).

*Thread pool*

- `QueuedIsRun` and `NoSleepBesideWork` end when somebody has waited for room. Workers notify nobody
  when they take a task (`util/threadpool.cpp:114`): a producer that waits for room is woken by
  other producers only, the last one waits for ever beside an empty queue, and a notification can go
  to a producer that finds the queue full, while all workers sleep.

*Rotation*

- A key is generated at every start, so two registrations of one wallet in a block leave a record
  that nothing leads to. The wallet is then archived twice, and the election, which fills places by
  wallet, draws for ever (`proposer/select_validators.cpp:185`). An archive without anybody has the
  same effect, an empty list of proposers ends the program, and a total weight of zero makes the
  bounds of the distribution meet in the wrong order. `disturbed` marks the first; `PlacesFillable`
  asks for a stake in every wallet.
- `check_proposer` puts the maker of the current block offline after two strikes of another one
  (`block_timer.cpp:225`), from a copy of the record that a store may have changed since, and in
  this node's database only. A node whose own turn it is strikes everybody before it, itself
  included when it comes second.
- A wallet that registers again can spend between the deletion from `db_validator_unbond` and the
  write of `db_validator_lookup`. Two unregistrations can both pass the type check
  (`block_process/custom/process_registration.cpp:249`) before either is stored; the second starts
  the time anew, but only with its batch (`txn_batch/batch_validator.cpp:69`), and what the wallet
  has unbonded by the first can be spent until then. `SpendsUnbonded` counts from the first one.
- The last proposer in the list is waited for without an end, and the turn is not given up when a
  block comes in after `MyTurn`: the node's block is built on whatever header is the last by then.

*Governance*

- What is due is collected with `||` (`governance/gov_process.cpp:922`): when a proposal with an end
  of its own is due, the ledgers of cycles are not looked at in that block, and a stage that ends
  with it passes its proposals over (`missed`).
- Adjusted copies of proposals are stored after what the block has written, over votes and over the
  deletion of ended proposals (`overwritten`).
- A pending proposal that passes by fast quorum stays in the pending
  list. When the next cycle takes it up, its record is not found; `db_proposals::get_single`'s
  verdict is ignored and the empty string parses (`block_process/store_txns.cpp:141`), so that it is
  not skipped, as the message in the next lines says, but an empty record is stored for it.
  The record is counted at the end of stage 1, its result has no hash,
  and `txn_batch/batch_gov.cpp:571` throws in the middle of storing the block, with the
  header, wallets and allowances stored, and the results and the used nonces not.
- A governance update in the block in which a stage's passed result is stored removes the proposal
  first (`block_process/store_txns.cpp:325`); the result then writes an empty record
  (`txn_batch/batch_gov.cpp:573`), which is in no ledger, has no end and stays for good.
  `NotForgotten` says that an empty record only stands where a proposal is over.
- An update away from STAGED or CYCLE leaves the ledger as it was, type REMOVE is stored like any
  other, and the first cycle of a STAGED contract has a stage 0 before its first one.
- When a proposal fails before its last stage, what was kept of its fee for later ones stays in its
  purse. Validators of a fast quorum in a peer's block count it with the regular quorum.
- `max_approved` (`proto/txn.proto:215`) cuts nothing off: the cut is marked on copies of the
  results. A fast quorum is measured against the votes cast, not the circulating supply
  (`proto/txn.proto:205`), and the votes of all instruments against the first instrument's supply.
- Governance transactions leave `db_gov_txn` when a block is begun, whether it is stored or not.
- A stage in months that starts on a day some month lacks ends up to three days after its cycle
  (from January 31, one month and one month end on April 3, the cycle of two on March 31). The local
  time zone decides the date.

*Voting*

- A block that holds a vote and a payment of the voter keeps the adjusted copy and loses the vote.
- A wallet's own vote and its delegate's in one block: the delegate's prevails (`raced`).
- A delegator with any entry in `db_voted_proposals` is neither charged nor counted a second time:
  an `else` is in an odd place (`template/process_votes.cpp:161`). Two ways to one delegator charge
  it twice, since the result of the test for duplicates is not used.
- `something` counts a voter's first held instrument only (`proto/txn.proto:206` speaks of all), and
  a wallet without the instrument when it votes is never counted later. `db_delegatees` is written
  by nothing.

*Smart contracts*

- What the children of a failed execution have moved stays in the running balances and is not in the
  chain (`history.drift`): a later debit that relies on it is dropped at the replay, its credit is
  not.
- Contract state is written during the execution: a crash leaves part of it and a storage fee that
  is credited again (`history.torn`), and a block that is refused keeps it.
- After a restart the nonces of a contract's wallet start from the stored ones, so children may get
  nonces that are in the chain. `AllowanceCurrent` and `AllowanceDelegate` set no nonce and are
  always refused, `CurrentSend` always uses 1, and `Transfer`, `Hold` and `AllowanceSender` the
  user's running nonce plus one.
- `DelegateSendAll` and `CurrentSendAll` of the fee currency fail and are charged for. A caller's
  gas is counted twice in `runCall`, `depth` counts calls and not nesting, and two instantiations of
  one instance in a block both run.
- `sender` is one global structure for all threads (`smart_contract/smart_contract_service.cpp:29`);
  the model has one thread that executes.

*Held transactions*

- It takes `quash_threshold` + 1 quash transactions (`proto/txn.proto:452` speaks of the total
  number). A key may vote twice within a block, and a vote counts in whichever block ends next, also
  a peer's that is being rebuilt.
- A quashed transaction's place among those of its second is taken by the text of the one before it
  (`restricted/restricted_keys.cpp:492`), which is carried out twice: timed transactions skip the
  duplicate and nonce tests. `RunsOnce` names this case.
- What is due leaves the ledger when the main loop looks, before it is the node's turn. If another
  node's block comes first, or the process dies, this node never carries it out; two transactions
  entered for one second at the same time lose one of the entries (`dropped`).
- A release calls `add_nonce` with the transaction's old nonce and can set the running one back.

*Rules*

- A currency listed twice in `staked_contract_ids` counts twice. Two lists of a block are in no
  Merkle tree (allowances, required versions), and a block of one hash has the root of that hash
  twice, so `RootBindsBlock` compares blocks of equal length.
- Expired levels of compliance are removed from a copy only. Allowances counted in months advance
  their end and never their used amount, and uses never reach the granted record
  (`temp_data/txn_hash_tracker.cpp:45`).

## 4. The proofs

All theorems hold for arbitrary sets of transactions, wallets, jobs, threads, validators and blocks;
the assumptions are those the modules name (`NonceAssumption` and the like). They state types, that
what is summed over is finite (`Ledger`, `SmartContract`), that "none" is not something
(`NoneAssumption`, `DistinctAssumption`), in `BlockReplica` that a block is one higher than its
parent, in `Attestation` that stakes add up, in `ThreadPool` that a task is enqueued at one place
(`TaskAssumption`), in `Rotation` that keys belong to one wallet each, in `Governance` that a
governance has a type, stages and a period as `check_governance` lets them through
(`GovAssumption`), and that proposals cost something (`ProposalAssumption`), in `Voting` that all
there is of an instrument is below the width of a tally (`HoldingAssumption`). Eight theorems have a
hypothesis of their own: `NothingTwice` and `MarkedStaysRefused` ask for `OncePerHash`,
`TablesAlwaysAgree` also for `Numbered` (nobody signs two transactions with one nonce), without
which TLC finds the behaviours of section 3; `EffectsOfChain` asks that the nonces of peers' blocks
go up along the chain (`ValidBlocks`), and `CleanTakeover` also for blocks in the order of their
nonces (`InNonceOrder`), `Numbered` and `OncePerHash` (TLC evaluates all of them for the instance,
`BlocksAssumption`); `NoneForgotten` asks that no governance has the type REMOVE (`NoRemoval`), as a
proposal to such a contract is stored with neither an end nor a ledger; `TalliesAreBacked` that
there is one instrument (of several the code counts one per wallet); and `BlockBalanced` that the
fee wallet is neither a contract's nor a user's.

A proof module states its inductive invariant `IInv` as a conjunction of named parts, then what the
helpers do, then for each part that every step keeps it. This is what the parts are and why they are
needed.

- `BlockProducerProofs`. `TypeCorrect`: every variable keeps its type. `NothingLost` and
  `NothingUnmarked` prove `AcceptedNotLost` and `IncludedIsMarked`. Neither is inductive: a job
  marks a hash in its last step, and by then the block producer may have taken the transaction and
  deleted its key. `IInv` adds that a job about to mark counts as a mark (`KnownIsMarked`,
  `MarkedIsKept`, also for the snapshot) and that what the walk has passed is in the block
  (`WalkInBlock`), so that deleting the passed keys loses nothing. The proof has a lemma for the
  steps of jobs, one for those of the main thread and one for the walk; a restart ends the guarantee
  and needs the walk only.
- `BlockReplicaProofs`. `OneChainAlways`: the stored blocks form one chain, though a block is
  received behind any stored parent. The invariant adds that the stored blocks have a highest one,
  which makes `Tip` well defined without counting; a block stored behind the tip is higher than all
  others, so no stored block has its parent.
- `AttestationProofs`. `GenuineAlways`: nobody is counted for a block that it has not stored.
  `AgreementAlways` proves `ConfirmedOnce`: no two validators confirm different blocks, for any
  stakes, and each confirms the one it has. Two quorums share a validator (`QuorumsMeet`), but a
  validator that has reorganised may have stored both blocks, so this is not enough. `IInv` is about
  the loyal ones, which have stored one block only: once somebody has left a block, a quorum is
  loyal to one (`Leaving`), and a quorum that has stored a block has a quorum loyal to it
  (`Loyalty`). Such a quorum never dissolves, as a validator only leaves for a block with a quorum;
  storing another block (`TakeKeepsLoyalty`) and reorganising (`ReorgKeepsLoyalty`) are the steps
  that need the argument. The rest of `IInv` (`Own`) says that every job, task, signature and
  confirmation of a validator is about the block it has stored. `ConfirmationImplemented` proves the
  refinement of `Confirmation` from it.
- `AttestationProofs`, second half: `Voting`, which shares nothing with `Attestation`. The model
  folds three times, and each fold is taken apart into its steps. The search for delegators ends
  within `SearchSteps`, because a step shortens the list or comes to a wallet for the first time
  (`StepsLeft`, `SearchResult`); whoever it finds has no record of a vote, has been charged and can
  reach the voter (`SearchFrom`). The votes of a block change a wallet's choice only to that of a
  vote it is part of, and its own vote is overtaken only by a delegate's in the same block
  (`Counting`, `BlockCounted`). Adjusted tallies differ from the old ones by what payments brought,
  but for multiples of the width (`Adjustment`, with `Congruent`). `VotesAreAuthorised` needs what
  waits between pre-processing and block: those found still have no record (`WaitingVotes`), who
  voted has one (`OwnRecorded`), recipients were made by delegations (`RecipientsDelegated`), and
  fees are paid for counted and waiting votes together (`PaidAhead`). `TalliesAreBacked` needs that
  payments are covered and conserve the supply (`Covered`), so that a sum of holdings is below the
  width and equal when congruent, and that whoever is counted has a key in the tally (`InTally`).
- `FoldProofs` is a library. The sums and folds of the community modules are recursive functions:
  the lemmas first show that there is one function that obeys the equation (by well-founded
  induction on subsets, applied to the set of those for which the claim holds), and then what
  changes of an argument do to a sum, and how a fold over a sequence takes its next element.
- `LedgerProofs`. Of `Fees`: `BaseSplitConserves`, `ContractSplitConserves` and `AuthorisedShares`,
  for every amount and width. Of `Ledger`: `BalancesAlwaysAgree`, `SupplyIsConserved` (which also
  says what a dropped debit is owed to) and `ClientsCharged`. The records under a transaction's hash
  are the middle term: what they have taken is what they have added plus what a job has in hand
  (`RecordsInv`, with `InHand` by its step), and running balance plus records is what the producer
  has got to (`BackedInv`). `JobInv` and `PhaseInv` say that a transaction is in the hands of one
  job, or marked and in one place of the producer. The supply then is the same in the stored
  balances and in those of a replay (`SupplyInv`). That clients are charged needs that the queue's
  records hold the whole fee (`ChargeInv`), which ends at a restart: records that survive it are
  replayed when their hash comes a second time.
- `RotationProofs`. `BackupsWait` needs `LoopInv`, which counts the attempts up to now.
  `SpendsAlwaysUnbonded` needs `UnbondInv`: a wallet that has left and not come back is, at every
  point between the batches of a store, refused by one of the two databases; and `FundsInv`, which
  keeps what is booked within what is there, so that the funds stay numbers.
  `ElectionsAlwaysPossible` says that the next election ends and has somebody in its archive:
  `RegistryInv` follows lookup and records through the batches of a store, with `Indexed` after
  each, so that a record is the one its wallet's key leads to; `MakerInv` keeps the last block's
  maker among them; and `StakesInv` says that the last archive has the owners' keys and funds of
  now, without which two entries of an archive could have one owner.
- `RotationProofs`, last part: the thread pool. `QueueStaysBounded`; `NoLostNotification` by an
  invariant (`ISleep`) that ties a non-empty queue to a worker that is awake or a notification that
  is due; and `WorkIsConserved`: a task is in one place only, never twice in one, and is run once.
  For it `PlaceInv` splits what is known of tasks into those still to be enqueued, the queue and
  those started, which `TaskAssumption` keeps apart from the start.
- `BlockProducerProofs`, the nonces: `NothingTwice`, `MarkedStaysRefused` and `TablesAlwaysAgree`.
  `OneHand` says that a transaction is with one job, pending, or marked, and that what the producer
  takes up is marked by nobody else; `InOneBlock` that a pre-processed transaction is in no block but
  for the part the walk has passed. `TablesInv` adds that stored and used nonces are never ahead of
  the running ones, and that the verdict of a job or a pass is still true when it executes
  (`NonceInv`), although the check and `add_nonce` are two steps.
- `BlockReplicaProofs`, the effects: `EffectsOfChain` says that each transaction of the chain is
  marked, charged, and covered by the stored nonces. `MarkInv` follows the block that is being built
  from one step to the next. `EffectInv` has three parts, what is to be replayed (`ReplayInv`), what
  has been applied (`AppliedInv`) and what is in the balances (`ChargedInv`); each leaves out what
  the loss by a refused block has reached (`Doomed`). `NonceInv` bounds the nonces of the building
  block by those the chain leaves behind (`After`).
- `BlockReplicaProofs`, clean blocks: `CleanTakeover`. While the node has not restarted and no block
  has been refused, a transaction that no block has been given has at most one execution behind it,
  and a mark only with its status (`OnceInv`, which rests on `OneJobEach`); every number up to a
  running nonce was the nonce of something executed (`GapInv`), stored nonces come from the chain
  (`SourceInv`), and so do the nonces behind the tip (`TopInv`). From these a clean block's next
  fresh transaction always passes the nonce check (`HeadIsNext`): a nonce that is ahead would leave
  out a number of the block, one that is used would belong to a transaction that is marked.
  `CleanInv` then follows the block: its sequence is, at every phase, in three parts (`Parts`) which
  move from one list to the next, so that what is compared at the end is the peer's block.
- `GovernanceProofs`. `GovernanceTypes`, `ProposalsEndOnce`, `StagesKeepStep` and `NoneForgotten`.
  A block changes proposals, ledgers and results in a dozen functions, each a fold over what the
  block holds; `FoldReaches` takes an invariant of one step through such a fold. Storing is taken in
  two parts, up to the adjusted copies and from the turn of the ledgers on, and what holds between
  them is stated for any database (`Placed`, `Timed`, `InCycle`), not for the stored one.
  `InvProposals` says where a proposal is (an end of its own, one ledger, or what is due) and what
  has been paid of its fee; `InvLedgers` that the end of a ledger's stage is where the stages put it;
  `InvDue` and `InvTemp` that what was collected at the beginning of a block is still what is stored
  when it ends. `Remnant` says that a trace of a proposal without a genuine record, be it an empty
  record, a place in a ledger or in what is due, is of one that has ended or was removed; without it
  nothing would tell an empty record from a proposal that was lost. All this is `IInv`, which holds
  while the program runs; a stop in the middle of storing leaves `Halted` (types, transactions run
  once, empty purses, stages within their cycle), and `Inv` joins the two.
- `SmartContractProofs`. `GasAlwaysCovered`: gas used, gas left and the cost of the callers never
  exceed what the user has approved (`GasInv`). `StateKept`: what the undo store restores is the
  state of the last success, at every step of an execution (`SavedInv`). `ContractsActForCaller`: a
  child's payer is a contract of the stack or the user (`ChildAuthorised`); the context of the
  running code and the saved one of each frame fit the frames below (`StackInv`), and the nonces of
  children differ (`NonceInv`). `ExecutionsEnd`: each step uses gas or leaves a frame.
  `BlockBalanced`: the running balances are those of the replay, and the record of the execution, up
  to the deposit (`Balanced`); the execution's own record credits nobody but the fee
  wallet (`OwnDebits`), so that no debit of a child is dropped at the replay; and the sum of balances,
  deposit and storage fees due is constant (`SupplyInv`). After `history.drift` nothing is said of
  balances and supply, since a restart adopts the stored balances.

Some actions avoid a second or nested `@` in an EXCEPT where the proofs expand them: version 1.4.5
of tlapm replaces such an `@` by the wrong term.

Only model-checked, on the instances above:

- liveness (`PoolProgress`, `QueuedIsRun`, `TimedResolved`, `MainLoopMoves`), which is beyond the
  prover;
- `QuashLedger`, whose invariant is yet to be found;
- what the operators of `rules` compute: they fold over data of any shape or are declared RECURSIVE,
  which the prover does not unfold.

## 5. What is not modelled

Signatures, encodings, hashing, logging, queries and configuration (a verdict or nothing at all is
left of them); gossip and the rate limiter, which decide what reaches the pool and hold no state the
chain depends on; the migration of databases. Within the modelled parts:

- In `TxnPool` and `BlockProducer` heartbeats and governance, timed and smart contract transactions,
  which have modules of their own; the gossip store; the hourly clean-up of marks.
- In `Ledger` interface and contract fees, allowances, premint lists (a wallet named twice gets the
  last amount, `temp_data/balance_tracker.cpp:170`) and `remove_txn_balance`, which builds its keys
  in another encoding than the entries it is to remove (`temp_data/balance_tracker.cpp:479`).
- In `BlockReplica` and `Rotation` the node's own production beside a peer's block: the main thread
  makes its block outside the mutex, on the same tables.
- In `Attestation` other heights, the backups by height (for the first three heights the age of a
  backup wraps, `db/reorg.cpp:31`) and the verification of signatures.
- In `Governance` votes one by one, time zones, the type checks of a proposal's transactions, and
  the restart after the program has ended while storing a block; in
  `Voting` several contracts and the end of proposals.
- In `SmartContract` the WebAssembly machine (external), a refused block, a second executing thread.
- In `QuashLedger` what the rights of restricted keys allow, and a block of another node that
  carries out a transaction this node holds too.
- Mints, items, soulbound tokens, foundation transactions and required versions; the shutdown and
  the resize of a thread pool, which the program does not use.

Components that are wholly left out are listed in `PROJECT.json` with the reason.

## 6. Plan

The order was the most important behaviour first: `TxnPool`, `BlockProducer` and their proofs;
`Fees`; `Ledger`; `ThreadPool`; `BlockReplica`; `Attestation`, its abstract specification and
proofs; then `Governance` and `Voting`, `SmartContract`, `Rotation`, the rules and `QuashLedger`.
What is left:

1. `OwnAndPeerBlocks`: `BlockProducer` and `BlockReplica` on one set of stores, for the two makers
   of blocks that share hash list, nonces, temporary balances and last header.
2. `Attestation` over several heights, with the latest confirmed height, backups by height and
   synchronisation after a reorganisation.
3. `Voting` under `Governance`, so that the votes a result counts are those of wallets.
4. Supply and items, premint; the gossip store and the rate limiter.

Proofs to come: `QuashLedger`; that `BlockProducer` implements an abstract pool which moves each
transaction from accepted to included.
