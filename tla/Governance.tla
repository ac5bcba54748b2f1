----------------------------- MODULE Governance -----------------------------
(***************************************************************************)
(* The life of governance proposals: from the transaction that makes one,  *)
(* over the ledgers that say when its voting ends, to its result and the   *)
(* transactions it was made for.                                           *)
(*                                                                         *)
(* A contract is governed in one of four ways.  A proposal to an ADAPTIVE  *)
(* or STAGGERED contract has an end of its own, kept in                    *)
(* db_process_adaptive_ledger.  Proposals to a CYCLE or STAGED contract    *)
(* wait for the contract's next cycle; db_proposal_ledger keeps the        *)
(* contract's stage, the ends of stage and cycle and the proposals voted   *)
(* on.  Storing a block finds what is due (gov_process::check_ledgers) and *)
(* leaves it under key "1" in db_transactions; the next block counts it.   *)
(*                                                                         *)
(* Making a block is one action, storing it another: both run on one       *)
(* thread, and transactions are pre-processed in between.  Times are the   *)
(* timestamps of blocks, in the units periods are counted in, and a length *)
(* is added as a number.  The votes of a proposal change by a vote as a    *)
(* whole; who votes with what is the subject of Voting.  A definition      *)
(* whose name ends in "Faulty" is a variant with a plausible mistake.      *)
(***************************************************************************)
EXTENDS Tally, FiniteSetsExt

CONSTANTS
    Contract,      \* governed contracts
    Proposal,      \* proposals that may be made
    NoGov,         \* not a governance: the contract has none
    NoTime,        \* not a time
    NoProposal,    \* not a proposal record
    NoContract,    \* contract of a record read from nothing
    NoTxn,         \* the proposal has no governance transactions
    FirstGov,      \* FirstGov[c]: governance c is made with
    LaterGov,      \* governances an update may give a contract
    TxnFor,        \* TxnFor[p]: contract whose authority p's transactions claim
    Fee,           \* Fee[p]: fee of the proposal's transaction
    Windows,       \* times <<start, end>> a proposal may ask for
    VoteCounts,    \* the counts a proposal's votes may come to
    NoVotes,       \* the count of a proposal nobody voted on
    StartTime,     \* time of the block that made the contracts
    MaxTime,       \* bound on block times
    MaxRare        \* bound on governance updates and vote adjustments

(* An update may also set the type REMOVE: the contract keeps a governance *)
(* of that type.                                                           *)
Kinds == {"STAGED", "CYCLE", "STAGGERED", "ADAPTIVE", "REMOVE"}

(* The governances a contract may have.                                    *)
Governed == LaterGov \union ({FirstGov[c] : c \in Contract} \ {NoGov})

ASSUME GovAssumption ==
    /\ \A g \in Governed :
          /\ g.type \in Kinds /\ g.period \in Nat \ {0} /\ g.start \in Nat
          /\ g.stages \in Seq([length : Nat])
    /\ NoGov \notin LaterGov /\ FirstGov = [c \in Contract |-> FirstGov[c]]
    /\ NoVotes \in VoteCounts
    /\ StartTime \in Nat /\ MaxTime \in Nat /\ StartTime <= MaxTime /\ MaxRare \in Nat

ASSUME ProposalAssumption ==
    /\ IsFiniteSet(Contract) /\ IsFiniteSet(Proposal)
    /\ Fee \in [Proposal -> Nat \ {0}]
    /\ Windows \subseteq Nat \X Nat
    /\ NoTime \notin Nat /\ NoContract \notin Contract
    /\ NoProposal \notin [contract : Contract \union {NoContract}, stage : Nat,
                          start : Nat, end : Nat, votes : VoteCounts, fee : Nat]

VARIABLES
    stored,    \* the databases a block's storing writes, see Stored
    waiting,   \* transactions pre-processed for the next block, see Txns
    block,     \* the block being stored, or NoBlock
    purse,     \* purse[p]: balance of the wallet "p_" + proposal hash
    snapshot,  \* db_fast_quorum: a proposal as it was when fast quorum was asked
    clock,     \* timestamp of the last block, in db_headers from its making on
    rare,      \* governance updates and vote adjustments so far, up to MaxRare
    executed,  \* executed[p]: times p's transactions were carried out
    finals,    \* finals[p]: final results of p
    missed,    \* proposals passed over when their stage or cycle ended
    overwritten, \* proposals whose change by a block an adjusted copy undid
    removed,   \* proposals an update of their contract's governance removed
    stopped    \* whether the program has ended in the middle of storing a block

vars == <<stored, waiting, block, purse, snapshot, clock, rare, executed,
          finals, missed, overwritten, removed, stopped>>

Times == StartTime .. MaxTime
NoBlock == [made |-> FALSE]
NoTxns == [update |-> {}, proposals |-> {}, votes |-> {}, fast |-> FALSE]
NothingDue == [contracts |-> {}, ids |-> {}]

(* A contract whose proposals are processed together by its ledger.        *)
ByLedger(g) == g # NoGov /\ g.type \in {"STAGED", "CYCLE"}

(* The ledger of a STAGED or CYCLE contract as it is first made.           *)
make_staged_cycle_ledger(g, start) ==
    [stage |-> 0, cycleEnd |-> start + g.period,
     stageEnd |-> IF g.type = "STAGED" THEN start + g.stages[1].length ELSE NoTime,
     ids |-> {}, pending |-> {}]

NoLedger == [stage |-> 0, cycleEnd |-> 0, stageEnd |-> NoTime, ids |-> {}, pending |-> {}]

Init ==
    /\ stored = [gov |-> FirstGov,
                 proposals |-> [p \in Proposal |-> NoProposal],
                 adaptive |-> [p \in Proposal |-> NoTime],
                 ledger |-> [c \in Contract |->
                     IF ByLedger(FirstGov[c]) THEN make_staged_cycle_ledger(FirstGov[c], FirstGov[c].start)
                                              ELSE NoLedger],
                 due |-> NothingDue,
                 govTxn |-> {}]
    /\ waiting = NoTxns
    /\ block = NoBlock
    /\ purse = [p \in Proposal |-> 0]
    /\ snapshot = [p \in Proposal |-> NoProposal]
    /\ clock = StartTime
    /\ rare = 0
    /\ executed = [p \in Proposal |-> 0]
    /\ finals = [p \in Proposal |-> 0]
    /\ missed = {}
    /\ overwritten = {}
    /\ removed = {}
    /\ stopped = FALSE

(* A record that is not found is read as the empty string, which parses as *)
(* a proposal without contract, author, wallet or votes.  Where a found    *)
(* record was expected this one is changed and stored.                     *)
Nothing == [contract |-> NoContract, stage |-> 0, start |-> 0, end |-> 0,
            votes |-> NoVotes, fee |-> 0]
Parsed(r) == IF r = NoProposal THEN Nothing ELSE r

(* A record that was stored for a proposal and not for the lack of one.    *)
Genuine(r) == r # NoProposal /\ r.contract # NoContract
-----------------------------------------------------------------------------
(* Pre-processing.                                                         *)

Made(p) == purse[p] # 0 \/ \E t \in waiting.proposals : t.id = p

(* Of the fee, one of n + 1 parts (2 without stages) is paid at once, the  *)
(* rest is kept in the proposal's purse.                                   *)
Parts(g) == IF g # NoGov /\ g.stages # <<>> THEN Len(g.stages) + 1 ELSE 2
RemainderFaulty(p, g) == Fee[p] \div Parts(g) - Fee[p]
Remainder(p, g) == Fee[p] - Fee[p] \div Parts(g)

(* Transactions of a proposal have to be made in the name of the contract. *)
(* (A second way, through another contract's restricted keys, looks up the *)
(* same contract twice and is never open.)                                 *)
check_auth(p, c) == TxnFor[p] = c
check_txn(p, c) == TxnFor[p] # NoTxn => check_auth(p, c)

(* Whether the proposal is accepted once its fee is taken.                 *)
check_parameters_prop(c, start, end) ==
    LET g == stored.gov[c] IN
    /\ g # NoGov
    /\ g.type = "ADAPTIVE" => start <= end

(* A proposal is made.  A fee is taken, and the purse filled, whether or   *)
(* not the proposal passes check_parameters_prop.                          *)
Propose(p, c, start, end) ==
    /\ finals[p] = 0 /\ stored.proposals[p] = NoProposal /\ ~ Made(p)
    /\ check_txn(p, c)
    /\ purse' = [purse EXCEPT ![p] = Remainder(p, stored.gov[c])]
    /\ waiting' = IF check_parameters_prop(c, start, end)
                  THEN [waiting EXCEPT !.proposals =
                           @ \union {[id |-> p, contract |-> c, start |-> start, end |-> end]}]
                  ELSE waiting
    /\ UNCHANGED <<stored, block, snapshot, clock, rare, executed, finals, missed,
                   overwritten, removed, stopped>>

(* A proposal with an end of its own takes votes from its start to its     *)
(* end by the time of the last block; others take votes while stored.  No  *)
(* contract is that of an empty record.                                    *)
InVotingPeriod(r) ==
    LET g == stored.gov[r.contract] IN
    (g # NoGov /\ ~ ByLedger(g)) => r.start <= clock /\ clock < r.end

CastVote(p, v) ==
    /\ Genuine(stored.proposals[p])
    /\ InVotingPeriod(stored.proposals[p])
    /\ v \notin {NoVotes, stored.proposals[p].votes}
    /\ \A t \in waiting.votes : t.id # p
    /\ waiting' = [waiting EXCEPT !.votes = @ \union {[id |-> p, votes |-> v]}]
    /\ UNCHANGED <<stored, block, purse, snapshot, clock, rare, executed, finals, missed,
                   overwritten, removed, stopped>>

(* The proposal as it is with the votes adjusted for the block being       *)
(* stored: db_proposals_temp is read first.                                *)
TempOf(p) == IF block = NoBlock THEN {} ELSE {t \in block.temp : t.id = p}
Latest(p) == IF TempOf(p) = {} THEN stored.proposals[p]
             ELSE (CHOOSE t \in TempOf(p) : TRUE).record

(* Fast quorum is asked for by the author: the proposal is copied as it is *)
(* now, to be counted when the next block is made.                         *)
AskFastQuorum(p) ==
    /\ Genuine(Latest(p))
    /\ snapshot' = [snapshot EXCEPT ![p] = Latest(p)]
    /\ waiting' = [waiting EXCEPT !.fast = TRUE]
    /\ UNCHANGED <<stored, block, purse, clock, rare, executed, finals, missed, overwritten,
                   removed, stopped>>

(* The stages of a cycle fill it: their lengths sum to the period, or to   *)
(* less and the last one, of length 0, takes what is left.                 *)
check_days_stagesFaulty(g) == \A k \in DOMAIN g.stages : k < Len(g.stages) => g.stages[k].length # 0
check_days_stages(g) ==
    LET last == Len(g.stages)
        sum  == FoldSet(LAMBDA k, n : n + g.stages[k].length, 0, DOMAIN g.stages)
    IN  /\ \A k \in DOMAIN g.stages : k < last => g.stages[k].length # 0
        /\ \/ sum = g.period /\ g.stages[last].length # 0
           \/ sum < g.period /\ g.stages[last].length = 0

check_governance(g) ==
    /\ (g.type = "STAGED") <=> (g.stages # <<>>)
    /\ g.type = "STAGED" => check_days_stages(g)

(* A contract is made with a governance that passes the same checks.       *)
ASSUME FirstGovAssumption ==
    \A c \in Contract : FirstGov[c] # NoGov => check_governance(FirstGov[c])

UpdateGovernance(c, g) ==
    /\ check_governance(g)
    /\ rare < MaxRare
    /\ g # stored.gov[c]
    /\ waiting.update = {}
    /\ waiting' = [waiting EXCEPT !.update = {[contract |-> c, gov |-> g]}]
    /\ rare' = rare + 1
    /\ UNCHANGED <<stored, block, purse, snapshot, clock, executed, finals, missed, overwritten,
                   removed, stopped>>
-----------------------------------------------------------------------------
(* Making a block: what is due is counted and paid for.                    *)

(* A result takes the whole purse at the end, and one stage's fee before.  *)
TakenFaulty(p, r, final) == IF final THEN purse[p] ELSE Fee[p]
Taken(p, r, final) == IF final THEN purse[p] ELSE r.fee

(* An empty record names no purse.                                         *)
Result(p, r, c, g, final, fast) ==
    [id |-> p, contract |-> c, final |-> final, fast |-> fast,
     passed |-> calc(g, FALSE, r.votes, fast),
     funded |-> Genuine(r) /\ Taken(p, r, final) <= purse[p]]

(* A result that cannot be paid for stays in the block, but without a hash *)
(* and not marked as final.                                                *)
process_staged_cycle(p, c) ==
    LET r == stored.proposals[p]
        g == stored.gov[c]
        f == Result(p, r, c, g, g.type = "STAGED" => r.stage >= Len(g.stages), FALSE)
    IN  [f EXCEPT !.final = f.final /\ f.funded]

process_staggered_adaptive(p) ==
    LET r == stored.proposals[p]
    IN  Result(p, r, r.contract, stored.gov[r.contract], TRUE, FALSE)

(* The results of what was found due.  max_approved is to cut off proposals *)
(* beyond a number, but proposal_cut is set on copies of the results: no    *)
(* result is cut.  An id in a ledger whose proposal is gone gives an empty  *)
(* result, see Gone.                                                        *)
process_ledgers(due) ==
    {process_staged_cycle(e[1], e[2].contract) :
        e \in {x \in Proposal \X due.contracts :
                 x[1] \in x[2].ids /\ stored.proposals[x[1]] # NoProposal}}
    \union {process_staggered_adaptive(p) :
               p \in {q \in due.ids : Genuine(stored.proposals[q])}}

(* The empty result of an id is without effect, but unlike a result that   *)
(* cannot be paid for it has a status in the block, with the empty hash.   *)
Gone(due) == \E e \in due.contracts : \E p \in e.ids : stored.proposals[p] = NoProposal

(* A fast quorum result is final when it passes.                           *)
process_fast_quorum ==
    {LET r == snapshot[p]
         f == Result(p, r, r.contract, stored.gov[r.contract], TRUE, TRUE)
     IN  [f EXCEPT !.final = f.passed] :
        p \in {q \in Proposal : snapshot[q] # NoProposal}}

FastResults == IF waiting.fast THEN process_fast_quorum ELSE {}

(* The counts of results and of runs matter up to 2.                       *)
Capped(n) == IF n > 2 THEN 2 ELSE n

(* Governance transactions are taken into the next block, and forgotten.   *)
RunGovTxns == executed' = [p \in Proposal |->
    IF p \in stored.govTxn THEN Capped(executed[p] + 1) ELSE executed[p]]

(* A purse after its results: everything taken by a final one.             *)
PurseLeftFaulty(p, results) ==
    IF \E r \in results : r.id = p /\ ~ r.fast THEN purse[p] - stored.proposals[p].fee
                                               ELSE purse[p]

PurseLeft(p, results) ==
    IF \E r \in results : r.id = p /\ r.final THEN 0
    ELSE IF \E r \in results : r.id = p /\ ~ r.fast /\ r.funded
         THEN purse[p] - stored.proposals[p].fee ELSE purse[p]

(* A block is made at a time not before the last one's.  A balance that    *)
(* changes with it may change the votes its wallet has given: the proposal *)
(* is copied to db_proposals_temp with its votes adjusted.                 *)
MakeBlock(time, adjusted) ==
    /\ block = NoBlock
    /\ time >= clock
    /\ rare + Cardinality(adjusted) <= MaxRare
    /\ rare' = rare + Cardinality(adjusted)
    /\ LET results == process_ledgers(stored.due) \union FastResults IN
       /\ block' = [made |-> TRUE, time |-> time, txns |-> waiting, results |-> results,
                    gone |-> Gone(stored.due),
                    temp |-> {[id |-> a.id, record |->
                                 [stored.proposals[a.id] EXCEPT !.votes = a.votes]] :
                                 a \in adjusted}]
       /\ purse' = [p \in Proposal |-> PurseLeft(p, results)]
       /\ finals' = [p \in Proposal |->
              Capped(finals[p] + Cardinality({r \in results : r.id = p /\ r.final}))]
    /\ RunGovTxns
    /\ stored' = [stored EXCEPT !.govTxn = {}]
    /\ snapshot' = IF waiting.fast THEN [p \in Proposal |-> NoProposal] ELSE snapshot
    /\ waiting' = NoTxns
    /\ clock' = time
    /\ UNCHANGED <<missed, overwritten, removed, stopped>>
-----------------------------------------------------------------------------
(* Storing a block: each operator takes the databases and gives them back  *)
(* as one function of txn_batch or of store_txns.cpp leaves them.          *)

(* An update removes the proposals of the contract's ledger.  The ledger   *)
(* itself is only made new when the new governance uses one.               *)
RemovedFaulty(l) == l.ids
Removed(l) == l.ids \union l.pending

batch_contract_updates(d, txns) ==
    IF txns.update = {} THEN d
    ELSE LET u == CHOOSE x \in txns.update : TRUE
             old == d.ledger[u.contract]
         IN [d EXCEPT
               !.gov[u.contract] = u.gov,
               !.proposals = [p \in Proposal |->
                   IF p \in Removed(old) THEN NoProposal ELSE @[p]],
               !.ledger[u.contract] =
                   IF ByLedger(u.gov) THEN make_staged_cycle_ledger(u.gov, u.gov.start) ELSE old]

(* The fee of one stage, kept in the record.                               *)
setup(t, g) ==
    [contract |-> t.contract, stage |-> 0, start |-> 0, end |-> 0, votes |-> NoVotes,
     fee |-> IF g.type = "STAGED" THEN purse[t.id] \div Len(g.stages) ELSE purse[t.id]]

StoreProposal(t, d, time) ==
    LET g == d.gov[t.contract]
        from == IF t.start < time THEN time ELSE t.start
    IN CASE g.type = "ADAPTIVE" ->
              [d EXCEPT !.proposals[t.id] = [setup(t, g) EXCEPT !.end = t.end],
                        !.adaptive[t.id] = t.end]
         [] g.type = "STAGGERED" ->
              [d EXCEPT !.proposals[t.id] = [setup(t, g) EXCEPT !.start = from,
                                                                !.end = from + g.period],
                        !.adaptive[t.id] = from + g.period]
         [] g.type = "REMOVE" -> [d EXCEPT !.proposals[t.id] = setup(t, g)]
         [] OTHER ->
              [d EXCEPT !.proposals[t.id] = setup(t, g),
                        !.ledger[t.contract].pending = @ \union {t.id}]

batch_proposals(d, txns, time) ==
    FoldSet(LAMBDA t, e : StoreProposal(t, e, time), d, txns.proposals)

(* A vote counts if the proposal is still there.                           *)
StoreVote(t, d) ==
    IF Genuine(d.proposals[t.id]) THEN [d EXCEPT !.proposals[t.id].votes = t.votes] ELSE d

batch_votes(d, txns) == FoldSet(StoreVote, d, txns.votes)

(* A proposal leaves the ledger it was voted on in.                        *)
RemoveFromLedgerFaulty(d, r) ==
    [d EXCEPT !.ledger[r.contract].ids = @ \ {r.id}, !.ledger[r.contract].pending = @ \union {r.id}]
RemoveFromLedger(d, r) == [d EXCEPT !.ledger[r.contract].ids = @ \ {r.id}]

(* A proposal is ended by taking it out of both databases; its             *)
(* transactions are left to be carried out if it passed and was still      *)
(* stored when this result was.                                            *)
EndFaulty(r, d) == [d EXCEPT !.proposals[r.id] = NoProposal]
End(r, d) == [d EXCEPT !.proposals[r.id] = NoProposal, !.adaptive[r.id] = NoTime]

wrap_gov_txnFaulty(r, d) ==
    IF r.passed /\ TxnFor[r.id] # NoTxn THEN d.govTxn \union {r.id} ELSE d.govTxn
wrap_gov_txn(r, d) ==
    IF r.passed /\ Genuine(d.proposals[r.id]) /\ TxnFor[r.id] # NoTxn
    THEN d.govTxn \union {r.id} ELSE d.govTxn

(* What one result does: a final one ends the proposal; at the end of an   *)
(* earlier stage a passed proposal goes to the next one, with no votes,    *)
(* and any other is dropped.  Nothing is done for a fast quorum that fails. *)
(* When the proposal that goes to its next stage is gone, removed by an    *)
(* update in the same block, an empty record is stored in its place.       *)
StoreResult(r, d) ==
    LET final == [End(r, d) EXCEPT !.govTxn = wrap_gov_txn(r, d)]
    IN CASE r.final /\ ByLedger(d.gov[r.contract]) -> RemoveFromLedger(final, r)
         [] r.final /\ ~ ByLedger(d.gov[r.contract]) -> final
         [] ~ r.final /\ ~ r.fast /\ r.passed ->
              LET old == Parsed(d.proposals[r.id]) IN
              [d EXCEPT !.proposals[r.id] = [old EXCEPT !.stage = old.stage + 1,
                                                        !.votes = NoVotes]]
         [] ~ r.final /\ ~ r.fast /\ ~ r.passed ->
              RemoveFromLedger([d EXCEPT !.proposals[r.id] = NoProposal], r)
         [] OTHER -> d

(* The results of what was due come before those of fast quorums.          *)
batch_proposal_results(d, results) ==
    FoldSet(StoreResult, FoldSet(StoreResult, d, {r \in results : ~ r.fast}),
            {r \in results : r.fast})

(* The adjusted copies overwrite what the block has stored.                *)
StoreCopy(t, d) == [d EXCEPT !.proposals[t.id] = t.record]

store_proposal_adjustment(d, temp) == FoldSet(StoreCopy, d, temp)

check_staggered_adaptive(d, time) == {p \in Proposal : d.adaptive[p] # NoTime /\ time >= d.adaptive[p]}

LedgerEnd(l) == IF l.stageEnd # NoTime THEN l.stageEnd ELSE l.cycleEnd

check_staged_cycle(d, time) ==
    {[contract |-> c, ids |-> d.ledger[c].ids] :
        c \in {k \in Contract : d.ledger[k].ids # {} /\ time >= LedgerEnd(d.ledger[k])}}

(* The ledgers of contracts are only looked at when no single proposal is  *)
(* due: the two checks are joined by ||.                                   *)
check_ledgers(d, time) ==
    LET single == check_staggered_adaptive(d, time)
    IN [d EXCEPT !.due = [ids |-> single,
                          contracts |-> IF single # {} THEN {} ELSE check_staged_cycle(d, time)]]

(* The first end of a cycle after time.                                    *)
NextEnd(g, l, time) ==
    LET ends == {k \in 1 .. MaxTime + 1 : l.cycleEnd + k * g.period > time}
    IN  l.cycleEnd + Min(ends) * g.period

(* After the last stage a new cycle takes up the pending proposals.        *)
LastStage(g, l) == l.stage >= Len(g.stages)

staged(g, l, time) ==
    IF LastStage(g, l)
    THEN LET end == NextEnd(g, l, time) IN
         [stage |-> 1, cycleEnd |-> end, ids |-> l.pending, pending |-> {},
          stageEnd |-> IF g.stages[1].length = 0 THEN end
                       ELSE end - g.period + g.stages[1].length]
    ELSE LET n == g.stages[l.stage + 1].length IN
         [l EXCEPT !.stage = @ + 1,
                   !.stageEnd = IF n = 0 THEN l.cycleEnd ELSE @ + n]

cycle(g, l) == [NoLedger EXCEPT !.cycleEnd = l.cycleEnd + g.period, !.ids = l.pending]

Turns(g, l, time) ==
    \/ g # NoGov /\ g.type = "STAGED" /\ time >= l.stageEnd
    \/ g # NoGov /\ g.type = "CYCLE" /\ time >= l.cycleEnd

(* Proposals a STAGED contract's new cycle takes up: they enter stage 1.   *)
(* One that a fast quorum has ended is still pending, and an empty record  *)
(* enters stage 1 for it.                                                  *)
OpenedFaulty(d, time) == {}
Opened(d, time) ==
    {p \in Proposal : \E c \in Contract :
        /\ Turns(d.gov[c], d.ledger[c], time)
        /\ d.gov[c].type = "STAGED" /\ LastStage(d.gov[c], d.ledger[c])
        /\ p \in d.ledger[c].pending}

update_staged_cycle(d, time) ==
    LET new == [c \in Contract |->
                  LET g == d.gov[c] l == d.ledger[c] IN
                  IF ~ Turns(g, l, time) THEN l
                  ELSE IF g.type = "STAGED" THEN staged(g, l, time) ELSE cycle(g, l)]
    IN [d EXCEPT !.ledger = new,
                 !.proposals = [p \in Proposal |->
                     IF p \in Opened(d, time) THEN [Parsed(@[p]) EXCEPT !.stage = 1] ELSE @[p]]]

BeforeResults(d) ==
    batch_votes(
        batch_proposals(batch_contract_updates(d, block.txns), block.txns, block.time),
        block.txns)

Batched(d) == batch_proposal_results(BeforeResults(d), block.results)

(* A result without a hash is looked for among the statuses of the block.  *)
(* None is found unless an id was gone, and then map::at throws.           *)
Lost(r) == ~ r.fast /\ ~ r.funded
Unfound == ~ block.gone /\ \E r \in block.results : Lost(r)

(* block_process::store_txns.                                              *)
StoreBlock ==
    /\ block # NoBlock /\ ~ Unfound
    /\ LET batched  == Batched(stored)
           adjusted == store_proposal_adjustment(batched, block.temp)
           checked  == check_ledgers(adjusted, block.time)
       IN /\ stored' = update_staged_cycle(checked, block.time)
          /\ overwritten' = overwritten \union {t.id : t \in {x \in block.temp :
                                            batched.proposals[x.id] # stored.proposals[x.id]}}
          /\ missed' = missed \union
                 {p \in Proposal : \E c \in Contract :
                     /\ p \in adjusted.ledger[c].ids
                     /\ Turns(adjusted.gov[c], adjusted.ledger[c], block.time)
                     /\ checked.due.contracts = {}}
    /\ removed' = removed \union
           {p \in Proposal : \E u \in block.txns.update : p \in Removed(stored.ledger[u.contract])}
    /\ block' = NoBlock
    /\ UNCHANGED <<waiting, purse, snapshot, clock, rare, executed, finals, stopped>>

(* Nothing catches the exception: the program ends with the results before *)
(* the unfound one stored, and nothing after it.                           *)
StopStoring ==
    /\ block # NoBlock /\ Unfound
    /\ \E done \in SUBSET {r \in block.results : ~ r.fast /\ r.funded} :
          stored' = FoldSet(StoreResult, BeforeResults(stored), done)
    /\ stopped' = TRUE
    /\ UNCHANGED <<waiting, block, purse, snapshot, clock, rare, executed, finals, missed,
                   overwritten, removed>>
-----------------------------------------------------------------------------
(* The votes of a proposal that somebody voted on may be adjusted.         *)
Adjustments ==
    {{}} \union {{[id |-> p, votes |-> v]} : v \in VoteCounts \ {NoVotes},
        p \in {q \in Proposal : /\ Genuine(stored.proposals[q])
                                /\ stored.proposals[q].votes # NoVotes}}

Make == \E time \in Times, a \in Adjustments : MakeBlock(time, a)

Preprocess ==
    \/ \E p \in Proposal, c \in Contract, w \in Windows : Propose(p, c, w[1], w[2])
    \/ \E p \in Proposal, v \in VoteCounts : CastVote(p, v)
    \/ \E p \in Proposal : AskFastQuorum(p)
    \/ \E c \in Contract, g \in LaterGov : UpdateGovernance(c, g)

Next == ~ stopped /\ (Preprocess \/ Make \/ StoreBlock \/ StopStoring)

(* Blocks go on being made, if only for the validators' heartbeats, and a  *)
(* block that is made is stored, or the program ends.  While it runs Make  *)
(* is enabled when there is no block and StoreBlock or StopStoring when    *)
(* there is one, so that this is weak fairness of making and of storing.   *)
Fairness == []<>(block # NoBlock) /\ []<>(block = NoBlock \/ stopped)

Spec == Init /\ [][Next]_vars /\ Fairness
-----------------------------------------------------------------------------
Record(r) ==
    /\ r.contract \in Contract \union {NoContract} /\ r.stage \in Nat /\ r.fee \in Nat
    /\ r.start \in Nat /\ r.end \in Nat /\ r.votes \in VoteCounts

(* Every variable has the kind of value its database or map holds.         *)
TypeOK ==
    /\ \A p \in Proposal :
          /\ stored.proposals[p] = NoProposal \/ Record(stored.proposals[p])
          /\ snapshot[p] # NoProposal => Record(snapshot[p]) /\ Genuine(snapshot[p])
          /\ stored.adaptive[p] \in Nat \union {NoTime}
    /\ \A c \in Contract :
          /\ stored.gov[c] \in LaterGov \union {FirstGov[c]}
          /\ stored.ledger[c].ids \union stored.ledger[c].pending \subseteq Proposal
    /\ stored.due.ids \subseteq Proposal /\ stored.govTxn \subseteq Proposal
    /\ purse \in [Proposal -> Nat]
    /\ clock \in Times /\ rare \in 0 .. MaxRare
    /\ executed \in [Proposal -> Nat] /\ finals \in [Proposal -> Nat]

(* No genuine record is left of a proposal, and it has had its final       *)
(* result or was removed with its contract's governance.                   *)
Over(p) == ~ Genuine(stored.proposals[p]) /\ (finals[p] > 0 \/ p \in removed)

(* A stage's result can always be paid for from the proposal's purse: the  *)
(* part of the fee stored for a stage never sums to more than was kept.    *)
(* The results of empty records cannot, and these only stand where a       *)
(* proposal is over.  (A proposal put back after its end is counted with   *)
(* an empty purse.)                                                        *)
ResultsFunded ==
    (block # NoBlock /\ ~ stopped) =>
        \A r \in block.results : r.id \notin overwritten => r.funded \/ Over(r.id)

(* The transactions of a proposal are carried out at most once, even when  *)
(* its end and a fast quorum are counted in the same block or a copy kept  *)
(* for fast quorum outlives it, unless a balance adjustment stored the     *)
(* proposal again after its end.                                           *)
ExecutedOnce == \A p \in Proposal : p \notin overwritten => executed[p] <= 1

(* The validators that count a proposal are paid all that was kept for     *)
(* them: once there was a final result, by whichever way, the purse is     *)
(* empty.                                                                  *)
SpentAtEnd == \A p \in Proposal : finals[p] > 0 => purse[p] = 0

(* A proposal in the ledger of a STAGED contract is voted on in the stage  *)
(* the ledger is in; when that stage has just ended and its result is due, *)
(* the proposal is one stage behind, unless the ledger passed it over or a *)
(* balance adjustment put back an earlier copy of it.                      *)
Due(p) == \E e \in stored.due.contracts : p \in e.ids
StagesInStep == ~ stopped =>
    \A c \in Contract : \A p \in stored.ledger[c].ids \ (missed \union overwritten) :
        (stored.gov[c].type = "STAGED" /\ Genuine(stored.proposals[p])) =>
            stored.proposals[p].stage + (IF Due(p) THEN 1 ELSE 0) = stored.ledger[c].stage

(* No stage with proposals to vote on ends after the cycle it is a stage   *)
(* of, whenever the contract's governance is changed and however late the  *)
(* blocks come.                                                            *)
StagesWithinCycle ==
    \A c \in Contract :
        (stored.gov[c] # NoGov /\ stored.gov[c].type = "STAGED" /\ stored.ledger[c].ids # {}) =>
            stored.ledger[c].stageEnd <= stored.ledger[c].cycleEnd

(* No stored proposal is forgotten: its end is set, or a ledger will come  *)
(* to it, or its result is due, unless it was passed over or put back.  An *)
(* empty record may stay for good, in no ledger and with no end, but never *)
(* in the place of a proposal that is not over.                            *)
NotForgotten == ~ stopped =>
    \A p \in Proposal \ (missed \union overwritten) :
        /\ Genuine(stored.proposals[p]) =>
              \/ stored.adaptive[p] # NoTime
              \/ Due(p)
              \/ \E c \in Contract : p \in stored.ledger[c].ids \union stored.ledger[c].pending
        /\ (stored.proposals[p] # NoProposal /\ ~ Genuine(stored.proposals[p])) => Over(p)

(* A proposal with an end of its own gets its result once that end passed, *)
(* unless the program ends first.                                          *)
TimedResolved ==
    \A p \in Proposal :
        (stored.adaptive[p] # NoTime /\ stored.adaptive[p] <= clock)
            ~> (stored.adaptive[p] = NoTime \/ stopped)

(* A proposal is paid for, carried out and ended once: each stage's        *)
(* validators from the purse, the transactions at most once, and nothing   *)
(* is left in the purse when it is over.                                   *)
EndedOnce == TypeOK /\ ResultsFunded /\ ExecutedOnce /\ SpentAtEnd

(* Ledger and proposals go through the stages of a cycle in step, and a    *)
(* stage is over when its cycle is.                                        *)
StagesInCycle == StagesInStep /\ StagesWithinCycle
=============================================================================
