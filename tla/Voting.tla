------------------------------- MODULE Voting -------------------------------
(***************************************************************************)
(* Votes on proposals, and votes delegated to other wallets.               *)
(*                                                                         *)
(* A vote counts as much as the wallet's balance in the voting instrument, *)
(* and goes on doing so: when the balance changes, the tallies of all      *)
(* proposals the wallet has voted on change with it.  A wallet that        *)
(* delegates its votes keeps a fund (the wallet "v_" + its address), from  *)
(* which the fee is paid each time a delegate votes for it.                *)
(*                                                                         *)
(* Who votes with a delegate, and who pays, is decided when the vote is    *)
(* pre-processed (process_votes.cpp); the tallies change when the block is *)
(* stored (batch_gov.cpp), after copies of the proposals adjusted to the   *)
(* block's payments were put aside in db_proposals_temp                    *)
(* (balance_tracker.cpp), which are stored last.  Making and storing a     *)
(* block is one action here, and payments are added up: their order is the *)
(* subject of Ledger, the end of proposals that of Governance.  There is   *)
(* one governed contract.  A definition whose name ends in "Faulty" is a   *)
(* variant with a plausible mistake.                                       *)
(***************************************************************************)
EXTENDS Integers, SequencesExt

CONSTANTS
    Wallet,
    Proposal,
    Choice,         \* support and against, or the options
    NoVote,         \* no choice, no record
    NoKey,          \* a key that is not in a map or a database
    Instruments,    \* sequence of the contract's voting instruments
    FirstAmount,    \* FirstAmount[w][i]: first balance, or NoKey
    FirstCoins,     \* FirstCoins[w]: first balance in the token fees are paid in
    MayDelegate,    \* delegations that may be made: records by, to, priority
    Deposits,       \* amounts a delegator may want in its fund
    VoteFee,        \* fee of one delegated vote
    MaxWaiting,     \* bound on transactions in one block
    MaxPayments,    \* bound on payments
    Wrap            \* 2^256: tallies are unsigned

Instrument == Range(Instruments)

ASSUME VotingAssumption ==
    /\ IsFiniteSet(Wallet) /\ IsFiniteSet(Proposal)
    /\ Instruments \in Seq(Instrument)
    /\ MayDelegate \subseteq [by : Wallet, to : Wallet, priority : Nat]
    /\ VoteFee \in Nat \ {0} /\ Wrap \in Nat \ {0}
    /\ Deposits \subseteq Nat /\ MaxWaiting \in Nat /\ MaxPayments \in Nat
    /\ NoKey \notin Nat /\ NoVote \notin Choice \union Nat
    /\ NoVote \notin [Proposal -> Nat \union {NoVote}]
    /\ NoVote \notin [Choice -> [Instrument -> Nat \union {NoKey}]]

(* All there is of an instrument can be counted.                           *)
ASSUME HoldingAssumption ==
    /\ FirstAmount \in [Wallet -> [Instrument -> Nat \union {NoKey}]]
    /\ FirstCoins \in [Wallet -> Nat]
    /\ \A i \in Instrument :
          SumFunction([w \in Wallet |->
                          IF FirstAmount[w][i] = NoKey THEN 0 ELSE FirstAmount[w][i]]) < Wrap

VARIABLES
    amount,      \* db_wallets: amount[w][i], balance in a voting instrument
    coins,       \* running balance in the token fees are paid in
    fund,        \* running balance of the wallet "v_" + w
    tally,       \* db_proposals: tally[p][c][i], or NoKey; p is NoVote when ended
    given,       \* db_proposal_wallets: given[w][p], the choice counted for w
    priority,    \* db_voted_proposals: priority[w], a function of proposals, or NoVote
    recipients,  \* db_delegate_recipient: recipients[w], sequence of [by, priority]
    allowed,     \* db_delegate_vote: wallets that let delegates' votes be paid for
    waiting,     \* transactions for the next block
    payments,    \* payments so far, up to MaxPayments
    cast,        \* cast[w][p]: choices w itself has voted for
    own,         \* own[w][p]: w's last own vote that was counted
    raced,       \* raced[w][p]: a delegate's vote for w was under way when w voted
    overwritten  \* proposals voted on in a block whose payments adjusted them

databases == <<tally, given, priority, recipients, allowed>>
history == <<cast, own, raced, overwritten>>
votingVars == <<amount, coins, fund, databases, waiting, payments, history>>

NoVotes == [c \in Choice |-> [i \in Instrument |-> NoKey]]

VotingInit ==
    /\ amount = FirstAmount
    /\ coins = FirstCoins
    /\ fund = [w \in Wallet |-> 0]
    /\ tally = [p \in Proposal |-> NoVotes]
    /\ given = [w \in Wallet |-> [p \in Proposal |-> NoVote]]
    /\ priority = [w \in Wallet |-> NoVote]
    /\ recipients = [w \in Wallet |-> <<>>]
    /\ allowed = {}
    /\ waiting = [votes |-> {}, delegations |-> {}, payments |-> {}]
    /\ payments = 0
    /\ cast = [w \in Wallet |-> [p \in Proposal |-> {}]]
    /\ own = [w \in Wallet |-> [p \in Proposal |-> NoVote]]
    /\ raced = [w \in Wallet |-> [p \in Proposal |-> FALSE]]
    /\ overwritten = {}

Room == Cardinality(waiting.votes) + Cardinality(waiting.delegations)
            + Cardinality(waiting.payments) < MaxWaiting
-----------------------------------------------------------------------------
(* Pre-processing a vote.  The search for the wallets that vote with it    *)
(* carries the wallets it has been to, the wallets found and the funds.    *)

(* A delegator with a record of any proposal at all is not charged and not *)
(* counted; if the record is of this proposal and no worse, it is noted as *)
(* failed, which has no effect either.                                     *)
process_delegated_feesFaulty(w, s) == [s EXCEPT !.wallets = Append(@, w)]
process_delegated_feesUnchecked(w, s) ==
    IF w \in allowed THEN [s EXCEPT !.wallets = Append(@, w), !.fund[w] = @ - VoteFee] ELSE s
process_delegated_fees(w, s) ==
    IF w \in allowed /\ s.fund[w] >= VoteFee
    THEN [s EXCEPT !.wallets = Append(@, w), !.fund[w] = @ - VoteFee]
    ELSE s

(* One step of the search.  The recursion of the code is the list todo: a  *)
(* delegator is charged when those who delegate to it have been searched,  *)
(* which is at once if it was come to before.                              *)
Delegators(w) == [k \in DOMAIN recipients[w] |-> recipients[w][k].by]

check_delegates(s) ==
    IF s.todo = <<>> THEN s
    ELSE LET w == Head(s.todo)
             rest == [s EXCEPT !.todo = Tail(@)]
         IN  IF w \notin s.seen
             THEN [s EXCEPT !.seen = @ \union {w}, !.todo = Delegators(w) \o @]
             ELSE IF priority[w] = NoVote THEN process_delegated_fees(w, rest) ELSE rest

SearchSteps == SumFunction([w \in Wallet |-> Len(recipients[w]) + 1])

process_delegated(w) ==
    FoldLeft(LAMBDA s, k : check_delegates(s),
             [todo |-> Delegators(w), seen |-> {w}, wallets |-> <<>>, fund |-> fund],
             [k \in 1 .. SearchSteps |-> k])

Vote(w, p, c) ==
    /\ tally[p] # NoVote
    /\ Room
    /\ \A v \in waiting.votes : ~ (v.by = w /\ v.id = p)
    /\ LET found == process_delegated(w) IN
       /\ waiting' = [waiting EXCEPT !.votes = @ \union
                         {[by |-> w, id |-> p, choice |-> c, with |-> found.wallets]}]
       /\ fund' = found.fund
    /\ UNCHANGED <<amount, coins, databases, payments, history>>

(* A delegation brings the fund to the amount it asks for, from or to the  *)
(* wallet's own balance.                                                   *)
Delegate(m, deposit) ==
    /\ Room
    /\ \A d \in waiting.delegations : d.by # m.by
    /\ coins[m.by] + fund[m.by] >= deposit
    /\ coins' = [coins EXCEPT ![m.by] = @ + fund[m.by] - deposit]
    /\ fund' = [fund EXCEPT ![m.by] = deposit]
    /\ waiting' = [waiting EXCEPT !.delegations = @ \union {m}]
    /\ UNCHANGED <<amount, databases, payments, history>>

(* A payment in a voting instrument, within the running balance.           *)
Change(pay, w, i) ==
    LET Moved(side) == SumFunction([x \in pay |->
                           IF x[side] = w /\ x.in = i THEN x.amount ELSE 0])
    IN [in |-> Moved("to"), out |-> Moved("from")]

Balance(w, i) == IF amount[w][i] = NoKey THEN 0 ELSE amount[w][i]

Pay(from, to, i, n) ==
    /\ payments < MaxPayments /\ Room
    /\ from # to /\ n > 0
    /\ LET c == Change(waiting.payments, from, i) IN n + c.out <= Balance(from, i) + c.in
    /\ \A x \in waiting.payments : x.from # from
    /\ waiting' = [waiting EXCEPT !.payments = @ \union
                      {[from |-> from, to |-> to, in |-> i, amount |-> n]}]
    /\ payments' = payments + 1
    /\ UNCHANGED <<amount, coins, fund, databases, history>>
-----------------------------------------------------------------------------
(* A block.                                                                *)

NewAmount(w, i) ==
    LET c == Change(waiting.payments, w, i) IN
    IF c.in + c.out = 0 THEN amount[w][i] ELSE Balance(w, i) + c.in - c.out

store_wallets == [w \in Wallet |-> [i \in Instrument |-> NewAmount(w, i)]]

(* The proposals that the block's payments adjust, and their copies: for   *)
(* each wallet paid from or to, the tally of the choice counted for it, if *)
(* that has votes in the instrument.                                       *)
Adjusts(w, i, p) ==
    /\ tally[p] # NoVote /\ given[w][p] # NoVote
    /\ Change(waiting.payments, w, i) # [in |-> 0, out |-> 0]
    /\ tally[p][given[w][p]][i] # NoKey

Adjusted == {p \in Proposal : \E w \in Wallet, i \in Instrument : Adjusts(w, i, p)}

adjust_proposal_votesFaulty(p, c, i) == tally[p][c][i]
adjust_proposal_votes(p, c, i) ==
    FoldSet(LAMBDA w, n : LET x == Change(waiting.payments, w, i) IN (n + x.in - x.out) % Wrap,
            tally[p][c][i],
            {w \in Wallet : Adjusts(w, i, p) /\ given[w][p] = c})

proposals_temp == [p \in Adjusted |-> [c \in Choice |-> [i \in Instrument |->
                                           adjust_proposal_votes(p, c, i)]]]

(* One vote of one wallet in one instrument, on the databases d: nothing   *)
(* when the same choice is counted already, or the wallet has no key.      *)
remove_votesFaulty(t, n, old, i) == t
remove_votes(t, n, old, i) ==
    IF old = NoVote \/ t[old][i] = NoKey THEN t ELSE [t EXCEPT ![old][i] = (@ - n) % Wrap]

add_votes(t, n, c, i) == [t EXCEPT ![c][i] = IF @ = NoKey THEN n ELSE (@ + n) % Wrap]

something(d, w, i, v) ==
    LET old == d.given[w][v.id]
        n   == NewAmount(w, i)
    IN  IF old = v.choice \/ n = NoKey THEN d
        ELSE [d EXCEPT !.tally[v.id] = add_votes(remove_votes(@, n, old, i), n, v.choice, i),
                       !.given[w][v.id] = v.choice]

CountWallet(d, w, v) == FoldLeft(LAMBDA e, i : something(e, w, i, v), d, Instruments)

SetPriority(d, w, p, n) ==
    [d EXCEPT !.priority[w] =
        IF @ = NoVote THEN [q \in Proposal |-> IF q = p THEN n ELSE NoVote] ELSE [@ EXCEPT ![p] = n]]

(* The priority a delegator has given to the voter; only direct ones have. *)
store_voted_priority(d, w, v) ==
    LET known == {k \in DOMAIN recipients[v.by] : recipients[v.by][k].by = w} IN
    IF known = {} THEN d
    ELSE SetPriority(d, w, v.id, recipients[v.by][CHOOSE k \in known : TRUE].priority)

store_own_priorityFaulty(d, w, p) == d
store_own_priority(d, w, p) == SetPriority(d, w, p, 0)

(* A vote: the delegators' shares first, then the voter's own.             *)
CountVote(d, v) ==
    LET marked == store_own_priority(d, v.by, v.id) IN
    IF d.tally[v.id] = NoVote THEN marked
    ELSE CountWallet(
            FoldLeft(LAMBDA e, w : CountWallet(store_voted_priority(e, w, v), w, v),
                     marked, v.with),
            v.by, v)

batch_votes(order) ==
    FoldLeft(CountVote,
             [tally |-> tally, given |-> given, priority |-> priority],
             order)

(* A delegation is noted with its recipient, or its priority there is      *)
(* changed.  Former recipients keep it: the record they would be found in  *)
(* is written to another database.                                         *)
Noted(list, m) ==
    LET new == [by |-> m.by, priority |-> m.priority] IN
    IF \E k \in DOMAIN list : list[k].by = m.by
    THEN [k \in DOMAIN list |-> IF list[k].by = m.by THEN new ELSE list[k]]
    ELSE Append(list, new)

batch_delegated_votingFaulty ==
    FoldSet(LAMBDA m, r : [r EXCEPT ![m.by] = Noted(@, [m EXCEPT !.by = m.to])],
            recipients, waiting.delegations)
batch_delegated_voting ==
    FoldSet(LAMBDA m, r : [r EXCEPT ![m.to] = Noted(@, m)], recipients, waiting.delegations)

(* store_proposal_adjustment: the adjusted copies are stored last.         *)
AfterAdjustment(t) == [p \in Proposal |-> IF p \in Adjusted THEN proposals_temp[p] ELSE t[p]]

(* Whether another wallet's vote for w is in this block.                   *)
VotedFor(w, p) == \E v \in waiting.votes : v.id = p /\ v.by # w /\ w \in Range(v.with)

(* The block: the order of its votes is that of their keys in the database. *)
StoreTxns ==
    /\ waiting # [votes |-> {}, delegations |-> {}, payments |-> {}]
    /\ \E order \in SetToSeqs(waiting.votes) :
          LET d == batch_votes(order) IN
          /\ tally' = AfterAdjustment(d.tally)
          /\ given' = d.given
          /\ priority' = d.priority
    /\ amount' = store_wallets
    /\ recipients' = batch_delegated_voting
    /\ allowed' = allowed \union {m.by : m \in waiting.delegations}
    /\ cast' = [w \in Wallet |-> [p \in Proposal |-> cast[w][p] \union
           {v.choice : v \in {x \in waiting.votes : x.by = w /\ x.id = p}}]]
    /\ own' = [w \in Wallet |-> [p \in Proposal |->
           IF \E v \in waiting.votes : v.by = w /\ v.id = p
           THEN (CHOOSE v \in waiting.votes : v.by = w /\ v.id = p).choice
           ELSE own[w][p]]]
    /\ raced' = [w \in Wallet |-> [p \in Proposal |->
           raced[w][p] \/ (VotedFor(w, p) /\ \E v \in waiting.votes : v.by = w /\ v.id = p)]]
    /\ overwritten' = overwritten \union {p \in Adjusted : \E v \in waiting.votes : v.id = p}
    /\ waiting' = [votes |-> {}, delegations |-> {}, payments |-> {}]
    /\ UNCHANGED <<coins, fund, payments>>

VotingNext ==
    \/ \E w \in Wallet, p \in Proposal, c \in Choice : Vote(w, p, c)
    \/ \E m \in MayDelegate, deposit \in Deposits : Delegate(m, deposit)
    \/ \E v, w \in Wallet, i \in Instrument : \E n \in 1 .. Balance(v, i) : Pay(v, w, i, n)
    \/ StoreTxns

VotingSpec == VotingInit /\ [][VotingNext]_votingVars
-----------------------------------------------------------------------------
(* Every variable has the kind of value its database or map holds.         *)
VotesTyped ==
    /\ amount \in [Wallet -> [Instrument -> Nat \union {NoKey}]]
    /\ coins \in [Wallet -> Nat] /\ fund \in [Wallet -> Nat]
    /\ tally \in [Proposal -> [Choice -> [Instrument -> Nat \union {NoKey}]]]
    /\ given \in [Wallet -> [Proposal -> Choice \union {NoVote}]]
    /\ priority \in [Wallet -> [Proposal -> Nat \union {NoVote}] \union {NoVote}]
    /\ recipients \in [Wallet -> Seq([by : Wallet, priority : Nat])]
    /\ allowed \subseteq Wallet

(* The tally of a choice is what the wallets counted for it hold now,      *)
(* through payments, changed votes and delegated votes, unless a block     *)
(* both voted on the proposal and adjusted it.  (With one instrument; of   *)
(* several, only the first one a wallet has is counted.)                   *)
Held(p, c, i) ==
    SumFunction([w \in Wallet |-> IF given[w][p] = c THEN Balance(w, i) ELSE 0])
CountedIsHeld ==
    \A p \in Proposal \ overwritten : \A c \in Choice, i \in Instrument :
        (IF tally[p][c][i] = NoKey THEN 0 ELSE tally[p][c][i]) = Held(p, c, i)

(* A wallet's own vote is never replaced by a delegate's, unless both were *)
(* under way at the same time.                                             *)
OwnVotePrevails ==
    \A w \in Wallet, p \in Proposal :
        (own[w][p] # NoVote /\ ~ raced[w][p] /\ \E i \in Instrument : amount[w][i] # NoKey) =>
            given[w][p] \in {own[w][p], NoVote}

(* No wallet is counted for a choice that neither it nor anybody it may    *)
(* delegate to, directly or through others, has voted for.                 *)
Closed(ws) == \A m \in MayDelegate : m.by \in ws => m.to \in ws
Delegates == [w \in Wallet |->
    {v \in Wallet : \A ws \in SUBSET Wallet : w \in ws /\ Closed(ws) => v \in ws}]
VotesDelegated ==
    \A w \in Wallet, p \in Proposal :
        given[w][p] # NoVote => \E v \in Delegates[w] : given[w][p] \in cast[v][p]

(* Nobody is counted through others only, on any number of proposals,      *)
(* without having paid the fee for each.                                   *)
Paid(w) == FirstCoins[w] - (coins[w] + fund[w])
VotePaid ==
    \A w \in Wallet :
        Paid(w) >= VoteFee * Cardinality({p \in Proposal : given[w][p] # NoVote /\ cast[w][p] = {}})

(* What is counted for a choice is at every moment what its voters hold.   *)
TallyBacked == VotesTyped /\ CountedIsHeld

(* A wallet is counted for what it voted itself, or else for what its      *)
(* delegates voted, and it has paid for being counted.                     *)
VotesAuthorised == OwnVotePrevails /\ VotesDelegated /\ VotePaid
=============================================================================
