------------------------------ MODULE MCRules ------------------------------
(***************************************************************************)
(* The rules that need no other component.  A behaviour is about one       *)
(* topic: the fees of MCFees; an input that grows step by step, over which *)
(* the pure operators are evaluated (the days of some years, a list of     *)
(* validators, the transactions of a block, compliance transactions,       *)
(* grants and uses of an allowance); or the transactions that a node holds *)
(* until their delay is over.                                              *)
(***************************************************************************)
EXTENDS MCFees

CONSTANTS
    Growing,     \* topics with an input that grows
    Length,      \* Length[topic]: bound on the length of its input
    LastDay,     \* bound on the days, which start with 2023
    None,        \* no wallet, no record
    HeldTxn,     \* transactions with a delay
    QuashKey     \* keys that may quash them

VARIABLES topic, input

(* Those of QuashLedger.                                                   *)
VARIABLES held, entry, timed, ledger, lookup, noted, listed, snapshot, header, clock, restarts,
          ran, quashed, dropped
heldVars == <<held, entry, timed, ledger, lookup, noted, listed, snapshot, header, clock, restarts,
              ran, quashed, dropped>>

LOCAL INSTANCE SequencesExt
LOCAL INSTANCE FiniteSets
LOCAL INSTANCE TLC

(* No topic of MCFees: its variables stay at one value.                    *)
Unused ==
    /\ fee = 0 /\ burn = 0 /\ validator = 0 /\ part = 0 /\ signers = 2
    /\ allowed = <<"ANY", "ANY">>

-----------------------------------------------------------------------------
(* The calendar: all the ways to divide a cycle of up to three months, or  *)
(* of about one, into up to three stages.                                  *)
Dates == INSTANCE Calendar

StageLists ==
    UNION {[1 .. n -> [unit : {"DAYS"}, length : {0, 1, 27, 28, 30}]
                         \union [unit : {"MONTHS"}, length : 0 .. 2]] : n \in 1 .. 3}
Cycles == ({"DAYS"} \X {1, 28, 31, 58}) \union ({"MONTHS"} \X (1 .. 3))
Staged ==
    {[unit |-> c[1], period |-> c[2], stages |-> s] :
        c \in Cycles, s \in StageLists}
Accepted == {g \in Staged : Dates!check_stages(g.unit, g.period, g.stages)}

-----------------------------------------------------------------------------
(* Validators that stake up to two of three currencies.                    *)
Weights == INSTANCE Stakes WITH
    Currency <- {"zera", "gold", "iron"}, Zera <- "zera",
    MaxStake <- [zera |-> 0, gold |-> 8, iron |-> 100]

Validators ==
    [staked : {<<>>, <<"zera">>, <<"gold">>, <<"gold", "iron">>, <<"iron", "zera">>},
     holds : {[zera |-> z, gold |-> 5, iron |-> i] : z \in {0, 11}, i \in {0, 9}}]

-----------------------------------------------------------------------------
(* Blocks with two types of transactions that are in the tree.             *)
Tree == INSTANCE Merkle WITH Types <- <<"coin", "mint">>, Empty <- None
Hashes == {"h1", "h2", "h3"}
BlockOf(txns) ==
    [type \in {"coin", "mint"} |->
        LET own == SelectSeq(txns, LAMBDA t : t.type = type)
        IN  [i \in DOMAIN own |-> own[i].hash]]
Blocks(n) ==
    {[coin |-> SubSeq(all, 1, k), mint |-> SubSeq(all, k + 1, n)] :
        all \in [1 .. n -> Hashes], k \in 0 .. n}

-----------------------------------------------------------------------------
(* A wallet, levels of two authorities, the hour 5.                        *)
Levels == INSTANCE Compliance WITH Authority <- {"A", "B"}, NoWallet <- None
Now == 5
Assignments ==
    [by : {"A", "B"}, level : {1, 2}, assign : {TRUE}, expiry : {0, 4, 5}]
        \union [by : {"A", "B"}, level : {1, 2}, assign : {FALSE}, expiry : {0}]
Require(by, level) == [by |-> by, level |-> level]
Groups == {<<>>, <<{Require("A", 1)}>>,
           <<{Require("A", 1), Require("B", 2)}, {Require("A", 2)}>>}
Wallet(txns) == FoldLeft(Levels!batch_compliance, None, txns)

-----------------------------------------------------------------------------
(* Grants and uses, some time apart.                                       *)
Grants == INSTANCE Allowance
Events ==
    [kind : {"grant"}, wait : {0, 1}, authorize : {TRUE}, start : {0, 3}, unit : {"SECONDS"},
     period : {0, 2}, allowed : {3}]
        \union [kind : {"grant"}, wait : {0, 1}, authorize : {TRUE}, start : {0}, unit : {"OTHER"},
                period : {0}, allowed : {3}]
        \union [kind : {"grant"}, wait : {0}, authorize : {FALSE}, start : {0}, unit : {"OTHER"},
                period : {0}, allowed : {0}]
        \union [kind : {"use"}, wait : {0, 1, 4}, amount : {1, 2}]
TimeAt(events, n) ==
    FoldLeft(LAMBDA t, e : t + e.wait, 1, SubSeq(events, 1, n))

(* The records after events, and the uses among them that were let pass.   *)
After(events) ==
    FoldLeft(LAMBDA s, n :
        LET e == events[n]
            now == TimeAt(events, n)
        IN  IF e.kind = "grant"
            THEN [s EXCEPT !.states = Grants!batch_allowance(@, e, now)]
            ELSE IF Grants!check_allowance(s.states, e.amount, now)
            THEN [states |-> Grants!Use(s.states, e.amount, now), passed |-> s.passed \union {n}]
            ELSE s,
        [states |-> Grants!NoStates, passed |-> {}], [n \in DOMAIN events |-> n])

-----------------------------------------------------------------------------
(* Two transactions, two keys that may quash them, and a threshold of one, *)
(* for which a second key is needed.                                       *)
Held == INSTANCE QuashLedger WITH
    Txn <- HeldTxn, Key <- QuashKey, Delays <- {1, 2}, Threshold <- 1,
    MaxTime <- 2, MaxVotes <- 3, MaxRestarts <- 1

(* Nothing tells transactions, or keys, apart.                             *)
Alike == Permutations(HeldTxn) \union Permutations(QuashKey)

-----------------------------------------------------------------------------
Elements == [calendar |-> 1 .. LastDay, stakes |-> Validators,
             merkle |-> [type : {"coin", "mint"}, hash : Hashes],
             compliance |-> Assignments, allowance |-> Events]

RulesInit ==
    /\ input = <<>> /\ Held!Init
    /\ \/ topic = "fees" /\ Init
       \/ topic \in Growing \union {"held"} /\ Unused

Grow ==
    /\ topic \in Growing /\ Len(input) < Length[topic]
    /\ \E x \in Elements[topic] : input' = Append(input, x)
    /\ UNCHANGED <<vars, topic, heldVars>>

Compute == topic = "fees" /\ RaiseFee /\ UNCHANGED <<topic, input, heldVars>>

Hold == topic = "held" /\ Held!Next /\ UNCHANGED <<vars, topic, input>>

Done ==
    /\ \/ topic = "fees" /\ fee = MaxFee
       \/ topic \in Growing /\ Len(input) = Length[topic]
    /\ UNCHANGED <<vars, topic, input, heldVars>>

RulesNext == Grow \/ Compute \/ Hold \/ Done

RulesSpec == RulesInit /\ [][RulesNext]_<<vars, topic, input, heldVars>>

Lengths == [calendar |-> 1, stakes |-> 3, merkle |-> 4, compliance |-> 4, allowance |-> 4]

-----------------------------------------------------------------------------
(* The stages a contract may have end with its cycle at the latest, on     *)
(* whatever day the cycle starts, and each after the one before it.  Only  *)
(* stages in months, from a day that some month lacks, can run over, by up *)
(* to three days: every month that is too short is run past, and the cycle *)
(* as a whole runs past one.                                               *)
StagesFitCycle ==
    topic = "calendar" /\ input # <<>> =>
        \A g \in Accepted :
            LET start == input[1]
                end == Dates!PeriodEnd(start, g.unit, g.period)
                ends == Dates!StageEnds(start, end, g.stages)
                over == IF g.unit = "MONTHS" /\ ~ Dates!InDays(g.stages) /\ Dates!DayOfMonth(start) > 28
                        THEN 3 ELSE 0
            IN  /\ \A i \in DOMAIN ends : ends[i] <= end + over
                /\ \A i \in DOMAIN ends : (IF i = 1 THEN start ELSE ends[i - 1]) < ends[i]

(* Whatever validators stake, the first currency carries at least half of  *)
(* the weight of an election.                                              *)
ZeraCarriesHalf ==
    topic = "stakes" =>
        Weights!CurrencyWeight(input, "gold") + Weights!CurrencyWeight(input, "iron")
            <= Weights!CurrencyWeight(input, "zera")

(* And no other currency carries more than its limit.                      *)
StakesCapped ==
    topic = "stakes" =>
        /\ Weights!CurrencyWeight(input, "gold") <= 8
        /\ Weights!CurrencyWeight(input, "iron") <= 100

(* Two blocks of equally many transactions with the same root have the     *)
(* same transactions: the duplicate that fills an odd level stands for     *)
(* nothing else.                                                           *)
RootBindsBlock ==
    topic = "merkle" =>
        \A other \in Blocks(Len(input)) :
            Tree!build_merkle_tree(other) = Tree!build_merkle_tree(BlockOf(input)) =>
                Tree!store_all_hashes(other) = Tree!store_all_hashes(BlockOf(input))

(* A wallet passes exactly if what was last said of each of some group's   *)
(* levels is an assignment that has not expired, whatever was assigned and *)
(* taken back before.                                                      *)
ComplianceIsLatest ==
    LET said(r) == {n \in DOMAIN input : input[n].by = r.by /\ input[n].level = r.level}
        last(r) == input[CHOOSE n \in said(r) : \A k \in said(r) : k <= n]
        holds(r) == said(r) # {} /\ last(r).assign /\ last(r).expiry \in {0} \union Now .. Now + 9
    IN  topic = "compliance" =>
            \A groups \in Groups :
                Levels!check_compliance(Wallet(input), TRUE, groups, Now)
                    <=> input # <<>> /\ (groups = <<>> \/ \E g \in ToSet(groups) : \A r \in g : holds(r))

(* A use passes exactly if, with what has passed since the grant and in    *)
(* the same period, it does not exceed the allowance.                      *)
AllowanceKept ==
    topic = "allowance" /\ input # <<>> /\ Last(input).kind = "use" =>
        LET n == Len(input)
            grants == {k \in DOMAIN input : input[k].kind = "grant"}
            g == CHOOSE k \in grants : \A j \in grants : j <= k
            start == IF input[g].start = 0 THEN TimeAt(input, g) ELSE input[g].start
            \* the period, counted from the start
            Period(t) == (t - start + input[g].period - 1) \div input[g].period
            Same(k) == CASE Grants!Momentary(input[g]) -> FALSE
                         [] Grants!Lasting(input[g]) -> Period(TimeAt(input, k)) = Period(TimeAt(input, n))
                         [] OTHER -> TRUE
            before == After(Front(input)).passed
            spent == FoldLeft(LAMBDA s, k : IF k \in before /\ k > g /\ Same(k) THEN s + input[k].amount
                                            ELSE s, 0, [k \in 1 .. n - 1 |-> k])
        IN  n \in After(input).passed
                <=> /\ grants # {} /\ input[g].authorize /\ start <= TimeAt(input, n)
                    /\ spent + input[n].amount <= input[g].allowed

(* Numbers of several scales are weighed as they should be: the votes of a *)
(* proposal against its quorum and threshold, and the stakes of an         *)
(* election, which keep the balance between the currencies.                *)
WeighedExactly == CountExact /\ ZeraCarriesHalf /\ StakesCapped

(* What a wallet is let do is what its latest permissions say, through any *)
(* sequence of grants, withdrawals and uses.                               *)
PermissionsKept == ComplianceIsLatest /\ AllowanceKept

(* A transaction with a delay is carried out when the delay is over, once, *)
(* unless enough keys quash it in time.                                    *)
HeldKept == Held!HeldKept
=============================================================================
