------------------------------- MODULE Tally -------------------------------
(***************************************************************************)
(* How the votes on a proposal are counted when its voting ends            *)
(* (gov_process.cpp): the votes of every voting instrument are brought to  *)
(* their value, and the proposal passes when enough of the supply has      *)
(* voted and enough of the votes are for one side.  Support and against,   *)
(* and the options of a multiple choice proposal, are both choices here:   *)
(* choice 1 is support, choice 2 against, or 1, 2, ... are the options.    *)
(*                                                                         *)
(* The supplies and rates do not change here.  A definition whose name     *)
(* ends in "Faulty" is a variant with a plausible mistake, not part of the *)
(* model.                                                                  *)
(***************************************************************************)
EXTENDS Naturals, SequencesExt

CONSTANTS
    Instrument,    \* contracts whose tokens vote
    Circulation,   \* Circulation[i]: tokens of i in db_contract_supply, 0 for none
    Burned,        \* Burned[i]: balance of the burn wallet in i
    Equiv,         \* Equiv[i]: value of a token of i in db_currency_equiv
    Denomination   \* Denomination[i]: parts of a token of i

ASSUME SupplyAssumption ==
    /\ Circulation \in [Instrument -> Nat]
    /\ Burned \in [Instrument -> Nat]
    /\ Equiv \in [Instrument -> Nat]
    /\ Denomination \in [Instrument -> Nat \ {0}]

(* Percentages are in hundredths of a percent.                             *)
FullPercent == 10000

calculate_votes(i, amount) == (amount * Equiv[i]) \div Denomination[i]

(* The value of one choice: the sum over the instruments it has votes in.  *)
(* A choice keeps the instruments it got votes in, the others count 0.     *)
ChoiceValue(amounts) ==
    FoldSet(LAMBDA i, sum : sum + calculate_votes(i, amounts[i]), 0, Instrument)

(* The value of every choice, in the order of the choices.                 *)
ChoiceValues(votes) == [c \in DOMAIN votes |-> ChoiceValue(votes[c])]

TotalVotes(values) == FoldSeq(LAMBDA v, sum : v + sum, 0, values)

(* The instrument whose supply the participation is measured against: the  *)
(* first voting instrument of the contract that is in circulation.         *)
HasSupply(instruments) == \E k \in DOMAIN instruments : Circulation[instruments[k]] # 0

CountedInstrument(instruments) ==
    instruments[Min({k \in DOMAIN instruments : Circulation[instruments[k]] # 0})]

SupplyValue(i) == calculate_votes(i, Circulation[i] - Burned[i])

(* The quorum a result has to reach.                                       *)
Quorum(gov, fast) == IF fast THEN gov.fast ELSE gov.regular

(* Enough votes were cast and enough of them are for the leading side.     *)
Reached(gov, leading, total, fast) ==
    /\ (total * FullPercent) \div SupplyValue(CountedInstrument(gov.instruments)) >= gov.threshold
    /\ (leading * FullPercent) \div total >= Quorum(gov, fast)

calculate_passedFaulty(gov, values, fast) ==
    /\ HasSupply(gov.instruments)
    /\ (values[1] * FullPercent) \div TotalVotes(values) >= Quorum(gov, fast)

(* A proposal to support or reject passes by its support.  Without a vote  *)
(* at all and with a threshold of 0 the code divides by zero; thresholds   *)
(* are above 0 here.                                                       *)
calculate_passed(gov, values, fast) ==
    /\ HasSupply(gov.instruments)
    /\ Reached(gov, values[1], TotalVotes(values), fast)

(* A multiple choice proposal passes when its strongest option does.       *)
calculate_passed_options(gov, values, fast) ==
    /\ HasSupply(gov.instruments)
    /\ Reached(gov, Max({values[c] : c \in DOMAIN values}), TotalVotes(values), fast)

(* The result of a vote on a proposal with or without options.             *)
calc(gov, options, votes, fast) ==
    IF options THEN calculate_passed_options(gov, ChoiceValues(votes), fast)
               ELSE calculate_passed(gov, ChoiceValues(votes), fast)
=============================================================================
