------------------------------- MODULE Stakes -------------------------------
(***************************************************************************)
(* The weights of validators in an election, as archived with a block.     *)
(* What a validator stakes in a currency other than the first one counts   *)
(* less in two cases: the currency as a whole is worth more than its       *)
(* limit, and the other currencies together are worth more than the first. *)
(*                                                                         *)
(* A validator is a record of the currencies it stakes, in its order, and  *)
(* what its wallet holds of each, as worth in the common equivalent.       *)
(* Those offline or of another version are not among them.  A definition   *)
(* whose name ends in "Faulty" is a variant with a plausible mistake.      *)
(***************************************************************************)
EXTENDS Integers, Sequences, FiniteSets

LOCAL INSTANCE SequencesExt
LOCAL INSTANCE FiniteSetsExt

CONSTANTS
    Currency,   \* currencies that may be staked
    Zera,       \* the first one, in Currency
    MaxStake    \* MaxStake[c]: limit of another currency's worth

Unit == 100000              \* a multiplier of one
ZeraPercentage == 500       \* of 1000
NotApplied == Unit          \* "N/A": nothing is multiplied

SumSeq(s, Weight(_)) == FoldSeq(LAMBDA x, n : n + Weight(x), 0, s)

(* A validator that names no currency stakes the first; one that names a   *)
(* currency twice counts twice.                                            *)
Staked(v) == IF v.staked = <<>> THEN <<Zera>> ELSE v.staked
StakedIn(v, c) == v.holds[c] * Cardinality({i \in DOMAIN Staked(v) : Staked(v)[i] = c})
update_balance_map(validators, c) == SumSeq(validators, LAMBDA v : StakedIn(v, c))

ContractMultiplierFaulty(validators, c) == NotApplied
ContractMultiplier(validators, c) ==
    LET sum == update_balance_map(validators, c)
    IN  IF c # Zera /\ sum > MaxStake[c] THEN (MaxStake[c] * Unit) \div sum ELSE NotApplied

(* The sums as they are compared: up to the limit of each currency.        *)
ScaledStake(validators, c) ==
    LET sum == update_balance_map(validators, c)
    IN  IF c # Zera /\ sum > MaxStake[c] THEN MaxStake[c] ELSE sum
TotalStake(validators) == MapThenSumSet(LAMBDA c : ScaledStake(validators, c), Currency)

(* With nothing staked no multiplier is stored, which reads as zero.       *)
DefaultMultiplierFaulty(validators) ==
    LET percent == (ScaledStake(validators, Zera) * 1000) \div TotalStake(validators)
    IN  IF TotalStake(validators) = 0 THEN 0
        ELSE IF percent < ZeraPercentage THEN (percent * Unit) \div ZeraPercentage
        ELSE NotApplied
DefaultMultiplier(validators) ==
    LET percent == (ScaledStake(validators, Zera) * 1000) \div TotalStake(validators)
    IN  IF TotalStake(validators) = 0 THEN 0
        ELSE IF percent < ZeraPercentage THEN (percent * Unit) \div (1000 - percent)
        ELSE NotApplied

Multiplied(amount, multiplier) == (amount * multiplier) \div Unit

(* What a validator has in the archive for its stakes in the currency c.   *)
StakeWeight(validators, v, c) ==
    LET times == Cardinality({i \in DOMAIN Staked(v) : Staked(v)[i] = c})
    IN  times * (IF c = Zera THEN v.holds[c]
                 ELSE Multiplied(Multiplied(v.holds[c], ContractMultiplier(validators, c)),
                                 DefaultMultiplier(validators)))
CurrencyWeight(validators, c) == SumSeq(validators, LAMBDA v : StakeWeight(validators, v, c))

(* The archive: the weight of each validator.                              *)
archive_balances(validators) ==
    [i \in DOMAIN validators |->
        MapThenSumSet(LAMBDA c : StakeWeight(validators, validators[i], c), Currency)]
=============================================================================
