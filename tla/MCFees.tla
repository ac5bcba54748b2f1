------------------------------ MODULE MCFees ------------------------------
(***************************************************************************)
(* The fee arithmetic over every fee up to MaxFee, every pair of           *)
(* percentages in steps of PercentStep, two or three signers and every     *)
(* list of two fee instruments, and the counting of votes over the same    *)
(* numbers.  A step raises the fee by one.                                 *)
(***************************************************************************)
EXTENDS Fees

CONSTANTS MaxFee, PercentStep

VARIABLES fee, burn, validator, part, signers, allowed

vars == <<fee, burn, validator, part, signers, allowed>>

Percents == {p \in 0 .. 100 : p % PercentStep = 0}
Instruments == {"QUALIFIED", "ANY", "qualifiedToken", "otherToken"}
Qualified == {"qualifiedToken"}

Init ==
    /\ fee = 0
    /\ burn \in Percents /\ validator \in Percents /\ burn + validator < 100
    /\ part \in {p \in 0 .. Whole : p % PercentStep = 0}
    /\ signers \in 2 .. 3
    /\ allowed \in Instruments \X Instruments

RaiseFee ==
    /\ fee < MaxFee
    /\ fee' = fee + 1
    /\ UNCHANGED <<burn, validator, part, signers, allowed>>

(* Votes are cast in two instruments; only "main" has a supply, of 36      *)
(* tokens in circulation that are worth 3 for every 2 parts.               *)
Count == INSTANCE Tally WITH
    Instrument <- {"main", "other"},
    Circulation <- [main |-> 40, other |-> 0],
    Burned <- [main |-> 4, other |-> 0],
    Equiv <- [main |-> 3, other |-> 1],
    Denomination <- [main |-> 2, other |-> 1]

Rules == [instruments |-> <<"other", "main">>, threshold |-> 100 * part,
          regular |-> 100 * burn, fast |-> 100 * validator]
Ballots == <<[main |-> fee, other |-> signers], [main |-> 5, other |-> 0]>>

(* The base fee taken from a signer is handed out to the last unit: none   *)
(* is lost in rounding and none is made.                                   *)
BaseSplitExact ==
    Distributed(BaseSplit(fee)) = fee

(* So is a contract fee of which the contract gets a percentage.           *)
ContractSplitExact ==
    Distributed(ContractSplit(fee, burn, validator)) = fee

(* The signers of a coin transaction never pay more than its fee together, *)
(* and the rounding spares them less than one unit each.                   *)
SharesWithinFee ==
    LET paid == Share(fee, part) + Share(fee, Whole - part)
    IN  paid <= fee /\ fee < paid + 2

(* The signers of a transaction pay its whole interface fee together, and  *)
(* the last one, who pays the rest, never less than the others.            *)
InterfaceSharesExact ==
    LET paid == [i \in 1 .. signers |-> InterfaceShare(fee, signers, i)]
    IN  /\ paid[1] + paid[2] + (IF signers = 3 THEN paid[3] ELSE 0) = fee
        /\ \A i \in 1 .. signers : paid[i] <= paid[signers]

(* An item's contract fee is taken once, and what its recipients get       *)
(* exceeds it by the foundation's part and nothing else: that part is read *)
(* from the burn field and not taken off the contract's.                   *)
ItemSplitAccounted ==
    2 * burn < 100 =>
        LET s == ItemSplit(fee, burn, validator)
        IN  /\ Distributed(s) = fee + s.foundation
            /\ s.foundation = ContractSplit(fee, burn, validator).burn

(* A token pays a contract fee only if the contract's list lets it: by its *)
(* name, as one of the qualified tokens, or as any.  Both ways to read the *)
(* list, the coins' and the items', keep to that.                          *)
OnlyListedPays ==
    \A id \in {"qualifiedToken", "otherToken", "unlistedToken"} :
        FeeAccepted(allowed, id, Qualified) \/ ItemFeeAccepted(allowed, id, Qualified) =>
            \E i \in DOMAIN allowed :
               \/ allowed[i] \in {"ANY", id}
               \/ allowed[i] = "QUALIFIED" /\ id \in Qualified

(* A vote passes exactly when its parts, without any rounding, reach the   *)
(* threshold and the quorum: rounding percentages down decides no result.  *)
(* With options it is the larger side that has to reach the quorum.        *)
CountExact ==
    LET values == Count!ChoiceValues(Ballots)
        total  == values[1] + values[2]
        Exact(leading, quorum) == /\ total * 10000 >= Rules.threshold * 54
                                  /\ leading * 10000 >= quorum * total
        larger == IF values[1] > values[2] THEN values[1] ELSE values[2]
    IN  /\ Count!calc(Rules, FALSE, Ballots, FALSE) <=> Exact(values[1], Rules.regular)
        /\ Count!calc(Rules, FALSE, Ballots, TRUE) <=> Exact(values[1], Rules.fast)
        /\ Count!calc(Rules, TRUE, Ballots, FALSE) <=> Exact(larger, Rules.regular)

(* Fees are accounted for to the last unit: every way to take one and to   *)
(* hand it out keeps the sum, and takes it only from what may pay it.      *)
FeesAccounted ==
    /\ BaseSplitExact /\ ContractSplitExact /\ ItemSplitAccounted
    /\ SharesWithinFee /\ InterfaceSharesExact
    /\ OnlyListedPays
=============================================================================
