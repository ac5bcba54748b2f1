------------------------------- MODULE Fees -------------------------------
(***************************************************************************)
(* The arithmetic of fees: what a transaction costs, how signers share the *)
(* cost, how a fee is split between its recipients, and which tokens a     *)
(* contract accepts as its fee.  Amounts and percentages are unsigned and  *)
(* wrap around at the width of their type.                                 *)
(*                                                                         *)
(* A definition whose name ends in "Faulty" is a variant with a plausible  *)
(* mistake, not part of the model.                                         *)
(***************************************************************************)
EXTENDS Integers, Sequences

LOCAL INSTANCE FiniteSetsExt

CONSTANTS
    Whole,    \* the shares of a fee sum to this, 100000000 in the code
    Modulus   \* amounts are below this, 2^256 in the code

ASSUME WholeAssumption == Whole \in Nat \ {0}
ASSUME ModulusAssumption == Modulus \in Nat /\ Modulus > 100

Wrap(n) == n % Modulus

ValidatorPercentage == 50
BurnPercentage == 25
FoundationPercentage == 25

Percent(p, fee) == Wrap(p * fee) \div 100

Split(v, f, b, c) == [validator |-> v, foundation |-> f, burn |-> b, contract |-> c]

(* What the recipients of a split get together.                            *)
Distributed(s) == s.validator + s.foundation + s.burn + s.contract

-----------------------------------------------------------------------------
(* What a transaction costs. *)

(* Every part of the fee is converted, and rounded down, on its own.       *)
TxnFee(bytes, perByte, extras, denomination, equiv) ==
    (denomination * perByte * bytes) \div equiv
        + MapThenSumSet(LAMBDA i : (extras[i] * denomination) \div equiv, DOMAIN extras)

(* A currency without a rate counts as one.                                *)
CurEquiv(rate) == IF rate = 0 THEN 1 ELSE rate

-----------------------------------------------------------------------------
(* Who gets the fee. *)

BaseSplitFaulty(fee) ==
    Split(Percent(ValidatorPercentage, fee), Percent(FoundationPercentage, fee),
          Percent(BurnPercentage, fee), 0)

(* Of the base fee, the rest after the other two is burnt.                 *)
BaseSplit(fee) ==
    LET validator == Percent(ValidatorPercentage, fee)
        foundation == Percent(FoundationPercentage, fee)
    IN  Split(validator, foundation, Wrap(fee - validator - foundation), 0)

ContractSplitFaulty(fee, burn, validator) ==
    Split(Percent(validator, fee), 0, Percent(burn, fee), 
          Percent(100 - burn - validator, fee))

(* Of a contract fee, the rest goes to the contract, if what its two       *)
(* percentages leave of 100 is not nothing.                                *)
ContractSplit(fee, burn, validator) ==
    LET v == Percent(validator, fee)
        b == Percent(burn, fee)
    IN  Split(v, 0, b, IF Wrap(100 - burn - validator) > 0 THEN Wrap(fee - v - b) ELSE 0)

ItemSplitFaulty(fee, burn, validator) ==
    LET v == Percent(validator, fee)
        f == Percent(burn, fee)
    IN  Split(v, f, f, IF Wrap(100 - 2 * burn) > 0 THEN Wrap(fee - v) ELSE 0)

(* The contract fee of an item transfer: the foundation's percentage is    *)
(* read from the burn field, and nothing is burnt.                         *)
ItemSplit(fee, burn, validator) ==
    LET v == Percent(validator, fee)
        f == Percent(burn, fee)
    IN  Split(v, f, 0, IF Wrap(100 - 2 * burn) > 0 THEN Wrap(fee - v) ELSE 0)

-----------------------------------------------------------------------------
(* Who pays the fee. *)

ShareFaulty(fee, part) == (fee * part + Whole - 1) \div Whole

(* The part of the fee a signer pays, rounded down.                        *)
Share(fee, part) == (fee * part) \div Whole

(* A fee or its authorised amount is compared signer by signer.            *)
Authorised(fee, authorised, parts) ==
    \A i \in DOMAIN parts : Share(fee, parts[i]) <= Share(authorised, parts[i])

InterfaceShareFaulty(fee, n, i) == fee \div n

(* Of an interface fee every signer pays the same, the last one the rest.  *)
InterfaceShare(fee, n, i) ==
    IF i = n THEN fee - (fee \div n) * (n - 1) ELSE fee \div n

-----------------------------------------------------------------------------
(* Which token a contract fee may be paid in. *)

VerdictFaulty(allowed, id) ==
    LET deciding == {i \in DOMAIN allowed : allowed[i] \in {"QUALIFIED", "ANY", id}}
    IN  IF deciding = {} THEN "ANY" ELSE allowed[Min(deciding)]

(* check_allowed_contract_fee: the first instrument that decides.          *)
Verdict(allowed, id) ==
    LET deciding == {i \in DOMAIN allowed : allowed[i] \in {"QUALIFIED", "ANY", id}}
    IN  IF deciding = {} THEN "NOT_ALLOWED" ELSE allowed[Min(deciding)]

(* A coin's contract fee: calculate_contract_fee looks at the first        *)
(* instrument only, then the list is asked.                                *)
FeeAccepted(allowed, id, qualified) ==
    /\ allowed # <<>> => allowed[1] = id
    /\ Verdict(allowed, id) # "NOT_ALLOWED"
    /\ Verdict(allowed, id) = "QUALIFIED" => id \in qualified

(* An item's contract fee: the list alone is asked.                        *)
ItemFeeAccepted(allowed, id, qualified) ==
    /\ Verdict(allowed, id) # "NOT_ALLOWED"
    /\ Verdict(allowed, id) = "QUALIFIED" => id \in qualified
=============================================================================
