----------------------------- MODULE Compliance -----------------------------
(***************************************************************************)
(* The levels of compliance a wallet has with contracts, which compliance  *)
(* transactions assign and take back, and the test of a wallet against the *)
(* levels a contract asks for.                                             *)
(*                                                                         *)
(* A wallet's entry is a list of levels for each contract that has given   *)
(* it any.  A definition whose name ends in "Faulty" is a variant with a   *)
(* plausible mistake, not part of the model.                               *)
(***************************************************************************)
EXTENDS Integers, Sequences

LOCAL INSTANCE SequencesExt

CONSTANTS
    Authority,   \* contracts that assign levels
    NoWallet     \* the wallet has no entry in db_wallet_lookup

NoLevels == [a \in Authority |-> <<>>]

(* An element is removed by putting the last one in its place.             *)
SwapRemove(levels, i) ==
    LET n == Len(levels)
    IN  SubSeq([levels EXCEPT ![i] = levels[n]], 1, n - 1)

(* Every element of that level goes, from the first one on.                *)
RECURSIVE RemoveLevel(_, _)
RemoveLevel(levels, level) ==
    LET at == {i \in DOMAIN levels : levels[i].level = level}
    IN  IF at = {} THEN levels
        ELSE RemoveLevel(SwapRemove(levels, CHOOSE i \in at : \A k \in at : i <= k), level)

(* One entry of a compliance transaction of the contract txn.by.           *)
batch_complianceFaulty(wallet, txn) ==
    LET known == IF wallet = NoWallet THEN NoLevels ELSE wallet
    IN  IF txn.assign
        THEN [known EXCEPT ![txn.by] = Append(@, [level |-> txn.level, expiry |-> txn.expiry])]
        ELSE [known EXCEPT ![txn.by] = RemoveLevel(@, txn.level)]
batch_compliance(wallet, txn) ==
    LET known == IF wallet = NoWallet THEN NoLevels ELSE wallet
        rest == RemoveLevel(known[txn.by], txn.level)
    IN  [known EXCEPT ![txn.by] =
            IF txn.assign THEN Append(rest, [level |-> txn.level, expiry |-> txn.expiry]) ELSE rest]

(* The first element of that level decides.                                *)
LevelCompliant(levels, level, now) ==
    LET at == {i \in DOMAIN levels : levels[i].level = level}
        first == levels[CHOOSE i \in at : \A k \in at : i <= k]
    IN  at # {} /\ (first.expiry = 0 \/ first.expiry >= now)

(* One of the contract's groups has to be met as a whole.  A contract that *)
(* asks for nothing accepts every wallet that has an entry.  (Expired      *)
(* levels are removed from a copy: nothing is changed.)                    *)
check_wallet(wallet, groups, now) ==
    /\ wallet # NoWallet
    /\ groups = <<>> \/ \E g \in ToSet(groups) :
          \A r \in g : LevelCompliant(wallet[r.by], r.level, now)

check_compliance(wallet, kyc, groups, now) == ~ kyc \/ check_wallet(wallet, groups, now)
=============================================================================
