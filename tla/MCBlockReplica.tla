--------------------------- MODULE MCBlockReplica ---------------------------
(***************************************************************************)
(* Small instances of BlockReplica.  Two proposers have made blocks at the *)
(* height after the genesis block: b1, and c1, which c2 follows.           *)
(***************************************************************************)
EXTENDS BlockReplica

CONSTANTS t1, t2, w1, b1, c1, c2

(* One wallet's two transactions: one proposer has put them into one       *)
(* block, the other one into two.                                          *)
InTurn == [t \in Txn |-> [w \in Wallet |-> IF t = t1 THEN 1 ELSE 2]]
OneOrTwoBlocks ==
    [b \in Block |-> CASE b = b1 -> <<t1, t2>> [] b = c1 -> <<t1>> [] b = c2 -> <<t2>>]

Parents == [b \in Block |-> IF b = c2 THEN c1 ELSE None]
Heights == [b \in Block |-> IF b = c2 THEN 2 ELSE 1]

(* The blocks of the instances are valid and in the order of the nonces.   *)
NoncesAfter == [b \in Block |-> [w \in Wallet |-> IF b = c1 THEN 1 ELSE 2]]
ASSUME BlocksAssumption ==
    ValidBlocks(NoncesAfter) /\ InNonceOrder(NoncesAfter) /\ Numbered
=============================================================================
