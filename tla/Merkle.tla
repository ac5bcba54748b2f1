------------------------------- MODULE Merkle -------------------------------
(***************************************************************************)
(* The Merkle root in a block's header, over the hashes of the block's     *)
(* transactions.  A block keeps its transactions in one list per type; the *)
(* tree takes the lists in a fixed order, and two lists not at all (the    *)
(* allowances and the required version).  A hash function is taken to have *)
(* no collisions: the hash of two values is the pair of them.              *)
(*                                                                         *)
(* A definition whose name ends in "Faulty" is a variant with a plausible  *)
(* mistake, not part of the model.                                         *)
(***************************************************************************)
EXTENDS Integers, Sequences

LOCAL INSTANCE SequencesExt

CONSTANTS
    Types,   \* the types of transactions that are in the tree, in its order
    Empty    \* the root of a block without any

(* block[type] is the list of hashes of that type's transactions.          *)
store_all_hashes(block) == FlattenSeq([i \in DOMAIN Types |-> block[Types[i]]])

(* One level up.  The last one of an odd number is paired with itself.     *)
PairsFaulty(hashes) ==
    IF Len(hashes) = 1 THEN <<<<hashes[1], hashes[1]>>>>
    ELSE [i \in 1 .. Len(hashes) \div 2 |-> <<hashes[2 * i - 1], hashes[2 * i]>>]
Pairs(hashes) ==
    [i \in 1 .. (Len(hashes) + 1) \div 2 |->
        <<hashes[2 * i - 1], hashes[IF 2 * i <= Len(hashes) THEN 2 * i ELSE 2 * i - 1]>>]

(* A single hash is paired once, too.                                      *)
RECURSIVE Root(_)
Root(hashes) ==
    IF Len(hashes) <= 2 THEN Pairs(hashes)[1] ELSE Root(Pairs(hashes))
merkle_root(hashes) == IF hashes = <<>> THEN Empty ELSE Root(hashes)

build_merkle_tree(block) == merkle_root(store_all_hashes(block))
=============================================================================
