-------------------------- MODULE MCBlockProducer --------------------------
(***************************************************************************)
(* Small instances of BlockProducer: three transactions, two wallets.      *)
(***************************************************************************)
EXTENDS BlockProducerProps, TLC

CONSTANTS t1, t2, t3, w1, w2

Sign(n1, n2) == [w \in Wallet |-> IF w = w1 THEN n1 ELSE n2]

(* Every wallet numbers its transactions; t2 is signed by both wallets, so *)
(* the key of t3 comes before that of t2 although it needs t2's nonce.     *)
NumberedNonces ==
    [t \in Txn |-> CASE t = t1 -> Sign(1, 0)
                     [] t = t2 -> Sign(2, 1)
                     [] t = t3 -> Sign(0, 2)]

(* One wallet signs two transactions with its first nonce.                 *)
ConflictingNonces ==
    [t \in Txn |-> CASE t = t1 -> Sign(1, 0)
                     [] t = t2 -> Sign(1, 0)
                     [] t = t3 -> Sign(2, 0)]

(* Jobs differ in nothing but their name.                                  *)
JobSymmetry == Permutations(Job)

(* The hash order is the reverse of the order of the names.                *)
ReverseRank == [t \in Txn |-> CASE t = t1 -> 3 [] t = t2 -> 2 [] t = t3 -> 1]
=============================================================================
