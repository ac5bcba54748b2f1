------------------------------ MODULE MCLedger ------------------------------
(***************************************************************************)
(* A small instance of Ledger: three clients, five transactions, a fee of  *)
(* two or three units per signer.                                          *)
(***************************************************************************)
EXTENDS Ledger

CONSTANTS t1, t2, t3, t4, t5, alice, bob, carol

Sign(w, fee, amount) == [wallet |-> w, fee |-> fee, amount |-> amount]
Pays(w, amount) == [v \in Wallet |-> IF v = w THEN amount ELSE 0]

(* Alice cannot afford both t1 and t2; t3 is signed by her and bob, and     *)
(* pays what carol spends in t4, which has the first key.  What t5 pays is   *)
(* more than what it takes from bob.                                       *)
RaceInputs ==
    [t \in Txn |-> CASE t = t1 -> <<Sign(alice, 3, 4)>>
                     [] t = t2 -> <<Sign(alice, 3, 4)>>
                     [] t = t3 -> <<Sign(bob, 2, 3), Sign(alice, 3, 0)>>
                     [] t = t4 -> <<Sign(carol, 2, 1)>>
                     [] t = t5 -> <<Sign(bob, 2, 0)>>]
RaceOutputs ==
    [t \in Txn |-> CASE t = t1 -> Pays(FeeAddress, 4)
                     [] t = t2 -> Pays(Foundation, 4)
                     [] t = t3 -> Pays(carol, 3)
                     [] t = t4 -> Pays(FeeAddress, 1)
                      [] t = t5 -> Pays(carol, 1)]
RaceGenesis == [w \in Wallet |-> CASE w = alice -> 11 [] w = bob -> 7 [] OTHER -> 0]

Ranks == [t \in Txn |-> CASE t = t1 -> 1 [] t = t2 -> 2 [] t = t3 -> 3
                   [] t = t4 -> 0 [] t = t5 -> 4]
=============================================================================
