--------------------------- MODULE MCSmartContract ---------------------------
(* Two contracts, one of which the first transaction makes; two             *)
(* transactions of one user, of which the second has more gas.              *)
EXTENDS SmartContract

MCBalance == [w \in Wallet |-> IF w = "u" THEN 6 ELSE IF w = "a" THEN 3 ELSE 0]
MCTxn ==
    {[id |-> 1, user |-> "u", to |-> "b", init |-> TRUE, nonce |-> 1, approved |-> 2],
     [id |-> 2, user |-> "u", to |-> "a", init |-> FALSE, nonce |-> 2, approved |-> 4]}
=============================================================================
