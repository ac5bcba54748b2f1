------------------------------ MODULE MCVoting ------------------------------
(***************************************************************************)
(* A small instance of Voting: a delegate, a wallet that delegates to it,  *)
(* and a third that delegates to the second.                               *)
(***************************************************************************)
EXTENDS Voting, TLC

CONSTANTS alice, bob, carol, token, p1, yes, no

OneInstrument == <<token>>
Holdings == [w \in Wallet |-> [i \in Instrument |-> IF w = alice THEN NoKey ELSE 1]]
ChoiceSymmetry == Permutations(Choice)
Coins == [w \in Wallet |-> IF w = alice THEN 0 ELSE 1]
Delegation(by, to, n) == [by |-> by, to |-> to, priority |-> n]
Chain == {Delegation(bob, alice, 1), Delegation(carol, bob, 2)}
=============================================================================
