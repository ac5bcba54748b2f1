----------------------------- MODULE MCRotation -----------------------------
(***************************************************************************)
(* A small instance of Rotation: this node and its peers.  The node can    *)
(* generate two keys, one peer two, another one only has its first one.    *)
(***************************************************************************)
EXTENDS Rotation

CONSTANTS self, peer, other, s1, s2, p1, p2, o1

Keys == [v \in Validator |->
    IF v = self THEN <<s1, s2>> ELSE IF v = peer THEN <<p1, p2>> ELSE <<o1>>]
Addresses == SelectSeq(<<peer, other, self>>, LAMBDA v : v \in Validator)
Holdings == [v \in Validator |-> IF v = other THEN 1 ELSE 2]
=============================================================================
