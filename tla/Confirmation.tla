---------------------------- MODULE Confirmation ----------------------------
(***************************************************************************)
(* What attestation promises for the blocks of one height: at most one of  *)
(* them is ever settled, and what a validator has confirmed is the settled *)
(* one from then on.                                                       *)
(***************************************************************************)
CONSTANTS Node, Block, None

VARIABLES
    settled,   \* the settled block, None before
    confirmed  \* confirmed[n]: the block that n has confirmed

Init == settled = None /\ confirmed = [n \in Node |-> None]

Settle(b) == settled = None /\ settled' = b /\ UNCHANGED confirmed

Confirm(n) ==
    /\ settled # None
    /\ confirmed' = [confirmed EXCEPT ![n] = settled]
    /\ UNCHANGED settled

Next == (\E b \in Block : Settle(b)) \/ (\E n \in Node : Confirm(n))

Spec == Init /\ [][Next]_<<settled, confirmed>>
=============================================================================
