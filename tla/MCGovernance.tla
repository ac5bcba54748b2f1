---------------------------- MODULE MCGovernance ----------------------------
(***************************************************************************)
(* A small instance of Governance: one contract governed in two stages and *)
(* one whose proposals have an end of their own.                           *)
(***************************************************************************)
EXTENDS Governance

CONSTANTS staged1, timed, p1, p2, token

Gov(type, period, stages) ==
    [type |-> type, period |-> period, stages |-> stages, instruments |-> <<token>>,
     threshold |-> 2000, regular |-> 5000, fast |-> 8000, start |-> 0, max |-> 1]
Stage(length) == [length |-> length]

TwoStages == Gov("STAGED", 2, <<Stage(1), Stage(0)>>)
FirstGovs == [c \in Contract |-> IF c = staged1 THEN TwoStages ELSE Gov("ADAPTIVE", 1, <<>>)]
(* The stages of the last one are too long for its cycle.                  *)
LaterGovs == {Gov("STAGGERED", 1, <<>>), Gov("CYCLE", 1, <<>>),
              Gov("STAGED", 1, <<Stage(2), Stage(0)>>)}

(* Of ten tokens, none vote, or a few carry it, or many do, or it is lost. *)
Votes(yes, no) == <<[i \in Instrument |-> yes], [i \in Instrument |-> no]>>
None0 == Votes(0, 0)
SomeVotes == {Votes(0, 0), Votes(4, 1)}

TxnOf == [p \in Proposal |-> IF p = p1 THEN staged1 ELSE timed]
Fees == [p \in Proposal |-> 7]
One == [i \in Instrument |-> 1]
Ten == [i \in Instrument |-> 10]
Zero == [i \in Instrument |-> 0]
AnyWindow == {<<0, 3>>}
=============================================================================
