--------------------------- MODULE MCThreadPool ---------------------------
(***************************************************************************)
(* A small instance of ThreadPool: two producers and two workers.        *)
(***************************************************************************)
EXTENDS ThreadPool

CONSTANTS t1, t2, t3, t4, t5, p1, p2

(* t1 enqueues t4, as a block from a peer its attestation; t2 enqueues t5. *)
NestedSpawns == [t \in Task |-> CASE t = t1 -> <<t4>> [] t = t2 -> <<t5>> [] OTHER -> <<>>]

(* One producer has two requests, the other one.                          *)
Requesting == [p \in Producer |-> CASE p = p1 -> <<t1, t3>> [] p = p2 -> <<t2>>]
=============================================================================
