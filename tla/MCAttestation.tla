---------------------------- MODULE MCAttestation ----------------------------
(***************************************************************************)
(* A small instance of Attestation.  The validators that attest ask        *)
(* everybody and have a stake of one each; what the ones that only         *)
(* synchronise have outweighs theirs.                                      *)
(***************************************************************************)
EXTENDS Attestation, FiniteSets, TLC

OneAndThree ==
    [S \in SUBSET Node |-> Cardinality(S \cap Attesting) + 3 * Cardinality(S \ Attesting)]
Others == [n \in Node |-> Node \ {n}]

(* Validators that do the same, and blocks, are interchangeable.           *)
Symmetry == Permutations(Attesting) \cup Permutations(Block)
=============================================================================
