------------------------------ MODULE MCVoteState ------------------------------
(* Four validators of equal stake, one of them faulty, two blocks per round. *)
EXTENDS VoteState, TLC

CONSTANTS v1, v2, v3, v4, a, b

MCValidators == {v1, v2, v3, v4}
MCHonest == {v1, v2, v3}
MCSupermajority == {Q \in SUBSET MCValidators : Cardinality(Q) >= 3}
MCBlocks == {a, b}
MCSymmetry == Permutations(MCHonest) \cup Permutations(MCBlocks)

=============================================================================
