-------------------------- MODULE MCNoEndorsementState --------------------------
(* Four validators of equal stake, one of them faulty, two tip QC rounds. *)
EXTENDS NoEndorsementState, TLC

CONSTANTS v1, v2, v3, v4, q1, q2

MCValidators == {v1, v2, v3, v4}
MCHonest == {v1, v2, v3}
MCSupermajority == {Q \in SUBSET MCValidators : Cardinality(Q) >= 3}
MCTipQCRounds == {q1, q2}
MCSymmetry == Permutations(MCHonest) \cup Permutations(MCTipQCRounds)

=============================================================================
