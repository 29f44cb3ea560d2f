------------------------------- MODULE MCKinetBFT -------------------------------
(* Four validators of equal stake, v4 faulty.  p is a block of round 1, c one  *)
(* of round 2 on the QC of p, f one of round 2 on genesis, which needs an NEC  *)
(* of round 2 or a TC of round 1 without a tip.                                *)
EXTENDS KinetBFT, TLC

CONSTANTS v1, v2, v3, v4, g, p, c, f

MCValidators == {v1, v2, v3, v4}
MCHonest == {v1, v2, v3}
MCSupermajority == {Q \in SUBSET MCValidators : Cardinality(Q) >= 3}

mc_block_round == [b \in Block |-> CASE b = g -> 0 [] b = p -> 1 [] OTHER -> 2]
mc_qc_round == [b \in Block |-> IF b = c THEN 1 ELSE 0]
mc_parent == [b \in Block |-> IF b = c THEN p ELSE g]
mc_ancestors == [b \in Block |-> IF b = c THEN {g, p, c} ELSE {g, b}]
MCSymmetry == Permutations(MCHonest)

\* Bound: restarts are not combined with no-endorsements or with votes for the
\* fresh block f, nor a restart from an old forkpoint with timeouts of round 2.
MCBound ==
    /\ \/ restarted = {}
       \/ (\A v \in votes : v[3] # f) /\ no_endorsements = {}
    /\ behind # {} => \A t \in timeouts : t[2] = 1
=============================================================================
