------------------------------ MODULE MCPacemaker ------------------------------
(* v1 and v2 run the code.  Either they are alone, or there is a faulty v3: then *)
(* the stakes are 2, 2 and 1, f + 1 is 2 and a supermajority is 4 of a total of  *)
(* 5.  In both cases v1 and v2 need each other's timeouts.                       *)
EXTENDS Pacemaker, TLC

CONSTANTS v1, v2, v3

MCNodes == {v1, v2}
MCHonestVote == {Q \in SUBSET Validators : Q \cap MCNodes # {}}
MCSupermajority == {Q \in SUBSET Validators : MCNodes \subseteq Q}
MCSymmetry == Permutations(MCNodes)

=============================================================================
