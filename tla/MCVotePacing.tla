------------------------------ MODULE MCVotePacing ------------------------------
(* One node over the first MaxRound rounds after it starts. *)
EXTENDS VotePacing
=============================================================================
