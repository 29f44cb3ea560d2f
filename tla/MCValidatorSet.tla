----------------------------- MODULE MCValidatorSet -----------------------------
(* Four nodes with stakes from 0 to 3; random words of four bits. *)
EXTENDS ValidatorSet

MCNodes == 1..4

=============================================================================
