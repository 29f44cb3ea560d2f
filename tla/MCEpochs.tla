-------------------------------- MODULE MCEpochs --------------------------------
(* Epochs of five blocks, the shortest in which the next epoch starts later  *)
(* than the blocks a restart commits again and before the next boundary.     *)
EXTENDS Epochs
=============================================================================
