------------------------------ MODULE MCBlockSync ------------------------------
(* Two ranges that share block 1; of the second the block tree holds block 2, *)
(* so that both leave the same part to the ledger.                            *)
EXTENDS BlockSync

SharedRanges == {[last |-> 1, num |-> 1], [last |-> 2, num |-> 2]}

\* Two requests from peers are combined with at most one of the node itself.
MCBound == asks.peer = 2 => asks.self <= 1
=============================================================================
