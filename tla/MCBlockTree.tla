------------------------------ MODULE MCBlockTree ------------------------------
(* The number of a block is its round.  p1 and x1 are two blocks of round 1.  x1 *)
(* got the QC of round 1, but the TC of round 1 took p1 for its tip: p1 was      *)
(* proposed again and got the QC of round 2.  b3 and c4 follow it.  z4 does not  *)
(* validate, and is the tip of a TC.  y5 is proposed in round 4 with the number  *)
(* of a later round.                                                             *)
EXTENDS BlockTree

CONSTANTS g, p1, x1, b3, c4, z4, y5

Header(v) == CASE v = g -> <<0, 0, g>> [] v = p1 -> <<1, 0, g>> [] v = x1 -> <<1, 0, g>>
               [] v = b3 -> <<3, 2, p1>> [] v = c4 -> <<4, 3, b3>>
               [] v = z4 -> <<4, 3, b3>> [] v = y5 -> <<5, 3, b3>>
mc_block_round == [v \in Block |-> Header(v)[1]]
mc_qc_round == [v \in Block |-> Header(v)[2]]
mc_parent == [v \in Block |-> Header(v)[3]]
mc_ancestors == [v \in Block |->
    CASE v = g -> {g} [] v = b3 -> {g, p1, b3}
      [] v \in {c4, z4, y5} -> {g, p1, b3, v} [] OTHER -> {g, v}]

Qc(r, v) == [round |-> r, qc_round |-> r, qc_block |-> v, tip |-> NoTip]
Tc(r, v) == [round |-> r, qc_round |-> Header(v)[2], qc_block |-> Header(v)[3], tip |-> v]
MCQC == {Qc(1, x1), Qc(2, p1), Qc(3, b3), Qc(4, c4)}
MCTC == {Tc(1, p1), Tc(4, z4)}
=============================================================================
