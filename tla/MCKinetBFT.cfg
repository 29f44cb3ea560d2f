CONSTANTS
    v1 = v1
    v2 = v2
    v3 = v3
    v4 = v4
    g = g
    p = p
    c = c
    f = f
    NoTip = NoTip
    GENESIS = g
    Validators <- MCValidators
    Honest <- MCHonest
    Supermajority <- MCSupermajority
    Block = {g, p, c, f}
    block_round <- mc_block_round
    qc_round <- mc_qc_round
    parent <- mc_parent
    ancestors <- mc_ancestors
    MaxRound = 2
    MaxRestarts = 1
SYMMETRY MCSymmetry
CONSTRAINT MCBound
SPECIFICATION Spec
CHECK_DEADLOCK FALSE
INVARIANTS
    OneQCPerRound
    QCAndNECAgree
    NeverVotesAhead
    CommitBindsTC
