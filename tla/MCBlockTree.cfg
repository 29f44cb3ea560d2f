CONSTANTS
    g = g
    p1 = p1
    x1 = x1
    b3 = b3
    c4 = c4
    z4 = z4
    y5 = y5
    NoTip = NoTip
    NoTC = NoTC
    GENESIS = g
    Block = {g, p1, x1, b3, c4, z4, y5}
    Invalid = {z4}
    block_round <- mc_block_round
    qc_round <- mc_qc_round
    parent <- mc_parent
    ancestors <- mc_ancestors
    QC <- MCQC
    TC <- MCTC
    OwnRounds = {2, 5}
    live_to_statesync_threshold = 3
SPECIFICATION Spec
CHECK_DEADLOCK FALSE
INVARIANTS
    NeverPanics
    FinalizedChain
    NothingCommittableLeft
    GapRequested
