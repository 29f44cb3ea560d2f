CONSTANTS
    v1 = v1
    v2 = v2
    v3 = v3
    v4 = v4
    q1 = q1
    q2 = q2
    Validators <- MCValidators
    Honest <- MCHonest
    Supermajority <- MCSupermajority
    TipQCRounds <- MCTipQCRounds
    MaxRound = 2
SYMMETRY MCSymmetry
SPECIFICATION Spec
CHECK_DEADLOCK FALSE
INVARIANTS
    NeverPanics
    HonestNECServed
PROPERTIES
    ImplementsCollector
