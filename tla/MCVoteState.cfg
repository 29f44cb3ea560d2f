CONSTANTS
    v1 = v1
    v2 = v2
    v3 = v3
    v4 = v4
    a = a
    b = b
    Validators <- MCValidators
    Honest <- MCHonest
    Supermajority <- MCSupermajority
    Blocks <- MCBlocks
    FutureVoteBound = 1
    MaxRound = 2
SYMMETRY MCSymmetry
SPECIFICATION Spec
CHECK_DEADLOCK FALSE
INVARIANTS
    HonestQuorumAdvances
PROPERTIES
    ImplementsCollector
