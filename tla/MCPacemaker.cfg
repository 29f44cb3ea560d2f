CONSTANTS
    v1 = v1
    v2 = v2
    v3 = v3
    Validators = {v1, v2, v3}
    Nodes <- MCNodes
    HonestVote <- MCHonestVote
    Supermajority <- MCSupermajority
    MaxRound = 3
SPECIFICATION Spec
CHECK_DEADLOCK FALSE
INVARIANTS
    NeverPanics
    TCsAreBacked
    NeverSitsOnQuorum
    RoundTimerArmed
PROPERTIES
    RoundsAreReached
