CONSTANTS
    Nodes <- MCNodes
    MaxStake = 3
    MaxWord = 15
SPECIFICATION CreateSpec
CHECK_DEADLOCK FALSE
INVARIANTS
    QuorumsShareHonest
    HonestAreEnough
    LeadersByStake
