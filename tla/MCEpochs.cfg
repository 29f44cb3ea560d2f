CONSTANTS
    EpochLength = 5
    EpochStartDelay = 4
    ExecutionDelay = 1
    ResyncThreshold = 2
    StakingActivation = 1
    MaxSeq = 10
    MaxRound = 11
    MaxStarts = 3
SPECIFICATION Spec
CHECK_DEADLOCK FALSE
INVARIANTS
    EpochStartsAgree
    CheckpointIsUsable
    LiveNodeCanRestart
PROPERTIES
    ValidatorsArrive
