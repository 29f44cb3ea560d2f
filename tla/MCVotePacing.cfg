CONSTANT LastRound = 5
SPECIFICATION PacingSpec
CHECK_DEADLOCK FALSE
INVARIANTS
    VoteNeverPanics
    SentInOrder
    TimerArmed
PROPERTIES
    ReadyVoteLeaves
