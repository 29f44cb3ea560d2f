CONSTANTS
    execution_delay = 1
    resync_threshold = 2
    Roots = {0, 2}
    Gaps = {8}
    MaxSeq = 10
SPECIFICATION Spec
CHECK_DEADLOCK FALSE
INVARIANTS
    NeverPanics
    StartsOnSyncedState
PROPERTIES
    GoesLive
