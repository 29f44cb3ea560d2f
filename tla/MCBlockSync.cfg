CONSTANTS
    Ranges <- SharedRanges
    Peers = {p1}
    TreeBlocks = {2}
    Cacheable = {1}
    MaxInFlight = 1
    MaxAsks = 2
    MaxPeerAsks = 2
SPECIFICATION Spec
CONSTRAINT MCBound
CHECK_DEADLOCK FALSE
INVARIANTS
    InFlightExact
    ModeMatches
    MissingIsRequested
    NoRequestForgotten
    AnswersWhatWasAsked
