CONSTANTS
    NumPrefixes = 1
    Chunks = 2
    Peers = {p1, p2}
    InitPeers = {p1}
    Answering = {p2}
    Nonces = {n1, n2}
    max_parallel_requests = 1
    MaxTarget = 2
    MaxQueued = 2
SPECIFICATION ClientSpec
CHECK_DEADLOCK FALSE
INVARIANTS
    AssertionsHold
    FinishedIsComplete
PROPERTIES
    SyncCompletes
