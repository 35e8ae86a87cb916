SPECIFICATION MCSpec
CONSTANTS
    q = q
    Peer = {p, q}
    NumChunks = 2
    NumPieces = 2
    Has <- HasAll
    Fast = {q}
    MaxReqs = 4
    MaxWait = 2
    MaxChunks = 1
    WebSeeds = FALSE
    Pausing = FALSE
INVARIANTS GrabbedExact MCRequestsTracked 
 
CHECK_DEADLOCK FALSE
