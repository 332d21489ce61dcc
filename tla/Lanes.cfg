SPECIFICATION Spec
CONSTANTS
    Senders = {1, 2}
    Nonces = {1, 2}
    Priorities = {0, 1, 2}
    MinValue = 0
    ZeroValue = 0
    Txs <- MCTxs
    SetKeepsKey = TRUE
    NumLanes = 3
    MaxTxs <- MCMaxTxs
    MatchHandler <- MCMatchHandler
    Mutex = TRUE
INVARIANTS
    TypeOK
    LanesConsistent
    IndexCached
    InFirstMatchingLane
PROPERTIES
    RemovedIsGone
    RefusedIsOut
