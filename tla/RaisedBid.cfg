SPECIFICATION Spec
CONSTANTS
    Senders = {1, 2, 3}
    Nonces = {0, 1}
    Priorities = {0, 1, 2, 3, 4}
    MinValue = 0
    ZeroValue = 0
    Txs <- MCTxs
    SetKeepsKey = TRUE
    NumLanes = 3
    MaxTxs <- MCMaxTxs
    MatchHandler <- MCMatchHandler
    Mutex = TRUE
    Content <- MCContent
    FreeLanes = {2}
    MaxBundleSize = 2
    ReserveFee = 1
    MinBidIncrement = 1
    FrontRunningProtection = TRUE
    MaxBlockSpace <- MCMaxBlockSpace
    Submitted <- MCSubmitted
    BlockSizes = {1, 4, 6}
    InitState <- MCInitState
    MaxHeight = 1
    MaxForeign = 0
INVARIANTS
    HighestBidWins
