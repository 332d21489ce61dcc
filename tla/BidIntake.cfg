SPECIFICATION Spec
CONSTANTS
    Senders = {1, 2}
    Nonces = {0, 1}
    Priorities = {0, 1, 2, 3, 4}
    MinValue = 0
    ZeroValue = 0
    Txs <- MCTxs
    SetKeepsKey = TRUE
    Denoms = {1, 2}
    Plain <- MCPlain
    BidOf <- MCBidOf
    TimeoutRange = 8
    InitParams <- MCInitParams
    ParamUpdates <- MCParamUpdates
    InitAccounts <- MCInitAccounts
    MaxHeight = 3
    MaxBalance = 4
INVARIANTS
    OneDenomination
    WinnerTimely
    LatestPooled
PROPERTIES
    RecheckRestores
    TopRevives
