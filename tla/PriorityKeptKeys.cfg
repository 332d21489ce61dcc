SPECIFICATION FairSpec
CONSTANTS
    Senders = {1, 2}
    Nonces = {1, 2, 3}
    Priorities = {0, 1, 2}
    MinValue = 0
    ZeroValue = 0
    Txs <- MCTxs
    SetKeepsKey = TRUE
    MaxTx = 4
INVARIANTS
    TypeOK
    IndicesAgree
    CountsExact
    NonceOrder
    FreshWalkComplete
    FreshWalkGreedy
PROPERTY
    WalkEnds
    ImplementsTxPool
