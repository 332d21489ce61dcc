SPECIFICATION MCSpec
CONSTANTS
    a = a
    b = b
    e = e
    d1 = d1
    d2 = d2
    Accounts = {a, b, e}
    NoAddress = NoAddress
    Authority = a
    Denoms = {d1, d2}
    One = 4
    Locked <- MCLocked
    ParamChoices <- MCParamChoices
    Messages <- MCMessages
    InitBalances <- MCInitBalances
    Signers = {a, b, e}
    MaxBundle = 4
INVARIANTS
    CoveredBidPaid
    VerdictRight
    NotFrontRun
PROPERTIES
    BidPaidInFull
    SharesRight
    NothingStranded
CHECK_DEADLOCK FALSE
