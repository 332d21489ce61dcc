SPECIFICATION MCSpec
CONSTANTS
    a = a
    b = b
    e = e
    d1 = d1
    d2 = d2
    Accounts = {a, b, e}
    NoAddress = NoAddress
    Authority = a
    Denoms = {d1, d2}
    One = 4
    Locked <- MCLocked
    ParamChoices <- MCParamChoices
    Messages <- MCMessages
    InitBalances <- MCInitBalances
    Signers = {a, b, e}
    MaxBundle = 1
PROPERTIES
    RemainderStays
