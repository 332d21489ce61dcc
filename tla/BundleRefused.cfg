SPECIFICATION CheckSpec
CONSTANTS
    Signers = {1, 2, 3}
    MaxBundle = 4
INVARIANTS
    RuleAllowed
CHECK_DEADLOCK FALSE
