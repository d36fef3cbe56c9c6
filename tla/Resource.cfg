CONSTANTS
    Total = 2
    Owners = {1, 2}
    Txns = {0, 1, 2}
    Ranks = {0, 1}
    MaxPending = 2
    MaxIssued = 3
SPECIFICATION Spec
INVARIANTS Conservation ArbitrationStable Settlement
