CONSTANTS
    u1 = u1
    t1 = t1
    t2 = t2
    w1 = w1
    w2 = w2
    c1 = c1
    Users = {u1}
    Asset = usdc
    NativeAsset = eth
    Transfers <- OneTransfer
    UserOf <- MCUserOf
    AmountOf <- MCAmountOf
    Watchers = {w1}
    Consumers = {c1}
    BatchSize = 2
    Required = 2
    ScanDepth = 3
    MaxHeight = 4
    MaxReorgs = 0
    MaxDepth = 3
    Faults = {"credit_error"}
    MaxFaults = 1
    OpeningLedger <- MCOpeningLedger
    NoTransfer = NoTransfer
SPECIFICATION Spec
INVARIANT
    NoClaimIsBurnt
