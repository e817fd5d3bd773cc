CONSTANTS
    u1 = u1
    u2 = u2
    p1 = p1
    p2 = p2
    Users <- MCUsers
    Asset = usdc
    NativeAsset = eth
    NumWithdrawals = 2
    UserOf <- TwoUserOf
    AmountOf <- MCAmountOf
    Workers <- TwoWorkers
    BatchSize = 2
    Required = 2
    MaxReorg = 1
    FeeLevels = {1}
    GasFee = 1
    Faults = {"lost_reply", "crash", "revert"}
    MaxFaults = 1
    OpeningLedger <- MCOpeningLedger
    NoTx = NoTx
SYMMETRY ReplicaSymmetry
SPECIFICATION Spec
INVARIANTS
    LedgerMatchesLifecycle
    SignedRowsCarryTheirHash
    NoncesNeverShared
    AtMostOnePayout
PROPERTIES
    ImplementsEscrow
