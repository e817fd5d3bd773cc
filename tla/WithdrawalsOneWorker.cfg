CONSTANTS
    u1 = u1
    u2 = u2
    p1 = p1
    p2 = p2
    Users <- MCUsers
    Asset = usdc
    NativeAsset = eth
    NumWithdrawals = 2
    UserOf <- TwoUserOf
    AmountOf <- MCAmountOf
    Workers = {p1}
    BatchSize = 2
    Required = 2
    MaxReorg = 1
    FeeLevels = {1, 2}
    GasFee = 1
    Faults = {"sign", "rpc", "lost_reply", "db", "crash", "drop", "reorg"}
    MaxFaults = 2
    OpeningLedger <- MCOpeningLedger
    NoTx = NoTx
SPECIFICATION FairSpec
INVARIANTS
    TypeOK
    NeverPaidAndReleased
    CompletedIsPaid
    BalancesBackOpenWithdrawals
    BooksMatchChain
    
PROPERTIES
    ApprovedIsResolved
    HistoryOnlyGrows
