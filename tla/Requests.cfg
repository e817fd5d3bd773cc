CONSTANTS
    u1 = u1
    u2 = u2
    s1 = s1
    s2 = s2
    a1 = a1
    a2 = a2
    a3 = a3
    out = out
    hot = hot
    Users = {u1, u2}
    Asset = usdc
    NativeAsset = eth
    Chain = evm
    HotWallet = hot
    Exported <- MCExported
    Seeded = 2
    Sessions = {s1, s2}
    NoUser = NoUser
    NoAddress = NoAddress
    NoBody = NoBody
    Policy <- MCPolicy
    MaxAmount = 5
    Requested <- MCRequested
    PageLimits = {0, 5}
    MaxPage = 2
    MaxRows = 3
    MaxRequests = 3
    OpeningLedger <- MCOpeningLedger
SYMMETRY SessionSymmetry
SPECIFICATION Spec
INVARIANTS
    TypeOK
    AnswersAgree
    ReservedIsAccepted
    CapsHoldWithoutOverlap
    WalkIsComplete
    ToldOneAddress
    
