SPECIFICATION Spec
CONSTANTS
    WAD <- MCWad
    Groups = {"g1"}
    Params <- NestedGroup
    Callbacks <- SafeCallbacks
    MaxDepth = 2
    Variances = {0, 1, 2}
    Amounts = {3}
    UnitAmounts = {1, 2}
    StrayAmounts = {2}
    MaxBalance = 6
    MaxTime = 1
INVARIANTS
    TypeOK
    SolventInFlight
    LockedIsReserved
    ReserveCoversClaims
    ReceiptsAccounted
    RedeemInFull
