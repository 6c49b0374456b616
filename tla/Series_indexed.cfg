SPECIFICATION Spec
CONSTANTS
    WAD = 2
    BPS = 4
    YEAR = 1
    AllSeries = {"s1","s2"}
    Holders = {"a"}
    Params <- TwoSeries
    Asks = {2}
    Bids = {2}
    Variances = {0, 3}
    Deposits = {4}
    Amounts = {3}
    UnitAmounts = {1}
    MaxDeposited = 4
    MaxTime = 2
    Callbacks <- SafeCallbacks
    MaxDepth = 2
    UNIT = 2
    Unknown = Unknown
INVARIANTS
    SolventInFlight
    LockedIsReserved
    ReserveCoversClaims
    RedeemInFull
    EntitiesAreLedger
    HistoryAddsUp
    OffersExecute
    WayOut
CHECK_DEADLOCK FALSE
