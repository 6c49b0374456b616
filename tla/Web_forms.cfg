SPECIFICATION Spec
CONSTANTS
    WAD = 100
    BPS = 1000
    UNIT = 100
    UNIT_NOTIONAL = 10000
    TicketCut = 2
    MaxTimestamp = 2000000000
    Absent = Absent
    Bad = Bad
    Unknown = Unknown
    Start <- MCStart
    Step = 600
    Lags = {0, 30}
    MaxSteps = 2
    MaxEdits = 2
    Typing <- MCTyping
    Volatilities = {Absent, 30, 90}
    Collaterals = {50, 19999}
    Tenors = {30}
    Trailings = {Bad, 0, 36}
    Balances <- MCBalances
    Wanted = 20000
    Assumed = 60
    GroupTyping <- MCGroupTyping
INVARIANTS
    SeriesFormAccepted
    GroupFormAccepted
    FormKeepsPromises
CHECK_DEADLOCK FALSE
