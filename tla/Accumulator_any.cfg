SPECIFICATION Spec
CONSTANTS
    Start = 3
    Expiry = 9
    SampleInterval = 2
    MaxSamplesPerCall = 2
    Year = 10
    SquaredReturn <- MCSquaredReturn
    Created = 1
    InitialFeed <- LongPhase
    RoundTimes = {3, 5, 6, 9}
    Answers = {0, 2}
    Wholeness = {TRUE}
    NewPhases <- AnyPhases
    NotFinal = NotFinal
    MaxRounds = 7
    MaxPhases = 2
    MaxTime = 10
INVARIANTS
    SearchFindsLatest
    WholeWindow
PROPERTIES
    SamplesAreLatest
CHECK_DEADLOCK FALSE
