SPECIFICATION FairSpec
CONSTANTS
    Start = 3
    Expiry = 9
    SampleInterval = 2
    MaxSamplesPerCall = 2
    Year = 10
    SquaredReturn <- MCSquaredReturn
    Created = 1
    InitialFeed <- OneRound
    RoundTimes = {2, 4, 6, 8, 10}
    Answers = {1, 2}
    Wholeness = {TRUE}
    NewPhases <- FreshPhases
    NotFinal = NotFinal
    MaxRounds = 4
    MaxPhases = 2
    MaxTime = 10
INVARIANTS
    IncrementalIsOneShot
PROPERTY EventuallyFinalized
CHECK_DEADLOCK FALSE
