SPECIFICATION FairSpec
CONSTANTS
    WAD <- MCWad
    Groups = {"g1"}
    Params <- OneGroup
    Callbacks <- NoCallbacks
    MaxDepth = 1
    Variances = {0, 1, 2}
    Amounts = {1, 3}
    UnitAmounts = {1, 2, 3}
    StrayAmounts = {}
    MaxBalance = 5
    MaxTime = 1
INVARIANTS
    IssueBacked
    ExitNeverClamped
PROPERTIES
    EventuallyFinalized
    HoldersPaid
