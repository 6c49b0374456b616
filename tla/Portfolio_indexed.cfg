SPECIFICATION IndexedSpec
CONSTANTS
    WAD <- MCWad
    Groups = {"g1", "g2"}
    Params <- ShownGroups
    Callbacks <- NoCallbacks
    MaxDepth = 1
    Variances = {0, 1, 2}
    Amounts = {2}
    UnitAmounts = {1}
    StrayAmounts = {1}
    MaxBalance = 4
    MaxTime = 1
    UNIT = 2
    Unknown = Unknown
INVARIANTS
    UnderfundedIsShown
    GroupWayOut
    SubgraphIsLedger
