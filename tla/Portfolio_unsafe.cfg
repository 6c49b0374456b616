SPECIFICATION Spec
CONSTANTS
    WAD <- MCWad
    Groups = {"g1"}
    Params <- NestedGroup
    Callbacks <- AllCallbacks
    MaxDepth = 2
    Variances = {0, 1, 2}
    Amounts = {3}
    UnitAmounts = {1, 2}
    StrayAmounts = {}
    MaxBalance = 6
    MaxTime = 1
INVARIANT Solvent
