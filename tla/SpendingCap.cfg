SPECIFICATION Spec
CONSTANTS
    MaxU32 = 40
    MaxI128 = 100
    DefaultCapWindow = 3
    NoWindow = NoWindow
    Policies <- SteadyPolicies
    Amounts = {1, 2, 3}
    Legacies <- NoLegacy
    FirstLedger = 0
    MaxLedger = 8
INVARIANTS
    BookMatchesHistory
    FadeBound
