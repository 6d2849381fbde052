SPECIFICATION Spec
CONSTANTS
    MaxU32 = 40
    MaxI128 = 100
    DefaultCapWindow = 3
    NoWindow = NoWindow
    Policies <- ResizedPolicies
    Amounts = {1, 2, 3}
    Legacies <- NoLegacy
    FirstLedger = 0
    MaxLedger = 9
INVARIANT LedgerWithinCap
