SPECIFICATION ConfidentialSpec
CONSTANTS
    s1 = s1
    s2 = s2
    Signer = {s1, s2}
    Outsider = {o1}
    Self = Self
    Nobody = Nobody
    Deposit = {1, 2}
    Pay = {1}
    Funds = 2
    Ageing = TRUE
    Garbage = 9
    Slot = {1, 2}
    MaxEvents = 5
    MaxOpen = 2
    MaxFaults = 1
CHECK_DEADLOCK FALSE
INVARIANTS
    ReplayIsExact
    ColdStartNeverOverstates
    FreshProofsVerify
PROPERTIES
    SetupEnds
