SPECIFICATION ViewSpec
CONSTANTS
    a = a
    b = b
    NoVault = NoVault
    Vault <- Both
    Deployed <- OnlyA
    Old <- OnlyA
    Fallible = {}
    Faults = TRUE
    Kinds <- WriteKind
    MaxLoads = 2
    MaxWrites = 2
    MaxVersion = 2
    Editor = {ann}
    Policy <- Policies
    OPEN_POLICY <- NoGuards
    DefaultWindow = 2
    Garbled = Garbled
    Typed <- Inputs
    MayFail = TRUE
    MaxProposals = 2
CHECK_DEADLOCK FALSE
INVARIANTS
    CalmPageShowsItsVault
    RereadIsShown
PROPERTIES
    OnlyWhatWasTouched
    LoadingEnds
