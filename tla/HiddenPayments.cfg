SPECIFICATION HiddenPaymentsSpec
CONSTANTS
    Address = {a, b, c}
    a = a
    b = b
    c = c
    NoAddress = NoAddress
    MaxTyped = 3
    MaxFaults = 2
    Wallet = me
    Account = {me, other}
    me = me
    other = other
    Nobody = Nobody
    Garbage = 9
    MaxArrivals = 3
    MaxAsked = 4
CHECK_DEADLOCK FALSE
PROPERTIES
    PublicOnlyWithoutAccount
    VerdictArrives
    HiddenXlmComesOut
    OperationEnds
