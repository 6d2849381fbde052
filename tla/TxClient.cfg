SPECIFICATION FairSpec
CONSTANTS
    first = first
    second = second
    wallet = wallet
    Call <- Calls
    Account <- Wallet
    Source <- OneWallet
    TxTimeout = 2
    PrepareTries = 2
    PrepareNap = 1
    SendTries = 2
    SendNap = 1
    PollLimit = 2
PROPERTY ImplementsSubmission
PROPERTY SignedIsReported
