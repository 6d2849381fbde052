SPECIFICATION FormsSpec
CONSTANTS
    alice = alice
    payee = payee
    other = other
    vault = vault
    v1 = v1
    Vault = vault
    NoZk = NoZk
    NoWindow = NoWindow
    MaxU32 = 30
    MaxI128 = 60
    DefaultCapWindow = 2
    Wasm = {v1}
    Address = {alice, payee, other, vault}
    Author = alice
    Foundings <- Solo
    AdminActions <- Admin
    Proposers = {alice}
    Transfers <- Payments
    Batches <- Spread
    Calls <- Swap
    CallFlows = {}
    Submissions = {}
    Modes = {FALSE}
    Deposits = {}
    Endowment = 4
    Commitment = {}
    VaultId = {1}
    MaxAllowed = 2
    MaxBatch = 2
    MaxTx = 2
    MaxLedger = 3
    MaxBalance = 4
    Base = 2
    Decimals = 3
    Group = 2
    Kept = 1
    MaxAmount = 40
    MaxText = 6
CHECK_DEADLOCK FALSE
INVARIANTS
    WarnsAsTheVault
    ReadsBack
    NothingGuessed
