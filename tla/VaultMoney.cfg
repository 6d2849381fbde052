SPECIFICATION MoneySpec
CONSTANTS
    alice = alice
    bob = bob
    carol = carol
    payee = payee
    dex = dex
    vault = vault
    leafA = leafA
    leafB = leafB
    v1 = v1
    v2 = v2
    Vault = vault
    NoZk = NoZk
    NoWindow = NoWindow
    MaxU32 = 30
    MaxI128 = 60
    DefaultCapWindow = 3
    Wasm = {v1, v2}
    Address = {alice, bob, payee, dex, vault}
    Foundings <- MoneyFoundings
    AdminActions <- MoneyActions
    Proposers = {alice}
    Transfers <- SpendingTransfers
    Batches <- SpendingBatches
    Calls <- SpendingCalls
    CallFlows <- SpendingFlows
    Submissions = {}
    Modes = {FALSE}
    Deposits = {1}
    Endowment = 6
    Commitment = {leafA, leafB}
    VaultId = {0, 1}
    MaxAllowed = 1
    MaxBatch = 2
    MaxTx = 4
    MaxLedger = 1
    MaxBalance = 9
CHECK_DEADLOCK FALSE
INVARIANTS
    TypeOK
    AllowlistsBounded
PROPERTIES
    OutflowGuarded
    PaymentsToAllowed
    SettledIsFinal
