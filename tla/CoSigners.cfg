SPECIFICATION PagesSpec
CONSTANTS
    alice = alice
    bob = bob
    carol = carol
    payee = payee
    vault = vault
    leafA = leafA
    leafB = leafB
    v1 = v1
    Vault = vault
    NoZk = NoZk
    NoWindow = NoWindow
    NoPage = NoPage
    MaxU32 = 30
    MaxI128 = 60
    DefaultCapWindow = 3
    Wasm = {v1}
    Address = {alice, bob, carol, payee, vault}
    User = {alice, bob, carol}
    Leaf <- Leaves
    Derived = 1
    Foundings <- TwoOfThree
    AdminActions <- Publication
    Proposers = {alice}
    Transfers <- Payments
    Batches = {}
    Calls = {}
    CallFlows = {}
    Submissions = {}
    Modes = {FALSE, TRUE}
    Deposits = {1}
    Endowment = 1
    Commitment = {leafA, leafB}
    VaultId = {0, 1}
    MaxAllowed = 1
    MaxBatch = 2
    Lapses <- Failing
    MaxShown = 16
    MaxTx = 2
    MaxLedger = 1
    MaxBalance = 2
CHECK_DEADLOCK FALSE
INVARIANTS
    NothingMissed
PROPERTIES
    PaymentSettles
    FreshDecisionLands
